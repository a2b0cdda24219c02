--------------------------- MODULE TransferService ---------------------------
(***************************************************************************)
(* The backend's transfer pipeline (src/services/transferService.js): an   *)
(* HTTP request is checked, stored as a row of `transfers', answered, and  *)
(* broadcast to the settlement contract by the relayer's wallet while the  *)
(* client no longer waits.                                                 *)
(*                                                                         *)
(* The Node process interleaves requests at every await; a step below is   *)
(* what runs from one await to the next, together with the effect of the   *)
(* call awaited.  Rows and chain survive the process, its continuations    *)
(* (pc) do not, and nothing at boot picks up the rows left behind.         *)
(***************************************************************************)
EXTENDS Naturals, Sequences, FiniteSets

CONSTANTS
  Request,      \* POST /api/v1/transfers, past authentication and validation
  Sender,       \* Sender[r]: the address of the primary wallet, or NoWallet
  Recipient,    \* Recipient[r]: recipient_address
  NoWallet,
  TransferId,   \* identifiers drawn by ethers.id(uuidv4())
  NoId,
  RelayerKey,   \* whether RELAYER_PRIVATE_KEY is set
  Faults        \* which of Fault the instance may meet

\* db, rpc: a query, a call to the node fails.  refusal: the contract refuses a
\* well-formed call (balance, allowance, pause).  drop: the node evicts.
Fault == {"db", "rpc", "refusal", "drop", "crash", "shutdown"}

ASSUME InstanceAssumption ==
  /\ NoId \notin TransferId
  /\ \A r \in Request : Recipient[r] # NoWallet
  /\ IsFiniteSet(Request)
  /\ RelayerKey \in BOOLEAN
  /\ Faults \subseteq Fault

VARIABLES
  pc,         \* where the continuation of each request stands
  signed,     \* the identifier the client put under its signature
  id,         \* transferId drawn for the request
  answer,     \* the HTTP answer
  status,     \* the row's status, "absent" before the insert
  nonce,      \* the nonce read for the transaction about to be sent
  faulted,    \* requests that met a failing query or RPC call
  server,     \* the process: up, closing or down
  pool,       \* the relayer's transactions waiting in the node
  mined       \* what became of the relayer's transactions, in nonce order

local == <<pc, signed, id, nonce>>
rows == <<status, faulted>>
chain == <<pool, mined>>
vars == <<local, answer, rows, server, chain>>

-----------------------------------------------------------------------------
Init ==
  /\ pc = [r \in Request |-> "idle"]
  /\ signed = [r \in Request |-> NoId]
  /\ id = [r \in Request |-> NoId]
  /\ nonce = [r \in Request |-> 0]
  /\ answer = [r \in Request |-> "none"]
  /\ status = [r \in Request |-> "absent"]
  /\ faulted = {}
  /\ server = "up"
  /\ pool = {}
  /\ mined = <<>>

At(r, place) == server # "down" /\ pc[r] = place

Goto(r, place) == pc' = [pc EXCEPT ![r] = place]

Respond(r, what) == answer' = [answer EXCEPT ![r] = what]

Write(r, value) == status' = [status EXCEPT ![r] = value]

-----------------------------------------------------------------------------
(* The chain, as seen from the relayer's wallet (external).                *)

PoolNonces == {tx.nonce : tx \in pool}

\* Mutant: any free nonce will do.
PendingNonceBeyond(n) == n \notin PoolNonces

\* getTransactionCount("pending"): the first nonce neither mined nor in the pool.
PendingNonce(n) ==
  /\ n \notin PoolNonces
  /\ \A k \in Len(mined) .. (n - 1) : k \in PoolNonces

OnChain(r) ==
  \E k \in DOMAIN mined : mined[k].request = r /\ mined[k].outcome = "settled"

\* The `from' of the call: a row has no sender_wallet_address.
From(r) == Recipient[r]

\* The contract behind SETTLEMENT_ABI recovers the signer over the arguments it
\* is called with.
Callable(r) == From(r) = Sender[r]

Refusable(r) == ~Callable(r) \/ "refusal" \in Faults

Mine ==
  \E tx \in pool :
    /\ tx.nonce = Len(mined)
    /\ \/ /\ Callable(tx.request)
          /\ mined' = Append(mined, [request |-> tx.request, outcome |-> "settled"])
       \/ /\ Refusable(tx.request)
          /\ mined' = Append(mined, [request |-> tx.request, outcome |-> "reverted"])
    /\ pool' = pool \ {tx}
    /\ UNCHANGED <<local, answer, rows, server>>

\* The node evicts a transaction.
Drop ==
  /\ "drop" \in Faults
  /\ \E tx \in pool : pool' = pool \ {tx}
  /\ UNCHANGED <<local, answer, rows, server, mined>>

-----------------------------------------------------------------------------
(* initiateTransfer: the request is answered here.                         *)

\* The client signs before it can know the identifier the server will draw.
Post(r, guess) ==
  /\ server = "up"
  /\ At(r, "idle")
  /\ signed' = [signed EXCEPT ![r] = guess]
  /\ Goto(r, "wallet")
  /\ UNCHANGED <<id, nonce, answer, rows, server, chain>>

LookupWallet(r) ==
  /\ At(r, "wallet")
  /\ \/ Sender[r] # NoWallet /\ Goto(r, "quote") /\ UNCHANGED answer
     \/ Sender[r] = NoWallet /\ Goto(r, "done") /\ Respond(r, "refused")
  /\ UNCHANGED <<signed, id, nonce, rows, server, chain>>

FreshId == TransferId \ {id[r] : r \in Request}

\* After getQuote: draw the identifier, verify the signature over it.
VerifySignature(r) ==
  /\ At(r, "quote")
  /\ \E i \in FreshId :
       /\ id' = [id EXCEPT ![r] = i]
       /\ \/ signed[r] = i /\ Goto(r, "insert") /\ UNCHANGED answer
          \/ signed[r] # i /\ Goto(r, "done") /\ Respond(r, "refused")
  /\ UNCHANGED <<signed, nonce, rows, server, chain>>

\* The row is committed; the handler still waits for the database to say so.
Insert(r) ==
  /\ At(r, "insert")
  /\ Write(r, "signing")
  /\ Goto(r, "stored")
  /\ UNCHANGED <<signed, id, nonce, answer, faulted, server, chain>>

\* The insert returns; the broadcast starts and the client is answered in the
\* same turn.  Without RELAYER_PRIVATE_KEY the broadcast ends at once.
Accept(r) ==
  /\ At(r, "stored")
  /\ Goto(r, IF RelayerKey THEN "mark" ELSE "done")
  /\ Respond(r, "accepted")
  /\ UNCHANGED <<signed, id, nonce, rows, server, chain>>

HandlerPlaces == {"wallet", "quote", "insert", "stored"}

\* Mutant: an insert whose answer is lost is answered with an error and
\* broadcast all the same.
HandlerFailsOpen(r) ==
  /\ "db" \in Faults
  /\ server # "down" /\ pc[r] \in HandlerPlaces
  /\ faulted' = faulted \cup {r}
  /\ Goto(r, IF pc[r] = "stored" THEN "mark" ELSE "done")
  /\ Respond(r, "error")
  /\ UNCHANGED <<signed, id, nonce, status, server, chain>>

\* A query or the quote fails: 500.  An insert that fails may have taken effect
\* ("stored"): only its answer is lost then.
HandlerFails(r) ==
  /\ "db" \in Faults
  /\ server # "down" /\ pc[r] \in HandlerPlaces
  /\ faulted' = faulted \cup {r}
  /\ Goto(r, "done")
  /\ Respond(r, "error")
  /\ UNCHANGED <<signed, id, nonce, status, server, chain>>

-----------------------------------------------------------------------------
(* _broadcastTransfer: nobody waits for it.                                *)

\* An update of the row: it takes effect and returns (then the continuation
\* goes on), or it fails, and then it may or may not have taken effect.
Update(r, value, next, onError) ==
  \/ Write(r, value) /\ Goto(r, next) /\ UNCHANGED faulted
  \/ /\ "db" \in Faults
     /\ UNCHANGED status \/ Write(r, value)
     /\ faulted' = faulted \cup {r}
     /\ Goto(r, onError)

\* The only update outside the try: its failure leaves the row as it is.
MarkBroadcasting(r) ==
  /\ At(r, "mark")
  /\ Update(r, "broadcasting", "estimate", "done")
  /\ UNCHANGED <<signed, id, nonce, answer, server, chain>>

\* Mutant: an estimate that throws is not caught.
EstimateUncaught(r) ==
  /\ At(r, "estimate")
  /\ \/ /\ Callable(r)
        /\ \E n \in Len(mined) .. (Len(mined) + Cardinality(Request)) :
             PendingNonce(n) /\ nonce' = [nonce EXCEPT ![r] = n]
        /\ Goto(r, "send")
     \/ /\ Refusable(r) \/ "rpc" \in Faults
        /\ Goto(r, "done") /\ UNCHANGED nonce
  /\ UNCHANGED <<signed, id, answer, rows, server, chain>>

\* contract.initiateTransfer, first half: the wallet reads its next nonce, then
\* estimateGas, which throws when the call would revert.
Estimate(r) ==
  /\ At(r, "estimate")
  /\ \/ /\ Callable(r)
        /\ \E n \in Len(mined) .. (Len(mined) + Cardinality(Request)) :
             PendingNonce(n) /\ nonce' = [nonce EXCEPT ![r] = n]
        /\ Goto(r, "send")
     \/ /\ Refusable(r) \/ "rpc" \in Faults
        /\ Goto(r, "fail") /\ UNCHANGED nonce
  /\ UNCHANGED <<signed, id, answer, rows, server, chain>>

\* Second half: the node takes the transaction, refuses it because its nonce is
\* taken, or takes it in the place of the one that has the nonce, if it pays
\* enough more.  The call may fail, and then it may or may not have taken effect.
Send(r) ==
  LET tx == [request |-> r, nonce |-> nonce[r]]
      rivals == {other \in pool : other.nonce = nonce[r]}
      taken == nonce[r] < Len(mined) \/ rivals # {} IN
  /\ At(r, "send")
  /\ \/ /\ nonce[r] >= Len(mined)
        /\ pool' = (pool \ rivals) \cup {tx}
        /\ Goto(r, "hash") /\ UNCHANGED faulted
     \/ taken /\ Goto(r, "fail") /\ UNCHANGED <<pool, faulted>>
     \/ /\ "rpc" \in Faults
        /\ Goto(r, "fail") /\ faulted' = faulted \cup {r}
        /\ \/ UNCHANGED pool
           \/ nonce[r] >= Len(mined) /\ pool' = (pool \ rivals) \cup {tx}
  /\ UNCHANGED <<signed, id, nonce, answer, status, server, mined>>

\* Mutant: a status the enumeration of the table does not have.
RecordHashSubmitted(r) ==
  /\ At(r, "hash")
  /\ Update(r, "submitted", "wait", "fail")
  /\ UNCHANGED <<signed, id, nonce, answer, server, chain>>

\* A failure of this update is caught: the transaction is in the pool by then.
RecordHash(r) ==
  /\ At(r, "hash")
  /\ Update(r, "pending_chain", "wait", "fail")
  /\ UNCHANGED <<signed, id, nonce, answer, server, chain>>

\* Mutant: tx.wait(1, timeout), a wait that gives up though no call failed.
AwaitReceiptOrGiveUp(r) ==
  /\ At(r, "wait")
  /\ Goto(r, IF /\ Len(mined) > nonce[r]
                /\ mined[nonce[r] + 1] = [request |-> r, outcome |-> "settled"]
             THEN "confirm" ELSE "fail")
  /\ UNCHANGED <<signed, id, nonce, answer, rows, server, chain>>

\* Mutant: a transfer that was not settled is broadcast again.
AwaitReceiptAndRetry(r) ==
  /\ At(r, "wait")
  /\ Len(mined) > nonce[r]
  /\ Goto(r, IF mined[nonce[r] + 1] = [request |-> r, outcome |-> "settled"]
             THEN "confirm" ELSE "mark")
  /\ UNCHANGED <<signed, id, nonce, answer, rows, server, chain>>

\* tx.wait(1): throws when the transaction reverted, or when another one was
\* mined with its nonce; does not return while the nonce is not used, unless a
\* call fails (WaitFails).
AwaitReceipt(r) ==
  /\ At(r, "wait")
  /\ Len(mined) > nonce[r]
  /\ Goto(r, IF mined[nonce[r] + 1] = [request |-> r, outcome |-> "settled"]
             THEN "confirm" ELSE "fail")
  /\ UNCHANGED <<signed, id, nonce, answer, rows, server, chain>>

\* A call tx.wait(1) makes to the node fails: the catch block is entered with the
\* transaction still waiting, or mined.
WaitFails(r) ==
  /\ "rpc" \in Faults
  /\ At(r, "wait")
  /\ Goto(r, "fail")
  /\ faulted' = faulted \cup {r}
  /\ UNCHANGED <<signed, id, nonce, answer, status, server, chain>>

Confirm(r) ==
  /\ At(r, "confirm")
  /\ Update(r, "confirmed", "done", "fail")
  /\ UNCHANGED <<signed, id, nonce, answer, server, chain>>

\* The catch block.
RecordFailure(r) ==
  /\ At(r, "fail")
  /\ Update(r, "failed", "done", "done")
  /\ UNCHANGED <<signed, id, nonce, answer, server, chain>>

-----------------------------------------------------------------------------
(* The process.                                                            *)

Answering == {r \in Request : pc[r] \in HandlerPlaces}

\* Whatever runs is lost; a new request can still be posted after a boot.
Stop ==
  /\ server' = "down"
  /\ pc' = [r \in Request |-> IF pc[r] = "idle" THEN "idle" ELSE "done"]
  /\ UNCHANGED <<signed, id, nonce, answer, rows, chain>>

Crash == "crash" \in Faults /\ server # "down" /\ Stop

\* SIGTERM: server.close stops accepting requests.
BeginShutdown ==
  /\ "shutdown" \in Faults
  /\ server = "up"
  /\ server' = "closing"
  /\ UNCHANGED <<local, answer, rows, chain>>

\* server.close's callback: every open request has been answered.
GracefulExit == server = "closing" /\ Answering = {} /\ Stop

\* The 10 s timer.
ForcedExit == server = "closing" /\ Stop

Boot ==
  /\ server = "down"
  /\ server' = "up"
  /\ UNCHANGED <<local, answer, rows, chain>>

-----------------------------------------------------------------------------
Handle(r) ==
  \/ LookupWallet(r) \/ VerifySignature(r) \/ Insert(r) \/ Accept(r)
  \/ HandlerFails(r)

Broadcast(r) ==
  \/ MarkBroadcasting(r) \/ Estimate(r) \/ Send(r) \/ RecordHash(r)
  \/ AwaitReceipt(r) \/ Confirm(r) \/ RecordFailure(r)

Next ==
  \/ \E r \in Request : \/ \E guess \in TransferId : Post(r, guess)
                        \/ Handle(r)
                        \/ Broadcast(r) \/ WaitFails(r)
  \/ Mine \/ Drop
  \/ Crash \/ BeginShutdown \/ GracefulExit \/ ForcedExit \/ Boot

Spec == Init /\ [][Next]_vars

\* The event loop runs every continuation whose await is over, and the chain
\* mines what it has accepted.  A wait counts on its receipt, never on an error.
Fairness ==
  /\ \A r \in Request : WF_vars(Handle(r)) /\ WF_vars(Broadcast(r))
  /\ WF_vars(Mine)

FairSpec == Spec /\ Fairness

-----------------------------------------------------------------------------
(***************************************************************************)
(* Properties.                                                             *)
(***************************************************************************)

RowStatus == {"signing", "broadcasting", "pending_chain", "confirmed", "failed"}

\* Every variable holds values of its declared kind.
TypeOK ==
  /\ pc \in [Request -> {"idle", "wallet", "quote", "insert", "stored", "mark", "estimate",
                         "send", "hash", "wait", "confirm", "fail", "done"}]
  /\ signed \in [Request -> TransferId \cup {NoId}]
  /\ id \in [Request -> TransferId \cup {NoId}]
  /\ nonce \in [Request -> Nat]
  /\ answer \in [Request -> {"none", "accepted", "refused", "error"}]
  /\ status \in [Request -> RowStatus \cup {"absent"}]
  /\ faulted \subseteq Request
  /\ server \in {"up", "closing", "down"}
  /\ pool \subseteq [request : Request, nonce : Nat]
  /\ mined \in Seq([request : Request, outcome : {"settled", "reverted"}])

Sent(r) == \/ \E tx \in pool : tx.request = r
           \/ \E k \in DOMAIN mined : mined[k].request = r

\* A row says confirmed only when the contract has settled the transfer,
\* whatever is lost, dropped or restarted on the way.
ConfirmedIsOnChain == \A r \in Request : status[r] = "confirmed" => OnChain(r)

\* Nothing reaches the chain that the database does not know of and the client
\* was not told is accepted; a request answered with an error is never sent.
OnlyAcceptedIsSent ==
  \A r \in Request : Sent(r) => status[r] # "absent" /\ answer[r] = "accepted"

\* A transfer whose row says failed never settles, unless a query or an RPC
\* call failed under it (the catch block writes failed whatever was thrown, the
\* transaction may be alive then): no revert, taken nonce, dropped or replaced
\* transaction alone makes the backend report as failed what the contract settles.
FailedIsNotSettled ==
  \A r \in Request :
    status[r] = "failed" /\ OnChain(r) => r \in faulted

\* Unless the node evicts, no broadcast waits for a receipt that cannot come:
\* every nonce up to its own is used or waits in the pool, so that mining alone
\* answers it.  tx.wait has no time-out; that the nonces have no gap, though
\* broadcasts race for them, lose answers, replace each other and end with the
\* process, is all that keeps it from waiting for ever.
NothingWaitsInVain ==
  "drop" \notin Faults =>
    \A r \in Request : pc[r] = "wait" => Len(mined) .. nonce[r] \subseteq PoolNonces

Rank(s) == CASE s = "absent" -> 0 [] s = "signing" -> 1 [] s = "broadcasting" -> 2
             [] s = "pending_chain" -> 3 [] s = "confirmed" -> 4 [] s = "failed" -> 5

\* The status of a row never moves backward, and failed is final, though the
\* four updates of a row come from a continuation that nothing locks.
StatusMovesForward ==
  [][\A r \in Request : Rank(status'[r]) >= Rank(status[r])]_vars

\* Every accepted transfer is resolved: the client polling its status sees it
\* confirmed or failed in the end (under Fairness, while the process stays up).
AcceptedIsResolved ==
  \A r \in Request :
    answer[r] = "accepted" ~> status[r] \in {"confirmed", "failed"}

(***************************************************************************)
(* The abstract specification the pipeline implements.                     *)
(***************************************************************************)

\* Where the contract settled r: the nonces, plus one, of its settled calls.
SettledAt(r) ==
  {k \in DOMAIN mined : mined[k].request = r /\ mined[k].outcome = "settled"}

Payments == [r \in Request |-> Cardinality(SettledAt(r))]

Relay == INSTANCE RelayedTransfer WITH payments <- Payments, doubted <- faulted

\* Every step of the pipeline, of the chain and of the process is a step of the
\* relayed transfers, or changes nothing their clients see: each is paid at most
\* once, whatever fails, and its status never tells a settled transfer as failed
\* without a fault, nor one as confirmed that is not, nor goes backward.
ImplementsRelay == Relay!Spec

(***************************************************************************)
(* Statements of the source's comments that the code does not keep.        *)
(***************************************************************************)

\* "Must match exactly what the frontend sends": the signature a client made
\* with its own wallet over its request is accepted.
OwnSignatureAccepted ==
  \A r \in Request : Sender[r] # NoWallet => answer[r] # "refused"

\* "Broadcast via relayer to on-chain settlement contract": with no fault and no
\* refusal by the contract, an accepted transfer settles.
AcceptedIsSettled == \A r \in Request : answer[r] = "accepted" ~> OnChain(r)
=============================================================================
