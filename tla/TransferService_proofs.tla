----------------------- MODULE TransferService_proofs -----------------------
(***************************************************************************)
(* Proofs about the transfer pipeline, for any requests, wallets and       *)
(* faults: types; what reaches the chain; what a row says of the chain;    *)
(* that nothing waits in vain; that the pipeline implements                *)
(* RelayedTransfer.                                                        *)
(***************************************************************************)
EXTENDS TransferService, FiniteSetTheorems, TLAPS

RequestStep(r) ==
  \/ \E guess \in TransferId : Post(r, guess)
  \/ LookupWallet(r) \/ VerifySignature(r) \/ Insert(r) \/ Accept(r) \/ HandlerFails(r)
  \/ MarkBroadcasting(r) \/ Estimate(r) \/ Send(r) \/ RecordHash(r)
  \/ AwaitReceipt(r) \/ WaitFails(r) \/ Confirm(r) \/ RecordFailure(r)

Idling == UNCHANGED <<local, answer, rows, chain>> /\ server' \in {"up", "closing", server}

\* A step of a request, of the chain, or of the process.
LEMMA StepCases ==
  ASSUME [Next]_vars
  PROVE  \/ \E r \in Request : RequestStep(r)
         \/ Mine \/ Drop \/ Stop \/ Idling
  BY Zenon DEF Next, RequestStep, Idling, Handle, Broadcast,
               Crash, BeginShutdown, GracefulExit, ForcedExit, Boot, vars

\* What each query and each answer does to the types.
LEMMA UpdateTyped ==
  ASSUME TypeOK, NEW r \in Request, NEW value \in RowStatus,
         NEW next \in {"estimate", "wait", "done"}, NEW onError \in {"fail", "done"},
         Update(r, value, next, onError)
  PROVE  /\ pc' \in [Request -> {"idle", "wallet", "quote", "insert", "stored", "mark", "estimate",
                                 "send", "hash", "wait", "confirm", "fail", "done"}]
         /\ status' \in [Request -> RowStatus \cup {"absent"}]
         /\ faulted' \subseteq Request
  BY DEF Update, Write, Goto, TypeOK

\* TypeOK holds of every behaviour.
THEOREM TypeCorrect == Spec => []TypeOK
<1>1. Init => TypeOK
  BY DEF Init, TypeOK
<1>2. ASSUME TypeOK, [Next]_vars PROVE TypeOK'
  <2>1. ASSUME NEW r \in Request,
               \/ \E guess \in TransferId : Post(r, guess)
               \/ LookupWallet(r) \/ VerifySignature(r) \/ Insert(r) \/ Accept(r) \/ HandlerFails(r)
        PROVE  TypeOK'
    <3>1. CASE \E guess \in TransferId : Post(r, guess)
      BY <1>2, <3>1 DEF Post, Goto, TypeOK, rows, chain
    <3>2. CASE LookupWallet(r)
      BY <1>2, <3>2 DEF LookupWallet, Goto, Respond, TypeOK, rows, chain
    <3>3. CASE VerifySignature(r)
      <4>1. PICK i \in TransferId : id' = [id EXCEPT ![r] = i]
        BY <3>3, Zenon DEF VerifySignature, FreshId
      <4>2. id' \in [Request -> TransferId \cup {NoId}]
        BY <1>2, <4>1 DEF TypeOK
      <4>3. /\ pc' \in [Request -> {"idle", "wallet", "quote", "insert", "stored", "mark", "estimate",
                                    "send", "hash", "wait", "confirm", "fail", "done"}]
            /\ answer' \in [Request -> {"none", "accepted", "refused", "error"}]
        BY <1>2, <3>3 DEF VerifySignature, Goto, Respond, TypeOK
      <4> QED
        BY <1>2, <3>3, <4>2, <4>3 DEF VerifySignature, TypeOK, rows, chain
    <3>4. CASE Insert(r)
      BY <1>2, <3>4 DEF Insert, Goto, Respond, Write, TypeOK, RowStatus, chain
    <3>5. CASE Accept(r)
      BY <1>2, <3>5 DEF Accept, Goto, Respond, TypeOK, rows, chain
    <3>6. CASE HandlerFails(r)
      BY <1>2, <3>6 DEF HandlerFails, Goto, Respond, TypeOK, chain
    <3> QED
      BY <2>1, <3>1, <3>2, <3>3, <3>4, <3>5, <3>6
  <2>2. ASSUME NEW r \in Request,
               \/ MarkBroadcasting(r) \/ RecordHash(r) \/ Confirm(r) \/ RecordFailure(r)
        PROVE  TypeOK'
    <3>1. /\ pc' \in [Request -> {"idle", "wallet", "quote", "insert", "stored", "mark", "estimate",
                                  "send", "hash", "wait", "confirm", "fail", "done"}]
          /\ status' \in [Request -> RowStatus \cup {"absent"}]
          /\ faulted' \subseteq Request
      BY <1>2, <2>2, UpdateTyped DEF MarkBroadcasting, RecordHash, Confirm, RecordFailure, RowStatus
    <3>2. UNCHANGED <<signed, id, nonce, answer, server, chain>>
      BY <2>2, Zenon DEF MarkBroadcasting, RecordHash, Confirm, RecordFailure
    <3> QED
      BY <1>2, <3>1, <3>2 DEF TypeOK, chain
  <2>3. ASSUME NEW r \in Request, Estimate(r) PROVE TypeOK'
    <3>1. Len(mined) \in Nat /\ Cardinality(Request) \in Nat
      BY <1>2, InstanceAssumption, FS_CardinalityType DEF TypeOK
    <3>2. nonce' \in [Request -> Nat]
      <4>1. \/ UNCHANGED nonce
            \/ \E n \in Len(mined) .. (Len(mined) + Cardinality(Request)) :
                 nonce' = [nonce EXCEPT ![r] = n]
        BY <2>3, Zenon DEF Estimate
      <4>2. \A n \in Len(mined) .. (Len(mined) + Cardinality(Request)) : n \in Nat
        BY <3>1
      <4> QED
        BY <1>2, <4>1, <4>2, Zenon DEF TypeOK
    <3>3. pc' \in [Request -> {"idle", "wallet", "quote", "insert", "stored", "mark", "estimate",
                              "send", "hash", "wait", "confirm", "fail", "done"}]
      BY <1>2, <2>3 DEF Estimate, Goto, TypeOK
    <3> QED
      BY <1>2, <2>3, <3>2, <3>3 DEF Estimate, TypeOK, rows, chain
  <2>4. ASSUME NEW r \in Request, Send(r) PROVE TypeOK'
    <3>1. pool' \subseteq [request : Request, nonce : Nat]
      <4>1. nonce[r] \in Nat
        BY <1>2 DEF TypeOK
      <4>2. [request |-> r, nonce |-> nonce[r]] \in [request : Request, nonce : Nat]
        BY <4>1
      <4>3. pool' \subseteq pool \cup {[request |-> r, nonce |-> nonce[r]]}
        BY <2>4, Zenon DEF Send
      <4> QED
        BY <1>2, <4>2, <4>3, Zenon DEF TypeOK
    <3>2. pc' \in [Request -> {"idle", "wallet", "quote", "insert", "stored", "mark", "estimate",
                              "send", "hash", "wait", "confirm", "fail", "done"}]
      BY <1>2, <2>4 DEF Send, Goto, TypeOK
    <3>3. faulted' \subseteq Request /\ UNCHANGED <<signed, id, nonce, answer, status, server, mined>>
      BY <1>2, <2>4 DEF Send, TypeOK
    <3> QED
      BY <1>2, <3>1, <3>2, <3>3 DEF TypeOK
  <2>5. ASSUME NEW r \in Request, AwaitReceipt(r) \/ WaitFails(r) PROVE TypeOK'
    BY <1>2, <2>5 DEF AwaitReceipt, WaitFails, Goto, TypeOK, rows, chain
  <2>6. CASE Mine
    <3>1. PICK tx \in pool, outcome \in {"settled", "reverted"} :
                 /\ mined' = Append(mined, [request |-> tx.request, outcome |-> outcome])
                 /\ pool' = pool \ {tx}
                 /\ UNCHANGED <<local, answer, rows, server>>
      BY <2>6, Zenon DEF Mine
    <3>2. [request |-> tx.request, outcome |-> outcome]
            \in [request : Request, outcome : {"settled", "reverted"}]
      BY <1>2, <3>1 DEF TypeOK
    <3>3. mined' \in Seq([request : Request, outcome : {"settled", "reverted"}])
      BY <1>2, <3>1, <3>2 DEF TypeOK
    <3> QED
      BY <1>2, <3>1, <3>3 DEF TypeOK, local, rows
  <2>7. CASE Drop
    BY <1>2, <2>7 DEF Drop, TypeOK, local, rows
  <2>8. CASE Stop
    BY <1>2, <2>8 DEF Stop, TypeOK, rows, chain
  <2>9. CASE Idling
    BY <1>2, <2>9 DEF Idling, TypeOK, local, rows, chain
  <2> QED
    BY <1>2, <2>1, <2>2, <2>3, <2>4, <2>5, <2>6, <2>7, <2>8, <2>9, StepCases, Zenon DEF RequestStep
<1> QED
  BY <1>1, <1>2, PTL DEF Spec
-----------------------------------------------------------------------------
(* Where a continuation stands and what its row says.                      *)

Asked == {"idle", "wallet", "quote", "insert"}
Sending == {"mark", "estimate", "send", "hash", "wait", "confirm", "fail"}

RowState(r) ==
  /\ pc[r] \in Asked => status[r] = "absent" /\ answer[r] = "none"
  /\ pc[r] = "stored" => status[r] = "signing" /\ answer[r] = "none"
  /\ pc[r] \in Sending => answer[r] = "accepted"
  /\ pc[r] = "mark" => status[r] = "signing"
  /\ pc[r] \in {"estimate", "send", "hash"} => status[r] = "broadcasting"
  /\ pc[r] \in {"wait", "confirm"} => status[r] = "pending_chain"
  /\ pc[r] = "fail" => status[r] \in {"broadcasting", "pending_chain", "confirmed"}

RowsInOrder == \A r \in Request : RowState(r)

\* A request moves nothing of another one.
LEMMA OthersUntouched ==
  ASSUME TypeOK, NEW r \in Request, RequestStep(r), NEW q \in Request, q # r
  PROVE  /\ pc'[q] = pc[q] /\ status'[q] = status[q] /\ answer'[q] = answer[q]
         /\ nonce'[q] = nonce[q] /\ (q \in faulted' <=> q \in faulted)
<1>1. CASE \E guess \in TransferId : Post(r, guess)
  BY <1>1 DEF Post, Goto, TypeOK, rows
<1>2. CASE LookupWallet(r) \/ VerifySignature(r)
  BY <1>2 DEF LookupWallet, VerifySignature, Goto, Respond, TypeOK, rows
<1>3. CASE Insert(r) \/ Accept(r) \/ HandlerFails(r)
  BY <1>3 DEF Insert, Accept, HandlerFails, HandlerPlaces, Goto, Respond, Write, TypeOK, rows
<1>4. CASE MarkBroadcasting(r) \/ RecordHash(r) \/ Confirm(r) \/ RecordFailure(r)
  BY <1>4 DEF MarkBroadcasting, RecordHash, Confirm, RecordFailure, Update, Goto, Write, TypeOK
<1>5. CASE Estimate(r) \/ AwaitReceipt(r) \/ WaitFails(r)
  BY <1>5 DEF Estimate, AwaitReceipt, WaitFails, Goto, TypeOK, rows
<1>6. CASE Send(r)
  BY <1>6 DEF Send, Goto, TypeOK
<1> QED
  BY <1>1, <1>2, <1>3, <1>4, <1>5, <1>6, Zenon DEF RequestStep

\* The row of the request that moves goes forward, in step with its continuation.
LEMMA OwnRow ==
  ASSUME TypeOK, RowsInOrder, NEW r \in Request, RequestStep(r)
  PROVE  RowState(r)' /\ Rank(status'[r]) >= Rank(status[r])
<1> USE DEF RowState, Asked, Sending, Rank
<1>1. CASE \E guess \in TransferId : Post(r, guess)
  BY <1>1 DEF RowsInOrder, Post, At, Goto, TypeOK, rows
<1>2. CASE LookupWallet(r) \/ VerifySignature(r)
  BY <1>2 DEF RowsInOrder, LookupWallet, VerifySignature, At, Goto, Respond, TypeOK, rows
<1>3. CASE Insert(r) \/ Accept(r) \/ HandlerFails(r)
  BY <1>3 DEF RowsInOrder, Insert, Accept, HandlerFails, HandlerPlaces, At, Goto, Respond, Write, TypeOK, rows
<1>4. CASE MarkBroadcasting(r)
  BY <1>4 DEF RowsInOrder, MarkBroadcasting, At, Update, Goto, Write, TypeOK
<1>5. CASE RecordHash(r)
  BY <1>5 DEF RowsInOrder, RecordHash, At, Update, Goto, Write, TypeOK
<1>6. CASE Confirm(r)
  BY <1>6 DEF RowsInOrder, Confirm, At, Update, Goto, Write, TypeOK
<1>7. CASE RecordFailure(r)
  BY <1>7 DEF RowsInOrder, RecordFailure, At, Update, Goto, Write, TypeOK
<1>8. CASE Estimate(r) \/ AwaitReceipt(r) \/ WaitFails(r)
  BY <1>8 DEF RowsInOrder, Estimate, AwaitReceipt, WaitFails, At, Goto, TypeOK, rows
<1>9. CASE Send(r)
  BY <1>9 DEF RowsInOrder, Send, At, Goto, TypeOK
<1> QED
  BY <1>1, <1>2, <1>3, <1>4, <1>5, <1>6, <1>7, <1>8, <1>9, Zenon DEF RequestStep

LEMMA RowsInOrderAlways == Spec => [](TypeOK /\ RowsInOrder)
<1>1. Init => RowsInOrder
  BY DEF Init, RowsInOrder, RowState, Asked, Sending
<1>2. ASSUME TypeOK, RowsInOrder, [Next]_vars PROVE RowsInOrder'
  <2>1. ASSUME NEW r \in Request, RequestStep(r) PROVE RowsInOrder'
    <3> SUFFICES ASSUME NEW q \in Request PROVE RowState(q)'
      BY DEF RowsInOrder
    <3>1. CASE q = r
      BY <1>2, <2>1, <3>1, OwnRow
    <3>2. CASE q # r
      BY <1>2, <2>1, <3>2, OthersUntouched DEF RowsInOrder, RowState
    <3> QED
      BY <3>1, <3>2
  <2>2. CASE Mine \/ Drop \/ Idling
    BY <1>2, <2>2 DEF Mine, Drop, Idling, local, rows, RowsInOrder, RowState
  <2>3. CASE Stop
    BY <1>2, <2>3 DEF Stop, rows, RowsInOrder, RowState, Asked, Sending, TypeOK
  <2> QED
    BY <1>2, <2>1, <2>2, <2>3, StepCases
<1> QED
  BY <1>1, <1>2, TypeCorrect, PTL DEF Spec

\* The status of a row never moves backward.
THEOREM ForwardCorrect == Spec => StatusMovesForward
<1>1. ASSUME TypeOK, RowsInOrder, [Next]_vars, NEW q \in Request
      PROVE  Rank(status'[q]) >= Rank(status[q])
  <2>1. Rank(status[q]) \in Nat
    BY <1>1 DEF TypeOK, RowStatus, Rank
  <2>2. ASSUME NEW r \in Request, RequestStep(r) PROVE Rank(status'[q]) >= Rank(status[q])
    BY <1>1, <2>1, <2>2, OwnRow, OthersUntouched
  <2>3. CASE Mine \/ Drop \/ Stop \/ Idling
    <3>1. UNCHANGED status
      BY <2>3, Zenon DEF Mine, Drop, Stop, Idling, rows
    <3> QED
      BY <2>1, <3>1
  <2> QED
    BY <1>1, <2>2, <2>3, StepCases
<1>2. TypeOK /\ RowsInOrder /\ [Next]_vars
        => [\A r \in Request : Rank(status'[r]) >= Rank(status[r])]_vars
  BY <1>1
<1> QED
  BY <1>2, RowsInOrderAlways, PTL DEF Spec, StatusMovesForward
-----------------------------------------------------------------------------
(* The relayer's nonces.                                                   *)

Unsent == Asked \cup {"stored", "mark", "estimate", "send"}

\* A request's only transaction carries the nonce it read; a nonce is used once.
Ledger ==
  /\ \A tx \in pool : tx.nonce = nonce[tx.request] /\ tx.nonce >= Len(mined)
  /\ \A tx, other \in pool : tx.nonce = other.nonce => tx = other
  /\ \A k \in DOMAIN mined : k = nonce[mined[k].request] + 1
  /\ \A r \in Request : pc[r] \in Unsent => ~Sent(r)

\* What became of a transaction names its request.
LEMMA MinedTyped ==
  ASSUME TypeOK
  PROVE  /\ Len(mined) \in Nat /\ DOMAIN mined = 1 .. Len(mined)
         /\ \A k \in DOMAIN mined :
              /\ mined[k].request \in Request
              /\ mined[k] = [request |-> mined[k].request, outcome |-> mined[k].outcome]
<1> DEFINE S == [request : Request, outcome : {"settled", "reverted"}]
<1>1. mined \in Seq(S)
  BY Zenon DEF TypeOK
<1>2. \A e \in S : e.request \in Request /\ e = [request |-> e.request, outcome |-> e.outcome]
  OBVIOUS
<1> HIDE DEF S
<1>3. Len(mined) \in Nat /\ DOMAIN mined = 1 .. Len(mined)
  BY <1>1
<1>4. \A k \in 1 .. Len(mined) : mined[k] \in S
  BY <1>1
<1> QED
  BY <1>2, <1>3, <1>4, Zenon

\* Steps that neither read a nonce nor send.
LEMMA QuietStep ==
  ASSUME TypeOK, NEW r \in Request, RequestStep(r), ~Estimate(r), ~Send(r)
  PROVE  UNCHANGED <<pool, mined, nonce>> /\ (pc'[r] \in Unsent => pc[r] \in Unsent)
<1> USE DEF Unsent, Asked
<1>1. CASE \E guess \in TransferId : Post(r, guess)
  BY <1>1 DEF Post, At, TypeOK, chain
<1>2. CASE LookupWallet(r) \/ VerifySignature(r)
  BY <1>2 DEF LookupWallet, VerifySignature, At, TypeOK, chain
<1>3. CASE Insert(r) \/ Accept(r) \/ HandlerFails(r)
  BY <1>3 DEF Insert, Accept, HandlerFails, HandlerPlaces, At, TypeOK, chain
<1>4. CASE MarkBroadcasting(r)
  BY <1>4 DEF MarkBroadcasting, At, chain
<1>5. CASE RecordHash(r) \/ Confirm(r) \/ RecordFailure(r)
  BY <1>5 DEF RecordHash, Confirm, RecordFailure, Update, Goto, TypeOK, chain
<1>6. CASE AwaitReceipt(r) \/ WaitFails(r)
  BY <1>6 DEF AwaitReceipt, WaitFails, Goto, TypeOK, chain
<1> QED
  BY <1>1, <1>2, <1>3, <1>4, <1>5, <1>6, Zenon DEF RequestStep

\* What the chain becomes when it mines.
LEMMA MineStep ==
  ASSUME TypeOK, Mine
  PROVE  \E tx \in pool, outcome \in {"settled", "reverted"} :
           /\ tx.nonce = Len(mined) /\ tx.request \in Request
           /\ pool' = pool \ {tx}
           /\ Len(mined) \in Nat /\ Len(mined') = Len(mined) + 1
           /\ DOMAIN mined = 1 .. Len(mined) /\ DOMAIN mined' = 1 .. (Len(mined) + 1)
           /\ \A k \in DOMAIN mined : mined'[k] = mined[k]
           /\ mined'[Len(mined) + 1] = [request |-> tx.request, outcome |-> outcome]
           /\ UNCHANGED <<local, answer, rows, server>>
<1>1. PICK tx \in pool, outcome \in {"settled", "reverted"} :
             /\ tx.nonce = Len(mined)
             /\ mined' = Append(mined, [request |-> tx.request, outcome |-> outcome])
             /\ pool' = pool \ {tx}
             /\ UNCHANGED <<local, answer, rows, server>>
  BY Zenon DEF Mine
<1>2. tx.request \in Request
  BY DEF TypeOK
<1>3. [request |-> tx.request, outcome |-> outcome]
        \in [request : Request, outcome : {"settled", "reverted"}]
  BY <1>2
<1>4. mined \in Seq([request : Request, outcome : {"settled", "reverted"}])
  BY DEF TypeOK
<1>5. /\ Len(mined) \in Nat /\ Len(mined') = Len(mined) + 1
      /\ DOMAIN mined = 1 .. Len(mined) /\ DOMAIN mined' = 1 .. (Len(mined) + 1)
      /\ \A k \in DOMAIN mined : mined'[k] = mined[k]
      /\ mined'[Len(mined) + 1] = [request |-> tx.request, outcome |-> outcome]
  BY <1>1, <1>3, <1>4
<1> QED
  BY <1>1, <1>2, <1>5

LEMMA LedgerStep ==
  ASSUME TypeOK, Ledger, [Next]_vars
  PROVE  Ledger'
<1>1. ASSUME NEW r \in Request, RequestStep(r), ~Estimate(r), ~Send(r) PROVE Ledger'
  <2>1. UNCHANGED <<pool, mined, nonce>>
    BY <1>1, QuietStep
  <2>2. ASSUME NEW q \in Request, pc'[q] \in Unsent PROVE pc[q] \in Unsent
    BY <1>1, <2>2, QuietStep, OthersUntouched
  <2> QED
    BY <2>1, <2>2, Zenon DEF Ledger, Sent
<1>2. ASSUME NEW r \in Request, Estimate(r) PROVE Ledger'
  <2>1. ~Sent(r) /\ UNCHANGED <<pool, mined>>
    BY <1>2 DEF Ledger, Estimate, At, Unsent, chain
  <2>2. RequestStep(r)
    BY <1>2, Zenon DEF RequestStep
  <2>3. ASSUME NEW q \in Request, q # r PROVE nonce'[q] = nonce[q] /\ pc'[q] = pc[q]
    BY <2>2, <2>3, OthersUntouched
  <2>4. ASSUME NEW tx \in pool PROVE tx.request \in Request /\ tx.request # r
    BY <2>1, <2>4 DEF TypeOK, Sent
  <2>5. ASSUME NEW k \in DOMAIN mined PROVE mined[k].request \in Request /\ mined[k].request # r
    <3>1. mined[k].request # r
      BY <2>1, <2>5, Zenon DEF Sent
    <3> QED
      BY <2>5, <3>1, MinedTyped
  <2>6. \A tx \in pool' : tx.nonce = nonce'[tx.request] /\ tx.nonce >= Len(mined')
    BY <2>1, <2>3, <2>4, Zenon DEF Ledger
  <2>7. \A k \in DOMAIN mined' : k = nonce'[mined'[k].request] + 1
    BY <2>1, <2>3, <2>5, Zenon DEF Ledger
  <2>8. \A q \in Request : pc'[q] \in Unsent => ~Sent(q)'
    BY <2>1, <2>3, Zenon DEF Ledger, Sent
  <2>9. \A tx, other \in pool' : tx.nonce = other.nonce => tx = other
    BY <2>1, Zenon DEF Ledger
  <2> QED
    BY <2>6, <2>7, <2>8, <2>9, Zenon DEF Ledger
<1>3. ASSUME NEW r \in Request, Send(r) PROVE Ledger'
  <2> DEFINE new == [request |-> r, nonce |-> nonce[r]]
  <2>1. /\ UNCHANGED <<mined, nonce>>
        /\ \/ UNCHANGED pool
           \/ /\ nonce[r] >= Len(mined)
              /\ pool' = (pool \ {other \in pool : other.nonce = nonce[r]}) \cup {new}
    BY <1>3, Zenon DEF Send
  <2>2. RequestStep(r)
    BY <1>3, Zenon DEF RequestStep
  <2>3. pc'[r] \notin Unsent
    BY <1>3 DEF Send, Goto, TypeOK, Unsent, Asked
  <2>4. ASSUME NEW q \in Request, pc'[q] \in Unsent PROVE ~Sent(q)'
    <3>1. q # r
      BY <2>3, <2>4
    <3>2. ~Sent(q)
      BY <2>2, <2>4, <3>1, OthersUntouched DEF Ledger
    <3>3. new.request = r
      OBVIOUS
    <3> HIDE DEF new
    <3> QED
      BY <2>1, <3>1, <3>2, <3>3, Zenon DEF Sent
  <2>5. \A tx \in pool' : tx.nonce = nonce'[tx.request] /\ tx.nonce >= Len(mined')
    BY <2>1 DEF Ledger
  <2>6. \A tx, other \in pool' : tx.nonce = other.nonce => tx = other
    BY <2>1 DEF Ledger
  <2>7. \A k \in DOMAIN mined' : k = nonce'[mined'[k].request] + 1
    BY <2>1, Zenon DEF Ledger
  <2> QED
    BY <2>4, <2>5, <2>6, <2>7, Zenon DEF Ledger
<1>4. CASE Mine
  <2>1. PICK tx \in pool, outcome \in {"settled", "reverted"} :
               /\ tx.nonce = Len(mined) /\ tx.request \in Request
               /\ pool' = pool \ {tx}
               /\ Len(mined) \in Nat /\ Len(mined') = Len(mined) + 1
               /\ DOMAIN mined = 1 .. Len(mined) /\ DOMAIN mined' = 1 .. (Len(mined) + 1)
               /\ \A k \in DOMAIN mined : mined'[k] = mined[k]
               /\ mined'[Len(mined) + 1] = [request |-> tx.request, outcome |-> outcome]
               /\ UNCHANGED <<local, answer, rows, server>>
    BY <1>4, MineStep
  <2>2. UNCHANGED <<nonce, pc>>
    BY <2>1 DEF local
  <2>3. ASSUME NEW other \in pool' PROVE other.nonce = nonce'[other.request] /\ other.nonce >= Len(mined')
    <3>1. other \in pool /\ other # tx
      BY <2>1, <2>3
    <3>2. other.nonce \in Nat /\ other.nonce >= Len(mined) /\ other.nonce # tx.nonce
      BY <3>1 DEF Ledger, TypeOK
    <3> QED
      BY <2>1, <2>2, <3>1, <3>2 DEF Ledger
  <2>4. \A a, b \in pool' : a.nonce = b.nonce => a = b
    BY <2>1, Zenon DEF Ledger
  <2>5. ASSUME NEW k \in DOMAIN mined' PROVE k = nonce'[mined'[k].request] + 1
    <3>1. CASE k \in DOMAIN mined
      BY <2>1, <2>2, <3>1, Zenon DEF Ledger
    <3>2. CASE k = Len(mined) + 1
      <4>1. nonce[tx.request] = Len(mined)
        BY <2>1, Zenon DEF Ledger
      <4>2. mined'[k].request = tx.request
        BY <2>1, <3>2
      <4> QED
        BY <2>2, <3>2, <4>1, <4>2
    <3> QED
      BY <2>1, <2>5, <3>1, <3>2
  <2>6. ASSUME NEW q \in Request, pc'[q] \in Unsent PROVE ~Sent(q)'
    <3>1. ~Sent(q) /\ tx.request # q
      BY <2>2, <2>6 DEF Ledger, Sent
    <3>2. ASSUME NEW k \in DOMAIN mined' PROVE mined'[k].request # q
      <4>1. CASE k \in DOMAIN mined
        BY <2>1, <3>1, <4>1 DEF Sent
      <4>2. CASE k = Len(mined) + 1
        BY <2>1, <3>1, <4>2
      <4> QED
        BY <2>1, <3>2, <4>1, <4>2
    <3> QED
      BY <2>1, <3>1, <3>2, Zenon DEF Sent
  <2> QED
    BY <2>3, <2>4, <2>5, <2>6, Zenon DEF Ledger
<1>5. CASE Drop
  BY <1>5, Zenon DEF Drop, Ledger, Sent, local
<1>6. CASE Stop
  <2>1. UNCHANGED <<nonce, pool, mined>>
    BY <1>6, Zenon DEF Stop, chain
  <2>2. ASSUME NEW q \in Request, pc'[q] \in Unsent PROVE pc[q] \in Unsent
    BY <1>6, <2>2 DEF Stop, Unsent, Asked
  <2> QED
    BY <2>1, <2>2, Zenon DEF Ledger, Sent
<1>7. CASE Idling
  BY <1>7, Zenon DEF Idling, local, chain, Ledger, Sent
<1> QED
  BY <1>1, <1>2, <1>3, <1>4, <1>5, <1>6, <1>7, StepCases

LEMMA LedgerAlways == Spec => [](TypeOK /\ RowsInOrder /\ Ledger)
<1>1. Init => Ledger
  BY DEF Init, Ledger, Sent
<1> QED
  BY <1>1, LedgerStep, RowsInOrderAlways, PTL DEF Spec
-----------------------------------------------------------------------------
(* What the client was told, and what reaches the chain.                   *)

\* A transaction is sent for an accepted request, whose row tells so.
SentIsShown ==
  \A r \in Request :
    Sent(r) => status[r] \notin {"absent", "signing"} /\ answer[r] = "accepted"

LEMMA SentIsShownStep ==
  ASSUME TypeOK, RowsInOrder, Ledger, SentIsShown, [Next]_vars
  PROVE  SentIsShown'
<1>1. ASSUME NEW r \in Request, RequestStep(r) PROVE SentIsShown'
  <2> SUFFICES ASSUME NEW q \in Request, Sent(q)'
               PROVE  status'[q] \notin {"absent", "signing"} /\ answer'[q] = "accepted"
    BY DEF SentIsShown
  <2>1. CASE q # r
    <3>1. Sent(q)
      <4>1. CASE ~Send(r)
        <5>1. UNCHANGED <<pool, mined>>
          <6>1. CASE Estimate(r)
            BY <6>1, Zenon DEF Estimate, chain
          <6>2. CASE ~Estimate(r)
            BY <1>1, <4>1, <6>2, QuietStep
          <6> QED
            BY <6>1, <6>2
        <5> QED
          BY <5>1, Zenon DEF Sent
      <4>2. CASE Send(r)
        <5>1. mined' = mined /\ pool' \subseteq pool \cup {[request |-> r, nonce |-> nonce[r]]}
          BY <4>2, Zenon DEF Send
        <5>2. \A tx \in pool' : tx.request = q => tx \in pool
          BY <2>1, <5>1
        <5> QED
          BY <5>1, <5>2, Zenon DEF Sent
      <4> QED
        BY <4>1, <4>2
    <3> QED
      BY <1>1, <2>1, <3>1, OthersUntouched DEF SentIsShown
  <2>2. CASE q = r
    <3>1. CASE Send(r)
      BY <2>2, <3>1 DEF RowsInOrder, RowState, Sending, Send, At
    <3>2. CASE ~Send(r)
      <4>1. UNCHANGED <<pool, mined>>
        <5>1. CASE Estimate(r)
          BY <5>1, Zenon DEF Estimate, chain
        <5>2. CASE ~Estimate(r)
          BY <1>1, <3>2, <5>2, QuietStep
        <5> QED
          BY <5>1, <5>2
      <4>2. Sent(r)
        BY <2>2, <4>1, Zenon DEF Sent
      <4>3. pc[r] \notin Asked \cup {"stored"}
        BY <4>2 DEF Ledger, Unsent
      <4>4. status[r] \notin {"absent", "signing"} /\ answer[r] = "accepted"
        BY <4>2 DEF SentIsShown
      <4>5. UNCHANGED answer
        <5>1. ~(\E guess \in TransferId : Post(r, guess)) /\ ~LookupWallet(r)
              /\ ~VerifySignature(r) /\ ~Insert(r) /\ ~Accept(r) /\ ~HandlerFails(r)
          BY <4>3 DEF Asked, Post, LookupWallet, VerifySignature, Insert, Accept, HandlerFails,
                     HandlerPlaces, At
        <5> QED
          BY <1>1, <5>1, Zenon DEF RequestStep, MarkBroadcasting, Estimate, Send, RecordHash,
                                   AwaitReceipt, WaitFails, Confirm, RecordFailure
      <4>6. status'[r] \notin {"absent", "signing"}
        <5>1. Rank(status[r]) >= 2
          BY <4>4 DEF TypeOK, RowStatus, Rank
        <5>2. Rank(status[r]) \in Nat /\ Rank(status'[r]) >= Rank(status[r])
          BY <1>1, OwnRow DEF TypeOK, RowStatus, Rank
        <5>3. Rank("absent") = 0 /\ Rank("signing") = 1
          BY DEF Rank
        <5> QED
          BY <5>1, <5>2, <5>3
      <4> QED
        BY <2>2, <4>4, <4>5, <4>6
    <3> QED
      BY <3>1, <3>2
  <2> QED
    BY <2>1, <2>2
<1>2. CASE Mine
  <2>1. PICK tx \in pool, outcome \in {"settled", "reverted"} :
               /\ pool' = pool \ {tx}
               /\ DOMAIN mined' = 1 .. (Len(mined) + 1) /\ DOMAIN mined = 1 .. Len(mined)
               /\ \A k \in DOMAIN mined : mined'[k] = mined[k]
               /\ mined'[Len(mined) + 1] = [request |-> tx.request, outcome |-> outcome]
               /\ UNCHANGED <<local, answer, rows, server>>
    BY <1>2, MineStep
  <2>2. UNCHANGED <<status, answer>>
    BY <2>1 DEF rows
  <2>3. ASSUME NEW q \in Request, Sent(q)' PROVE Sent(q)
    <3>1. ASSUME NEW k \in DOMAIN mined', mined'[k].request = q PROVE Sent(q)
      <4>1. CASE k \in DOMAIN mined
        BY <2>1, <3>1, <4>1, Zenon DEF Sent
      <4>2. CASE k = Len(mined) + 1
        BY <2>1, <3>1, <4>2 DEF Sent
      <4> QED
        BY <2>1, <3>1, <4>1, <4>2, MinedTyped
    <3>2. ASSUME NEW other \in pool', other.request = q PROVE Sent(q)
      BY <2>1, <3>2 DEF Sent
    <3> QED
      BY <2>3, <3>1, <3>2, Zenon DEF Sent
  <2> QED
    BY <2>2, <2>3, Zenon DEF SentIsShown
<1>3. CASE Drop
  BY <1>3, Zenon DEF Drop, rows, SentIsShown, Sent
<1>4. CASE Stop
  BY <1>4, Zenon DEF Stop, rows, chain, SentIsShown, Sent
<1>5. CASE Idling
  BY <1>5, Zenon DEF Idling, rows, chain, SentIsShown, Sent
<1> QED
  BY <1>1, <1>2, <1>3, <1>4, <1>5, StepCases

LEMMA SentIsShownAlways == Spec => []SentIsShown
<1>1. Init => SentIsShown
  BY DEF Init, SentIsShown, Sent
<1> QED
  BY <1>1, SentIsShownStep, LedgerAlways, PTL DEF Spec

\* Only what was stored and accepted reaches the chain.
THEOREM AcceptedOnlyCorrect == Spec => []OnlyAcceptedIsSent
<1>1. SentIsShown => OnlyAcceptedIsSent
  BY DEF SentIsShown, OnlyAcceptedIsSent
<1> QED
  BY <1>1, SentIsShownAlways, PTL
-----------------------------------------------------------------------------
(* What a row says of the chain.                                           *)

ConfirmedWhenSettled ==
  \A r \in Request : (pc[r] = "confirm" \/ status[r] = "confirmed") => OnChain(r)

\* What is on chain stays there.
LEMMA OnChainStays ==
  ASSUME TypeOK, [Next]_vars, NEW q \in Request, OnChain(q)
  PROVE  OnChain(q)'
<1>1. CASE Mine
  <2>1. PICK k \in DOMAIN mined : mined[k].request = q /\ mined[k].outcome = "settled"
    BY Zenon DEF OnChain
  <2>2. k \in DOMAIN mined' /\ mined'[k] = mined[k]
    <3>1. /\ \A j \in DOMAIN mined : mined'[j] = mined[j]
          /\ DOMAIN mined = 1 .. Len(mined) /\ DOMAIN mined' = 1 .. (Len(mined) + 1)
          /\ Len(mined) \in Nat
      BY <1>1, MineStep, Zenon
    <3> QED
      BY <2>1, <3>1
  <2> QED
    BY <2>1, <2>2, Zenon DEF OnChain
<1>2. CASE UNCHANGED mined
  BY <1>2, Zenon DEF OnChain
<1>3. ASSUME NEW r \in Request, RequestStep(r) PROVE UNCHANGED mined
  <2>1. CASE Estimate(r)
    BY <2>1, Zenon DEF Estimate, chain
  <2>2. CASE Send(r)
    BY <2>2, Zenon DEF Send
  <2>3. CASE ~Estimate(r) /\ ~Send(r)
    BY <1>3, <2>3, QuietStep
  <2> QED
    BY <2>1, <2>2, <2>3
<1>4. Drop \/ Stop \/ Idling => UNCHANGED mined
  BY Zenon DEF Drop, Stop, Idling, chain
<1> QED
  BY <1>1, <1>2, <1>3, <1>4, StepCases, Zenon

\* The receipt of a settled transaction is what leads to confirming.
LEMMA ConfirmReached ==
  ASSUME TypeOK, RowsInOrder, NEW r \in Request, RequestStep(r),
         pc'[r] = "confirm" \/ status'[r] = "confirmed"
  PROVE  pc[r] = "confirm" \/ status[r] = "confirmed" \/ OnChain(r)
<1>1. CASE \E guess \in TransferId : Post(r, guess)
  BY <1>1 DEF Post, Goto, TypeOK, rows
<1>2. CASE LookupWallet(r) \/ VerifySignature(r)
  BY <1>2 DEF LookupWallet, VerifySignature, Goto, TypeOK, rows
<1>3. CASE Insert(r) \/ Accept(r) \/ HandlerFails(r)
  BY <1>3 DEF Insert, Accept, HandlerFails, HandlerPlaces, Goto, Write, TypeOK, rows
<1>4. CASE MarkBroadcasting(r) \/ RecordHash(r) \/ RecordFailure(r)
  BY <1>4 DEF MarkBroadcasting, RecordHash, RecordFailure, Update, Goto, Write, TypeOK
<1>5. CASE Confirm(r)
  BY <1>5 DEF Confirm, At
<1>6. CASE Estimate(r) \/ Send(r) \/ WaitFails(r)
  BY <1>6 DEF Estimate, Send, WaitFails, Goto, TypeOK, rows
<1>7. CASE AwaitReceipt(r)
  <2>1. UNCHANGED status /\ pc'[r] = IF mined[nonce[r] + 1] = [request |-> r, outcome |-> "settled"]
                                      THEN "confirm" ELSE "fail"
    BY <1>7 DEF AwaitReceipt, Goto, TypeOK, rows
  <2>2. nonce[r] + 1 \in DOMAIN mined
    <3>1. nonce[r] \in Nat /\ Len(mined) > nonce[r]
      BY <1>7 DEF AwaitReceipt, TypeOK
    <3> QED
      BY <3>1, MinedTyped
  <2>3. ASSUME mined[nonce[r] + 1] = [request |-> r, outcome |-> "settled"] PROVE OnChain(r)
    <3>1. mined[nonce[r] + 1].request = r /\ mined[nonce[r] + 1].outcome = "settled"
      BY <2>3
    <3> QED
      BY <2>2, <3>1, Zenon DEF OnChain
  <2> QED
    BY <2>1, <2>3
<1> QED
  BY <1>1, <1>2, <1>3, <1>4, <1>5, <1>6, <1>7, Zenon DEF RequestStep

LEMMA ConfirmedStep ==
  ASSUME TypeOK, RowsInOrder, ConfirmedWhenSettled, [Next]_vars
  PROVE  ConfirmedWhenSettled'
<1> SUFFICES ASSUME NEW q \in Request, pc'[q] = "confirm" \/ status'[q] = "confirmed"
             PROVE  OnChain(q)'
  BY Zenon DEF ConfirmedWhenSettled
<1>1. ASSUME NEW r \in Request, RequestStep(r) PROVE OnChain(q)
  <2>1. CASE q = r
    BY <1>1, <2>1, ConfirmReached DEF ConfirmedWhenSettled
  <2>2. CASE q # r
    BY <1>1, <2>2, OthersUntouched DEF ConfirmedWhenSettled
  <2> QED
    BY <2>1, <2>2
<1>2. CASE Mine \/ Drop \/ Idling
  <2>1. UNCHANGED <<pc, status>>
    BY <1>2, Zenon DEF Mine, Drop, Idling, local, rows
  <2> QED
    BY <2>1, OnChainStays, Zenon DEF ConfirmedWhenSettled
<1>3. CASE Stop
  <2>1. pc'[q] # "confirm" /\ UNCHANGED status
    BY <1>3 DEF Stop, rows
  <2> QED
    BY <2>1, OnChainStays, Zenon DEF ConfirmedWhenSettled
<1> QED
  BY <1>1, <1>2, <1>3, OnChainStays, StepCases, Zenon

\* A confirmed row has settled.
THEOREM ConfirmedCorrect == Spec => []ConfirmedIsOnChain
<1>1. Init => ConfirmedWhenSettled
  BY DEF Init, ConfirmedWhenSettled
<1>2. ConfirmedWhenSettled => ConfirmedIsOnChain
  BY Zenon DEF ConfirmedWhenSettled, ConfirmedIsOnChain
<1> QED
  BY <1>1, <1>2, ConfirmedStep, LedgerAlways, PTL DEF Spec

Lost(r) == ~OnChain(r) /\ \A tx \in pool : tx.request # r

FailedWhenLost ==
  \A r \in Request : (pc[r] = "fail" \/ status[r] = "failed") => r \in faulted \/ Lost(r)

\* What is lost is not mined, and only its own request can send it again.
LEMMA LostStays ==
  ASSUME TypeOK, [Next]_vars, NEW q \in Request, Lost(q), ~Send(q)
  PROVE  Lost(q)'
<1>1. CASE Mine
  <2>1. PICK tx \in pool, outcome \in {"settled", "reverted"} :
               /\ pool' = pool \ {tx}
               /\ DOMAIN mined' = 1 .. (Len(mined) + 1) /\ DOMAIN mined = 1 .. Len(mined)
               /\ \A k \in DOMAIN mined : mined'[k] = mined[k]
               /\ mined'[Len(mined) + 1] = [request |-> tx.request, outcome |-> outcome]
    BY <1>1, MineStep
  <2>2. ASSUME NEW k \in DOMAIN mined', mined'[k].request = q, mined'[k].outcome = "settled"
        PROVE  FALSE
    <3>1. CASE k \in DOMAIN mined
      BY <2>1, <2>2, <3>1, Zenon DEF Lost, OnChain
    <3>2. CASE k = Len(mined) + 1
      BY <2>1, <2>2, <3>2 DEF Lost
    <3> QED
      BY <2>1, <2>2, <3>1, <3>2, MinedTyped
  <2> QED
    BY <2>1, <2>2, Zenon DEF Lost, OnChain
<1>2. CASE mined' = mined /\ pool' \subseteq pool
  BY <1>2, Zenon DEF Lost, OnChain
<1>3. ASSUME NEW r \in Request, RequestStep(r) PROVE Lost(q)'
  <2>1. CASE Estimate(r)
    BY <1>2, <2>1, Zenon DEF Estimate, chain
  <2>2. CASE Send(r)
    <3>1. mined' = mined /\ pool' \subseteq pool \cup {[request |-> r, nonce |-> nonce[r]]}
      BY <2>2, Zenon DEF Send
    <3>2. r # q
      BY <2>2
    <3>3. \A tx \in pool' : tx.request # q
      BY <3>1, <3>2 DEF Lost
    <3> QED
      BY <3>1, <3>3, Zenon DEF Lost, OnChain
  <2>3. CASE ~Estimate(r) /\ ~Send(r)
    BY <1>2, <1>3, <2>3, QuietStep
  <2> QED
    BY <2>1, <2>2, <2>3
<1>4. Drop \/ Stop \/ Idling => mined' = mined /\ pool' \subseteq pool
  BY Zenon DEF Drop, Stop, Idling, chain
<1> QED
  BY <1>1, <1>2, <1>3, <1>4, StepCases, Zenon

\* What leads to the catch block: a fault, or a transfer that will not settle.
LEMMA FailReached ==
  ASSUME TypeOK, RowsInOrder, Ledger, NEW r \in Request, RequestStep(r),
         pc'[r] = "fail" \/ status'[r] = "failed"
  PROVE  \/ r \in faulted'
         \/ ~Send(r) /\ (Lost(r) \/ pc[r] = "fail")
         \/ Lost(r)'
<1>1. CASE \E guess \in TransferId : Post(r, guess)
  BY <1>1 DEF Post, At, Goto, TypeOK, rows, RowsInOrder, RowState, Asked
<1>2. CASE LookupWallet(r) \/ VerifySignature(r)
  BY <1>2 DEF LookupWallet, VerifySignature, At, Goto, TypeOK, rows, RowsInOrder, RowState, Asked
<1>3. CASE Insert(r) \/ Accept(r) \/ HandlerFails(r)
  BY <1>3 DEF Insert, Accept, HandlerFails, HandlerPlaces, At, Goto, Write, TypeOK, RowsInOrder, RowState, Asked, rows
<1>4. CASE MarkBroadcasting(r)
  BY <1>4 DEF MarkBroadcasting, At, Update, Goto, Write, TypeOK, RowsInOrder, RowState
<1>5. CASE RecordHash(r)
  BY <1>5 DEF RecordHash, At, Update, Goto, Write, TypeOK, RowsInOrder, RowState
<1>6. CASE Confirm(r)
  BY <1>6 DEF Confirm, At, Update, Goto, Write, TypeOK, RowsInOrder, RowState
<1>7. CASE RecordFailure(r)
  <2>1. pc[r] = "fail" /\ ~Send(r)
    BY <1>7 DEF RecordFailure, Send, At
  <2> QED
    BY <2>1
<1>8. CASE Estimate(r)
  <2>1. pc[r] = "estimate" /\ ~Send(r)
    BY <1>8 DEF Estimate, Send, At
  <2>2. ~Sent(r)
    BY <2>1 DEF Ledger, Unsent
  <2> QED
    BY <2>1, <2>2, Zenon DEF Sent, Lost, OnChain
<1>9. CASE Send(r)
  <2>1. pc[r] = "send"
    BY <1>9 DEF Send, At
  <2>2. ~Sent(r)
    BY <2>1 DEF Ledger, Unsent
  <2>3. UNCHANGED status /\ status[r] # "failed"
    BY <1>9, <2>1 DEF Send, RowsInOrder, RowState
  <2>4. r \in faulted' \/ UNCHANGED <<pool, mined>>
    <3>1. CASE pc' = [pc EXCEPT ![r] = "hash"]
      BY <2>3, <3>1 DEF TypeOK
    <3>2. CASE pc' # [pc EXCEPT ![r] = "hash"]
      <4>1. (faulted' = faulted \cup {r}) \/ UNCHANGED <<pool, mined>>
        BY <1>9, <3>2, Zenon DEF Send, Goto
      <4> QED
        BY <4>1
    <3> QED
      BY <3>1, <3>2
  <2> QED
    BY <2>2, <2>4, Zenon DEF Sent, Lost, OnChain
<1>10. CASE AwaitReceipt(r)
  <2>1. /\ pc[r] = "wait" /\ ~Send(r) /\ UNCHANGED status
        /\ pc'[r] = IF mined[nonce[r] + 1] = [request |-> r, outcome |-> "settled"]
                    THEN "confirm" ELSE "fail"
    BY <1>10 DEF AwaitReceipt, Send, At, Goto, TypeOK, rows
  <2>2. mined[nonce[r] + 1] # [request |-> r, outcome |-> "settled"]
    BY <2>1 DEF RowsInOrder, RowState
  <2>3. nonce[r] \in Nat /\ Len(mined) > nonce[r]
    BY <1>10 DEF AwaitReceipt, TypeOK
  <2>4. \A tx \in pool : tx.request # r
    BY <2>3, MinedTyped DEF Ledger, TypeOK
  <2>5. ASSUME NEW k \in DOMAIN mined, mined[k].request = r, mined[k].outcome = "settled"
        PROVE  FALSE
    <3>1. k = nonce[r] + 1
      BY <2>5, Zenon DEF Ledger
    <3>2. mined[k] = [request |-> mined[k].request, outcome |-> mined[k].outcome]
      BY <2>5, MinedTyped, Zenon
    <3> QED
      BY <2>2, <2>5, <3>1, <3>2
  <2> QED
    BY <2>1, <2>4, <2>5, Zenon DEF Lost, OnChain
<1>11. CASE WaitFails(r)
  BY <1>11 DEF WaitFails
<1> QED
  BY <1>1, <1>2, <1>3, <1>4, <1>5, <1>6, <1>7, <1>8, <1>9, <1>10, <1>11, Zenon DEF RequestStep

\* A fault is not forgotten.
LEMMA FaultsStay ==
  ASSUME [Next]_vars
  PROVE  faulted \subseteq faulted'
<1>1. ASSUME NEW r \in Request, RequestStep(r)
      PROVE  faulted' = faulted \/ faulted' = faulted \cup {r}
  BY <1>1, Zenon DEF RequestStep, Post, LookupWallet, VerifySignature, Insert, Accept, HandlerFails,
       MarkBroadcasting, RecordHash, Confirm, RecordFailure, Update, Estimate, AwaitReceipt, WaitFails, Send, rows
<1>2. Mine \/ Drop \/ Stop \/ Idling => faulted' = faulted
  BY Zenon DEF Mine, Drop, Stop, Idling, rows
<1> QED
  BY <1>1, <1>2, StepCases

LEMMA FailedStep ==
  ASSUME TypeOK, RowsInOrder, Ledger, FailedWhenLost, [Next]_vars
  PROVE  FailedWhenLost'
<1> SUFFICES ASSUME NEW q \in Request, pc'[q] = "fail" \/ status'[q] = "failed"
             PROVE  (q \in faulted \/ Lost(q))'
  BY Zenon DEF FailedWhenLost
<1>1. ASSUME NEW r \in Request, RequestStep(r) PROVE (q \in faulted \/ Lost(q))'
  <2>1. CASE q = r
    <3>1. ASSUME ~Send(q), Lost(q) \/ pc[q] = "fail" PROVE (q \in faulted \/ Lost(q))'
      <4>1. q \in faulted \/ Lost(q)
        BY <3>1 DEF FailedWhenLost
      <4> QED
        BY <3>1, <4>1, FaultsStay, LostStays
    <3> QED
      BY <1>1, <2>1, <3>1, FailReached
  <2>2. CASE q # r
    <3>1. q \in faulted \/ Lost(q)
      BY <1>1, <2>2, OthersUntouched DEF FailedWhenLost
    <3>2. CASE Send(q)
      <4>1. pc[q] = "send" /\ pc'[q] \in {"hash", "fail"}
        BY <3>2 DEF Send, At, Goto, TypeOK
      <4> QED
        BY <1>1, <2>2, <4>1, OthersUntouched
    <3> QED
      BY <3>1, <3>2, FaultsStay, LostStays
  <2> QED
    BY <2>1, <2>2
<1>2. CASE Mine \/ Drop \/ Stop \/ Idling
  <2>1. pc[q] = "fail" \/ status[q] = "failed"
    <3>1. CASE Stop
      BY <3>1 DEF Stop, rows
    <3>2. CASE Mine \/ Drop \/ Idling
      BY <3>2, Zenon DEF Mine, Drop, Idling, local, rows
    <3> QED
      BY <1>2, <3>1, <3>2
  <2>2. q \in faulted \/ Lost(q)
    BY <2>1 DEF FailedWhenLost
  <2>3. CASE Send(q)
    BY <1>2, <2>1, <2>3 DEF Send, Mine, Drop, Stop, Idling, At, Goto, local, TypeOK
  <2> QED
    BY <2>2, <2>3, FaultsStay, LostStays
<1> QED
  BY <1>1, <1>2, StepCases

\* A row that says failed, with no fault under it, does not settle later.
THEOREM FailedCorrect == Spec => []FailedIsNotSettled
<1>1. Init => FailedWhenLost
  BY DEF Init, FailedWhenLost
<1>2. FailedWhenLost => FailedIsNotSettled
  BY Zenon DEF FailedWhenLost, FailedIsNotSettled, Lost
<1> QED
  BY <1>1, <1>2, FailedStep, LedgerAlways, PTL DEF Spec
-----------------------------------------------------------------------------
(* The relayer's nonces have no gap.                                       *)

\* What waits in the node follows on what is mined, and a nonce that was read
\* follows on what waits: rivals may have taken it since, but nobody a later one
\* without it.
NoGap ==
  /\ \A n \in PoolNonces : Len(mined) .. n \subseteq PoolNonces
  /\ \A r \in Request : pc[r] = "send" => \A k \in Len(mined) .. (nonce[r] - 1) : k \in PoolNonces
  /\ \A r \in Request : pc[r] \in {"hash", "wait"} => nonce[r] < Len(mined) \/ nonce[r] \in PoolNonces

Gapless == "drop" \notin Faults => NoGap

LEMMA NoncesTyped ==
  ASSUME TypeOK
  PROVE  Len(mined) \in Nat /\ PoolNonces \subseteq Nat /\ \A r \in Request : nonce[r] \in Nat
  BY MinedTyped DEF TypeOK, PoolNonces

\* Steps that neither read a nonce nor send lead to no nonce that must be accounted for.
LEMMA QuietPlaces ==
  ASSUME TypeOK, NEW r \in Request, RequestStep(r), ~Estimate(r), ~Send(r)
  PROVE  pc'[r] # "send" /\ pc'[r] # "hash" /\ (pc'[r] = "wait" => pc[r] = "hash")
<1>1. CASE \E guess \in TransferId : Post(r, guess)
  BY <1>1 DEF Post, Goto, TypeOK
<1>2. CASE LookupWallet(r) \/ VerifySignature(r)
  BY <1>2 DEF LookupWallet, VerifySignature, Goto, TypeOK
<1>3. CASE Insert(r) \/ Accept(r) \/ HandlerFails(r)
  BY <1>3 DEF Insert, Accept, HandlerFails, HandlerPlaces, Goto, TypeOK
<1>4. CASE MarkBroadcasting(r) \/ Confirm(r) \/ RecordFailure(r)
  BY <1>4 DEF MarkBroadcasting, Confirm, RecordFailure, Update, Goto, TypeOK
<1>5. CASE RecordHash(r) \/ AwaitReceipt(r) \/ WaitFails(r)
  BY <1>5 DEF RecordHash, AwaitReceipt, WaitFails, At, Update, Goto, TypeOK
<1> QED
  BY <1>1, <1>2, <1>3, <1>4, <1>5, Zenon DEF RequestStep

\* The transaction that is sent has the first free nonce, one that is no longer
\* free, or takes the place of a rival: the node's nonces stay without a gap.
LEMMA SendNonces ==
  ASSUME TypeOK, NoGap, NEW r \in Request, Send(r)
  PROVE  /\ UNCHANGED <<mined, nonce>>
         /\ PoolNonces \subseteq PoolNonces'
         /\ \A n \in PoolNonces' : n \in PoolNonces \/ (n = nonce[r] /\ n >= Len(mined))
         /\ pc'[r] \in {"hash", "fail"}
         /\ pc'[r] = "hash" => nonce[r] \in PoolNonces'
<1> DEFINE tx == [request |-> r, nonce |-> nonce[r]]
           rivals == {other \in pool : other.nonce = nonce[r]}
<1>1. UNCHANGED <<mined, nonce>> /\ pc'[r] \in {"hash", "fail"} /\ tx.nonce = nonce[r]
  BY DEF Send, Goto, TypeOK
<1>2. \/ nonce[r] >= Len(mined) /\ pool' = (pool \ rivals) \cup {tx}
      \/ UNCHANGED pool /\ pc'[r] = "fail"
  <2>1. \/ nonce[r] >= Len(mined) /\ pool' = (pool \ rivals) \cup {tx}
        \/ UNCHANGED pool /\ pc' = [pc EXCEPT ![r] = "fail"]
    BY Zenon DEF Send, Goto
  <2>2. pc' = [pc EXCEPT ![r] = "fail"] => pc'[r] = "fail"
    BY DEF TypeOK
  <2> QED
    BY <2>1, <2>2, Zenon
<1>3. CASE nonce[r] >= Len(mined) /\ pool' = (pool \ rivals) \cup {tx}
  <2>1. \A n : n \in PoolNonces' <=> n \in PoolNonces \/ n = nonce[r]
    <3> HIDE DEF tx
    <3> QED
      BY <1>1, <1>3 DEF PoolNonces
  <2> QED
    BY <1>1, <1>3, <2>1
<1>4. CASE UNCHANGED pool /\ pc'[r] = "fail"
  <2>1. PoolNonces' = PoolNonces
    BY <1>4 DEF PoolNonces
  <2> QED
    BY <1>1, <1>4, <2>1
<1> QED
  BY <1>2, <1>3, <1>4

LEMMA NoGapStep ==
  ASSUME TypeOK, Ledger, "drop" \notin Faults, NoGap, [Next]_vars
  PROVE  NoGap'
<1>0. Len(mined) \in Nat /\ PoolNonces \subseteq Nat /\ \A q \in Request : nonce[q] \in Nat
  BY NoncesTyped
<1>1. ASSUME NEW r \in Request, RequestStep(r), ~Estimate(r), ~Send(r) PROVE NoGap'
  <2>1. UNCHANGED <<PoolNonces, mined, nonce>>
    BY <1>1, QuietStep DEF PoolNonces
  <2>2. ASSUME NEW q \in Request
        PROVE  /\ pc'[q] = "send" => pc[q] = "send"
               /\ pc'[q] \in {"hash", "wait"} => pc[q] \in {"hash", "wait"}
    BY <1>1, QuietPlaces, OthersUntouched
  <2> QED
    BY <2>1, <2>2, Zenon DEF NoGap
<1>2. ASSUME NEW r \in Request, Estimate(r) PROVE NoGap'
  <2>1. RequestStep(r)
    BY <1>2, Zenon DEF RequestStep
  <2>2. UNCHANGED <<PoolNonces, mined>> /\ pc'[r] \in {"send", "fail"}
    BY <1>2 DEF Estimate, Goto, chain, PoolNonces, TypeOK
  <2>3. ASSUME NEW q \in Request, q # r PROVE nonce'[q] = nonce[q] /\ pc'[q] = pc[q]
    BY <2>1, <2>3, OthersUntouched
  <2>4. ASSUME pc'[r] = "send" PROVE \A k \in Len(mined) .. (nonce'[r] - 1) : k \in PoolNonces
    <3>1. pc' # [pc EXCEPT ![r] = "fail"]
      BY <2>4 DEF TypeOK
    <3>2. \E n \in Len(mined) .. (Len(mined) + Cardinality(Request)) :
            PendingNonce(n) /\ nonce' = [nonce EXCEPT ![r] = n]
      BY <1>2, <3>1, Zenon DEF Estimate, Goto
    <3>3. PendingNonce(nonce'[r])
      BY <3>2 DEF TypeOK
    <3> QED
      BY <3>3, Zenon DEF PendingNonce
  <2>5. \A q \in Request : pc'[q] = "send" => \A k \in Len(mined') .. (nonce'[q] - 1) : k \in PoolNonces'
    BY <2>2, <2>3, <2>4 DEF NoGap
  <2>6. \A q \in Request : pc'[q] \in {"hash", "wait"} => nonce'[q] < Len(mined') \/ nonce'[q] \in PoolNonces'
    BY <2>2, <2>3 DEF NoGap
  <2>7. \A n \in PoolNonces' : Len(mined') .. n \subseteq PoolNonces'
    BY <2>2 DEF NoGap
  <2> QED
    BY <2>5, <2>6, <2>7, Zenon DEF NoGap
<1>3. ASSUME NEW r \in Request, Send(r) PROVE NoGap'
  <2>1. /\ UNCHANGED <<mined, nonce>> /\ PoolNonces \subseteq PoolNonces'
        /\ \A n \in PoolNonces' : n \in PoolNonces \/ (n = nonce[r] /\ n >= Len(mined))
        /\ pc'[r] \in {"hash", "fail"} /\ (pc'[r] = "hash" => nonce[r] \in PoolNonces')
    BY <1>3, SendNonces
  <2>2. pc[r] = "send" /\ RequestStep(r)
    BY <1>3, Zenon DEF Send, At, RequestStep
  <2>3. ASSUME NEW q \in Request, q # r PROVE pc'[q] = pc[q]
    BY <2>2, <2>3, OthersUntouched
  <2>4. ASSUME NEW n \in PoolNonces', NEW k \in Len(mined) .. n PROVE k \in PoolNonces'
    <3>1. CASE n \in PoolNonces
      BY <2>1, <3>1 DEF NoGap
    <3>2. CASE n = nonce[r]
      <4>1. k = n \/ k \in Len(mined) .. (nonce[r] - 1)
        BY <1>0, <3>2
      <4> QED
        BY <2>1, <2>2, <4>1 DEF NoGap
    <3> QED
      BY <2>1, <3>1, <3>2
  <2>5. \A q \in Request : pc'[q] = "send" => \A k \in Len(mined) .. (nonce[q] - 1) : k \in PoolNonces'
    BY <2>1, <2>3 DEF NoGap
  <2>6. \A q \in Request : pc'[q] \in {"hash", "wait"} => nonce[q] < Len(mined) \/ nonce[q] \in PoolNonces'
    BY <2>1, <2>3 DEF NoGap
  <2> QED
    BY <2>1, <2>4, <2>5, <2>6 DEF NoGap
<1>4. CASE Mine
  <2>1. PICK tx \in pool, outcome \in {"settled", "reverted"} :
               /\ tx.nonce = Len(mined) /\ tx.request \in Request
               /\ pool' = pool \ {tx}
               /\ Len(mined) \in Nat /\ Len(mined') = Len(mined) + 1
               /\ DOMAIN mined = 1 .. Len(mined) /\ DOMAIN mined' = 1 .. (Len(mined) + 1)
               /\ \A k \in DOMAIN mined : mined'[k] = mined[k]
               /\ mined'[Len(mined) + 1] = [request |-> tx.request, outcome |-> outcome]
               /\ UNCHANGED <<local, answer, rows, server>>
    BY <1>4, MineStep
  <2>2. UNCHANGED <<nonce, pc>>
    BY <2>1 DEF local
  <2>3. \A n : n \in PoolNonces' <=> n \in PoolNonces /\ n # Len(mined)
    BY <2>1 DEF PoolNonces, Ledger
  <2>4. ASSUME NEW n \in PoolNonces', NEW k \in (Len(mined) + 1) .. n PROVE k \in PoolNonces'
    <3>1. n \in PoolNonces /\ n \in Nat
      BY <1>0, <2>3
    <3>2. k \in Len(mined) .. n /\ k # Len(mined)
      BY <1>0, <3>1
    <3>3. k \in PoolNonces
      BY <3>1, <3>2 DEF NoGap
    <3> QED
      BY <2>3, <3>2, <3>3
  <2>5. \A q \in Request : pc'[q] = "send" => \A k \in (Len(mined) + 1) .. (nonce'[q] - 1) : k \in PoolNonces'
    BY <1>0, <2>2, <2>3 DEF NoGap
  <2>6. \A q \in Request : pc'[q] \in {"hash", "wait"} => nonce'[q] < Len(mined) + 1 \/ nonce'[q] \in PoolNonces'
    BY <1>0, <2>2, <2>3 DEF NoGap
  <2> QED
    BY <2>1, <2>4, <2>5, <2>6 DEF NoGap
<1>5. CASE Stop
  <2>1. UNCHANGED <<PoolNonces, mined, nonce>>
    BY <1>5, Zenon DEF Stop, chain, PoolNonces
  <2>2. \A q \in Request : pc'[q] \in {"idle", "done"}
    BY <1>5 DEF Stop
  <2> QED
    BY <2>1, <2>2 DEF NoGap
<1>6. CASE Idling
  BY <1>6, Zenon DEF Idling, local, chain, NoGap, PoolNonces
<1>7. ~Drop
  BY DEF Drop
<1> QED
  BY <1>1, <1>2, <1>3, <1>4, <1>5, <1>6, <1>7, StepCases

\* Where the node does not evict, a broadcast waits only for what mining alone
\* brings, whatever requests, losers of a nonce, lost answers and restarts there are.
THEOREM WaitsCorrect == Spec => []NothingWaitsInVain
<1>1. Init => Gapless
  BY DEF Init, Gapless, NoGap, PoolNonces
<1>2. TypeOK /\ Ledger /\ Gapless /\ [Next]_vars => Gapless'
  BY NoGapStep, Zenon DEF Gapless
<1>3. TypeOK /\ Gapless => NothingWaitsInVain
  <2> SUFFICES ASSUME TypeOK, "drop" \notin Faults, NoGap, NEW r \in Request, pc[r] = "wait"
               PROVE  Len(mined) .. nonce[r] \subseteq PoolNonces
    BY Zenon DEF Gapless, NothingWaitsInVain
  <2>1. Len(mined) \in Nat /\ nonce[r] \in Nat
    BY NoncesTyped
  <2> QED
    BY <2>1 DEF NoGap
<1> QED
  BY <1>1, <1>2, <1>3, LedgerAlways, PTL DEF Spec
-----------------------------------------------------------------------------
(* Refinement of RelayedTransfer.                                          *)

\* What relates the rows, the continuations and the chain, in one place.
IInv ==
  /\ TypeOK /\ RowsInOrder /\ Ledger /\ SentIsShown
  /\ ConfirmedWhenSettled /\ FailedWhenLost

LEMMA IInvAlways == Spec => []IInv
<1>1. Init => ConfirmedWhenSettled /\ FailedWhenLost
  BY DEF Init, ConfirmedWhenSettled, FailedWhenLost
<1>2. IInv <=> /\ TypeOK /\ RowsInOrder /\ Ledger /\ SentIsShown
               /\ ConfirmedWhenSettled /\ FailedWhenLost
  BY Zenon DEF IInv
<1> QED
  BY <1>1, <1>2, ConfirmedStep, FailedStep, LedgerAlways, SentIsShownAlways, PTL DEF Spec

AtMostOnce == \A r \in Request : Payments[r] = IF OnChain(r) THEN 1 ELSE 0

\* A request has one nonce, and the chain uses a nonce once: it is paid once.
LEMMA PaidOnce == TypeOK /\ Ledger => AtMostOnce
<1> SUFFICES ASSUME TypeOK, Ledger, NEW r \in Request
             PROVE  Payments[r] = IF OnChain(r) THEN 1 ELSE 0
  BY DEF AtMostOnce
<1>1. Payments[r] = Cardinality(SettledAt(r))
  BY DEF Payments
<1>2. CASE OnChain(r)
  <2>1. PICK k \in DOMAIN mined : mined[k].request = r /\ mined[k].outcome = "settled"
    BY <1>2, Zenon DEF OnChain
  <2>2. \A j \in SettledAt(r) : j = k
    BY <2>1, Zenon DEF Ledger, SettledAt
  <2>3. SettledAt(r) = {k}
    BY <2>1, <2>2 DEF SettledAt
  <2> QED
    BY <1>1, <1>2, <2>3, FS_Singleton
<1>3. CASE ~OnChain(r)
  <2>1. SettledAt(r) = {}
    BY <1>3, Zenon DEF OnChain, SettledAt
  <2> QED
    BY <1>1, <1>3, <2>1, FS_EmptySet
<1> QED
  BY <1>2, <1>3

LEMMA PaidOnceNext == (TypeOK /\ Ledger)' => AtMostOnce'
  BY PaidOnce, PTL

\* Only mining pays.
LEMMA PaymentsKept ==
  ASSUME UNCHANGED mined
  PROVE  UNCHANGED Payments
  BY Zenon DEF Payments, SettledAt

LEMMA RelayInit == Init => Relay!Init
<1> SUFFICES ASSUME Init PROVE Relay!Init
  OBVIOUS
<1>1. \A r \in Request : SettledAt(r) = {}
  BY DEF Init, SettledAt
<1>2. Payments = [r \in Request |-> 0]
  BY <1>1, FS_EmptySet DEF Payments
<1> QED
  BY <1>2 DEF Init, Relay!Init

\* An update of the row is a move of the status, or a fault nobody sees.
LEMMA UpdateMoves ==
  ASSUME NEW r \in Request, NEW value, NEW next, NEW onError, NEW from,
         Update(r, value, next, onError), answer[r] = "accepted", status[r] \in from,
         UNCHANGED <<answer, mined>>
  PROVE  Relay!Move(r, from, value) \/ Relay!Falter(r)
<1>1. UNCHANGED Payments
  BY PaymentsKept
<1> QED
  BY <1>1, Zenon DEF Update, Write, Relay!Move, Relay!Falter, Relay!Show, Relay!Doubt

\* What the client sees of a step of a request.
Seen == <<answer, status, Payments, faulted>>

LEMMA HandlerRelays ==
  ASSUME IInv, NEW r \in Request,
         \/ \E guess \in TransferId : Post(r, guess)
         \/ LookupWallet(r) \/ VerifySignature(r) \/ Insert(r) \/ Accept(r) \/ HandlerFails(r)
  PROVE  Relay!Next \/ UNCHANGED Seen
<1>1. /\ answer[r] = "none"
      /\ pc[r] \in Asked => status[r] = "absent"
      /\ pc[r] = "stored" => status[r] = "signing"
  <2>1. pc[r] \in Asked \cup {"stored"}
    BY DEF Post, LookupWallet, VerifySignature, Insert, Accept, HandlerFails, HandlerPlaces,
           HandlerPlaces, At, Asked
  <2> QED
    BY <2>1 DEF IInv, RowsInOrder, RowState
<1>2. UNCHANGED Payments
  <2>1. UNCHANGED mined
    BY Zenon DEF Post, LookupWallet, VerifySignature, Insert, Accept, HandlerFails, chain
  <2> QED
    BY <2>1, PaymentsKept
<1>3. CASE \E guess \in TransferId : Post(r, guess)
  BY <1>2, <1>3, Zenon DEF Post, rows, Seen
<1>4. CASE LookupWallet(r) \/ VerifySignature(r)
  <2>1. /\ UNCHANGED answer \/ Respond(r, "refused")
        /\ UNCHANGED <<status, faulted>>
    BY <1>4, Zenon DEF LookupWallet, VerifySignature, rows
  <2>2. status[r] = "absent"
    BY <1>1, <1>4 DEF LookupWallet, VerifySignature, At, Asked
  <2>3. Relay!Refuse(r) \/ UNCHANGED Seen
    BY <1>1, <1>2, <2>1, <2>2, Zenon DEF Respond, Relay!Refuse, Relay!Answer, Seen
  <2> QED
    BY <2>3, Zenon DEF Relay!Next
<1>5. CASE Insert(r)
  <2>1. status[r] = "absent"
    BY <1>1, <1>5 DEF Insert, At, Asked
  <2>2. Relay!Store(r)
    BY <1>1, <1>2, <1>5, <2>1, Zenon DEF Insert, Write, Relay!Store, Relay!Show
  <2> QED
    BY <2>2, Zenon DEF Relay!Next
<1>6. CASE Accept(r)
  <2>1. status[r] = "signing"
    BY <1>1, <1>6, Zenon DEF Accept, At
  <2>2. Relay!Accept(r)
    BY <1>1, <1>2, <1>6, <2>1, Zenon DEF Accept, Respond, rows, Relay!Accept, Relay!Answer
  <2> QED
    BY <2>2, Zenon DEF Relay!Next
<1>7. CASE HandlerFails(r)
  <2>1. Relay!Error(r)
    BY <1>1, <1>2, <1>7, Zenon DEF HandlerFails, Respond, Relay!Error, Relay!Answer, Relay!Doubt
  <2> QED
    BY <2>1, Zenon DEF Relay!Next
<1> QED
  BY <1>3, <1>4, <1>5, <1>6, <1>7

LEMMA BroadcastRelays ==
  ASSUME IInv, NEW r \in Request, Broadcast(r) \/ WaitFails(r)
  PROVE  Relay!Next \/ UNCHANGED Seen
<1>1. answer[r] = "accepted"
  <2>1. pc[r] \in Sending
    BY DEF Broadcast, MarkBroadcasting, Estimate, Send, RecordHash, AwaitReceipt, WaitFails, Confirm,
           RecordFailure, At, Sending
  <2> QED
    BY <2>1 DEF IInv, RowsInOrder, RowState
<1>2. UNCHANGED <<answer, mined>>
  BY Zenon DEF Broadcast, MarkBroadcasting, Estimate, Send, RecordHash, AwaitReceipt, WaitFails, Confirm,
               RecordFailure, chain
<1>3. UNCHANGED Payments
  BY <1>2, PaymentsKept
<1>4. CASE MarkBroadcasting(r)
  <2>1. status[r] \in {"signing"}
    BY <1>4 DEF MarkBroadcasting, At, IInv, RowsInOrder, RowState
  <2>2. Relay!Progress(r) \/ Relay!Falter(r)
    BY <1>1, <1>2, <1>4, <2>1, UpdateMoves DEF MarkBroadcasting, Relay!Progress
  <2> QED
    BY <2>2, Zenon DEF Relay!Next
<1>5. CASE RecordHash(r)
  <2>1. status[r] \in {"broadcasting"}
    BY <1>5 DEF RecordHash, At, IInv, RowsInOrder, RowState
  <2>2. Relay!Progress(r) \/ Relay!Falter(r)
    BY <1>1, <1>2, <1>5, <2>1, UpdateMoves DEF RecordHash, Relay!Progress
  <2> QED
    BY <2>2, Zenon DEF Relay!Next
<1>6. CASE Confirm(r)
  <2>1. pc[r] = "confirm"
    BY <1>6 DEF Confirm, At
  <2>2. status[r] \in {"pending_chain"}
    BY <2>1 DEF IInv, RowsInOrder, RowState
  <2>3. Payments[r] = 1
    BY <2>1, PaidOnce DEF IInv, ConfirmedWhenSettled, AtMostOnce
  <2>4. Relay!Confirm(r) \/ Relay!Falter(r)
    BY <1>1, <1>2, <1>6, <2>2, <2>3, UpdateMoves DEF Confirm, Relay!Confirm
  <2> QED
    BY <2>4, Zenon DEF Relay!Next
<1>7. CASE RecordFailure(r)
  <2>1. pc[r] = "fail"
    BY <1>7 DEF RecordFailure, At
  <2>2. status[r] \in {"broadcasting", "pending_chain", "confirmed"}
    BY <2>1 DEF IInv, RowsInOrder, RowState
  <2>3. Payments[r] = 0 \/ r \in faulted'
    <3>1. r \in faulted \/ ~OnChain(r)
      BY <2>1, Zenon DEF IInv, FailedWhenLost, Lost
    <3>2. r \in faulted => r \in faulted'
      BY <1>7 DEF RecordFailure, Update
    <3> QED
      BY <3>1, <3>2, PaidOnce DEF IInv, AtMostOnce
  <2>4. Relay!Fail(r) \/ Relay!Falter(r)
    BY <1>1, <1>2, <1>7, <2>2, <2>3, UpdateMoves DEF RecordFailure, Relay!Fail
  <2> QED
    BY <2>4, Zenon DEF Relay!Next
<1>8. CASE Estimate(r) \/ AwaitReceipt(r)
  BY <1>3, <1>8, Zenon DEF Estimate, AwaitReceipt, rows, Seen
<1>9. CASE Send(r) \/ WaitFails(r)
  <2>1. UNCHANGED status /\ (UNCHANGED faulted \/ faulted' = faulted \cup {r})
    BY <1>9, Zenon DEF Send, WaitFails
  <2>2. Relay!Falter(r) \/ UNCHANGED Seen
    BY <1>1, <1>2, <1>3, <2>1, Zenon DEF Relay!Falter, Relay!Doubt, Seen
  <2> QED
    BY <2>2, Zenon DEF Relay!Next
<1> QED
  BY <1>4, <1>5, <1>6, <1>7, <1>8, <1>9, Zenon DEF Broadcast

\* The chain pays a transfer that is on its way, or one wrongly told as failed.
LEMMA MineRelays ==
  ASSUME IInv, IInv', Mine
  PROVE  Relay!Next \/ UNCHANGED Seen
<1>1. PICK tx \in pool, outcome \in {"settled", "reverted"} :
             /\ tx.request \in Request
             /\ Len(mined) \in Nat
             /\ DOMAIN mined = 1 .. Len(mined) /\ DOMAIN mined' = 1 .. (Len(mined) + 1)
             /\ \A k \in DOMAIN mined : mined'[k] = mined[k]
             /\ mined'[Len(mined) + 1] = [request |-> tx.request, outcome |-> outcome]
             /\ UNCHANGED <<local, answer, rows, server>>
  BY MineStep DEF IInv
<1> DEFINE r == tx.request
<1>2. UNCHANGED <<answer, status, faulted>>
  BY <1>1 DEF rows
<1>3. \A q \in Request : OnChain(q)' <=> OnChain(q) \/ (q = r /\ outcome = "settled")
  <2>1. ASSUME NEW q \in Request, OnChain(q) PROVE OnChain(q)'
    BY <1>1, <2>1 DEF OnChain
  <2>2. ASSUME outcome = "settled" PROVE OnChain(r)'
    BY <1>1, <2>2 DEF OnChain
  <2>3. ASSUME NEW q \in Request, NEW k \in DOMAIN mined',
               mined'[k].request = q, mined'[k].outcome = "settled"
        PROVE  OnChain(q) \/ (q = r /\ outcome = "settled")
    <3>1. CASE k \in DOMAIN mined
      BY <1>1, <2>3, <3>1, Zenon DEF OnChain
    <3>2. CASE k = Len(mined) + 1
      BY <1>1, <2>3, <3>2
    <3> QED
      BY <1>1, <2>3, <3>1, <3>2
  <2> QED
    BY <2>1, <2>2, <2>3, Zenon DEF OnChain
<1>4. /\ \A q \in Request : Payments[q] = IF OnChain(q) THEN 1 ELSE 0
      /\ \A q \in Request : Payments'[q] = IF OnChain(q)' THEN 1 ELSE 0
  BY PaidOnce, PaidOnceNext DEF IInv, AtMostOnce
<1>5. /\ Payments = [q \in Request |-> Payments[q]]
      /\ Payments' = [q \in Request |-> Payments'[q]]
  BY DEF Payments
<1>6. CASE outcome = "settled"
  <2>1. ~OnChain(r)
    <3>1. ASSUME NEW k \in DOMAIN mined, mined[k].request = r PROVE FALSE
      <4>1. k = nonce[r] + 1 /\ tx.nonce = nonce[r] /\ tx.nonce >= Len(mined)
        BY <3>1, Zenon DEF IInv, Ledger
      <4>2. nonce[r] \in Nat
        BY <1>1 DEF IInv, TypeOK
      <4>3. k \in 1 .. Len(mined) /\ Len(mined) \in Nat
        BY <1>1, <3>1, Zenon
      <4> QED
        BY <4>1, <4>2, <4>3
    <3> QED
      BY <3>1, Zenon DEF OnChain
  <2>2. Payments[r] = 0 /\ Payments' = [Payments EXCEPT ![r] = 1]
    BY <1>1, <1>3, <1>4, <1>5, <1>6, <2>1
  <2>3. Sent(r)
    BY DEF Sent
  <2>4. answer[r] = "accepted" /\ status[r] \notin {"absent", "signing", "confirmed"}
    BY <1>1, <2>1, <2>3 DEF IInv, SentIsShown, ConfirmedWhenSettled
  <2>5. status[r] = "failed" => r \in faulted
    BY <1>1, Zenon DEF IInv, FailedWhenLost, Lost
  <2>6. status[r] \in {"broadcasting", "pending_chain"} \/ (status[r] = "failed" /\ r \in faulted)
    BY <1>1, <2>4, <2>5 DEF IInv, TypeOK, RowStatus
  <2>7. Relay!Settle(r)
    BY <1>2, <2>2, <2>4, <2>6, Zenon DEF Relay!Settle
  <2> QED
    BY <1>1, <2>7, Zenon DEF Relay!Next
<1>7. CASE outcome = "reverted"
  <2>1. \A q \in Request : Payments'[q] = Payments[q]
    BY <1>3, <1>4, <1>7
  <2>2. UNCHANGED Payments
    BY <1>5, <2>1, Zenon
  <2> QED
    BY <1>2, <2>2 DEF Seen
<1> QED
  BY <1>6, <1>7

LEMMA RelayStep == IInv /\ IInv' /\ [Next]_vars => [Relay!Next]_Seen
<1> SUFFICES ASSUME IInv, IInv', [Next]_vars PROVE Relay!Next \/ UNCHANGED Seen
  OBVIOUS
<1>1. ASSUME NEW r \in Request, RequestStep(r) PROVE Relay!Next \/ UNCHANGED Seen
  <2>1. \/ Broadcast(r) \/ WaitFails(r)
        \/ \E guess \in TransferId : Post(r, guess)
        \/ LookupWallet(r) \/ VerifySignature(r) \/ Insert(r) \/ Accept(r) \/ HandlerFails(r)
    BY <1>1, Zenon DEF RequestStep, Broadcast
  <2> QED
    BY <2>1, HandlerRelays, BroadcastRelays
<1>2. CASE Mine
  BY <1>2, MineRelays
<1>3. CASE Drop \/ Stop \/ Idling
  <2>1. UNCHANGED <<answer, status, faulted, mined>>
    BY <1>3, Zenon DEF Drop, Stop, Idling, rows, chain
  <2> QED
    BY <2>1, PaymentsKept DEF Seen
<1> QED
  BY <1>1, <1>2, <1>3, StepCases

\* Every behaviour of the pipeline is one of the relayed transfers its clients
\* were promised.
THEOREM RelayCorrect == Spec => ImplementsRelay
<1>1. IInv /\ IInv' /\ [Next]_vars => [Relay!Next]_(Relay!vars)
  BY RelayStep, Zenon DEF Seen, Relay!vars
<1> QED
  BY <1>1, RelayInit, IInvAlways, PTL DEF Spec, ImplementsRelay, Relay!Spec
=============================================================================
