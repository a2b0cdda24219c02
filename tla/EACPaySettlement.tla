-------------------------- MODULE EACPaySettlement --------------------------
(***************************************************************************)
(* EACPaySettlement.sol: relayers submit transfer orders signed by their   *)
(* senders; each order is consumed once and moves ERC-20 tokens from the   *)
(* sender to the recipient and, as a fee, to the fee recipient.            *)
(*                                                                         *)
(* One action per external function.  The tokens are external contracts:   *)
(* what transferFrom and approve do to balances and allowances is modelled *)
(* from how initiateTransfer uses them.  A call whose `require' fails, or  *)
(* whose second token call fails, reverts as a whole and is no step.       *)
(***************************************************************************)
EXTENDS Integers, FiniteSets, FiniteSetsExt

CONSTANTS
  Account,      \* addresses that hold tokens or call the contract
  ZeroAddress,  \* address(0)
  Outside,      \* where holders move tokens by other means
  Deployer,     \* the first owner
  Relayer,      \* accounts the owner may authorise
  Collector,    \* addresses the owner may make the fee recipient
  Token,        \* the stablecoins deployed
  TransferId,   \* bytes32 identifiers used in this instance
  Signed,       \* the orders that their senders have signed
  Submitted,    \* the orders relayers submit: signed ones and altered ones
  FeeRate,      \* the arguments tried with setFeeBps
  Allowance,    \* the amounts tried with approve
  Funds,        \* Funds[token][account]: the balances at deployment
  Word,         \* the number of values of a uint256, 2^256 in the code
  MaxTime       \* bound: the last block time explored

Bps == 10000        \* the denominator of feeBps
MaxFeeBps == 200    \* "max 2%"

Party == Account \cup {ZeroAddress}

\* The fields of a transfer that its sender signs.  The token is not one.
Order == [id : TransferId, from : Party, to : Party,
          amount : 0 .. (Word - 1), deadline : Nat]

ASSUME DeploymentAssumption ==
  /\ ZeroAddress \notin Account
  /\ Outside \in Account /\ Deployer \in Account
  /\ Relayer \subseteq Account /\ Collector \subseteq Party
  /\ Signed \subseteq Submitted /\ Submitted \subseteq Order
  /\ \A order \in Signed : order.from \in Account
  /\ Word \in Nat /\ Word > Bps /\ MaxTime \in Nat
  /\ FeeRate \subseteq Nat /\ Allowance \subseteq 0 .. (Word - 1)
  /\ Funds \in [Token -> [Account -> 0 .. (Word - 1)]]
  /\ IsFiniteSet(Account) /\ IsFiniteSet(Token) /\ IsFiniteSet(TransferId)

VARIABLES
  owner,        \* Ownable
  relayers,     \* authorisedRelayers
  supported,    \* supportedTokens
  paused,
  feeBps,
  feeRecipient,
  transfers,    \* mapping(bytes32 => Transfer)
  ledger,       \* ledger[token]: the token's balances, and the allowances
                \* its holders give this contract (external)
  now           \* block.timestamp

settings == <<owner, relayers, supported, paused, feeBps, feeRecipient>>
vars == <<settings, transfers, ledger, now>>

Status == {"None", "Pending", "Confirmed", "Failed", "Refunded"}

\* The token of a transfer is stored with it and never read.
NoTransfer == [from |-> ZeroAddress, to |-> ZeroAddress, amount |-> 0,
               status |-> "None", timestamp |-> 0]

Settled(id) == transfers[id].status = "Confirmed"

-----------------------------------------------------------------------------
(* The ERC-20 tokens.                                                      *)

CanPull(book, from, to, value) ==
  /\ to # ZeroAddress
  /\ book.allowance[from] >= value
  /\ book.balance[from] >= value

\* An allowance of 2^256 - 1 stands for an unlimited one and is not spent.
Pull(book, from, to, value) ==
  LET paid == [book.balance EXCEPT ![from] = @ - value] IN
  [balance |-> [paid EXCEPT ![to] = @ + value],
   allowance |-> IF book.allowance[from] = Word - 1 THEN book.allowance
                 ELSE [book.allowance EXCEPT ![from] = @ - value]]

Approve(holder, token, value) ==
  /\ ledger' = [ledger EXCEPT ![token].allowance[holder] = value]
  /\ UNCHANGED <<settings, transfers, now>>

\* A holder spends tokens elsewhere after having signed an order.
Spend(holder, token, value) ==
  /\ holder # Outside
  /\ ledger[token].balance[holder] >= value
  /\ ledger' = [ledger EXCEPT ![token].balance[holder] = @ - value,
                              ![token].balance[Outside] = @ + value]
  /\ UNCHANGED <<settings, transfers, now>>

-----------------------------------------------------------------------------
Init ==
  /\ owner = Deployer
  /\ relayers = {} /\ supported = {}
  /\ paused = FALSE
  /\ feeBps = 20
  /\ feeRecipient \in Collector
  /\ transfers = [id \in TransferId |-> NoTransfer]
  /\ ledger = [t \in Token |-> [balance |-> Funds[t],
                                allowance |-> [a \in Account |-> 0]]]
  /\ now = 0

-----------------------------------------------------------------------------
(* initiateTransfer                                                        *)

\* Mutant: only an order still pending blocks its identifier.
FreshUnlessPending(id) == transfers[id].status # "Pending"

Fresh(id) == transfers[id].status = "None"

\* Mutant: the contract ignores the deadline.
AcceptableEver(order, token) ==
  /\ token \in supported
  /\ order.to # ZeroAddress
  /\ order.amount > 0

Acceptable(order, token) ==
  /\ now <= order.deadline
  /\ token \in supported
  /\ order.to # ZeroAddress
  /\ order.amount > 0

\* ECDSA.recover over the digest of `order' yields the sender only for a
\* signature of that very order.  For any other signature it reverts, or yields
\* an address nobody holds; ZeroAddress stands for both.
Recover(order, signature) ==
  IF signature = order THEN signature.from ELSE ZeroAddress

Fee(order) == (order.amount * feeBps) \div Bps

Net(order) == order.amount - Fee(order)

\* The token's book between the two safeTransferFrom calls.
NetPaid(order, token) == Pull(ledger[token], order.from, order.to, Net(order))

\* Mutant: the fee is pulled even when it is zero.
PayableAlwaysFee(order, token) ==
  /\ CanPull(ledger[token], order.from, order.to, Net(order))
  /\ CanPull(NetPaid(order, token), order.from, feeRecipient, Fee(order))

\* Neither call fails; one that does would revert the other.
Payable(order, token) ==
  /\ CanPull(ledger[token], order.from, order.to, Net(order))
  /\ Fee(order) > 0 => CanPull(NetPaid(order, token), order.from, feeRecipient, Fee(order))

\* Mutant: the fee is taken on top of the amount.
PullsFeeOnTop(order, token) ==
  ledger' = [ledger EXCEPT ![token] =
    Pull(Pull(@, order.from, order.to, order.amount), order.from, feeRecipient, Fee(order))]

Pulls(order, token) ==
  ledger' = [ledger EXCEPT ![token] =
    IF Fee(order) > 0 THEN Pull(NetPaid(order, token), order.from, feeRecipient, Fee(order))
    ELSE NetPaid(order, token)]

\* Everything the call needs in order not to revert.
Accepts(caller, order, token, signature) ==
  /\ caller \in relayers
  /\ ~paused
  /\ Fresh(order.id)
  /\ Acceptable(order, token)
  /\ Recover(order, signature) # ZeroAddress
  /\ Recover(order, signature) = order.from
  /\ order.amount * feeBps < Word   \* checked multiplication
  /\ Payable(order, token)

InitiateTransfer(caller, order, token, signature) ==
  /\ Accepts(caller, order, token, signature)
  /\ transfers' = [transfers EXCEPT ![order.id] =
                     [from |-> order.from, to |-> order.to,
                      amount |-> order.amount, status |-> "Confirmed",
                      timestamp |-> now]]
  /\ Pulls(order, token)
  /\ UNCHANGED <<settings, now>>

-----------------------------------------------------------------------------
(* Administration.                                                         *)

SetRelayer(caller, relayer, authorised) ==
  /\ caller = owner
  /\ relayers' = IF authorised THEN relayers \cup {relayer}
                 ELSE relayers \ {relayer}
  /\ UNCHANGED <<owner, supported, paused, feeBps, feeRecipient,
                 transfers, ledger, now>>

SetToken(caller, token, listed) ==
  /\ caller = owner
  /\ supported' = IF listed THEN supported \cup {token} ELSE supported \ {token}
  /\ UNCHANGED <<owner, relayers, paused, feeBps, feeRecipient,
                 transfers, ledger, now>>

\* Mutant: any rate is accepted.
SetFeeBpsUncapped(caller, bps) ==
  /\ caller = owner
  /\ feeBps' = bps
  /\ UNCHANGED <<owner, relayers, supported, paused, feeRecipient,
                 transfers, ledger, now>>

SetFeeBps(caller, bps) ==
  /\ caller = owner
  /\ bps <= MaxFeeBps
  /\ feeBps' = bps
  /\ UNCHANGED <<owner, relayers, supported, paused, feeRecipient,
                 transfers, ledger, now>>

SetPaused(caller, to) ==
  /\ caller = owner
  /\ paused' = to
  /\ UNCHANGED <<owner, relayers, supported, feeBps, feeRecipient,
                 transfers, ledger, now>>

SetFeeRecipient(caller, collector) ==
  /\ caller = owner
  /\ feeRecipient' = collector
  /\ UNCHANGED <<owner, relayers, supported, paused, feeBps,
                 transfers, ledger, now>>

\* Ownable (external): hand the ownership over, or give it up for ever.
ChangeOwner(caller, to) ==
  /\ caller = owner
  /\ owner' = to
  /\ UNCHANGED <<relayers, supported, paused, feeBps, feeRecipient,
                 transfers, ledger, now>>

Tick ==
  /\ now < MaxTime
  /\ now' = now + 1
  /\ UNCHANGED <<settings, transfers, ledger>>

-----------------------------------------------------------------------------
Administration ==
  \E caller \in Account :
    \/ \E relayer \in Relayer, on \in BOOLEAN : SetRelayer(caller, relayer, on)
    \/ \E token \in Token, on \in BOOLEAN : SetToken(caller, token, on)
    \/ \E bps \in FeeRate : SetFeeBps(caller, bps)
    \/ \E on \in BOOLEAN : SetPaused(caller, on)
    \/ \E collector \in Collector : SetFeeRecipient(caller, collector)
    \/ \E to \in Relayer \cup {Deployer, ZeroAddress} : ChangeOwner(caller, to)

Relaying ==
  \E caller \in Account, order \in Submitted, token \in Token, signature \in Signed :
    InitiateTransfer(caller, order, token, signature)

Payer == {order.from : order \in Signed}

Holders ==
  \E holder \in Payer, token \in Token, value \in Allowance :
    Approve(holder, token, value) \/ Spend(holder, token, value)

Next == Administration \/ Relaying \/ Holders \/ Tick

Spec == Init /\ [][Next]_vars

-----------------------------------------------------------------------------
(***************************************************************************)
(* Properties.                                                             *)
(***************************************************************************)

TransferRecord == [from : Party, to : Party, amount : 0 .. (Word - 1),
                   status : Status, timestamp : 0 .. MaxTime]

\* Every variable holds values of its declared kind; no balance is negative.
TypeOK ==
  /\ owner \in Party
  /\ relayers \subseteq Relayer
  /\ supported \subseteq Token
  /\ paused \in BOOLEAN
  /\ feeBps \in 0 .. MaxFeeBps
  /\ feeRecipient \in Collector
  /\ transfers \in [TransferId -> TransferRecord]
  /\ ledger \in [Token -> [balance : [Account -> Nat],
                           allowance : [Account -> 0 .. (Word - 1)]]]
  /\ now \in 0 .. MaxTime

Total(f, S) == MapThenSumSet(LAMBDA x : f[x], S)

Balance(token) == [a \in Account |-> ledger[token].balance[a]]

SettledAmount == [id \in TransferId |->
                    IF Settled(id) THEN transfers[id].amount ELSE 0]

Payers == Payer \cup {Outside}

\* Who signs orders is neither paid by one nor collects fees.  The balances of
\* one who is show only the difference, and PayersDebitedExactly does not apply.
PayersOnlyPay ==
  /\ \A order \in Signed : order.to \notin Payers
  /\ Collector \cap Payers = {}

\* What the payers ever had is what they still have, what they moved elsewhere
\* themselves and the amounts of the settled transfers: no settled transfer
\* debits its sender by more or less than the signed amount, though it is paid
\* in two token calls and the fee rate changes between orders.
PayersDebitedExactly ==
  LET had == [t \in Token |-> Total(Funds[t], Payers)]
      have == [t \in Token |-> Total(Balance(t), Payers)] IN
  Total(had, Token) = Total(have, Token) + Total(SettledAmount, TransferId)

\* Accounts that are paid and never pay, collect or receive by other means.
PureRecipient ==
  {order.to : order \in Signed} \ (Payer \cup Collector \cup {Outside, ZeroAddress})

\* A recipient gets at least 98 % and at most 100 % of the amounts settled in
\* its favour, whatever the owner does to the fee between signing and settling.
RecipientsPaid ==
  \A a \in PureRecipient :
    LET due == Total(SettledAmount, {id \in TransferId : transfers[id].to = a})
        gain == [t \in Token |-> ledger[t].balance[a] - Funds[t][a]]
        got == Total(gain, Token) IN
    /\ got <= due
    /\ got * Bps >= due * (Bps - MaxFeeBps)

\* Every settled transfer is one its sender signed, settled no later than the
\* deadline the sender signed: an altered order, or one signed twice under the
\* same identifier, is never half taken over.
SettledAsSigned ==
  \A id \in TransferId : Settled(id) =>
    \E order \in Signed :
      /\ order.id = id
      /\ order.from = transfers[id].from /\ order.to = transfers[id].to
      /\ order.amount = transfers[id].amount
      /\ transfers[id].timestamp <= order.deadline

\* Each transferId is consumed once: the record of a settled transfer is never
\* overwritten, though its sender may sign several orders under one identifier
\* and relayers may submit each of them again and again.
SettledOnce ==
  [][\A id \in TransferId : Settled(id) => transfers'[id] = transfers[id]]_vars

\* The only reasons for which a relayer's signed order can fail are those a
\* sender or a relayer can check beforehand: an allowance and a balance of the
\* signed amount are enough for the two pulls one after the other, though the
\* first changes both for the second, and a zero fee recipient matters only when
\* there is a fee.
NoHiddenRevert ==
  \A caller \in relayers, order \in Signed, token \in supported :
    ( /\ ~paused
      /\ Fresh(order.id)
      /\ order.amount > 0 /\ order.to # ZeroAddress /\ now <= order.deadline
      /\ order.amount * feeBps < Word
      /\ ledger[token].allowance[order.from] >= order.amount
      /\ ledger[token].balance[order.from] >= order.amount
      /\ Fee(order) > 0 => feeRecipient # ZeroAddress )
    => Accepts(caller, order, token, order)

(***************************************************************************)
(* The abstract specification this contract implements.                    *)
(***************************************************************************)
Orders == INSTANCE SignedOrders WITH
  settled <- {[id |-> id, from |-> transfers[id].from, to |-> transfers[id].to,
               amount |-> transfers[id].amount, at |-> transfers[id].timestamp] :
                id \in {i \in TransferId : Settled(i)}},
  books <- [t \in Token |-> ledger[t].balance],
  clock <- now

\* Whatever the owner, the relayers and the holders do, each step of the contract
\* settles one signed order for the first time and in time, moving exactly its
\* amount, or is a holder's own payment, or moves nothing.
ImplementsOrders == Orders!Spec
=============================================================================
