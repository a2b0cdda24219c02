---------------------------- MODULE EACSettlement ----------------------------
(***************************************************************************)
(* EACSettlement.sol, the contract on which banks record, confirm, reject  *)
(* and expire cross-border payments.                                       *)
(*                                                                         *)
(* One action per external function; `caller' is msg.sender.  A call whose *)
(* `require' fails reverts and changes nothing, so it is no step.  The     *)
(* functions inherited from OpenZeppelin's AccessControl are actions too:  *)
(* they are part of the contract's interface and change its roles.         *)
(***************************************************************************)
EXTENDS Integers, FiniteSets

CONSTANTS
  Caller,       \* accounts that send transactions: banks, relayers, admins
  Admin,        \* the constructor's argument
  Key,          \* externally owned accounts: addresses that can sign
  Wallet,       \* addresses named as sender or receiver wallet
  ZeroAddress,  \* address(0)
  NoSigner,     \* what ecrecover yields for a signature over other data
  TxId,         \* bytes32 identifiers used in this instance
  Amount,       \* amounts a call may name
  Deadline,     \* deadlines a call may name
  MaxTime,      \* bound: the last block time explored
  Word,         \* the number of values of a uint256, 2^256 in the code
  Adjustable    \* bound: the <<role, account>> pairs the admins touch

BANK == "BANK_ROLE"
RELAYER == "RELAYER_ROLE"
ADMIN == "DEFAULT_ADMIN_ROLE"
Role == {BANK, RELAYER, ADMIN}

ASSUME AccountAssumption ==
  /\ Admin \in Caller
  /\ ZeroAddress \notin Caller \cup Wallet \cup Key
  /\ NoSigner \notin Caller \cup Wallet \cup Key \cup {ZeroAddress}
  /\ Adjustable \subseteq Role \X Caller

\* More than 2^256 payments cannot be recorded, so the ++ counters never wrap.
ASSUME RangeAssumption ==
  /\ MaxTime \in Nat /\ MaxTime > 0
  /\ Word \in Nat
  /\ Amount \subseteq 0 .. (Word - 1)
  /\ Deadline \subseteq Nat
  /\ IsFiniteSet(TxId) /\ Cardinality(TxId) < Word

VARIABLES
  hasRole,        \* AccessControl: role |-> its members
  paused,         \* Pausable
  payments,       \* mapping(bytes32 => Payment)
  usedSignatures, \* the digests marked in _usedSignatures
  totalConfirmed,
  totalRejected,
  totalVolume,
  now             \* block.timestamp

roleVars == <<hasRole, paused>>
totals == <<totalConfirmed, totalRejected, totalVolume>>
vars == <<hasRole, paused, payments, usedSignatures, totals, now>>

-----------------------------------------------------------------------------
(***************************************************************************)
(* Data.  `terms' holds the fields of a payment that its sender signs; the *)
(* currencies, the rate and the fee are signed and stored with the others  *)
(* and never read by the contract, so they stand behind sourceAmount.      *)
(***************************************************************************)
Status == {"PENDING", "INITIATED", "CONFIRMED", "REJECTED", "EXPIRED"}

Party == Wallet \cup {ZeroAddress}
BankAddress == Caller \cup {ZeroAddress}

Terms == [senderWallet : Party, receiverWallet : Party,
          sourceAmount : Amount, destAmount : Amount, deadline : Deadline]

BlankTerms == [senderWallet |-> ZeroAddress, receiverWallet |-> ZeroAddress,
               sourceAmount |-> 0, destAmount |-> 0, deadline |-> 0]

\* What a mapping returns for a txId never written: all fields zero, and so
\* the status of an unknown payment reads as PENDING.
BlankPayment == [terms |-> BlankTerms,
                 senderBank |-> ZeroAddress, receiverBank |-> ZeroAddress,
                 initiatedAt |-> 0, confirmedAt |-> 0, rejectedAt |-> 0,
                 status |-> "PENDING"]

Payment == [terms : Terms \cup {BlankTerms},
            senderBank : BankAddress, receiverBank : BankAddress,
            initiatedAt : 0 .. MaxTime, confirmedAt : 0 .. MaxTime,
            rejectedAt : 0 .. MaxTime, status : Status]

\* A record that leaves nothing out that initiatePayment requires.
Complete(p) ==
  /\ ZeroAddress \notin {p.terms.senderWallet, p.terms.receiverWallet,
                         p.senderBank, p.receiverBank}
  /\ 0 \notin {p.terms.sourceAmount, p.terms.destAmount, p.initiatedAt}

Recorded(t) == payments[t].initiatedAt # 0

WithStatus(s) == {t \in TxId : payments[t].status = s}

\* _hashTypedDataV4 of the struct hash: injective in the fields it covers.
Digest(t, terms) == <<t, terms>>

-----------------------------------------------------------------------------
Init ==
  /\ hasRole = [r \in Role |-> IF r = BANK THEN {} ELSE {Admin}]
  /\ paused = FALSE
  /\ payments = [t \in TxId |-> BlankPayment]
  /\ usedSignatures = {}
  /\ totalConfirmed = 0 /\ totalRejected = 0 /\ totalVolume = 0
  /\ now = 1

-----------------------------------------------------------------------------
(* Roles and the emergency stop.                                           *)

GrantTo(role, account) ==
  /\ <<role, account>> \in Adjustable
  /\ hasRole' = [hasRole EXCEPT ![role] = @ \cup {account}]
  /\ UNCHANGED <<paused, payments, usedSignatures, totals, now>>

RevokeFrom(role, account) ==
  /\ <<role, account>> \in Adjustable
  /\ hasRole' = [hasRole EXCEPT ![role] = @ \ {account}]
  /\ UNCHANGED <<paused, payments, usedSignatures, totals, now>>

AddBank(caller, bank) == caller \in hasRole[ADMIN] /\ GrantTo(BANK, bank)

RemoveBank(caller, bank) == caller \in hasRole[ADMIN] /\ RevokeFrom(BANK, bank)

AddRelayer(caller, relayer) ==
  caller \in hasRole[ADMIN] /\ GrantTo(RELAYER, relayer)

GrantRole(caller, role, account) ==
  caller \in hasRole[ADMIN] /\ GrantTo(role, account)

RevokeRole(caller, role, account) ==
  caller \in hasRole[ADMIN] /\ RevokeFrom(role, account)

RenounceRole(caller, role) == RevokeFrom(role, caller)

\* Mutant: a bank can lift the pause as well as the admin.
SetPausedByBank(caller, to) ==
  /\ caller \in hasRole[ADMIN] \cup hasRole[BANK]
  /\ paused = ~to
  /\ paused' = to
  /\ UNCHANGED <<hasRole, payments, usedSignatures, totals, now>>

SetPaused(caller, to) ==
  /\ caller \in hasRole[ADMIN]
  /\ paused = ~to
  /\ paused' = to
  /\ UNCHANGED <<hasRole, payments, usedSignatures, totals, now>>

Pause(caller) == SetPaused(caller, TRUE)

Unpause(caller) == SetPaused(caller, FALSE)

-----------------------------------------------------------------------------
(* Payments.                                                               *)

\* onlyRole(BANK_ROLE) whenNotPaused
BankCall(caller) == caller \in hasRole[BANK] /\ ~paused

\* Mutant: the deadline is not compared with the clock.
WellFormedUntimed(terms, receiverBank) ==
  /\ ZeroAddress \notin {terms.senderWallet, terms.receiverWallet, receiverBank}
  /\ terms.sourceAmount > 0 /\ terms.destAmount > 0

\* Mutant: the receiver bank is not looked at.
WellFormedAnyBank(terms, receiverBank) ==
  /\ ZeroAddress \notin {terms.senderWallet, terms.receiverWallet}
  /\ terms.sourceAmount > 0 /\ terms.destAmount > 0
  /\ terms.deadline > now

\* The requires of initiatePayment that read its arguments and the clock.
WellFormed(terms, receiverBank) ==
  /\ terms.senderWallet # ZeroAddress
  /\ terms.receiverWallet # ZeroAddress
  /\ receiverBank # ZeroAddress
  /\ terms.sourceAmount > 0
  /\ terms.destAmount > 0
  /\ terms.deadline > now

\* Mutant: a txId is only refused while its payment is still open.
FreshIdOnceClosed(t) == payments[t].status # "INITIATED"

\* require(payments[txId].initiatedAt == 0)
FreshId(t) == ~Recorded(t)

\* `signer' is what digest.recover(senderSig) yields: the key that signed this
\* very digest, or an address nobody holds when senderSig is over other data.
InitiatePayment(caller, t, terms, receiverBank, signer) ==
  LET digest == Digest(t, terms) IN
  /\ BankCall(caller)
  /\ FreshId(t)
  /\ WellFormed(terms, receiverBank)
  /\ digest \notin usedSignatures
  /\ signer = terms.senderWallet
  /\ usedSignatures' = usedSignatures \cup {digest}
  /\ payments' = [payments EXCEPT ![t] =
                    [terms |-> terms,
                     senderBank |-> caller, receiverBank |-> receiverBank,
                     initiatedAt |-> now, confirmedAt |-> 0, rejectedAt |-> 0,
                     status |-> "INITIATED"]]
  /\ UNCHANGED <<roleVars, totals, now>>

\* Mutant: the status is not looked at.
AwaitingOrClosed(t) == Recorded(t)

Awaiting(t) == Recorded(t) /\ payments[t].status = "INITIATED"

\* Mutant: off by one at the deadline.
OverdueAtDeadline(t) == now >= payments[t].terms.deadline

\* A payment is overdue strictly after its deadline.
Overdue(t) == now > payments[t].terms.deadline

\* Mutant: an expiry is counted as a rejection.
MarkExpiredCounted(t) ==
  /\ payments' = [payments EXCEPT ![t].status = "EXPIRED",
                                  ![t].rejectedAt = now]
  /\ totalRejected' = (totalRejected + 1) % Word
  /\ UNCHANGED <<roleVars, usedSignatures, totalConfirmed, totalVolume, now>>

MarkExpired(t) ==
  /\ payments' = [payments EXCEPT ![t].status = "EXPIRED",
                                  ![t].rejectedAt = now]
  /\ UNCHANGED <<roleVars, usedSignatures, totals, now>>

ConfirmInTime(t) ==
  /\ ~Overdue(t)
  /\ payments' = [payments EXCEPT ![t].status = "CONFIRMED",
                                  ![t].confirmedAt = now]
  /\ totalConfirmed' = (totalConfirmed + 1) % Word
  /\ totalVolume' = (totalVolume + payments[t].terms.destAmount) % Word
  /\ UNCHANGED <<roleVars, usedSignatures, totalRejected, now>>

\* The late confirmation does not revert: it records the expiry.
ConfirmTooLate(t) == Overdue(t) /\ MarkExpired(t)

ConfirmPayment(caller, t) ==
  /\ BankCall(caller)
  /\ Awaiting(t)
  /\ caller = payments[t].receiverBank
  /\ ConfirmInTime(t) \/ ConfirmTooLate(t)

\* Mutant: a closed payment can still be rejected.
RejectPaymentLate(caller, t) ==
  /\ BankCall(caller)
  /\ Recorded(t)
  /\ caller \in {payments[t].receiverBank, payments[t].senderBank}
  /\ payments' = [payments EXCEPT ![t].status = "REJECTED",
                                  ![t].rejectedAt = now]
  /\ totalRejected' = (totalRejected + 1) % Word
  /\ UNCHANGED <<roleVars, usedSignatures, totalConfirmed, totalVolume, now>>

RejectPayment(caller, t) ==
  /\ BankCall(caller)
  /\ Awaiting(t)
  /\ caller \in {payments[t].receiverBank, payments[t].senderBank}
  /\ payments' = [payments EXCEPT ![t].status = "REJECTED",
                                  ![t].rejectedAt = now]
  /\ totalRejected' = (totalRejected + 1) % Word
  /\ UNCHANGED <<roleVars, usedSignatures, totalConfirmed, totalVolume, now>>

\* Anyone may call it, paused or not.
ExpirePayment(t) == Awaiting(t) /\ Overdue(t) /\ MarkExpired(t)

\* Blocks are produced; several transactions may share a timestamp.
Tick ==
  /\ now < MaxTime
  /\ now' = now + 1
  /\ UNCHANGED <<roleVars, payments, usedSignatures, totals>>

-----------------------------------------------------------------------------
Administration ==
  \E caller \in Caller :
    \/ \E account \in Caller :
         \/ AddBank(caller, account)
         \/ RemoveBank(caller, account)
         \/ AddRelayer(caller, account)
         \/ \E role \in Role : \/ GrantRole(caller, role, account)
                               \/ RevokeRole(caller, role, account)
    \/ \E role \in Role : RenounceRole(caller, role)
    \/ Pause(caller)
    \/ Unpause(caller)

Initiation ==
  \E caller \in Caller, t \in TxId, terms \in Terms,
     receiverBank \in BankAddress, signer \in Key \cup {NoSigner} :
    InitiatePayment(caller, t, terms, receiverBank, signer)

Settlement ==
  \E t \in TxId :
    \/ \E caller \in Caller : \/ ConfirmPayment(caller, t)
                              \/ RejectPayment(caller, t)
    \/ ExpirePayment(t)

Next == Administration \/ Initiation \/ Settlement \/ Tick

Spec == Init /\ [][Next]_vars

-----------------------------------------------------------------------------
(***************************************************************************)
(* Properties.                                                             *)
(***************************************************************************)

\* Every variable holds values of its declared kind: an entry of the book is
\* blank or complete, never a record without a party or an amount.
TypeOK ==
  /\ hasRole \in [Role -> SUBSET Caller]
  /\ paused \in BOOLEAN
  /\ payments \in [TxId -> Payment]
  /\ \A t \in TxId : payments[t] = BlankPayment \/ Complete(payments[t])
  /\ usedSignatures \subseteq TxId \X Terms
  /\ totalConfirmed \in 0 .. (Word - 1)
  /\ totalRejected \in 0 .. (Word - 1)
  /\ totalVolume \in 0 .. (Word - 1)
  /\ now \in 1 .. MaxTime

\* The two counters count the payments of the book: no confirmation or
\* rejection is counted twice, missed, or counted for an expired payment, over
\* every interleaving of the banks' calls (confirmPayment, rejectPayment,
\* expirePayment all finalise the same payment).
CountersMatchBook ==
  /\ totalConfirmed = Cardinality(WithStatus("CONFIRMED"))
  /\ totalRejected = Cardinality(WithStatus("REJECTED"))

DestAmount(t) == payments[t].terms.destAmount

\* One pair for each unit of money that a confirmed payment pays out.
ConfirmedUnits == UNION {{t} \X (1 .. DestAmount(t)) : t \in WithStatus("CONFIRMED")}

BookVolume == Cardinality(ConfirmedUnits)

\* totalVolume is the volume of the confirmed payments, the sum of their
\* destAmounts, modulo 2^256, which is what its unchecked addition leaves.
VolumeMatchesBook == totalVolume = BookVolume % Word

\* The times and the status of a payment tell one story: a confirmed payment
\* was confirmed between its initiation and its deadline, an expired one was
\* closed strictly after its deadline, and no payment carries both a
\* confirmation and a rejection time.
InTime(p) ==
  /\ p.status = "PENDING" <=> p.initiatedAt = 0
  /\ p.initiatedAt <= now
  /\ p.initiatedAt # 0 => p.initiatedAt < p.terms.deadline
  /\ p.status \in {"PENDING", "INITIATED"} =>
       p.confirmedAt = 0 /\ p.rejectedAt = 0
  /\ p.status = "CONFIRMED" =>
       /\ p.confirmedAt \in p.initiatedAt .. p.terms.deadline
       /\ p.rejectedAt = 0
  /\ p.status \in {"REJECTED", "EXPIRED"} =>
       p.initiatedAt <= p.rejectedAt /\ p.confirmedAt = 0
  /\ p.status = "EXPIRED" => p.rejectedAt > p.terms.deadline

OutcomeInTime == \A t \in TxId : InTime(payments[t])

\* The replay guard and the book agree: the digests marked as used are those of
\* the payments now in the book, one each.  A digest whose payment was
\* overwritten, or a payment whose digest is still free, would break it.
OneSignaturePerPayment ==
  usedSignatures = {Digest(t, payments[t].terms) : t \in {u \in TxId : Recorded(u)}}

SameContent(p, q) ==
  /\ p.terms = q.terms
  /\ p.senderBank = q.senderBank /\ p.receiverBank = q.receiverBank
  /\ p.initiatedAt = q.initiatedAt

\* A recorded payment keeps its parties, terms and initiation time for ever,
\* and once it is confirmed, rejected or expired nothing of it changes.
BookIsAppendOnly ==
  [][\A t \in TxId :
       /\ Recorded(t) => SameContent(payments[t], payments'[t])
       /\ payments[t].status \in {"CONFIRMED", "REJECTED", "EXPIRED"} =>
            payments'[t] = payments[t]]_vars

\* While the contract is paused the only thing that can happen to a payment is
\* that it expires.
PauseFreezesPayments ==
  [][paused => \A t \in TxId : \/ payments'[t] = payments[t]
                               \/ payments'[t].status = "EXPIRED"]_vars

\* A bank removed by removeBank settles nothing any more: a payment becomes
\* CONFIRMED only while its receiver bank holds BANK_ROLE, though that bank was
\* named when the payment was initiated and may have been removed since.
OnlyStandingBankConfirms ==
  [][\A t \in TxId :
       payments'[t].status = "CONFIRMED" /\ payments[t].status # "CONFIRMED" =>
         payments[t].receiverBank \in hasRole[BANK]]_vars

Abandoned == paused /\ hasRole[ADMIN] = {}

\* Renouncing or revoking the last admin cannot be undone: a contract that is
\* then paused stays paused and without admin for ever, and the only thing that
\* ever happens to its payments is that they expire, none is added.
AbandonedForGood ==
  [][Abandoned => /\ Abandoned'
                  /\ \A t \in TxId : \/ payments'[t] = payments[t]
                                     \/ payments'[t].status = "EXPIRED"]_vars

(***************************************************************************)
(* The abstract specification this contract implements.                    *)
(***************************************************************************)
PhaseOf(s) == CASE s = "PENDING" -> "none"
                [] s = "INITIATED" -> "open"
                [] s = "CONFIRMED" -> "settled"
                [] s = "REJECTED" -> "cancelled"
                [] s = "EXPIRED" -> "lapsed"

Lifecycle == INSTANCE PaymentLifecycle WITH
  phase <- [t \in TxId |-> PhaseOf(payments[t].status)],
  due <- [t \in TxId |-> payments[t].terms.deadline],
  clock <- now

\* Every step of the contract is a step of the payment lifecycle, or changes
\* nothing the lifecycle sees.
ImplementsLifecycle == Lifecycle!Spec
=============================================================================
