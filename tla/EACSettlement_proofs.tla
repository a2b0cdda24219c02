------------------------ MODULE EACSettlement_proofs ------------------------
(***************************************************************************)
(* What EACSettlement guarantees for every number of banks, payments and   *)
(* amounts, every deadline and every word size: proofs for TLAPS.          *)
(***************************************************************************)
EXTENDS EACSettlement, FiniteSetTheorems, TLAPS

\* The actions of Administration differ only in the roles and the pause.
RolesStep ==
  /\ hasRole' \in [Role -> SUBSET Caller]
  /\ paused' \in BOOLEAN
  /\ UNCHANGED <<payments, usedSignatures, totals, now>>

\* The four ways in which the record of one payment changes.
OpenStep(t, terms, caller, receiverBank) ==
  /\ ~Recorded(t)
  /\ terms \in Terms /\ caller \in Caller /\ receiverBank \in BankAddress
  /\ WellFormed(terms, receiverBank)
  /\ caller \in hasRole[BANK] /\ ~paused
  /\ Digest(t, terms) \notin usedSignatures
  /\ usedSignatures' = usedSignatures \cup {Digest(t, terms)}
  /\ payments' = [payments EXCEPT ![t] =
                    [terms |-> terms,
                     senderBank |-> caller, receiverBank |-> receiverBank,
                     initiatedAt |-> now, confirmedAt |-> 0, rejectedAt |-> 0,
                     status |-> "INITIATED"]]
  /\ UNCHANGED <<roleVars, totals, now>>

ConfirmStep(t) ==
  /\ Awaiting(t) /\ ConfirmInTime(t)
  /\ payments[t].receiverBank \in hasRole[BANK] /\ ~paused

RejectStep(t) ==
  /\ Awaiting(t) /\ ~paused
  /\ payments' = [payments EXCEPT ![t].status = "REJECTED",
                                  ![t].rejectedAt = now]
  /\ totalRejected' = (totalRejected + 1) % Word
  /\ UNCHANGED <<roleVars, usedSignatures, totalConfirmed, totalVolume, now>>

ExpireStep(t) == Awaiting(t) /\ Overdue(t) /\ MarkExpired(t)

\* The word has at least one value.
LEMMA WordIsPositive == Word \in Nat \ {0}
<1>1. Cardinality(TxId) \in Nat
  BY RangeAssumption, FS_CardinalityType
<1> QED
  BY <1>1, RangeAssumption

\* A step of the contract is one of the six kinds above: all that the invariant
\* proofs use of the actions.
LEMMA StepCases ==
  ASSUME TypeOK, Next
  PROVE  \/ RolesStep
         \/ \E t \in TxId, terms \in Terms, caller \in Caller, rb \in BankAddress :
              OpenStep(t, terms, caller, rb)
         \/ \E t \in TxId : ConfirmStep(t)
         \/ \E t \in TxId : RejectStep(t)
         \/ \E t \in TxId : ExpireStep(t)
         \/ Tick
<1>1. CASE Administration
  <2>1. ASSUME NEW caller \in Caller, NEW account \in Caller, NEW role \in Role,
               \/ GrantTo(role, account)
               \/ RevokeFrom(role, account)
        PROVE  RolesStep
    BY <2>1 DEF TypeOK, RolesStep, GrantTo, RevokeFrom
  <2>2. ASSUME NEW caller \in Caller, Pause(caller) \/ Unpause(caller)
        PROVE  RolesStep
    BY <2>2 DEF TypeOK, RolesStep, Pause, Unpause, SetPaused
  <2>3. BANK \in Role /\ RELAYER \in Role
    BY DEF Role
  <2> QED
    BY <1>1, <2>1, <2>2, <2>3
    DEF Administration, AddBank, RemoveBank, AddRelayer, GrantRole, RevokeRole,
        RenounceRole
<1>2. CASE Initiation
  BY <1>2 DEF Initiation, InitiatePayment, OpenStep, BankCall, FreshId
<1>3. CASE Settlement
  <2>1. ASSUME NEW t \in TxId, NEW caller \in Caller, ConfirmPayment(caller, t)
        PROVE  ConfirmStep(t) \/ ExpireStep(t)
    BY <2>1 DEF ConfirmPayment, ConfirmTooLate, ConfirmStep, ExpireStep, BankCall
  <2>2. ASSUME NEW t \in TxId, NEW caller \in Caller, RejectPayment(caller, t)
        PROVE  RejectStep(t)
    BY <2>2 DEF RejectPayment, RejectStep, BankCall
  <2>3. ASSUME NEW t \in TxId, ExpirePayment(t)
        PROVE  ExpireStep(t)
    BY <2>3 DEF ExpirePayment, ExpireStep
  <2> QED
    BY <1>3, <2>1, <2>2, <2>3 DEF Settlement
<1> QED
  BY <1>1, <1>2, <1>3 DEF Next

-----------------------------------------------------------------------------
(* Type correctness.                                                       *)

\* The constructor leaves every variable in its type.
LEMMA TypeInit == Init => TypeOK
<1> SUFFICES ASSUME Init PROVE TypeOK
  OBVIOUS
<1>1. hasRole \in [Role -> SUBSET Caller]
  BY AccountAssumption DEF Init
<1>2. BlankPayment \in Payment
  BY RangeAssumption DEF BlankPayment, Payment, BankAddress, Status
<1>3. payments \in [TxId -> Payment] /\ usedSignatures \subseteq TxId \X Terms
  BY <1>2 DEF Init
<1>4. paused \in BOOLEAN
  BY Zenon DEF Init
<1>6. now \in 1 .. MaxTime
  <2>1. now = 1
    BY DEF Init
  <2> QED
    BY <2>1, RangeAssumption
<1>5. /\ totalConfirmed \in 0 .. (Word - 1)
      /\ totalRejected \in 0 .. (Word - 1)
      /\ totalVolume \in 0 .. (Word - 1)
  BY WordIsPositive DEF Init
<1>7. \A t \in TxId : payments[t] = BlankPayment
  BY DEF Init
<1> QED
  BY <1>1, <1>3, <1>4, <1>5, <1>6, <1>7 DEF TypeOK

\* Amounts are natural numbers, which the solver needs for the volume.
LEMMA AmountsAreNaturals == \A a \in Amount : a \in Nat
<1>1. \A a \in 0 .. (Word - 1) : a \in Nat
  BY WordIsPositive
<1> QED
  BY <1>1, RangeAssumption

\* The amount a confirmation adds to the volume is a natural number.
LEMMA DestAmountIsNat ==
  ASSUME TypeOK, NEW t \in TxId
  PROVE  payments[t].terms.destAmount \in Nat
<1>1. payments[t].terms \in Terms \cup {BlankTerms}
  BY DEF TypeOK, Payment
<1>2. CASE payments[t].terms \in Terms
  <2>1. payments[t].terms.destAmount \in Amount
    BY <1>2 DEF Terms
  <2> QED
    BY <2>1, AmountsAreNaturals
<1>3. CASE payments[t].terms = BlankTerms
  BY <1>3 DEF BlankTerms
<1> QED
  BY <1>1, <1>2, <1>3

\* No call of the contract and no block takes a variable out of its type.
LEMMA TypeStep == TypeOK /\ [Next]_vars => TypeOK'
<1> SUFFICES ASSUME TypeOK, [Next]_vars PROVE TypeOK'
  OBVIOUS
<1> USE RangeAssumption, WordIsPositive
<1>1. CASE RolesStep
  BY <1>1 DEF TypeOK, RolesStep, totals
<1>2. ASSUME NEW t \in TxId, NEW terms \in Terms, NEW caller \in Caller,
             NEW rb \in BankAddress, OpenStep(t, terms, caller, rb)
      PROVE  TypeOK'
  <2> DEFINE p == [terms |-> terms, senderBank |-> caller, receiverBank |-> rb,
                   initiatedAt |-> now, confirmedAt |-> 0, rejectedAt |-> 0,
                   status |-> "INITIATED"]
  <2>1. p \in Payment
    BY DEF TypeOK, Payment, Status, BankAddress
  <2>2. payments' \in [TxId -> Payment]
    BY <1>2, <2>1 DEF OpenStep, TypeOK
  <2>3. usedSignatures' \subseteq TxId \X Terms
    BY <1>2 DEF OpenStep, TypeOK, Digest
  <2>4. Complete(p)
    BY <1>2, AccountAssumption DEF OpenStep, WellFormed, Complete, TypeOK
  <2>5. \A u \in TxId : payments'[u] = BlankPayment \/ Complete(payments'[u])
    <3>1. \A u \in TxId : payments'[u] = p \/ payments'[u] = payments[u]
      BY <1>2 DEF OpenStep, TypeOK
    <3> HIDE DEF p
    <3> QED
      BY <2>4, <3>1, Zenon DEF TypeOK
  <2> QED
    BY <1>2, <2>2, <2>3, <2>5 DEF OpenStep, TypeOK, roleVars, totals
<1>3. ASSUME NEW t \in TxId, ConfirmStep(t) \/ RejectStep(t) \/ ExpireStep(t)
      PROVE  TypeOK'
  <2>1. payments' \in [TxId -> Payment]
    BY <1>3 DEF ConfirmStep, RejectStep, ExpireStep, ConfirmInTime, MarkExpired,
                TypeOK, Payment, Status
  <2>2. totalConfirmed' \in 0 .. (Word - 1) /\ totalRejected' \in 0 .. (Word - 1)
    BY <1>3 DEF ConfirmStep, RejectStep, ExpireStep, ConfirmInTime, MarkExpired,
                TypeOK, totals
  <2>3. totalVolume' \in 0 .. (Word - 1)
    <3>1. CASE ConfirmStep(t)
      <4>1. payments[t].terms.destAmount \in Nat
        BY DestAmountIsNat
      <4> QED
        BY <3>1, <4>1 DEF ConfirmStep, ConfirmInTime, TypeOK
    <3>2. CASE RejectStep(t) \/ ExpireStep(t)
      BY <3>2 DEF RejectStep, ExpireStep, MarkExpired, TypeOK, totals
    <3> QED
      BY <1>3, <3>1, <3>2
  <2>4. UNCHANGED <<hasRole, paused, usedSignatures, now>>
    BY <1>3 DEF ConfirmStep, RejectStep, ExpireStep, ConfirmInTime, MarkExpired,
                roleVars
  <2>5. \A u \in TxId : payments'[u] = BlankPayment \/ Complete(payments'[u])
    <3> SUFFICES ASSUME NEW u \in TxId, payments'[u] # payments[u]
                 PROVE  Complete(payments'[u])
      BY DEF TypeOK
    <3>1. u = t /\ Awaiting(t)
      BY <1>3 DEF ConfirmStep, RejectStep, ExpireStep, ConfirmInTime, MarkExpired, TypeOK
    <3>2. Complete(payments[t])
      BY <3>1 DEF Awaiting, Recorded, BlankPayment, TypeOK
    <3>3. /\ payments'[t].terms = payments[t].terms
          /\ payments'[t].senderBank = payments[t].senderBank
          /\ payments'[t].receiverBank = payments[t].receiverBank
          /\ payments'[t].initiatedAt = payments[t].initiatedAt
      BY <1>3 DEF ConfirmStep, RejectStep, ExpireStep, ConfirmInTime, MarkExpired, TypeOK, Payment
    <3> QED
      BY <3>1, <3>2, <3>3, Zenon DEF Complete
  <2> QED
    BY <2>1, <2>2, <2>3, <2>4, <2>5 DEF TypeOK
<1>4. CASE Tick
  BY <1>4 DEF Tick, TypeOK, roleVars, totals
<1>5. CASE UNCHANGED vars
  BY <1>5 DEF vars, TypeOK, totals
<1> QED
  BY <1>1, <1>2, <1>3, <1>4, <1>5, StepCases

\* Every variable of the contract keeps its type in every behaviour.
THEOREM TypeCorrect == Spec => []TypeOK
<1> QED
  BY TypeInit, TypeStep, PTL DEF Spec

-----------------------------------------------------------------------------
(* The book: times, signatures and counters.                               *)

\* The times of a record are natural numbers, in the current state ...
LEMMA TimesOfRecord ==
  ASSUME TypeOK, NEW t \in TxId
  PROVE  /\ payments[t].initiatedAt \in Nat
         /\ payments[t].terms.deadline \in Nat
         /\ now \in Nat \ {0}
<1>1. payments[t] \in Payment
  BY DEF TypeOK
<1>2. payments[t].initiatedAt \in 0 .. MaxTime
  BY <1>1 DEF Payment
<1>3. payments[t].terms \in Terms \cup {BlankTerms}
  BY <1>1 DEF Payment
<1>4. payments[t].terms.deadline \in Deadline \cup {0}
  BY <1>3 DEF Terms, BlankTerms
<1>5. Deadline \cup {0} \subseteq Nat
  BY RangeAssumption
<1>6. now \in 1 .. MaxTime
  BY DEF TypeOK
<1>7. MaxTime \in Nat
  BY RangeAssumption
<1> QED
  BY <1>2, <1>4, <1>5, <1>6, <1>7

\* ... and in the next one.
LEMMA TimesOfRecordNext ==
  TypeOK' => \A t \in TxId : payments'[t].terms.deadline \in Nat
<1> SUFFICES ASSUME TypeOK', NEW t \in TxId
             PROVE  payments'[t].terms.deadline \in Nat
  OBVIOUS
<1>1. payments'[t].terms \in Terms \cup {BlankTerms}
  BY DEF TypeOK, Payment
<1>2. payments'[t].terms.deadline \in Deadline \cup {0}
  BY <1>1 DEF Terms, BlankTerms
<1>3. Deadline \cup {0} \subseteq Nat
  BY RangeAssumption
<1> QED
  BY <1>2, <1>3

\* An empty book has no outcome that could be out of time.
LEMMA OutcomeInit == Init => OutcomeInTime
  BY RangeAssumption DEF Init, OutcomeInTime, InTime, BlankPayment, BlankTerms

\* No call closes a payment at a time its status does not allow.
LEMMA OutcomeStep == TypeOK /\ OutcomeInTime /\ [Next]_vars => OutcomeInTime'
<1> SUFFICES ASSUME TypeOK, OutcomeInTime, [Next]_vars, NEW u \in TxId
             PROVE  InTime(payments[u])'
  BY DEF OutcomeInTime
<1>0. /\ InTime(payments[u])
      /\ payments \in [TxId -> Payment]
  BY DEF OutcomeInTime, TypeOK
<1>1. ASSUME payments'[u] = payments[u], now' = now \/ now' = now + 1
      PROVE  InTime(payments[u])'
  BY <1>0, <1>1, TimesOfRecord DEF InTime
<1>2. ASSUME NEW t \in TxId, NEW terms \in Terms, NEW caller \in Caller,
             NEW rb \in BankAddress, OpenStep(t, terms, caller, rb)
      PROVE  InTime(payments[u])'
  <2>1. CASE u = t
    <3>1. /\ payments'[u] = [terms |-> terms, senderBank |-> caller,
                             receiverBank |-> rb, initiatedAt |-> now,
                             confirmedAt |-> 0, rejectedAt |-> 0,
                             status |-> "INITIATED"]
          /\ now' = now
          /\ terms.deadline > now
      BY <1>0, <1>2, <2>1 DEF OpenStep, WellFormed
    <3> QED
      BY <3>1, TimesOfRecord DEF InTime
  <2>2. CASE u # t
    BY <1>0, <1>1, <1>2, <2>2 DEF OpenStep
  <2> QED
    BY <2>1, <2>2
<1>3. ASSUME NEW t \in TxId, ConfirmStep(t) \/ RejectStep(t) \/ ExpireStep(t)
      PROVE  InTime(payments[u])'
  <2>0. now' = now
    BY <1>3 DEF ConfirmStep, RejectStep, ExpireStep, ConfirmInTime, MarkExpired
  <2>1. CASE u = t
    <3>1. InTime(payments[u]) /\ payments[u].status = "INITIATED"
      BY <1>0, <1>3, <2>1 DEF ConfirmStep, RejectStep, ExpireStep, Awaiting
    <3>2. CASE ConfirmStep(t)
      <4>1. payments'[u] = [payments[u] EXCEPT !.status = "CONFIRMED",
                                               !.confirmedAt = now]
        BY <1>0, <2>1, <3>2 DEF ConfirmStep, ConfirmInTime
      <4>2. now <= payments[u].terms.deadline
        BY <2>1, <3>2, TimesOfRecord DEF ConfirmStep, ConfirmInTime, Overdue
      <4> QED
        BY <1>0, <2>0, <3>1, <4>1, <4>2, TimesOfRecord DEF InTime, Payment
    <3>3. CASE RejectStep(t)
      <4>1. payments'[u] = [payments[u] EXCEPT !.status = "REJECTED",
                                               !.rejectedAt = now]
        BY <1>0, <2>1, <3>3 DEF RejectStep
      <4> QED
        BY <1>0, <2>0, <3>1, <4>1, TimesOfRecord DEF InTime, Payment
    <3>4. CASE ExpireStep(t)
      <4>1. payments'[u] = [payments[u] EXCEPT !.status = "EXPIRED",
                                               !.rejectedAt = now]
        BY <1>0, <2>1, <3>4 DEF ExpireStep, MarkExpired
      <4>2. now > payments[u].terms.deadline
        BY <2>1, <3>4 DEF ExpireStep, Overdue
      <4> QED
        BY <1>0, <2>0, <3>1, <4>1, <4>2, TimesOfRecord DEF InTime, Payment
    <3> QED
      BY <1>3, <3>2, <3>3, <3>4
  <2>2. CASE u # t
    <3>1. payments'[u] = payments[u]
      BY <1>0, <1>3, <2>2
      DEF ConfirmStep, RejectStep, ExpireStep, ConfirmInTime, MarkExpired
    <3> QED
      BY <1>1, <2>0, <3>1
  <2> QED
    BY <2>1, <2>2
<1>4. CASE RolesStep \/ Tick \/ UNCHANGED vars
  BY <1>1, <1>4 DEF RolesStep, Tick, vars
<1> QED
  BY <1>2, <1>3, <1>4, StepCases

\* OutcomeInTime holds in every reachable state, for every instance.
THEOREM OutcomeCorrect == Spec => []OutcomeInTime
<1> QED
  BY TypeCorrect, OutcomeInit, OutcomeStep, PTL DEF Spec

-----------------------------------------------------------------------------
(* The replay guard.                                                       *)

\* Outside initiatePayment no record appears and none changes its content.
LEMMA ContentKept ==
  ASSUME TypeOK, NEW u \in TxId,
         \/ RolesStep \/ Tick \/ UNCHANGED vars
         \/ \E t \in TxId : ConfirmStep(t) \/ RejectStep(t) \/ ExpireStep(t)
  PROVE  SameContent(payments[u], payments'[u])
<1>0. payments[u] \in Payment /\ payments \in [TxId -> Payment]
  BY DEF TypeOK
<1>1. CASE RolesStep \/ Tick \/ UNCHANGED vars
  BY <1>1 DEF RolesStep, Tick, vars, SameContent
<1>2. ASSUME NEW t \in TxId, ConfirmStep(t) \/ RejectStep(t) \/ ExpireStep(t)
      PROVE  SameContent(payments[u], payments'[u])
  BY <1>0, <1>2
  DEF ConfirmStep, RejectStep, ExpireStep, ConfirmInTime, MarkExpired,
      SameContent, Payment
<1> QED
  BY <1>1, <1>2

\* No payment, no used digest.
LEMMA SignaturesInit == Init => OneSignaturePerPayment
  BY DEF Init, OneSignaturePerPayment, Recorded, BlankPayment

\* A digest is marked exactly when its payment is recorded.
LEMMA SignaturesStep ==
  TypeOK /\ OneSignaturePerPayment /\ [Next]_vars => OneSignaturePerPayment'
<1> SUFFICES ASSUME TypeOK, OneSignaturePerPayment, [Next]_vars
             PROVE  OneSignaturePerPayment'
  OBVIOUS
<1>1. CASE \/ RolesStep \/ Tick \/ UNCHANGED vars
           \/ \E t \in TxId : ConfirmStep(t) \/ RejectStep(t) \/ ExpireStep(t)
  <2>1. \A u \in TxId : SameContent(payments[u], payments'[u])
    BY <1>1, ContentKept
  <2>2. usedSignatures' = usedSignatures
    BY <1>1 DEF RolesStep, Tick, vars, ConfirmStep, RejectStep, ExpireStep,
                ConfirmInTime, MarkExpired
  <2> QED
    BY <2>1, <2>2 DEF OneSignaturePerPayment, SameContent, Recorded, Digest
<1>2. ASSUME NEW t \in TxId, NEW terms \in Terms, NEW caller \in Caller,
             NEW rb \in BankAddress, OpenStep(t, terms, caller, rb)
      PROVE  OneSignaturePerPayment'
  <2>1. /\ payments'[t].terms = terms /\ payments'[t].initiatedAt # 0
        /\ \A u \in TxId \ {t} : payments'[u] = payments[u]
    BY <1>2, TimesOfRecord DEF OpenStep, TypeOK
  <2>2. usedSignatures' = usedSignatures \cup {Digest(t, terms)}
    BY <1>2 DEF OpenStep
  <2>3. ~Recorded(t)
    BY <1>2 DEF OpenStep
  <2> QED
    BY <2>1, <2>2, <2>3 DEF OneSignaturePerPayment, Recorded
<1> QED
  BY <1>1, <1>2, StepCases

\* OneSignaturePerPayment holds in every reachable state, for every instance.
THEOREM SignaturesCorrect == Spec => []OneSignaturePerPayment
<1> QED
  BY TypeCorrect, SignaturesInit, SignaturesStep, PTL DEF Spec

-----------------------------------------------------------------------------
(* The counters.  They are incremented modulo Word; that they never wrap is *)
(* due to the number of payments, so the induction needs the cardinality of *)
(* the set of payments in each status.                                      *)

\* A counter below the word size is not changed by the modulo.
LEMMA SmallModulo == \A n \in Nat : n < Word => n % Word = n
  BY WordIsPositive

\* Adding one payment to a set that lacks it adds one to its number, and the
\* number is still smaller than Word.
LEMMA CountOneMore ==
  ASSUME NEW t \in TxId, NEW S \in SUBSET TxId, t \notin S
  PROVE  Cardinality(S \cup {t}) = (Cardinality(S) + 1) % Word
<1>1. IsFiniteSet(S) /\ IsFiniteSet(S \cup {t})
  <2>1. S \cup {t} \subseteq TxId
    OBVIOUS
  <2> QED
    BY <2>1, RangeAssumption, FS_Subset
<1>2. Cardinality(S \cup {t}) = Cardinality(S) + 1
  BY <1>1, FS_AddElement
<1>3. Cardinality(S \cup {t}) <= Cardinality(TxId)
  <2>1. S \cup {t} \subseteq TxId
    OBVIOUS
  <2> QED
    BY <2>1, RangeAssumption, FS_Subset
<1>4. Cardinality(S \cup {t}) \in Nat /\ Cardinality(TxId) \in Nat
  BY <1>1, RangeAssumption, FS_CardinalityType
<1>5. Cardinality(TxId) < Word
  BY RangeAssumption
<1>6. Cardinality(S \cup {t}) < Word
  BY <1>3, <1>4, <1>5, WordIsPositive
<1> QED
  BY <1>2, <1>4, <1>6, SmallModulo

\* The counters of an empty book are zero.
LEMMA CountersInit == Init => CountersMatchBook
<1> SUFFICES ASSUME Init PROVE CountersMatchBook
  OBVIOUS
<1>1. WithStatus("CONFIRMED") = {} /\ WithStatus("REJECTED") = {}
  BY DEF Init, WithStatus, BlankPayment
<1> QED
  BY <1>1, FS_EmptySet DEF Init, CountersMatchBook

\* A call moves a counter by one exactly when a payment enters its status.
LEMMA CountersStep ==
  TypeOK /\ OutcomeInTime /\ CountersMatchBook /\ [Next]_vars
    => CountersMatchBook'
<1> SUFFICES ASSUME TypeOK, OutcomeInTime, CountersMatchBook, [Next]_vars
             PROVE  CountersMatchBook'
  OBVIOUS
<1>0. payments \in [TxId -> Payment]
  BY DEF TypeOK
<1>1. CASE RolesStep \/ Tick \/ UNCHANGED vars
  BY <1>1 DEF RolesStep, Tick, vars, totals, CountersMatchBook, WithStatus
<1>2. ASSUME NEW t \in TxId, NEW terms \in Terms, NEW caller \in Caller,
             NEW rb \in BankAddress, OpenStep(t, terms, caller, rb)
      PROVE  CountersMatchBook'
  <2>1. payments[t].status = "PENDING"
    BY <1>2 DEF OpenStep, OutcomeInTime, InTime, Recorded
  <2>2. /\ payments'[t].status = "INITIATED"
        /\ \A u \in TxId \ {t} : payments'[u] = payments[u]
    BY <1>0, <1>2 DEF OpenStep
  <2>3. /\ WithStatus("CONFIRMED")' = WithStatus("CONFIRMED")
        /\ WithStatus("REJECTED")' = WithStatus("REJECTED")
    BY <2>1, <2>2 DEF WithStatus
  <2> QED
    BY <1>2, <2>3 DEF OpenStep, totals, CountersMatchBook
<1>3. ASSUME NEW t \in TxId, ConfirmStep(t)
      PROVE  CountersMatchBook'
  <2>1. /\ payments[t].status = "INITIATED" /\ payments'[t].status = "CONFIRMED"
        /\ \A u \in TxId \ {t} : payments'[u] = payments[u]
    BY <1>0, <1>3 DEF ConfirmStep, Awaiting, ConfirmInTime, Payment
  <2>2. /\ WithStatus("CONFIRMED")' = WithStatus("CONFIRMED") \cup {t}
        /\ t \notin WithStatus("CONFIRMED")
        /\ WithStatus("REJECTED")' = WithStatus("REJECTED")
    BY <2>1 DEF WithStatus
  <2>3. WithStatus("CONFIRMED") \subseteq TxId
    BY DEF WithStatus
  <2>4. /\ totalConfirmed' = (totalConfirmed + 1) % Word
        /\ totalRejected' = totalRejected
    BY <1>3 DEF ConfirmStep, ConfirmInTime
  <2> QED
    BY <2>2, <2>3, <2>4, CountOneMore DEF CountersMatchBook
<1>4. ASSUME NEW t \in TxId, RejectStep(t)
      PROVE  CountersMatchBook'
  <2>1. /\ payments[t].status = "INITIATED" /\ payments'[t].status = "REJECTED"
        /\ \A u \in TxId \ {t} : payments'[u] = payments[u]
    BY <1>0, <1>4 DEF RejectStep, Awaiting, Payment
  <2>2. /\ WithStatus("REJECTED")' = WithStatus("REJECTED") \cup {t}
        /\ t \notin WithStatus("REJECTED")
        /\ WithStatus("CONFIRMED")' = WithStatus("CONFIRMED")
    BY <2>1 DEF WithStatus
  <2>3. WithStatus("REJECTED") \subseteq TxId
    BY DEF WithStatus
  <2>4. /\ totalRejected' = (totalRejected + 1) % Word
        /\ totalConfirmed' = totalConfirmed
    BY <1>4 DEF RejectStep
  <2> QED
    BY <2>2, <2>3, <2>4, CountOneMore DEF CountersMatchBook
<1>5. ASSUME NEW t \in TxId, ExpireStep(t)
      PROVE  CountersMatchBook'
  <2>1. /\ payments[t].status = "INITIATED" /\ payments'[t].status = "EXPIRED"
        /\ \A u \in TxId \ {t} : payments'[u] = payments[u]
    BY <1>0, <1>5 DEF ExpireStep, MarkExpired, Awaiting, Payment
  <2>2. /\ WithStatus("CONFIRMED")' = WithStatus("CONFIRMED")
        /\ WithStatus("REJECTED")' = WithStatus("REJECTED")
    BY <2>1 DEF WithStatus
  <2> QED
    BY <1>5, <2>2 DEF ExpireStep, MarkExpired, totals, CountersMatchBook
<1> QED
  BY <1>1, <1>2, <1>3, <1>4, <1>5, StepCases

\* The counters count the confirmed and the rejected payments in every
\* reachable state, for every instance: they never wrap and never miss one.
THEOREM CountersCorrect == Spec => []CountersMatchBook
<1> QED
  BY TypeCorrect, OutcomeCorrect, CountersInit, CountersStep, PTL DEF Spec

-----------------------------------------------------------------------------
(* The volume.                                                             *)

\* The remainder is what is left below Word.
LEMMA RemainderIsUnique ==
  ASSUME NEW a \in Nat, NEW b \in Nat, NEW r \in 0 .. (Word - 1), NEW s \in 0 .. (Word - 1),
         a * Word + r = b * Word + s
  PROVE  r = s
<1>1. ASSUME NEW x \in Nat, NEW y \in Nat, x < y PROVE x * Word + Word <= y * Word
  <2>1. y = x + 1 + (y - x - 1) /\ y - x - 1 \in Nat
    BY <1>1
  <2> DEFINE d == y - x - 1
  <2>2. y * Word = x * Word + Word + d * Word
    BY <2>1, WordIsPositive
  <2>3. d * Word \in Nat /\ x * Word \in Nat /\ y * Word \in Nat
    BY <2>1, WordIsPositive
  <2> HIDE DEF d
  <2> QED
    BY <2>2, <2>3, WordIsPositive
<1>2. a * Word \in Nat /\ b * Word \in Nat
  BY WordIsPositive
<1>3. CASE a < b
  BY <1>1, <1>2, <1>3, WordIsPositive
<1>4. CASE b < a
  BY <1>1, <1>2, <1>4, WordIsPositive
<1>5. CASE a = b
  BY <1>2, <1>5, WordIsPositive
<1> QED
  BY <1>3, <1>4, <1>5

\* A modulo taken in between does not matter.
LEMMA ModuloOfSum == \A m, n \in Nat : ((m % Word) + n) % Word = (m + n) % Word
<1>1. ASSUME NEW x \in Nat
      PROVE  x % Word \in 0 .. (Word - 1) /\ x \div Word \in Nat /\ x = (x \div Word) * Word + (x % Word)
  BY WordIsPositive
<1> SUFFICES ASSUME NEW m \in Nat, NEW n \in Nat PROVE ((m % Word) + n) % Word = (m + n) % Word
  OBVIOUS
<1> DEFINE q == m \div Word
           x == (m % Word) + n
           p == x \div Word
           r == x % Word
           z == m + n
           k == z \div Word
           s == z % Word
<1>2. /\ q \in Nat /\ x \in Nat /\ m = q * Word + (m % Word) /\ m % Word \in Nat
      /\ z \in Nat /\ z = m + n
  BY <1>1, WordIsPositive
<1>3. z = q * Word + x
  <2>1. q * Word \in Nat
    BY <1>2, WordIsPositive
  <2> HIDE DEF q
  <2> QED
    BY <1>2, <2>1
<1>4. p \in Nat /\ r \in 0 .. (Word - 1) /\ x = p * Word + r
  BY <1>1, <1>2
<1>5. k \in Nat /\ s \in 0 .. (Word - 1) /\ z = k * Word + s
  BY <1>1, <1>2
<1> HIDE DEF q, x, p, r, z, k, s
<1>6. (q + p) * Word + r = k * Word + s
  <2>1. (q + p) * Word = q * Word + p * Word
    BY <1>2, <1>4, WordIsPositive
  <2>2. q * Word \in Nat /\ p * Word \in Nat /\ k * Word \in Nat
    BY <1>2, <1>4, <1>5, WordIsPositive
  <2> QED
    BY <1>3, <1>4, <1>5, <2>1, <2>2, WordIsPositive
<1>7. r = s
  <2>1. q + p \in Nat
    BY <1>2, <1>4
  <2> QED
    BY <1>4, <1>5, <1>6, <2>1, RemainderIsUnique
<1> QED
  BY <1>7 DEF r, s, x, z

\* The units of a book: with that their number is finite, VolumeMatchesBook is inductive.
Units(book) ==
  UNION {{t} \X (1 .. book[t].terms.destAmount) : t \in {u \in TxId : book[u].status = "CONFIRMED"}}

VolumeOf(book, volume) == IsFiniteSet(Units(book)) /\ volume = Cardinality(Units(book)) % Word

LEMMA UnitOf ==
  ASSUME NEW book, NEW c
  PROVE  c \in Units(book) <=>
           \E t \in TxId : /\ book[t].status = "CONFIRMED"
                           /\ \E n \in 1 .. book[t].terms.destAmount : c = <<t, n>>
  BY DEF Units

\* Only the payments that are confirmed, and what they pay out, count.
LEMMA UnitsSame ==
  ASSUME NEW book, NEW after,
         \A t \in TxId : /\ after[t].status = "CONFIRMED" <=> book[t].status = "CONFIRMED"
                         /\ book[t].status = "CONFIRMED" => after[t].terms = book[t].terms
  PROVE  Units(after) = Units(book)
<1>1. ASSUME NEW c PROVE c \in Units(after) <=> c \in Units(book)
  BY UnitOf
<1> QED
  BY <1>1

\* A payment that becomes confirmed adds its amount.
LEMMA UnitsOneMore ==
  ASSUME NEW book, NEW after, NEW t \in TxId, NEW d \in Nat, after[t].terms.destAmount = d,
         book[t].status # "CONFIRMED", after[t].status = "CONFIRMED",
         \A u \in TxId \ {t} : after[u] = book[u],
         IsFiniteSet(Units(book))
  PROVE  IsFiniteSet(Units(after)) /\ Cardinality(Units(after)) = Cardinality(Units(book)) + d
<1> DEFINE pile == {t} \X (1 .. d)
<1>1. IsFiniteSet(pile) /\ Cardinality(pile) = d
  <2>1. IsFiniteSet(1 .. d) /\ Cardinality(1 .. d) = d
    BY FS_Interval
  <2>2. IsFiniteSet({t}) /\ Cardinality({t}) = 1
    BY FS_Singleton
  <2>3. IsFiniteSet(pile) /\ Cardinality(pile) = Cardinality({t}) * Cardinality(1 .. d)
    BY <2>1, <2>2, FS_Product, Zenon
  <2> QED
    BY <2>1, <2>2, <2>3
<1>2. \A c : c \in pile <=> \E n \in 1 .. d : c = <<t, n>>
  OBVIOUS
<1> HIDE DEF pile
<1>3. Units(after) = Units(book) \cup pile
  <2>1. ASSUME NEW c PROVE c \in Units(after) <=> c \in Units(book) \/ c \in pile
    BY <1>2, UnitOf
  <2> QED
    BY <2>1
<1>4. Units(book) \cap pile = {}
  BY <1>2, UnitOf
<1>5. /\ IsFiniteSet(Units(after))
      /\ Cardinality(Units(after)) = Cardinality(Units(book)) + Cardinality(pile) - Cardinality(Units(book) \cap pile)
  BY <1>1, <1>3, FS_Union
<1>6. Cardinality(Units(book)) \in Nat /\ Cardinality(Units(book) \cap pile) = 0
  BY <1>4, FS_CardinalityType, FS_EmptySet
<1> QED
  BY <1>1, <1>5, <1>6

LEMMA VolumeMeans == VolumeOf(payments, totalVolume) => VolumeMatchesBook
  BY Zenon DEF VolumeOf, VolumeMatchesBook, BookVolume, ConfirmedUnits, Units, DestAmount, WithStatus

LEMMA VolumeInit == Init => VolumeOf(payments, totalVolume)
<1> SUFFICES ASSUME Init PROVE VolumeOf(payments, totalVolume)
  OBVIOUS
<1>1. Units(payments) = {}
  BY UnitOf DEF Init, BlankPayment
<1>2. 0 % Word = 0
  BY WordIsPositive, SmallModulo
<1> QED
  BY <1>1, <1>2, FS_EmptySet DEF Init, VolumeOf

\* The volume moves by the amount of a payment exactly when that is confirmed.
LEMMA VolumeStep ==
  TypeOK /\ OutcomeInTime /\ VolumeOf(payments, totalVolume) /\ [Next]_vars
    => VolumeOf(payments', totalVolume')
<1> SUFFICES ASSUME TypeOK, OutcomeInTime, VolumeOf(payments, totalVolume), [Next]_vars
             PROVE  VolumeOf(payments', totalVolume')
  OBVIOUS
<1>0. payments \in [TxId -> Payment]
  BY DEF TypeOK
<1>1. CASE RolesStep \/ Tick \/ UNCHANGED vars
  <2>1. UNCHANGED <<payments, totalVolume>>
    BY <1>1 DEF RolesStep, Tick, vars, totals
  <2> QED
    BY <2>1
<1>2. ASSUME NEW t \in TxId, totalVolume' = totalVolume,
             payments[t].status # "CONFIRMED", payments'[t].status # "CONFIRMED",
             \A u \in TxId \ {t} : payments'[u] = payments[u]
      PROVE  VolumeOf(payments', totalVolume')
  <2>1. Units(payments') = Units(payments)
    BY <1>2, UnitsSame
  <2> QED
    BY <1>2, <2>1 DEF VolumeOf
<1>3. ASSUME NEW t \in TxId, NEW terms \in Terms, NEW caller \in Caller,
             NEW rb \in BankAddress, OpenStep(t, terms, caller, rb)
      PROVE  VolumeOf(payments', totalVolume')
  <2>1. payments[t].status = "PENDING"
    BY <1>3 DEF OpenStep, OutcomeInTime, InTime, Recorded
  <2>2. /\ payments'[t].status = "INITIATED" /\ totalVolume' = totalVolume
        /\ \A u \in TxId \ {t} : payments'[u] = payments[u]
    BY <1>0, <1>3 DEF OpenStep, totals
  <2> QED
    BY <1>2, <2>1, <2>2
<1>4. ASSUME NEW t \in TxId, ConfirmStep(t)
      PROVE  VolumeOf(payments', totalVolume')
  <2> DEFINE d == payments[t].terms.destAmount
  <2>1. /\ payments[t].status = "INITIATED" /\ payments'[t].status = "CONFIRMED"
        /\ payments'[t].terms.destAmount = d
        /\ \A u \in TxId \ {t} : payments'[u] = payments[u]
    BY <1>0, <1>4 DEF ConfirmStep, Awaiting, ConfirmInTime, Payment
  <2>2. totalVolume' = (totalVolume + d) % Word
    BY <1>4 DEF ConfirmStep, ConfirmInTime
  <2>3. d \in Nat
    BY DestAmountIsNat
  <2> HIDE DEF d
  <2>4. IsFiniteSet(Units(payments)) /\ totalVolume = Cardinality(Units(payments)) % Word
    BY DEF VolumeOf
  <2>5. /\ IsFiniteSet(Units(payments'))
        /\ Cardinality(Units(payments')) = Cardinality(Units(payments)) + d
    BY <2>1, <2>3, <2>4, UnitsOneMore
  <2>6. Cardinality(Units(payments)) \in Nat
    BY <2>4, FS_CardinalityType
  <2> QED
    BY <2>2, <2>3, <2>4, <2>5, <2>6, ModuloOfSum DEF VolumeOf
<1>5. ASSUME NEW t \in TxId, RejectStep(t) \/ ExpireStep(t)
      PROVE  VolumeOf(payments', totalVolume')
  <2>1. /\ payments[t].status = "INITIATED" /\ payments'[t].status \in {"REJECTED", "EXPIRED"}
        /\ totalVolume' = totalVolume
        /\ \A u \in TxId \ {t} : payments'[u] = payments[u]
    BY <1>0, <1>5 DEF RejectStep, ExpireStep, MarkExpired, Awaiting, Payment, totals
  <2> QED
    BY <1>2, <2>1
<1> QED
  BY <1>1, <1>3, <1>4, <1>5, StepCases

\* totalVolume is the sum of the confirmed amounts modulo the word size, for any
\* amounts: however often the unchecked addition wraps, nothing else is lost.
THEOREM VolumeCorrect == Spec => []VolumeMatchesBook
<1>1. TypeOK /\ OutcomeInTime /\ VolumeOf(payments, totalVolume) /\ [Next]_vars
        => VolumeOf(payments, totalVolume)'
  BY VolumeStep
<1>2. VolumeOf(payments, totalVolume) => VolumeMatchesBook
  BY VolumeMeans
<1> QED
  BY <1>1, <1>2, TypeCorrect, OutcomeCorrect, VolumeInit, PTL DEF Spec

-----------------------------------------------------------------------------
(* Action properties.                                                      *)

\* What a step does to one record: nothing, a first write, or the closing of
\* an open payment.
LEMMA RecordStep ==
  ASSUME TypeOK, [Next]_vars, NEW u \in TxId
  PROVE  \/ payments'[u] = payments[u]
         \/ /\ ~Recorded(u) /\ ~paused
            /\ payments'[u].status = "INITIATED"
         \/ /\ Awaiting(u) /\ SameContent(payments[u], payments'[u])
            /\ \/ /\ payments'[u].status = "CONFIRMED" /\ ~paused
                  /\ payments[u].receiverBank \in hasRole[BANK]
               \/ payments'[u].status = "REJECTED" /\ ~paused
               \/ payments'[u].status = "EXPIRED"
<1>0. payments \in [TxId -> Payment] /\ payments[u] \in Payment
  BY DEF TypeOK
<1>1. CASE RolesStep \/ Tick \/ UNCHANGED vars
  BY <1>1 DEF RolesStep, Tick, vars
<1>2. ASSUME NEW t \in TxId, NEW terms \in Terms, NEW caller \in Caller,
             NEW rb \in BankAddress, OpenStep(t, terms, caller, rb)
      PROVE  \/ payments'[u] = payments[u]
             \/ /\ ~Recorded(u) /\ ~paused
                /\ payments'[u].status = "INITIATED"
  BY <1>0, <1>2 DEF OpenStep
<1>3. ASSUME NEW t \in TxId, ConfirmStep(t) \/ RejectStep(t) \/ ExpireStep(t)
      PROVE  \/ payments'[u] = payments[u]
             \/ /\ Awaiting(u)
                /\ \/ /\ payments'[u].status = "CONFIRMED" /\ ~paused
                      /\ payments[u].receiverBank \in hasRole[BANK]
                   \/ payments'[u].status = "REJECTED" /\ ~paused
                   \/ payments'[u].status = "EXPIRED"
  BY <1>0, <1>3
  DEF ConfirmStep, RejectStep, ExpireStep, ConfirmInTime, MarkExpired, Payment
<1> QED
  BY <1>1, <1>2, <1>3, ContentKept, StepCases

\* The step form of BookIsAppendOnly.
LEMMA AppendOnlyStep ==
  ASSUME TypeOK, OutcomeInTime, [Next]_vars, NEW u \in TxId
  PROVE  /\ Recorded(u) => SameContent(payments[u], payments'[u])
         /\ payments[u].status \in {"CONFIRMED", "REJECTED", "EXPIRED"} =>
              payments'[u] = payments[u]
<1>1. payments[u].status = "PENDING" <=> ~Recorded(u)
  BY DEF OutcomeInTime, InTime, Recorded
<1> QED
  BY <1>1, RecordStep DEF Awaiting, SameContent

\* BookIsAppendOnly holds of every behaviour, for every instance.
THEOREM AppendOnlyCorrect == Spec => BookIsAppendOnly
<1>1. TypeOK /\ OutcomeInTime /\ [Next]_vars =>
        [\A t \in TxId :
           /\ Recorded(t) => SameContent(payments[t], payments'[t])
           /\ payments[t].status \in {"CONFIRMED", "REJECTED", "EXPIRED"} =>
                payments'[t] = payments[t]]_vars
  BY AppendOnlyStep
<1> QED
  BY <1>1, TypeCorrect, OutcomeCorrect, PTL DEF Spec, BookIsAppendOnly

\* PauseFreezesPayments holds of every behaviour, for every instance.
THEOREM PauseCorrect == Spec => PauseFreezesPayments
<1>1. TypeOK /\ [Next]_vars =>
        [paused => \A t \in TxId : \/ payments'[t] = payments[t]
                                   \/ payments'[t].status = "EXPIRED"]_vars
  BY RecordStep
<1> QED
  BY <1>1, TypeCorrect, PTL DEF Spec, PauseFreezesPayments

\* OnlyStandingBankConfirms holds of every behaviour, for every instance.
THEOREM StandingBankCorrect == Spec => OnlyStandingBankConfirms
<1>1. TypeOK /\ [Next]_vars =>
        [\A t \in TxId :
           payments'[t].status = "CONFIRMED" /\ payments[t].status # "CONFIRMED"
             => payments[t].receiverBank \in hasRole[BANK]]_vars
  BY RecordStep
<1> QED
  BY <1>1, TypeCorrect, PTL DEF Spec, OnlyStandingBankConfirms

\* The step form of AbandonedForGood.
LEMMA AbandonedStep ==
  ASSUME TypeOK, Abandoned, [Next]_vars
  PROVE  Abandoned'
<1>0. ADMIN \in Role /\ hasRole \in [Role -> SUBSET Caller] /\ hasRole[ADMIN] = {}
  BY DEF Role, TypeOK, Abandoned
<1>1. CASE Administration
  <2>1. PICK role \in Role, account \in Caller : RevokeFrom(role, account)
    BY <1>0, <1>1
    DEF Administration, AddBank, RemoveBank, AddRelayer, GrantRole, RevokeRole,
        RenounceRole, Pause, Unpause, SetPaused
  <2>2. hasRole'[ADMIN] = {} /\ paused' = paused
    BY <1>0, <2>1 DEF RevokeFrom
  <2> QED
    BY <2>2 DEF Abandoned
<1>2. CASE ~Administration
  <2>1. UNCHANGED roleVars
    BY <1>2
    DEF Next, Initiation, InitiatePayment, Settlement, ConfirmPayment,
        ConfirmInTime, ConfirmTooLate, RejectPayment, ExpirePayment, MarkExpired,
        Tick, vars, roleVars
  <2> QED
    BY <2>1 DEF Abandoned, roleVars
<1> QED
  BY <1>1, <1>2

\* AbandonedForGood holds of every behaviour, for every instance.
THEOREM AbandonedCorrect == Spec => AbandonedForGood
<1>1. TypeOK /\ [Next]_vars =>
        [Abandoned => /\ Abandoned'
                      /\ \A t \in TxId : \/ payments'[t] = payments[t]
                                         \/ payments'[t].status = "EXPIRED"]_vars
  BY AbandonedStep, RecordStep DEF Abandoned
<1> QED
  BY <1>1, TypeCorrect, PTL DEF Spec, AbandonedForGood

-----------------------------------------------------------------------------
(* Refinement of PaymentLifecycle.                                         *)

\* The empty book is the initial state of the lifecycle.
LEMMA LifecycleInit == Init => Lifecycle!Init
<1> SUFFICES ASSUME Init PROVE Lifecycle!Init
  OBVIOUS
<1>1. \A t \in TxId : /\ PhaseOf(payments[t].status) = "none"
                      /\ payments[t].terms.deadline = 0
  BY DEF Init, BlankPayment, BlankTerms, PhaseOf
<1>2. now \in Nat
  BY DEF Init
<1> QED
  BY <1>1, <1>2 DEF Lifecycle!Init

\* The lifecycle phase of each status.
LEMMA PhaseNames ==
  /\ PhaseOf("INITIATED") = "open" /\ PhaseOf("CONFIRMED") = "settled"
  /\ PhaseOf("REJECTED") = "cancelled" /\ PhaseOf("EXPIRED") = "lapsed"
  BY DEF PhaseOf

\* Changing the status of one payment changes its phase and no other.
LEMMA PhaseChange ==
  ASSUME NEW t \in TxId, NEW s, payments'[t].status = s,
         \A u \in TxId \ {t} : payments'[u] = payments[u]
  PROVE  [u \in TxId |-> PhaseOf(payments[u].status)]' =
           [[u \in TxId |-> PhaseOf(payments[u].status)] EXCEPT ![t] = PhaseOf(s)]
  OBVIOUS

\* The lifecycle sees of a step the phase and the due time of each payment.
LEMMA LifecycleStep ==
  TypeOK /\ TypeOK' /\ OutcomeInTime /\ [Next]_vars =>
    [Lifecycle!Next]_<<[t \in TxId |-> PhaseOf(payments[t].status)],
                       [t \in TxId |-> payments[t].terms.deadline], now>>
<1> DEFINE phase == [t \in TxId |-> PhaseOf(payments[t].status)]
           due == [t \in TxId |-> payments[t].terms.deadline]
<1> SUFFICES ASSUME TypeOK, TypeOK', OutcomeInTime, [Next]_vars
             PROVE  Lifecycle!Next \/ UNCHANGED <<phase, due, now>>
  OBVIOUS
<1>0. payments \in [TxId -> Payment] /\ payments' \in [TxId -> Payment]
  BY DEF TypeOK
<1>1. CASE RolesStep \/ UNCHANGED vars
  BY <1>1 DEF RolesStep, vars
<1>2. CASE Tick
  <2>1. now' = now + 1 /\ payments' = payments
    BY <1>2 DEF Tick
  <2>2. now \in Nat
    BY DEF TypeOK
  <2>3. Lifecycle!Advance
    BY <2>1, <2>2 DEF Lifecycle!Advance
  <2> QED
    BY <2>3 DEF Lifecycle!Next
<1>3. ASSUME NEW t \in TxId, NEW terms \in Terms, NEW caller \in Caller,
             NEW rb \in BankAddress, OpenStep(t, terms, caller, rb)
      PROVE  Lifecycle!Next
  <2>1. PhaseOf(payments[t].status) = "none"
    BY <1>3 DEF OpenStep, WellFormed, OutcomeInTime, InTime, Recorded, PhaseOf
  <2>2. /\ payments'[t].status = "INITIATED" /\ payments'[t].terms = terms
        /\ \A u \in TxId \ {t} : payments'[u] = payments[u]
        /\ terms.deadline > now /\ now' = now
    BY <1>0, <1>3 DEF OpenStep, WellFormed
  <2>3. due' \in [TxId -> Nat]
    BY <1>0, TimesOfRecordNext
  <2>4. phase' = [phase EXCEPT ![t] = "open"]
    BY <2>2, PhaseChange, PhaseNames
  <2>5. due'[t] > now /\ \A u \in TxId \ {t} : due'[u] = due[u]
    BY <2>2
  <2>6. Lifecycle!Open(t)
    BY <2>1, <2>2, <2>3, <2>4, <2>5 DEF Lifecycle!Open
  <2> QED
    BY <2>6 DEF Lifecycle!Next
<1>4. ASSUME NEW t \in TxId, ConfirmStep(t) \/ RejectStep(t) \/ ExpireStep(t)
      PROVE  Lifecycle!Next
  <2>1. phase[t] = "open"
    BY <1>4 DEF ConfirmStep, RejectStep, ExpireStep, Awaiting, PhaseOf
  <2>2. due' = due /\ now' = now
    <3>1. \A u \in TxId : payments'[u].terms = payments[u].terms
      BY <1>4, ContentKept DEF SameContent
    <3>2. now' = now
      BY <1>4 DEF ConfirmStep, RejectStep, ExpireStep, ConfirmInTime, MarkExpired
    <3> QED
      BY <3>1, <3>2
  <2>3. \A u \in TxId \ {t} : payments'[u] = payments[u]
    BY <1>0, <1>4
    DEF ConfirmStep, RejectStep, ExpireStep, ConfirmInTime, MarkExpired
  <2>4. CASE ConfirmStep(t)
    <3>1. payments'[t].status = "CONFIRMED"
      BY <1>0, <2>4 DEF ConfirmStep, ConfirmInTime, Payment
    <3>2. phase' = [phase EXCEPT ![t] = "settled"]
      BY <2>3, <3>1, PhaseChange, PhaseNames
    <3>3. now <= due[t]
      BY <2>4, TimesOfRecord DEF ConfirmStep, ConfirmInTime, Overdue
    <3> QED
      BY <2>1, <2>2, <3>2, <3>3
      DEF Lifecycle!Next, Lifecycle!Settle, Lifecycle!Leave
  <2>5. CASE RejectStep(t)
    <3>1. payments'[t].status = "REJECTED"
      BY <1>0, <2>5 DEF RejectStep, Payment
    <3>2. phase' = [phase EXCEPT ![t] = "cancelled"]
      BY <2>3, <3>1, PhaseChange, PhaseNames
    <3> QED
      BY <2>1, <2>2, <3>2 DEF Lifecycle!Next, Lifecycle!Cancel, Lifecycle!Leave
  <2>6. CASE ExpireStep(t)
    <3>1. payments'[t].status = "EXPIRED"
      BY <1>0, <2>6 DEF ExpireStep, MarkExpired, Payment
    <3>2. phase' = [phase EXCEPT ![t] = "lapsed"]
      BY <2>3, <3>1, PhaseChange, PhaseNames
    <3>3. now > due[t]
      BY <2>6 DEF ExpireStep, Overdue
    <3> QED
      BY <2>1, <2>2, <3>2, <3>3
      DEF Lifecycle!Next, Lifecycle!Lapse, Lifecycle!Leave
  <2> QED
    BY <1>4, <2>4, <2>5, <2>6
<1> QED
  BY <1>1, <1>2, <1>3, <1>4, StepCases

\* Every behaviour of the contract is one of the payment lifecycle.
THEOREM LifecycleCorrect == Spec => ImplementsLifecycle
<1>1. TypeOK /\ OutcomeInTime /\ [Next]_vars => TypeOK'
  BY TypeStep
<1> QED
  BY <1>1, LifecycleInit, LifecycleStep, TypeCorrect, OutcomeCorrect, PTL
  DEF Spec, ImplementsLifecycle, Lifecycle!Spec

=============================================================================
