--------------------------- MODULE FxRates_proofs ---------------------------
(***************************************************************************)
(* Proofs about FxRates, for any number of callers and refreshes, any      *)
(* time-outs and any age limits.  The inductive invariant bounds, for each *)
(* place a rate can be in, the age it can have there: in the row when it   *)
(* was fetched, in the hands of a process since it waits there, in Redis   *)
(* when it expires.                                                        *)
(***************************************************************************)
EXTENDS FxRates, TLAPS

\* Nobody waits longer than it may.
Patient ==
  \A p \in Process :
    pc[p] # "idle" => since[p] <= now /\ now <= since[p] + Patience(p)

\* The row's rate is from the request that ended at fetched_at.
RowDated == row.fetched <= now /\ row.fetched - row.rate <= Timeout

\* What a process is about to store was taken when it began to wait.
StoreDated ==
  \A p \in Process :
    pc[p] = "store" => /\ held[p].fetched = since[p]
                       /\ held[p].fetched - held[p].rate <= Timeout

\* What it is about to cache, after a fetch or after a look at the row.
KeepDated ==
  \A p \in Process :
    pc[p] = "keep" => since[p] - held[p].rate <= Timeout + Latency

RecacheDated ==
  \A p \in Process :
    pc[p] = "recache" => since[p] - held[p].rate < FreshFor + Timeout + Latency

\* Redis forgets a rate early enough for a last reply to stay within the limit,
CacheDated == cache.until - cache.rate < AgeLimit - Latency

\* and so does a reply that is on its way.
HitDated ==
  \A p \in Process :
    pc[p] = "hit" => since[p] - held[p].rate < AgeLimit - Latency

IInv ==
  /\ TypeOK /\ Patient /\ RowDated
  /\ StoreDated /\ KeepDated /\ RecacheDated /\ HitDated
  /\ CacheDated /\ ServedRateIsRecent

-----------------------------------------------------------------------------
\* The inductive invariant holds when the server starts, whether or not the
\* rates were seeded.
LEMMA InitIInv == Init => IInv
  <1> SUFFICES ASSUME Init PROVE IInv
    OBVIOUS
  <1> USE TimesAssumption DEF Init
  <1>1. TypeOK
    BY DEF TypeOK, NoEntry, NoRow, NoAnswer, Row, Via, Process, Step, GetRateStep
  <1>2. Patient /\ StoreDated /\ KeepDated /\ RecacheDated /\ HitDated
    BY DEF Patient, StoreDated, KeepDated, RecacheDated, HitDated
  <1>3. RowDated /\ CacheDated
    BY DEF RowDated, CacheDated, NoRow, NoEntry, AgeLimit
  <1>4. ServedRateIsRecent
    BY DEF ServedRateIsRecent, NoAnswer
  <1>5. QED
    BY <1>1, <1>2, <1>3, <1>4 DEF IInv

\* What Await and Finish leave behind is typed.
Typed ==
  /\ pc' \in [Process -> Step]
  /\ \A r \in Refresh : pc'[r] \notin GetRateStep
  /\ since' \in [Process -> Nat]

\* A process that goes on to wait for a step that is its to take is typed.
LEMMA AwaitTyped ==
  ASSUME TypeOK, NEW p \in Process, NEW what \in Step, Await(p, what),
         p \in Refresh => what \notin GetRateStep
  PROVE  Typed
  BY DEF TypeOK, Await, Typed

\* So is one that is through, and what it answers.
LEMMA FinishTyped ==
  ASSUME TypeOK, NEW p \in Process, NEW via \in Via, NEW age \in Int, Finish(p, via, age)
  PROVE  /\ Typed
         /\ held' \in [Process -> Row]
         /\ answer' \in [Caller -> [via : Via, age : Int]]
  <1> USE DEF TypeOK, Finish
  <1>1. Typed
    BY DEF Typed, Step, GetRateStep
  <1>2. held' \in [Process -> Row]
    BY DEF Row, NoRow
  <1>3. [via |-> via, age |-> age] \in [via : Via, age : Int]
    OBVIOUS
  <1>4. answer' \in [Caller -> [via : Via, age : Int]]
    BY <1>3
  <1>5. QED
    BY <1>1, <1>2, <1>4

\* Every step of every process preserves it.
LEMMA NextIInv == IInv /\ [Next]_vars => IInv'
  <1> SUFFICES ASSUME IInv, [Next]_vars PROVE IInv'
    OBVIOUS
  <1> USE TimesAssumption DEF IInv
  <1>d. \A p \in Caller : p \in Process /\ p \notin Refresh
    BY InstanceAssumption DEF Process
  <1>1. ASSUME NEW c \in Caller, GetRate(c)
        PROVE IInv'
    <2> USE <1>1, <1>d DEF GetRate, Await, Hold
    <2>1. TypeOK'
      <3>1. Typed
        BY AwaitTyped DEF Step, GetRateStep
      <3>2. NoAnswer \in [via : Via, age : Int]
        BY DEF NoAnswer, Via
      <3>3. QED
        BY <3>1, <3>2 DEF TypeOK, Typed
    <2>2. Patient'
      BY DEF Patient, Patience, TypeOK
    <2>3. StoreDated'
      BY DEF StoreDated, TypeOK
    <2>4. KeepDated'
      BY DEF KeepDated, TypeOK
    <2>5. RecacheDated' /\ HitDated'
      BY DEF RecacheDated, HitDated, AgeLimit, TypeOK
    <2>6. RowDated'
      BY DEF RowDated
    <2>7. CacheDated'
      BY DEF CacheDated, AgeLimit
    <2>8. ServedRateIsRecent'
      BY DEF ServedRateIsRecent, TypeOK, NoAnswer
    <2>9. QED
      BY <2>1, <2>2, <2>3, <2>4, <2>5, <2>6, <2>7, <2>8
  <1>2. ASSUME NEW c \in Caller, ReadCache(c)
        PROVE IInv'
    <2> USE <1>2, <1>d DEF ReadCache, Await, Hold
    <2>1. TypeOK'
      <3>1. CASE pc' = [pc EXCEPT ![c] = "hit"] /\ Hold(c, cache.rate, 0) /\ UNCHANGED since
        BY <3>1 DEF TypeOK, Row, Step, GetRateStep
      <3>2. CASE Await(c, "row") /\ UNCHANGED held
        BY <3>2, AwaitTyped DEF TypeOK, Typed, Step, GetRateStep
      <3>3. QED
        BY <3>1, <3>2
    <2>2. Patient'
      BY DEF Patient, Patience, TypeOK
    <2>3. StoreDated'
      BY DEF StoreDated, TypeOK
    <2>4. KeepDated'
      BY DEF KeepDated, TypeOK
    <2>5. RecacheDated'
      BY DEF RecacheDated, TypeOK
    <2>6. HitDated'
      BY DEF HitDated, CacheDated, Patient, AgeLimit, TypeOK, Row
    <2>7. RowDated' /\ CacheDated'
      BY DEF RowDated, CacheDated, AgeLimit
    <2>8. ServedRateIsRecent'
      BY DEF ServedRateIsRecent
    <2>9. QED
      BY <2>1, <2>2, <2>3, <2>4, <2>5, <2>6, <2>7, <2>8
  <1>3. ASSUME NEW c \in Caller, Reply(c)
        PROVE IInv'
    <2> USE <1>3, <1>d DEF Reply, Finish
    <2>1. TypeOK'
      <3>1. now - held[c].rate \in Int
        BY DEF TypeOK, Row
      <3>2. QED
        BY <3>1, FinishTyped DEF TypeOK, Typed, Via
    <2>2. Patient'
      BY DEF Patient, Patience, TypeOK
    <2>3. StoreDated' /\ KeepDated'
      BY DEF StoreDated, KeepDated, TypeOK
    <2>4. RecacheDated' /\ HitDated'
      BY DEF RecacheDated, HitDated, AgeLimit, TypeOK
    <2>5. RowDated' /\ CacheDated'
      BY DEF RowDated, CacheDated, AgeLimit
    <2>6. ServedRateIsRecent'
      <3>1. now - held[c].rate < AgeLimit
        BY DEF HitDated, Patient, Patience, AgeLimit, TypeOK, Row
      <3>2. QED
        BY <3>1 DEF ServedRateIsRecent, TypeOK
    <2>7. QED
      BY <2>1, <2>2, <2>3, <2>4, <2>5, <2>6
  <1>4. ASSUME NEW c \in Caller, ReadRow(c)
        PROVE IInv'
    <2> USE <1>4, <1>d DEF ReadRow, Await, Hold, Finish, Fresh
    <2>1. TypeOK'
      <3>1. CASE Await(c, "recache") /\ Hold(c, row.rate, 0) /\ UNCHANGED answer
        <4>1. Typed
          BY <3>1, AwaitTyped DEF Step, GetRateStep
        <4>2. held' \in [Process -> Row]
          BY <3>1 DEF TypeOK, Row
        <4>3. QED
          BY <3>1, <4>1, <4>2 DEF TypeOK, Typed
      <3>2. CASE Await(c, "provider") /\ UNCHANGED <<held, answer>>
        BY <3>2, AwaitTyped DEF TypeOK, Typed, Step, GetRateStep
      <3>3. CASE Finish(c, "error", 0)
        <4>1. "error" \in Via /\ 0 \in Int /\ c \in Process /\ TypeOK
          BY DEF Via
        <4>2. Typed /\ held' \in [Process -> Row] /\ answer' \in [Caller -> [via : Via, age : Int]]
          BY ONLY <3>3, <4>1, FinishTyped
        <4>3. QED
          BY <4>2 DEF TypeOK, Typed
      <3>4. QED
        BY <3>1, <3>2, <3>3
    <2>2. Patient'
      BY DEF Patient, Patience, TypeOK
    <2>3. StoreDated'
      BY DEF StoreDated, TypeOK
    <2>4. KeepDated'
      BY DEF KeepDated, TypeOK
    <2>5. RecacheDated' /\ HitDated'
      <3>1. RecacheDated'
        BY DEF RecacheDated, RowDated, Patient, Patience, TypeOK, Row
      <3>2. HitDated'
        BY DEF HitDated, AgeLimit, TypeOK
      <3>3. QED
        BY <3>1, <3>2
    <2>6. RowDated'
      BY DEF RowDated
    <2>7. CacheDated'
      BY DEF CacheDated, AgeLimit
    <2>8. ServedRateIsRecent'
      BY DEF ServedRateIsRecent, TypeOK
    <2>9. QED
      BY <2>1, <2>2, <2>3, <2>4, <2>5, <2>6, <2>7, <2>8
  <1>5. ASSUME NEW r \in Refresh, StartRefresh(r)
        PROVE IInv'
    <2> USE <1>5, <1>d DEF StartRefresh, Await
    <2>1. TypeOK'
      BY AwaitTyped DEF TypeOK, Typed, Step, GetRateStep, Process
    <2>2. Patient'
      BY DEF Patient, Patience, TypeOK
    <2>3. StoreDated'
      BY DEF StoreDated, TypeOK
    <2>4. KeepDated'
      BY DEF KeepDated, TypeOK
    <2>5. RecacheDated' /\ HitDated'
      BY DEF RecacheDated, HitDated, AgeLimit, TypeOK
    <2>6. RowDated'
      BY DEF RowDated
    <2>7. CacheDated'
      BY DEF CacheDated, AgeLimit
    <2>8. ServedRateIsRecent'
      BY DEF ServedRateIsRecent
    <2>9. QED
      BY <2>1, <2>2, <2>3, <2>4, <2>5, <2>6, <2>7, <2>8
  <1>6. ASSUME NEW p \in Process, AskProvider(p)
        PROVE IInv'
    <2> USE <1>6, <1>d DEF AskProvider, Await, Hold
    <2>1. TypeOK'
      <3>1. Typed
        BY AwaitTyped DEF Step, GetRateStep
      <3>2. held' \in [Process -> Row]
        BY DEF TypeOK, Row
      <3>3. QED
        BY <3>1, <3>2 DEF TypeOK, Typed
    <2>2. Patient'
      BY DEF Patient, Patience, TypeOK
    <2>3. StoreDated'
      BY DEF StoreDated, Patient, Patience, TypeOK, Row
    <2>4. KeepDated'
      BY DEF KeepDated, TypeOK
    <2>5. RecacheDated' /\ HitDated'
      BY DEF RecacheDated, HitDated, AgeLimit, TypeOK
    <2>6. RowDated'
      BY DEF RowDated
    <2>7. CacheDated'
      BY DEF CacheDated, AgeLimit
    <2>8. ServedRateIsRecent'
      BY DEF ServedRateIsRecent
    <2>9. QED
      BY <2>1, <2>2, <2>3, <2>4, <2>5, <2>6, <2>7, <2>8
  <1>7. ASSUME NEW p \in Process, ProviderFails(p)
        PROVE IInv'
    <2> USE <1>7, <1>d DEF ProviderFails, Await
    <2>1. TypeOK'
      BY AwaitTyped DEF TypeOK, Typed, Step, GetRateStep
    <2>2. Patient'
      BY DEF Patient, Patience, TypeOK
    <2>3. StoreDated'
      BY DEF StoreDated, TypeOK
    <2>4. KeepDated'
      BY DEF KeepDated, TypeOK
    <2>5. RecacheDated' /\ HitDated'
      BY DEF RecacheDated, HitDated, AgeLimit, TypeOK
    <2>6. RowDated'
      BY DEF RowDated
    <2>7. CacheDated'
      BY DEF CacheDated, AgeLimit
    <2>8. ServedRateIsRecent'
      BY DEF ServedRateIsRecent
    <2>9. QED
      BY <2>1, <2>2, <2>3, <2>4, <2>5, <2>6, <2>7, <2>8
  <1>8. ASSUME NEW p \in Process, StoreRow(p)
        PROVE IInv'
    <2> USE <1>8, <1>d DEF StoreRow, Await
    <2>1. TypeOK'
      BY AwaitTyped DEF TypeOK, Typed, Step, GetRateStep
    <2>2. Patient'
      BY DEF Patient, Patience, TypeOK
    <2>3. StoreDated'
      BY DEF StoreDated, TypeOK
    <2>4. KeepDated'
      BY DEF KeepDated, StoreDated, Patient, Patience, TypeOK, Row
    <2>5. RecacheDated' /\ HitDated'
      BY DEF RecacheDated, HitDated, AgeLimit, TypeOK
    <2>6. RowDated'
      BY DEF RowDated, StoreDated, Patient, TypeOK, Row
    <2>7. CacheDated'
      BY DEF CacheDated, AgeLimit
    <2>8. ServedRateIsRecent'
      BY DEF ServedRateIsRecent
    <2>9. QED
      BY <2>1, <2>2, <2>3, <2>4, <2>5, <2>6, <2>7, <2>8
  <1>9. ASSUME NEW p \in Process, Fallback(p)
        PROVE IInv'
    <2> USE <1>9, <1>d DEF Fallback, Finish
    <2>1. TypeOK'
      <3>1. now - row.rate \in Int
        BY DEF TypeOK, Row
      <3>2. Typed /\ held' \in [Process -> Row] /\ answer' \in [Caller -> [via : Via, age : Int]]
        BY <3>1, FinishTyped DEF Via
      <3>3. QED
        BY <3>2 DEF TypeOK, Typed
    <2>2. Patient'
      BY DEF Patient, Patience, TypeOK
    <2>3. StoreDated'
      BY DEF StoreDated, TypeOK
    <2>4. KeepDated'
      BY DEF KeepDated, TypeOK
    <2>5. RecacheDated' /\ HitDated'
      BY DEF RecacheDated, HitDated, AgeLimit, TypeOK
    <2>6. RowDated'
      BY DEF RowDated
    <2>7. CacheDated'
      BY DEF CacheDated, AgeLimit
    <2>8. ServedRateIsRecent'
      BY DEF ServedRateIsRecent, TypeOK
    <2>9. QED
      BY <2>1, <2>2, <2>3, <2>4, <2>5, <2>6, <2>7, <2>8
  <1>10. ASSUME NEW p \in Process, CacheRate(p)
        PROVE IInv'
    <2> USE <1>10, <1>d DEF CacheRate, Finish
    <2>1. TypeOK'
      <3>1. now - held[p].rate \in Int /\ now + CacheTtl \in Int /\ held[p].rate \in Int
        BY DEF TypeOK, Row
      <3>2. pc[p] \in Via
        BY DEF Via
      <3>3. Typed /\ held' \in [Process -> Row] /\ answer' \in [Caller -> [via : Via, age : Int]]
        BY <3>1, <3>2, FinishTyped
      <3>4. QED
        BY <3>1, <3>3 DEF TypeOK, Typed
    <2>2. Patient'
      BY DEF Patient, Patience, TypeOK
    <2>3. StoreDated'
      BY DEF StoreDated, TypeOK
    <2>4. KeepDated'
      BY DEF KeepDated, TypeOK
    <2>5. RecacheDated' /\ HitDated'
      BY DEF RecacheDated, HitDated, AgeLimit, TypeOK
    <2>6. RowDated'
      BY DEF RowDated
    <2>7. CacheDated'
      BY DEF CacheDated, KeepDated, RecacheDated, Patient, Patience, AgeLimit, TypeOK, Row
    <2>8. ServedRateIsRecent'
      <3>1. now - held[p].rate < AgeLimit
        BY DEF KeepDated, RecacheDated, Patient, Patience, AgeLimit, TypeOK, Row
      <3>2. QED
        BY <3>1 DEF ServedRateIsRecent, TypeOK
    <2>9. QED
      BY <2>1, <2>2, <2>3, <2>4, <2>5, <2>6, <2>7, <2>8
  <1>11. ASSUME Tick PROVE IInv'
    <2> USE <1>11 DEF Tick
    <2>1. TypeOK' /\ Patient'
      BY DEF TypeOK, Patient, Patience
    <2>2. StoreDated' /\ KeepDated' /\ RecacheDated' /\ HitDated' /\ RowDated' /\ CacheDated'
      BY DEF StoreDated, KeepDated, RecacheDated, HitDated, RowDated, CacheDated, AgeLimit, TypeOK, Row
    <2>3. ServedRateIsRecent'
      BY DEF ServedRateIsRecent
    <2>4. QED
      BY <2>1, <2>2, <2>3
  <1>12. ASSUME UNCHANGED vars PROVE IInv'
    BY <1>12 DEF vars, TypeOK, Patient, Patience, StoreDated, KeepDated, RecacheDated, HitDated,
       RowDated, CacheDated, AgeLimit, ServedRateIsRecent
  <1>13. QED
    BY <1>1, <1>2, <1>3, <1>4, <1>5, <1>6, <1>7, <1>8, <1>9, <1>10, <1>11, <1>12 DEF Next, Fetch

\* The specification keeps the invariant.
LEMMA SpecIInv == Spec => []IInv
  BY InitIInv, NextIInv, PTL DEF Spec

-----------------------------------------------------------------------------
\* Every variable keeps its kind.
THEOREM TypeCorrect == Spec => []TypeOK
  BY SpecIInv, PTL DEF IInv

\* However calls, refreshes and failures interleave, and whatever the limits are,
\* a rate that is not a fallback was given by the provider less than the sum of
\* the layers' age limits ago.
THEOREM RatesServedRecent == Spec => []ServedRateIsRecent
  BY SpecIInv, PTL DEF IInv

\* Whatever order overlapping fetches store in, the row goes back by no more
\* than a query takes.
THEOREM RowRegressionBounded == Spec => RowRegressesByLatencyOnly
  <1>1. ASSUME IInv, [Next]_vars
        PROVE  row'.fetched >= row.fetched - Latency \/ UNCHANGED vars
    <2> USE <1>1, TimesAssumption DEF IInv
    <2>1. row.fetched \in Int /\ row.fetched <= now /\ now \in Nat
      BY DEF TypeOK, Row, RowDated
    <2>2. ASSUME NEW p \in Process, StoreRow(p)
          PROVE  row'.fetched >= row.fetched - Latency
      <3>1. now <= since[p] + Latency /\ held[p].fetched = since[p] /\ since[p] \in Nat
        BY <2>2 DEF StoreRow, Patient, Patience, StoreDated, TypeOK
      <3>2. row' = row \/ row' = held[p]
        BY <2>2 DEF StoreRow
      <3>3. QED
        BY <2>1, <3>1, <3>2
    <2>3. CASE UNCHANGED row
      BY <2>1, <2>3
    <2>4. QED
      BY <2>2, <2>3 DEF Next, Fetch, GetRate, ReadCache, Reply, ReadRow, StartRefresh, AskProvider,
         ProviderFails, Fallback, CacheRate, Tick
  <1>2. QED
    BY <1>1, SpecIInv, PTL DEF Spec, RowRegressesByLatencyOnly
=============================================================================
