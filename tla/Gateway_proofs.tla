--------------------------- MODULE Gateway_proofs ---------------------------
(***************************************************************************)
(* Proofs about the way of a request, for any users, routes served, limits,*)
(* length of the windows and number of requests at once: types, who came   *)
(* late registers no wallet, and how many transfers a customer gets past   *)
(* the limiter.                                                            *)
(***************************************************************************)
EXTENDS Gateway, FiniteSetTheorems, TLAPS

Requests == [stage : Stage, route : Served \cup {"none"}, user : User \cup {Nobody},
             answer : Answer, late : BOOLEAN, healthy : BOOLEAN]

\* A request under way is for a served route, and one with a token is a customer's; one
\* that came late belongs to a customer who has a wallet, and is not about to insert one.
Sound(q, table) ==
  /\ q \in Requests
  /\ q.stage # "done" => q.route \in Served
  /\ q.stage = "token" => q.user \in User
  /\ q.late => q.user \in User /\ (\E a \in Address : table[a] = q.user) /\ q.stage # "insert"

InOrder ==
  /\ slot \in [Slot -> Requests] /\ wallets \in [Address -> User \cup {Nobody}]
  /\ \A r \in Slot : Sound(slot[r], wallets)

\* A step of one request leaves it sound.
Moves(r) == \E q : Sound(q, wallets) /\ slot' = [slot EXCEPT ![r] = q]

\* The table of routes.
LEMMA RouteFacts ==
  ASSUME NEW route \in Served
  PROVE  /\ Routes[route].first \in {"work", "static", "covered", "lookup", "database"}
         /\ Routes[route].first = "lookup" => Routes[route].bearer
         /\ Routes[route].limiter \in Limiter \cup {"none"}
         /\ Routes[route].limiter = "transfer" => Routes[route].bearer
  BY RouteAssumption DEF Routes, Route, Limiter

LEMMA RespondMoves ==
  ASSUME NEW r \in Slot, NEW answer \in Answer, Respond(r, answer)
  PROVE  Moves(r)
<1> DEFINE q == [Idle EXCEPT !.answer = answer]
<1>1. Sound(q, wallets)
  BY DEF Sound, Requests, Stage, Idle
<1>2. slot' = [slot EXCEPT ![r] = q]
  BY Zenon DEF Respond
<1> QED
  BY <1>1, <1>2, Zenon DEF Moves

\* To any stage but the insert.
LEMMA StageMoves ==
  ASSUME NEW r \in Slot, NEW q, Sound(q, wallets), q.route \in Served,
         NEW stage \in Stage \ {"insert"}, stage = "token" => q.user \in User, slot' = [slot EXCEPT ![r] = [q EXCEPT !.stage = stage]]
  PROVE  Moves(r)
<1> DEFINE new == [q EXCEPT !.stage = stage]
<1>1. new \in Requests /\ new.route = q.route /\ new.user = q.user /\ new.late = q.late /\ new.stage = stage
  BY DEF Sound, Requests
<1>2. Sound(new, wallets)
  <2> HIDE DEF new
  <2> QED
    BY <1>1 DEF Sound
<1> QED
  BY <1>2, Zenon DEF Moves

LEMMA LimitMoves ==
  ASSUME NEW r \in Slot, NEW q, Sound(q, wallets), q.route \in Served, Limit(r, q)
  PROVE  Moves(r)
<1>1. ASSUME Handle(r, q) PROVE Moves(r)
  <2>1. \/ Respond(r, "refused") \/ Respond(r, "ok")
        \/ /\ Routes[q.route].first # "static"
           /\ slot' = [slot EXCEPT ![r] = [q EXCEPT !.stage = Routes[q.route].first]]
    BY <1>1, Zenon DEF Handle
  <2>2. Routes[q.route].first # "static" => Routes[q.route].first \in Stage \ {"insert", "token"}
    BY RouteFacts DEF Stage
  <2> QED
    BY <2>1, <2>2, RespondMoves, StageMoves DEF Answer
<1>2. Handle(r, q) \/ Respond(r, "refused")
  BY Zenon DEF Limit
<1> QED
  BY <1>1, <1>2, RespondMoves DEF Answer

LEMMA ArriveMoves ==
  ASSUME InOrder, NEW r \in Slot, Arrive(r)
  PROVE  Moves(r)
<1>1. PICK route \in Served, u \in User :
        LET req == [Idle EXCEPT !.route = route, !.user = IF Routes[route].bearer THEN u ELSE Nobody,
                                !.late = (Routes[route].first = "lookup" /\ HasPrimary(u))]
        IN  \/ Turn(r)
            \/ /\ Routes[route].bearer
               /\ slot' = [slot EXCEPT ![r] = [req EXCEPT !.stage = "token"]]
            \/ Limit(r, req)
  BY Zenon DEF Arrive
<1> DEFINE req == [Idle EXCEPT !.route = route, !.user = IF Routes[route].bearer THEN u ELSE Nobody,
                               !.late = (Routes[route].first = "lookup" /\ HasPrimary(u))]
<1>2. /\ req \in Requests /\ req.route = route /\ req.stage = "done"
      /\ req.user = IF Routes[route].bearer THEN u ELSE Nobody
      /\ req.late = (Routes[route].first = "lookup" /\ HasPrimary(u))
  <2>1. (Routes[route].first = "lookup" /\ HasPrimary(u)) \in BOOLEAN
    OBVIOUS
  <2> QED
    BY <2>1 DEF Requests, Idle, Stage, Answer
<1>3. Sound(req, wallets)
  <2> HIDE DEF req
  <2> QED
    BY <1>2, RouteFacts DEF Sound, HasPrimary
<1> HIDE DEF req
<1>4. \/ Turn(r)
      \/ Routes[route].bearer /\ slot' = [slot EXCEPT ![r] = [req EXCEPT !.stage = "token"]]
      \/ Limit(r, req)
  BY <1>1, Zenon DEF req
<1>5. CASE Turn(r)
  BY <1>5, RespondMoves DEF Turn, Answer
<1>6. CASE Routes[route].bearer /\ slot' = [slot EXCEPT ![r] = [req EXCEPT !.stage = "token"]]
  BY <1>2, <1>3, <1>6, StageMoves DEF Stage
<1> QED
  BY <1>2, <1>3, <1>4, <1>5, <1>6, LimitMoves

LEMMA ServeMoves ==
  ASSUME InOrder, NEW r \in Slot, Serve(r)
  PROVE  Moves(r)
<1>0. Sound(slot[r], wallets) /\ (slot[r].stage # "done" => slot[r].route \in Served)
  BY DEF InOrder, Sound
<1>1. CASE Authenticate(r)
  BY <1>0, <1>1, RespondMoves, LimitMoves DEF Authenticate, Answer
<1>2. CASE Work(r) \/ WorkCovered(r)
  BY <1>2, RespondMoves DEF Work, WorkCovered, Fail, Answer
<1>3. CASE Probe(r)
  <2>1. slot[r].stage # "done"
    BY <1>3 DEF Probe
  <2>2. \/ \E ok \in BOOLEAN : slot' = [slot EXCEPT ![r].stage = "redis", ![r].healthy = ok]
        \/ slot' = [slot EXCEPT ![r].stage = "chain"]
        \/ Respond(r, "ok") \/ Respond(r, "failed")
    BY <1>3 DEF Probe, To
  <2>3. ASSUME NEW ok \in BOOLEAN,
               slot' = [slot EXCEPT ![r].stage = "redis", ![r].healthy = ok]
        PROVE  Moves(r)
    <3> DEFINE q == [slot[r] EXCEPT !.healthy = ok]
    <3>1. /\ q \in Requests /\ q.route = slot[r].route /\ q.user = slot[r].user
          /\ q.late = slot[r].late /\ q.stage = slot[r].stage
      BY <1>0 DEF Sound, Requests
    <3>2. Sound(q, wallets)
      <4> HIDE DEF q
      <4> QED
        BY <1>0, <3>1 DEF Sound
    <3>3. slot' = [slot EXCEPT ![r] = [q EXCEPT !.stage = "redis"]]
      BY <2>3, <1>0 DEF InOrder, Sound, Requests
    <3> HIDE DEF q
    <3> QED
      BY <1>0, <2>1, <3>1, <3>2, <3>3, StageMoves DEF Stage
  <2>4. CASE slot' = [slot EXCEPT ![r].stage = "chain"]
    BY <1>0, <2>1, <2>4, StageMoves DEF Stage
  <2> QED
    BY <2>2, <2>3, <2>4, RespondMoves DEF Answer
<1>4. CASE LookupPrimary(r)
  <2>1. \/ Respond(r, "failed") \/ Respond(r, "refused")
        \/ ~HasPrimary(slot[r].user) /\ slot' = [slot EXCEPT ![r].stage = "insert"]
    BY <1>4, Zenon DEF LookupPrimary, Fail, To
  <2>2. CASE ~HasPrimary(slot[r].user) /\ slot' = [slot EXCEPT ![r].stage = "insert"]
    <3> DEFINE new == [slot[r] EXCEPT !.stage = "insert"]
    <3>1. new \in Requests /\ new.route = slot[r].route /\ new.late = slot[r].late /\ new.stage = "insert"
      BY <1>0 DEF Sound, Requests, Stage
    <3>2. slot[r].stage # "done" /\ ~slot[r].late
      BY <1>0, <1>4, <2>2 DEF LookupPrimary, Sound, HasPrimary
    <3>3. Sound(new, wallets)
      <4> HIDE DEF new
      <4> QED
        BY <1>0, <3>1, <3>2 DEF Sound
    <3> QED
      BY <2>2, <3>3, Zenon DEF Moves
  <2> QED
    BY <2>1, <2>2, RespondMoves DEF Answer
<1>5. CASE Insert(r)
  <2>1. Respond(r, "ok") \/ Respond(r, "failed")
    BY <1>5, Zenon DEF Insert, Fail
  <2> QED
    BY <2>1, RespondMoves DEF Answer
<1> QED
  BY <1>1, <1>2, <1>3, <1>4, <1>5 DEF Serve
-----------------------------------------------------------------------------
\* A customer's wallet is not taken away.
LEMMA PrimaryStays ==
  ASSUME InOrder, [Next]_vars
  PROVE  /\ wallets' \in [Address -> User \cup {Nobody}]
         /\ \A q : Sound(q, wallets) => Sound(q, wallets')
<1>1. ASSUME NEW r \in Slot, NEW a \in Address, wallets[a] = Nobody,
             wallets' = [wallets EXCEPT ![a] = slot[r].user]
      PROVE  /\ wallets' \in [Address -> User \cup {Nobody}]
             /\ \A q : Sound(q, wallets) => Sound(q, wallets')
  <2>1. wallets' \in [Address -> User \cup {Nobody}]
    BY <1>1 DEF InOrder, Sound, Requests
  <2>2. ASSUME NEW u \in User, \E b \in Address : wallets[b] = u
        PROVE  \E b \in Address : wallets'[b] = u
    BY <1>1, <2>2, CastAssumption DEF InOrder
  <2> QED
    BY <2>1, <2>2 DEF Sound
<1>2. CASE UNCHANGED wallets
  BY <1>2 DEF InOrder
<1>3. ASSUME NEW r \in Slot, Insert(r)
      PROVE  \/ UNCHANGED wallets
             \/ \E a \in Address : wallets[a] = Nobody /\ wallets' = [wallets EXCEPT ![a] = slot[r].user]
  BY <1>3, Zenon DEF Insert
<1>4. ASSUME ~\E r \in Slot : Insert(r) PROVE UNCHANGED wallets
  BY <1>4, Zenon DEF Next, Arrive, Serve, Authenticate, Work, WorkCovered, Probe, LookupPrimary,
                     Boot, Exit, Halt, Tick, vars
<1> QED
  BY <1>1, <1>2, <1>3, <1>4

LEMMA InOrderStep ==
  ASSUME InOrder, [Next]_vars
  PROVE  InOrder'
<1>1. \A q : Sound(q, wallets) => Sound(q, wallets')
  BY PrimaryStays
<1>2. ASSUME NEW r \in Slot, Moves(r) PROVE InOrder'
  <2>1. PICK q : Sound(q, wallets) /\ slot' = [slot EXCEPT ![r] = q]
    BY <1>2 DEF Moves
  <2>2. slot' \in [Slot -> Requests] /\ \A s \in Slot : slot'[s] = IF s = r THEN q ELSE slot[s]
    BY <2>1 DEF InOrder, Sound
  <2>3. ASSUME NEW s \in Slot PROVE Sound(slot[s], wallets') /\ Sound(q, wallets')
    BY <1>1, <2>1 DEF InOrder
  <2> QED
    BY <2>2, <2>3, PrimaryStays DEF InOrder
<1>3. CASE UNCHANGED slot
  BY <1>1, <1>3, PrimaryStays DEF InOrder
<1>4. CASE Halt
  BY <1>4, <1>1, PrimaryStays DEF Halt, InOrder, Sound, Requests, Stage, Answer, Idle
<1>5. \/ \E r \in Slot : Arrive(r) \/ Serve(r)
      \/ UNCHANGED slot \/ Halt
  BY Zenon DEF Next, Boot, Exit, Tick, vars
<1> QED
  BY <1>2, <1>3, <1>4, <1>5, ArriveMoves, ServeMoves

-----------------------------------------------------------------------------
(* The limiters.                                                           *)

\* The same entries one unit of time later, none dropped.
Older(past) == {<<d[1] + 1, d[2]>> : d \in past}

LEMMA OlderFacts ==
  ASSUME NEW past \in SUBSET (Nat \X Nat), IsFiniteSet(past)
  PROVE  IsFiniteSet(Older(past)) /\ Cardinality(Older(past)) = Cardinality(past)
<1> DEFINE f == [d \in past |-> <<d[1] + 1, d[2]>>]
<1>1. f \in [past -> Older(past)] /\ \A t \in Older(past) : \E d \in past : f[d] = t
  BY DEF Older
<1>2. ASSUME NEW d \in past, NEW e \in past, f[d] = f[e] PROVE d = e
  <2>1. d[1] \in Nat /\ e[1] \in Nat /\ d[1] + 1 = e[1] + 1 /\ d[2] = e[2]
    BY <1>2
  <2>2. d = <<d[1], d[2]>> /\ e = <<e[1], e[2]>>
    OBVIOUS
  <2> QED
    BY <2>1, <2>2
<1>3. f \in Bijection(past, Older(past))
  <2> HIDE DEF f
  <2> QED
    BY <1>1, <1>2 DEF Bijection, Injection, Surjection, IsInjective
<1> QED
  BY <1>3, FS_Bijection DEF ExistsBijection

LEMMA AdmittedFacts ==
  ASSUME NEW past, IsFiniteSet(past)
  PROVE  \E n \in Nat : <<0, n>> \notin past /\ Admitted(past) = past \cup {<<0, n>>}
<1> DEFINE New == {0} \X (0..Cardinality(past))
<1>1. Cardinality(past) \in Nat
  BY FS_CardinalityType
<1>2. IsFiniteSet(0..Cardinality(past)) /\ Cardinality(0..Cardinality(past)) = Cardinality(past) + 1
  BY <1>1, FS_Interval
<1>3. IsFiniteSet({0}) /\ Cardinality({0}) = 1
  BY FS_Singleton
<1>4. Cardinality(New) = Cardinality(past) + 1
  <2>1. Cardinality(New) = Cardinality({0}) * Cardinality(0..Cardinality(past))
    BY <1>2, <1>3, FS_Product
  <2> QED
    BY <1>1, <1>2, <1>3, <2>1
<1>5. \E e \in New : e \notin past
  <2>1. ASSUME New \in SUBSET past PROVE FALSE
    BY <1>1, <1>4, <2>1, FS_Subset
  <2> QED
    BY <2>1
<1>6. PICK e \in New : e \notin past /\ Admitted(past) = past \cup {e}
  BY <1>5 DEF Admitted
<1>7. e = <<0, e[2]>> /\ e[2] \in Nat
  BY <1>1
<1> QED
  BY <1>6, <1>7

\* What was admitted since the window w began.
Current(w, past) == {e \in past : e[1] <= WindowMs - w.left}

\* A window and the history it bounds: what it counts is what was admitted since its
\* first hit, which is the oldest of them; before that, fewer than max are remembered.
Limited(w, past, max) ==
  /\ w \in [hits : 0..max, left : 0..WindowMs] /\ (w.hits = 0 <=> w.left = 0)
  /\ past \in SUBSET ((0..WindowMs - 1) \X Nat) /\ IsFiniteSet(past)
  /\ w.hits = 0 => Cardinality(past) < max /\ \A e \in past : e[1] > 0
  /\ w.hits > 0 => /\ Cardinality(Current(w, past)) = w.hits
                   /\ \E e \in past : e[1] = WindowMs - w.left
                   /\ Cardinality(past \ Current(w, past)) < max

LEMMA LimitedLater ==
  ASSUME NEW max \in Nat \ {0}, NEW w, NEW past, Limited(w, past, max)
  PROVE  Limited(Later(w), Aged(past), max)
<1> DEFINE aged == Aged(past)
           cur == Current(w, past)
<1>0. WindowMs \in Nat \ {0}
  BY LimitAssumption
<1>1. /\ w \in [hits : 0..max, left : 0..WindowMs] /\ w.hits \in Nat /\ w.left \in Nat
      /\ past \in SUBSET (Nat \X Nat) /\ IsFiniteSet(past)
      /\ \A e \in past : e[1] \in 0..WindowMs - 1
  BY <1>0 DEF Limited
<1>2. /\ \A e \in aged : e[1] \in 1..WindowMs - 1 /\ e[2] \in Nat
      /\ aged \in SUBSET ((0..WindowMs - 1) \X Nat)
  BY <1>0, <1>1 DEF Aged
<1>3. ASSUME NEW S \in SUBSET past, NEW T \in SUBSET Older(S)
      PROVE  IsFiniteSet(S) /\ IsFiniteSet(T) /\ Cardinality(T) <= Cardinality(S)
             /\ Cardinality(T) \in Nat /\ Cardinality(S) \in Nat
  <2>1. S \in SUBSET (Nat \X Nat) /\ IsFiniteSet(S)
    BY <1>1, FS_Subset
  <2>2. IsFiniteSet(Older(S)) /\ Cardinality(Older(S)) = Cardinality(S)
    BY <2>1, OlderFacts
  <2> QED
    BY <2>1, <2>2, FS_Subset, FS_CardinalityType
<1>4. aged \in SUBSET Older(past)
  BY DEF Aged, Older
<1>5. IsFiniteSet(aged)
  BY <1>3, <1>4
<1>6. CASE w.hits = 0
  <2>1. Later(w) = NoHits
    BY <1>1, <1>6 DEF Later, Limited
  <2>2. Cardinality(aged) < max
    BY <1>3, <1>4, <1>6 DEF Limited
  <2>3. Limited(NoHits, aged, max)
    <3> HIDE DEF aged
    <3> QED
      BY <1>0, <1>2, <1>5, <2>2 DEF Limited, NoHits
  <2> QED
    BY <2>1, <2>3
<1>7. CASE w.left = 1
  <2>0. w.hits > 0
    BY <1>1, <1>7 DEF Limited
  <2>1. Later(w) = NoHits
    BY <1>7 DEF Later
  <2>2. PICK e \in past : e[1] = WindowMs - 1
    BY <1>7, <2>0 DEF Limited
  <2>3. cur = past
    BY <1>1, <1>7 DEF Current
  <2>4. Cardinality(past) = w.hits
    BY <2>0, <2>3 DEF Limited
  <2>5. aged \in SUBSET Older(past \ {e})
    BY <1>0, <1>1, <2>2 DEF Aged, Older
  <2>6. Cardinality(aged) <= Cardinality(past \ {e})
    BY <1>3, <2>5
  <2>7. Cardinality(past \ {e}) = Cardinality(past) - 1
    BY <1>1, FS_RemoveElement
  <2>8. Cardinality(aged) < max
    BY <1>1, <1>3, <1>4, <2>4, <2>6, <2>7
  <2>9. Limited(NoHits, aged, max)
    <3> HIDE DEF aged
    <3> QED
      BY <1>0, <1>2, <1>5, <2>8 DEF Limited, NoHits
  <2> QED
    BY <2>1, <2>9
<1>8. CASE w.left > 1
  <2> DEFINE v == Later(w)
  <2>0. w.hits > 0
    BY <1>1, <1>8 DEF Limited
  <2>1. v = [w EXCEPT !.left = @ - 1]
    BY <1>1, <1>8 DEF Later
  <2>2. v.hits = w.hits /\ v.left = w.left - 1 /\ v \in [hits : 0..max, left : 0..WindowMs]
    BY <1>0, <1>1, <1>8, <2>1
  <2>3. Current(v, aged) = Older(cur)
    BY <1>0, <1>1, <1>8, <2>2 DEF Current, Aged, Older
  <2>4. Cardinality(Current(v, aged)) = v.hits
    BY <1>1, <1>3, <2>0, <2>2, <2>3, OlderFacts, FS_Subset DEF Limited, Current
  <2>5. \E e \in aged : e[1] = WindowMs - v.left
    <3>1. PICK e \in past : e[1] = WindowMs - w.left
      BY <2>0 DEF Limited
    <3>2. <<e[1] + 1, e[2]>> \in aged
      BY <1>0, <1>1, <1>8, <3>1 DEF Aged
    <3> QED
      BY <1>0, <1>1, <2>2, <3>1, <3>2
  <2>6. aged \ Current(v, aged) \in SUBSET Older(past \ cur)
    BY <1>0, <1>1, <1>8, <2>2 DEF Current, Aged, Older
  <2>7. Cardinality(aged \ Current(v, aged)) < max
    <3>1. Cardinality(past \ cur) < max
      BY <2>0 DEF Limited
    <3>2. Cardinality(aged \ Current(v, aged)) <= Cardinality(past \ cur)
          /\ Cardinality(aged \ Current(v, aged)) \in Nat /\ Cardinality(past \ cur) \in Nat
      BY <1>3, <2>6
    <3> QED
      BY <3>1, <3>2
  <2>8. Limited(v, aged, max)
    <3> HIDE DEF aged, v
    <3> QED
      BY <1>1, <1>2, <1>5, <1>8, <2>0, <2>2, <2>4, <2>5, <2>7 DEF Limited
  <2> QED
    BY <2>8
<1> QED
  BY <1>1, <1>6, <1>7, <1>8 DEF Limited

\* A hit that is admitted.
LEMMA LimitedHit ==
  ASSUME NEW max \in Nat \ {0}, NEW w, NEW past, Limited(w, past, max), w.hits # max
  PROVE  Limited([hits |-> w.hits + 1, left |-> IF w.hits = 0 THEN WindowMs ELSE w.left],
                 Admitted(past), max)
<1> DEFINE v == [hits |-> w.hits + 1, left |-> IF w.hits = 0 THEN WindowMs ELSE w.left]
           cur == Current(w, past)
<1>0. WindowMs \in Nat \ {0}
  BY LimitAssumption
<1>1. /\ w.hits \in 0..max - 1 /\ w.left \in 0..WindowMs /\ (w.hits = 0 <=> w.left = 0)
      /\ past \in SUBSET ((0..WindowMs - 1) \X Nat) /\ IsFiniteSet(past)
  BY <1>0 DEF Limited
<1>2. /\ v.hits = w.hits + 1 /\ v.left = IF w.hits = 0 THEN WindowMs ELSE w.left
      /\ v \in [hits : 0..max, left : 0..WindowMs] /\ v.hits > 0 /\ v.left > 0
  BY <1>0, <1>1
<1>3. PICK n \in Nat : <<0, n>> \notin past /\ Admitted(past) = past \cup {<<0, n>>}
  BY <1>1, AdmittedFacts
<1> DEFINE e == <<0, n>>
           more == past \cup {e}
<1>4. more \in SUBSET ((0..WindowMs - 1) \X Nat) /\ e[1] = 0 /\ e \in more /\ e \notin past
  BY <1>0, <1>1, <1>3
<1>5. SUFFICES Limited(v, more, max)
  BY <1>3
<1> HIDE DEF v, e
<1>6. IsFiniteSet(more)
  BY <1>1, FS_AddElement
<1>7. CASE w.hits = 0
  <2>1. Current(v, more) = {e}
    BY <1>0, <1>1, <1>2, <1>4, <1>7 DEF Limited, Current
  <2>2. Cardinality({e}) = 1 /\ more \ {e} = past
    BY <1>4, FS_Singleton
  <2>3. Cardinality(past) < max
    BY <1>7 DEF Limited
  <2> HIDE DEF more
  <2> QED
    <3>1. Cardinality(Current(v, more)) = v.hits /\ Cardinality(more \ Current(v, more)) < max
      BY <1>2, <1>7, <2>1, <2>2, <2>3
    <3>2. e[1] = WindowMs - v.left
      BY <1>0, <1>2, <1>4, <1>7
    <3> QED
      BY <1>2, <1>4, <1>6, <3>1, <3>2 DEF Limited
<1>8. CASE w.hits > 0
  <2>1. Current(v, more) = cur \cup {e} /\ e \notin cur /\ cur \in SUBSET past
    BY <1>0, <1>1, <1>2, <1>4, <1>8 DEF Current
  <2>2. Cardinality(cur) = w.hits /\ IsFiniteSet(cur) /\ Cardinality(past \ cur) < max
    BY <1>1, <1>8, <2>1, FS_Subset DEF Limited
  <2> HIDE DEF cur
  <2>3. Cardinality(cur \cup {e}) = v.hits
    <3>1. Cardinality(cur \cup {e}) = Cardinality(cur) + 1
      BY <2>1, <2>2, FS_AddElement
    <3> QED
      BY <1>2, <2>2, <3>1
  <2>4. more \ (cur \cup {e}) = past \ cur
    BY <1>4
  <2>5. \E d \in more : d[1] = WindowMs - v.left
    BY <1>1, <1>2, <1>8 DEF Limited
  <2> HIDE DEF more
  <2> QED
    BY <1>1, <1>2, <1>4, <1>6, <1>8, <2>1, <2>2, <2>3, <2>4, <2>5 DEF Limited
<1> QED
  BY <1>1, <1>7, <1>8

LEMMA LimitedBounds ==
  ASSUME NEW max \in Nat \ {0}, NEW w, NEW past, Limited(w, past, max)
  PROVE  Cardinality(past) <= 2 * max - 1
<1> DEFINE cur == Current(w, past)
<1>0. IsFiniteSet(past) /\ w.hits \in 0..max
  BY DEF Limited
<1>1. IsFiniteSet(cur) /\ IsFiniteSet(past \ cur) /\ cur \cup (past \ cur) = past /\ cur \cap (past \ cur) = {}
  BY <1>0, FS_Subset, FS_Difference DEF Current
<1>2. Cardinality(past) = Cardinality(cur) + Cardinality(past \ cur)
      /\ Cardinality(cur) \in Nat /\ Cardinality(past \ cur) \in Nat
  <2> HIDE DEF cur
  <2>1. Cardinality(past) = Cardinality(cur) + Cardinality(past \ cur) - Cardinality(cur \cap (past \ cur))
    <3>1. Cardinality(cur \cup (past \ cur)) = Cardinality(cur) + Cardinality(past \ cur) - Cardinality(cur \cap (past \ cur))
      BY <1>1, FS_Union
    <3> QED
      BY <1>1, <3>1, Zenon
  <2>2. Cardinality(cur \cap (past \ cur)) = 0
    BY <1>1, FS_EmptySet
  <2>3. Cardinality(cur) \in Nat /\ Cardinality(past \ cur) \in Nat
    BY <1>1, FS_CardinalityType
  <2> QED
    BY <2>1, <2>2, <2>3
<1>3. Cardinality(past) \in Nat
  BY <1>0, FS_CardinalityType
<1>4. CASE w.hits = 0
  <2>1. Cardinality(past) < max
    BY <1>4 DEF Limited
  <2> QED
    BY <1>3, <2>1
<1>5. CASE w.hits > 0
  <2>1. Cardinality(cur) = w.hits /\ Cardinality(past \ cur) < max
    BY <1>5 DEF Limited
  <2> HIDE DEF cur
  <2> QED
    BY <1>0, <1>2, <2>1
<1> QED
  BY <1>0, <1>4, <1>5

\* Every window is in its bounds, and those of the transfers bound the histories.
Counted ==
  /\ window \in [Key -> [hits : Nat, left : 0..WindowMs]]
  /\ \A k \in Key : window[k].hits \in 0..Max[k[1]] /\ (window[k].hits = 0 <=> window[k].left = 0)
  /\ recent \in [User -> SUBSET ((0..WindowMs - 1) \X Nat)]
  /\ \A u \in User : Limited(window[<<"transfer", u>>], recent[u], Max["transfer"])

\* A step that counts one hit on the key k, if any.
Hit(k) ==
  /\ window[k].hits # Max[k[1]]
  /\ window' = [window EXCEPT ![k] = [hits |-> window[k].hits + 1,
                                     left |-> IF window[k].hits = 0 THEN WindowMs ELSE window[k].left]]
  /\ k[1] = "transfer" => k[2] \in User
  /\ recent' = IF k[1] = "transfer" THEN [recent EXCEPT ![k[2]] = Admitted(recent[k[2]])] ELSE recent

Counts == UNCHANGED <<window, recent>> \/ \E k \in Key : Hit(k)

\* Only customers' transfers are limited as transfers.
LEMMA LimitCounts ==
  ASSUME NEW r \in Slot, NEW q, q.route \in Served, Limit(r, q),
         Routes[q.route].bearer => q.user \in User
  PROVE  Counts
<1> DEFINE limiter == Routes[q.route].limiter
<1>1. CASE limiter = "none"
  BY <1>1, Zenon DEF Limit, Counts
<1>2. CASE limiter # "none"
  <2>1. PICK ip \in Ip :
          LET k == LimitKey(limiter, q, ip) IN
          \/ UNCHANGED <<window, recent>>
          \/ /\ window[k].hits # Max[limiter]
             /\ window' = [window EXCEPT ![k] =
                             [hits |-> window[k].hits + 1,
                              left |-> IF window[k].hits = 0 THEN WindowMs ELSE window[k].left]]
             /\ recent' = IF limiter = "transfer" THEN [recent EXCEPT ![q.user] = Admitted(recent[q.user])]
                          ELSE recent
    BY <1>2 DEF Limit
  <2> DEFINE k == LimitKey(limiter, q, ip)
  <2>2. limiter \in Limiter /\ (limiter = "transfer" => q.user \in User)
    BY <1>2, RouteFacts
  <2>3. k \in Key /\ k[1] = limiter /\ (limiter = "transfer" => k[2] = q.user)
    BY <2>2 DEF LimitKey, Key
  <2>4. UNCHANGED <<window, recent>> \/ Hit(k)
    <3> HIDE DEF limiter
    <3> QED
      BY <2>1, <2>2, <2>3 DEF Hit
  <2> HIDE DEF k, limiter
  <2> QED
    BY <2>3, <2>4, Zenon DEF Counts
<1> QED
  BY <1>1, <1>2

LEMMA RequestCounts ==
  ASSUME InOrder, NEW r \in Slot, Arrive(r) \/ Serve(r)
  PROVE  Counts
<1>1. CASE Arrive(r)
  <2>1. PICK route \in Served, u \in User :
          LET req == [Idle EXCEPT !.route = route, !.user = IF Routes[route].bearer THEN u ELSE Nobody,
                                  !.late = (Routes[route].first = "lookup" /\ HasPrimary(u))]
          IN  UNCHANGED <<window, recent>> \/ Limit(r, req)
    BY <1>1, Zenon DEF Arrive, Turn
  <2> DEFINE req == [Idle EXCEPT !.route = route, !.user = IF Routes[route].bearer THEN u ELSE Nobody,
                                 !.late = (Routes[route].first = "lookup" /\ HasPrimary(u))]
  <2>2. req.route = route /\ req.user = IF Routes[route].bearer THEN u ELSE Nobody
    BY DEF Idle
  <2>3. UNCHANGED <<window, recent>> \/ Limit(r, req)
    BY <2>1, Zenon
  <2> HIDE DEF req
  <2> QED
    BY <2>2, <2>3, LimitCounts DEF Counts
<1>2. CASE Authenticate(r)
  <2>1. slot[r].user \in User /\ slot[r].route \in Served
    BY <1>2 DEF Authenticate, InOrder, Sound
  <2> QED
    BY <1>2, <2>1, LimitCounts DEF Authenticate, Counts
<1> QED
  BY <1>1, <1>2, Zenon DEF Serve, Work, WorkCovered, Probe, LookupPrimary, Insert, Counts

LEMMA HitStep ==
  ASSUME Counted, NEW k \in Key, Hit(k)
  PROVE  Counted'
<1> DEFINE old == window[k]
           new == [hits |-> old.hits + 1, left |-> IF old.hits = 0 THEN WindowMs ELSE old.left]
<1>1. WindowMs \in Nat \ {0} /\ Max[k[1]] \in Nat \ {0} /\ Max["transfer"] \in Nat \ {0}
  BY LimitAssumption DEF Key, Limiter
<1>2. /\ new \in [hits : Nat, left : 0..WindowMs] /\ new.hits \in 0..Max[k[1]]
      /\ new.hits = 0 <=> new.left = 0
  <2>1. /\ old.hits \in 0..Max[k[1]] /\ old.hits # Max[k[1]] /\ old.left \in 0..WindowMs
        /\ (old.hits = 0 <=> old.left = 0)
    BY DEF Counted, Hit
  <2> HIDE DEF old
  <2> QED
    BY <1>1, <2>1
<1> HIDE DEF new
<1>3. window' = [window EXCEPT ![k] = new]
  BY DEF Hit, new
<1>4. window' \in [Key -> [hits : Nat, left : 0..WindowMs]] /\ \A j \in Key : window'[j] = IF j = k THEN new ELSE window[j]
  BY <1>2, <1>3 DEF Counted
<1>5. \A j \in Key : window'[j].hits \in 0..Max[j[1]] /\ (window'[j].hits = 0 <=> window'[j].left = 0)
  BY <1>2, <1>4 DEF Counted
<1>6. CASE k[1] # "transfer"
  <2>1. recent' = recent
    BY <1>6 DEF Hit
  <2>2. \A u \in User : window'[<<"transfer", u>>] = window[<<"transfer", u>>]
    BY <1>4, <1>6 DEF Key, Limiter
  <2> QED
    BY <1>4, <1>5, <2>1, <2>2 DEF Counted
<1>7. CASE k[1] = "transfer"
  <2> DEFINE v == k[2]
  <2>1. v \in User /\ k = <<"transfer", v>> /\ recent' = [recent EXCEPT ![v] = Admitted(recent[v])]
    BY <1>7 DEF Hit, Key
  <2> HIDE DEF v
  <2>2. Limited(old, recent[v], Max["transfer"]) /\ old.hits # Max["transfer"]
    BY <1>7, <2>1 DEF Counted, Hit
  <2>3. Limited(new, Admitted(recent[v]), Max["transfer"])
    BY <1>1, <2>2, LimitedHit DEF new
  <2>4. Admitted(recent[v]) \in SUBSET ((0..WindowMs - 1) \X Nat)
    BY <2>3 DEF Limited
  <2>5. /\ recent' \in [User -> SUBSET ((0..WindowMs - 1) \X Nat)]
        /\ \A u \in User : recent'[u] = IF u = v THEN Admitted(recent[v]) ELSE recent[u]
    BY <2>1, <2>4 DEF Counted
  <2>6. \A u \in User : window'[<<"transfer", u>>] = IF u = v THEN new ELSE window[<<"transfer", u>>]
    BY <1>4, <2>1 DEF Key, Limiter
  <2>7. \A u \in User : Limited(window'[<<"transfer", u>>], recent'[u], Max["transfer"])
    BY <2>3, <2>5, <2>6 DEF Counted
  <2> QED
    BY <1>4, <1>5, <2>5, <2>7 DEF Counted
<1> QED
  BY <1>6, <1>7

LEMMA CountedFresh ==
  ASSUME NEW w, NEW past, w = [k \in Key |-> NoHits], past = [u \in User |-> {}]
  PROVE  /\ w \in [Key -> [hits : Nat, left : 0..WindowMs]]
         /\ \A k \in Key : w[k].hits \in 0..Max[k[1]] /\ (w[k].hits = 0 <=> w[k].left = 0)
         /\ past \in [User -> SUBSET ((0..WindowMs - 1) \X Nat)]
         /\ \A u \in User : Limited(w[<<"transfer", u>>], past[u], Max["transfer"])
<1>1. WindowMs \in Nat \ {0} /\ \A k \in Key : Max[k[1]] \in Nat \ {0}
  BY LimitAssumption DEF Key
<1>2. Limited(NoHits, {}, Max["transfer"])
  BY <1>1, LimitAssumption, FS_EmptySet DEF Limited, NoHits, Limiter
<1>3. \A u \in User : w[<<"transfer", u>>] = NoHits /\ past[u] = {}
  BY DEF Key, Limiter
<1> QED
  BY <1>1, <1>2, <1>3 DEF NoHits

LEMMA CountedStep ==
  ASSUME InOrder, Counted, [Next]_vars
  PROVE  Counted'
<1>1. CASE Counts
  BY <1>1, HitStep DEF Counts, Counted
<1>2. CASE Halt
  BY <1>2, CountedFresh DEF Halt, Counted
<1>3. CASE Tick
  <2>0. WindowMs \in Nat \ {0} /\ Max["transfer"] \in Nat \ {0}
    BY LimitAssumption DEF Limiter
  <2>1. /\ window' = [k \in Key |-> Later(window[k])]
        /\ recent' = [u \in User |-> Aged(recent[u])]
    BY <1>3 DEF Tick
  <2>2. \A k \in Key : /\ Later(window[k]) \in [hits : Nat, left : 0..WindowMs]
                       /\ Later(window[k]).hits \in 0..Max[k[1]]
                       /\ Later(window[k]).hits = 0 <=> Later(window[k]).left = 0
    <3> SUFFICES ASSUME NEW k \in Key
                 PROVE  /\ Later(window[k]) \in [hits : Nat, left : 0..WindowMs]
                        /\ Later(window[k]).hits \in 0..Max[k[1]]
                        /\ Later(window[k]).hits = 0 <=> Later(window[k]).left = 0
      OBVIOUS
    <3>1. Max[k[1]] \in Nat
      BY LimitAssumption DEF Key
    <3> QED
      BY <2>0, <3>1 DEF Counted, Later, NoHits
  <2>3. \A u \in User : Limited(Later(window[<<"transfer", u>>]), Aged(recent[u]), Max["transfer"])
    BY <2>0, LimitedLater DEF Counted
  <2>4. \A u \in User : Aged(recent[u]) \in SUBSET ((0..WindowMs - 1) \X Nat)
    BY <2>3 DEF Limited
  <2>5. \A u \in User : <<"transfer", u>> \in Key
    BY DEF Key, Limiter
  <2> QED
    BY <2>1, <2>2, <2>3, <2>4, <2>5 DEF Counted
<1>4. \/ \E r \in Slot : Arrive(r) \/ Serve(r)
      \/ UNCHANGED <<window, recent>> \/ Halt \/ Tick
  BY Zenon DEF Next, Boot, Exit, vars
<1> QED
  BY <1>1, <1>2, <1>3, <1>4, RequestCounts DEF Counts

-----------------------------------------------------------------------------
Running == server \in {"down", "database", "redis", "chain", "listening"}

IInv == Running /\ InOrder /\ Counted

LEMMA Invariance == Spec => []IInv
<1>1. ASSUME Init PROVE IInv
  <2>1. Running
    BY <1>1 DEF Init, Running
  <2>2. Sound(Idle, wallets)
    BY DEF Sound, Requests, Stage, Answer, Idle
  <2>3. InOrder
    BY <1>1, <2>2 DEF Init, InOrder, Sound
  <2>4. Counted
    BY <1>1, CountedFresh DEF Init, Counted
  <2> QED
    BY <2>1, <2>3, <2>4 DEF IInv
<1>2. ASSUME Running, [Next]_vars PROVE Running'
  <2>1. server' = server \/ Boot \/ Halt
    BY <1>2, Zenon DEF Next, vars, Arrive, Serve, Authenticate, Work, WorkCovered, Probe, LookupPrimary,
                       Insert, Exit, Tick
  <2>2. Boot => server' \in {"database", "down", "redis", "chain", "listening"}
    BY DEF Boot
  <2> QED
    BY <1>2, <2>1, <2>2 DEF Running, Halt
<1>3. IInv /\ [Next]_vars => IInv'
  BY <1>2, InOrderStep, CountedStep DEF IInv
<1> QED
  BY <1>1, <1>3, PTL DEF Spec

\* The types; no window counts more than its limit.
THEOREM TypeCorrect == Spec => []TypeOK
<1>1. IInv => TypeOK
  BY DEF IInv, Running, InOrder, Counted, TypeOK, Requests
<1> QED
  BY <1>1, Invariance, PTL

\* Whoever registers after the wallet was stored registers no second one.
THEOREM LateComersCorrect == Spec => []LateComersAreRefused
<1>1. IInv => LateComersAreRefused
  BY DEF IInv, InOrder, Sound, LateComersAreRefused
<1> QED
  BY <1>1, Invariance, PTL

\* However the windows of the limiter lie, no customer gets 2 * max transfers past it
\* in a window's length, whatever addresses, tokens and requests at once they use.
THEOREM LimitHolds == Spec => []TransfersAreLimited
<1>1. IInv => TransfersAreLimited
  BY LimitedBounds, LimitAssumption DEF IInv, Counted, TransfersAreLimited, Limiter
<1> QED
  BY <1>1, Invariance, PTL
=============================================================================
