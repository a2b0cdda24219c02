------------------------------ MODULE FxRates ------------------------------
(***************************************************************************)
(* The exchange rate of a pair of currencies in the backend                *)
(* (src/services/fxService.js).  The rate passes from the provider into a  *)
(* row of fx_rates and a key of Redis, each with an age limit of its own,  *)
(* and from any of the three to whoever asks for it.  Calls of getRate and *)
(* refreshes by the cron job run from one await to the next and overlap.   *)
(*                                                                         *)
(* Pairs share nothing, so one is modelled; a pass of the cron job reaches *)
(* it at any time.  A rate is represented by the time at which the         *)
(* provider gave it: what tells two rates apart is how old they are.       *)
(***************************************************************************)
EXTENDS Integers

CONSTANTS
  Caller,    \* calls of getRate: by /fx/rate, /fx/quote and initiateTransfer
  Refresh,   \* passes of the cron job, in one server process or several
  Timeout,   \* of a request to the provider
  CacheTtl,  \* CACHE_TTL_SECONDS
  FreshFor,  \* the age up to which a row is used
  Latency,   \* a bound on how long a query or a call of Redis takes
  MaxTime,   \* bound: the clock stops there
  Faults     \* which of Fault the instance may meet

\* What may fail: a call of Redis or of the database (with or without effect),
\* a request to the provider.
Fault == {"redis", "database", "provider"}

ASSUME TimesAssumption ==
  /\ Timeout \in Nat /\ CacheTtl \in Nat \ {0} /\ FreshFor \in Nat \ {0}
  /\ Latency \in Nat /\ MaxTime \in Nat
ASSUME InstanceAssumption == Caller \cap Refresh = {} /\ Faults \subseteq Fault

Process == Caller \cup Refresh

VARIABLES
  now,      \* the clock
  cache,    \* the key in Redis: a rate, and when it expires
  row,      \* the row: a rate, and its fetched_at
  pc,       \* what each process waits for
  since,    \* since when
  held,     \* the rate it holds, and when it was taken
  answer    \* what the last call of each caller came to, and how old its rate was

vars == <<now, cache, row, pc, since, held, answer>>

NoEntry == [rate |-> 0, until |-> 0]
NoRow == [rate |-> -1, fetched |-> -1]
NoAnswer == [via |-> "none", age |-> 0]

\* The seed script may have written the row before the server starts.
Init ==
  /\ now = 0
  /\ cache = NoEntry
  /\ row \in {NoRow, [rate |-> 0, fetched |-> 0]}
  /\ pc = [p \in Process |-> "idle"]
  /\ since = [p \in Process |-> 0]
  /\ held = [p \in Process |-> NoRow]
  /\ answer = [c \in Caller |-> NoAnswer]

\* Process p goes on to wait for something else.
Await(p, what) ==
  /\ pc' = [pc EXCEPT ![p] = what]
  /\ since' = [since EXCEPT ![p] = now]

Hold(p, rate, fetched) == held' = [held EXCEPT ![p] = [rate |-> rate, fetched |-> fetched]]

\* It is through: a call is answered, whatever came of a refresh is dropped.
Finish(p, via, age) ==
  /\ pc' = [pc EXCEPT ![p] = "idle"]
  /\ since' = [since EXCEPT ![p] = 0]
  /\ held' = [held EXCEPT ![p] = NoRow]
  /\ answer' = IF p \in Caller THEN [answer EXCEPT ![p] = [via |-> via, age |-> age]] ELSE answer

-----------------------------------------------------------------------------
(* getRate: Redis, then the row, then the provider.                        *)

GetRate(c) ==
  /\ pc[c] = "idle"
  /\ Await(c, "cache")
  /\ answer' = [answer EXCEPT ![c] = NoAnswer]
  /\ UNCHANGED <<now, cache, row, held>>

\* Redis looks the key up; what it found is on its way, and the call goes on
\* waiting as it did.
ReadCache(c) ==
  /\ pc[c] = "cache"
  /\ \/ /\ now < cache.until
        /\ pc' = [pc EXCEPT ![c] = "hit"] /\ Hold(c, cache.rate, 0)
        /\ UNCHANGED since
     \/ /\ now >= cache.until \/ "redis" \in Faults
        /\ Await(c, "row") /\ UNCHANGED held
  /\ UNCHANGED <<now, cache, row, answer>>

\* The cached rate arrives, however old it has grown meanwhile.
Reply(c) ==
  /\ pc[c] = "hit"
  /\ Finish(c, "cache", now - held[c].rate)
  /\ UNCHANGED <<now, cache, row>>

\* Mutant: a row of any age is taken.
FreshEver(asked) == row # NoRow

\* The bound on fetched_at is computed when the query is made.
Fresh(asked) == row # NoRow /\ row.fetched > asked - FreshFor

ReadRow(c) ==
  /\ pc[c] = "row"
  /\ \/ Fresh(since[c]) /\ Await(c, "recache") /\ Hold(c, row.rate, 0) /\ UNCHANGED answer
     \/ ~Fresh(since[c]) /\ Await(c, "provider") /\ UNCHANGED <<held, answer>>
     \/ "database" \in Faults /\ Finish(c, "error", 0)
  /\ UNCHANGED <<now, cache, row>>

-----------------------------------------------------------------------------
(* fetchAndStore, called by getRate and by the cron job.                   *)

\* node-cron does not wait for the previous pass.
StartRefresh(r) ==
  /\ pc[r] = "idle"
  /\ Await(r, "provider")
  /\ UNCHANGED <<now, cache, row, held, answer>>

\* Mutant: fetched_at is the time at which the request was sent.
AskDatedBySending(p) ==
  /\ pc[p] = "provider"
  /\ \E rate \in since[p]..now : Hold(p, rate, since[p])
  /\ Await(p, "store")
  /\ UNCHANGED <<now, cache, row, answer>>

\* The provider gave its rate at some time between the request and now.
AskProvider(p) ==
  /\ pc[p] = "provider"
  /\ \E rate \in since[p]..now : Hold(p, rate, now)
  /\ Await(p, "store")
  /\ UNCHANGED <<now, cache, row, answer>>

\* A time-out, an error, or an answer without the pair.
ProviderFails(p) ==
  /\ pc[p] = "provider" /\ "provider" \in Faults
  /\ Await(p, "fallback")
  /\ UNCHANGED <<now, cache, row, held, answer>>

\* insert ... on conflict merge: the row takes whatever comes last.
StoreRow(p) ==
  /\ pc[p] = "store"
  /\ \/ row' = held[p] /\ Await(p, "keep")
     \/ "database" \in Faults /\ row' \in {row, held[p]} /\ Await(p, "fallback")
  /\ UNCHANGED <<now, cache, held, answer>>

\* Mutant: what a failed fetch falls back to is cached like a row that is fresh.
FallbackCached(p) ==
  /\ pc[p] = "fallback" /\ row # NoRow
  /\ Await(p, "recache") /\ Hold(p, row.rate, 0)
  /\ UNCHANGED <<now, cache, row, answer>>

\* The catch: the last known rate, of any age, or an error.
Fallback(p) ==
  /\ pc[p] = "fallback"
  /\ \/ row # NoRow /\ Finish(p, "fallback", now - row.rate)
     \/ /\ row = NoRow \/ "database" \in Faults
        /\ Finish(p, "error", 0)
  /\ UNCHANGED <<now, cache, row>>

\* _cacheRate: an error is swallowed, the rate goes out all the same.
CacheRate(p) ==
  /\ pc[p] \in {"recache", "keep"}
  /\ \/ cache' = [rate |-> held[p].rate, until |-> now + CacheTtl]
     \/ "redis" \in Faults /\ UNCHANGED cache
  /\ Finish(p, pc[p], now - held[p].rate)
  /\ UNCHANGED <<now, row>>

\* How long a process may wait where it stands.
Patience(p) == IF pc[p] = "provider" THEN Timeout ELSE Latency

Tick ==
  /\ now < MaxTime
  /\ \A p \in Process : pc[p] # "idle" => now < since[p] + Patience(p)
  /\ now' = now + 1
  /\ UNCHANGED <<cache, row, pc, since, held, answer>>

Fetch(p) ==
  \/ AskProvider(p) \/ ProviderFails(p) \/ StoreRow(p) \/ Fallback(p) \/ CacheRate(p)

Next ==
  \/ \E c \in Caller : GetRate(c) \/ ReadCache(c) \/ Reply(c) \/ ReadRow(c)
  \/ \E r \in Refresh : StartRefresh(r)
  \/ \E p \in Process : Fetch(p)
  \/ Tick

Spec == Init /\ [][Next]_vars

-----------------------------------------------------------------------------
(***************************************************************************)
(* Properties.                                                             *)
(***************************************************************************)

GetRateStep == {"cache", "hit", "row", "recache"}
Step == GetRateStep \cup {"idle", "provider", "store", "keep", "fallback"}
Row == [rate : Int, fetched : Int]
Via == {"none", "cache", "recache", "keep", "fallback", "error"}

\* Every variable holds values of its declared kind; a refresh is at work on the
\* provider's answer only.
TypeOK ==
  /\ now \in Nat
  /\ cache \in [rate : Int, until : Int]
  /\ row \in Row
  /\ pc \in [Process -> Step]
  /\ \A r \in Refresh : pc[r] \notin GetRateStep
  /\ since \in [Process -> Nat]
  /\ held \in [Process -> Row]
  /\ answer \in [Caller -> [via : Via, age : Int]]

\* The layers' age limits add up: a rate served without its provider, or a store,
\* having failed was given by the provider less than this long ago (35 s in Redis
\* on top of 60 s in the row on top of 5 s of the request, and three queries or
\* calls of Redis on the way), however calls and refreshes overlap.  The 30 s a quote is good for come on top of that.  Only the
\* fallback has no bound.
AgeLimit == CacheTtl + FreshFor + Timeout + 3 * Latency

ServedRateIsRecent ==
  \A c \in Caller : answer[c].via \in {"cache", "recache", "keep"} => answer[c].age < AgeLimit

\* Overlapping fetches store in any order, so a row may be replaced by an older
\* one: but never by one that is older by more than a query takes.
RowRegressesByLatencyOnly == [][row'.fetched >= row.fetched - Latency]_vars
=============================================================================
