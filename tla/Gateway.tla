------------------------------ MODULE Gateway ------------------------------
(***************************************************************************)
(* The way of a request through the backend (src/EAC/src: app.js, server.js*)
(* and the files under config/, middleware/ and routes/): boot and its     *)
(* checks, the middleware in front of every handler, the rate limits kept  *)
(* in the memory of the process, and the handlers that belong to no other  *)
(* module, the registration of wallets (services/walletService.js) above   *)
(* all.  A step is what runs between two awaits of I/O: all middleware     *)
(* after authenticate runs in the step that receives the user's row.       *)
(*                                                                         *)
(* The handlers of authService, transferService and fxService are one      *)
(* stage "work" here; AuthSessions, TransferService and FxRates take them  *)
(* apart.                                                                  *)
(***************************************************************************)
EXTENDS Naturals, FiniteSets

CONSTANTS
  Slot,        \* bound: requests in flight at once
  User,        \* the accounts whose requests arrive
  Nobody,
  Ip,          \* addresses the requests come from
  Address,     \* wallet addresses
  Served,      \* bound: the routes that are asked for
  WindowMs,    \* length of a limiter's window
  Max          \* what each limiter admits in a window

Limiter == {"auth", "api", "transfer"}

ASSUME CastAssumption == Nobody \notin User
ASSUME LimitAssumption ==
  /\ WindowMs \in Nat \ {0}
  /\ Max \in [Limiter -> Nat \ {0}]

-----------------------------------------------------------------------------
(* The routes.                                                             *)

\* What stands before a handler, in this order, and the I/O it waits for first.
Route(bearer, kyc, limiter, schema, first) ==
  [bearer |-> bearer, kyc |-> kyc, limiter |-> limiter, schema |-> schema, first |-> first]

Routes ==
  [register |-> Route(FALSE, FALSE, "auth", TRUE, "work"),
   login    |-> Route(FALSE, FALSE, "auth", TRUE, "work"),
   refresh  |-> Route(FALSE, FALSE, "auth", TRUE, "work"),
   logout   |-> Route(TRUE, FALSE, "none", FALSE, "work"),
   me       |-> Route(TRUE, FALSE, "none", FALSE, "static"),
   rates    |-> Route(FALSE, FALSE, "api", FALSE, "work"),
   rate     |-> Route(FALSE, FALSE, "api", TRUE, "work"),
   quote    |-> Route(FALSE, FALSE, "api", TRUE, "work"),
   createWallet |-> Route(TRUE, FALSE, "api", TRUE, "lookup"),
   listWallets  |-> Route(TRUE, FALSE, "api", FALSE, "work"),
   balance      |-> Route(TRUE, FALSE, "api", FALSE, "covered"),
   transfer     |-> Route(TRUE, TRUE, "transfer", TRUE, "work"),
   history      |-> Route(TRUE, FALSE, "api", FALSE, "work"),
   transferById |-> Route(TRUE, FALSE, "api", FALSE, "work"),
   banks     |-> Route(FALSE, FALSE, "api", FALSE, "covered"),
   countries |-> Route(FALSE, FALSE, "api", FALSE, "static"),
   health    |-> Route(FALSE, FALSE, "none", FALSE, "database")]

ASSUME RouteAssumption == Served \subseteq DOMAIN Routes

Stage == {"token", "work", "covered", "lookup", "insert", "database", "redis", "chain", "done"}
\* 2xx, 4xx, 5xx, or no answer because the process ended.
Answer == {"ok", "refused", "failed", "cut"}

VARIABLES
  server,      \* how far the process has come
  slot,        \* the requests
  window,      \* the limiters' counters: hits, and the time until resetTime
  recent,      \* history: <<how long ago, which>> for each transfer admitted to a user
  wallets      \* the table wallets: whose primary wallet an address is

vars == <<server, slot, window, recent, wallets>>

\* No request, or one that has its answer.
Idle == [stage |-> "done", route |-> "none", user |-> Nobody, answer |-> "ok", late |-> FALSE, healthy |-> FALSE]
Key == Limiter \X (User \cup Ip)
NoHits == [hits |-> 0, left |-> 0]
HasPrimary(u) == \E a \in Address : wallets[a] = u

Init ==
  /\ server = "down"
  /\ slot = [r \in Slot |-> Idle]
  /\ window = [k \in Key |-> NoHits]
  /\ recent = [u \in User |-> {}]
  /\ wallets = [a \in Address |-> Nobody]

-----------------------------------------------------------------------------
(* What ends a request or takes it one stage further.                      *)

To(r, stage) == slot' = [slot EXCEPT ![r].stage = stage]
Respond(r, answer) == slot' = [slot EXCEPT ![r] = [Idle EXCEPT !.answer = answer]]

\* Mutant: rejections of async handlers are not forwarded to the error handler.
LeaveHanging(r) == slot' = [slot EXCEPT ![r].stage = "forgotten"]

\* Any rejection reaches the error handler.
Fail(r) == Respond(r, "failed")

\* Mutant: customers are told apart by their address alone.
LimitKeyByIp(limiter, req, ip) == <<limiter, ip>>

LimitKey(limiter, req, ip) == <<limiter, IF req.user \in User THEN req.user ELSE ip>>

\* Past the limiter: the body is validated and the handler begins.
Handle(r, req) ==
  \/ Routes[req.route].schema /\ Respond(r, "refused")
  \/ IF Routes[req.route].first = "static" THEN Respond(r, "ok")
     ELSE slot' = [slot EXCEPT ![r] = [req EXCEPT !.stage = Routes[req.route].first]]

\* The history with one more entry, told from any other admitted just now.
Admitted(past) == past \cup {CHOOSE e \in {0} \X (0..Cardinality(past)) : e \notin past}

\* The limiter and what follows it.  Only hits up to the maximum matter: once a
\* window is full it refuses until it ends.
Limit(r, req) ==
  LET limiter == Routes[req.route].limiter IN
  IF limiter = "none" THEN Handle(r, req) /\ UNCHANGED <<window, recent>>
  ELSE \E ip \in Ip :
    LET k == LimitKey(limiter, req, ip) IN
    IF window[k].hits = Max[limiter] THEN Respond(r, "refused") /\ UNCHANGED <<window, recent>>
    ELSE /\ window' = [window EXCEPT ![k] =
                         [hits |-> @.hits + 1, left |-> IF @.hits = 0 THEN WindowMs ELSE @.left]]
         /\ recent' = IF limiter = "transfer" THEN [recent EXCEPT ![req.user] = Admitted(@)] ELSE recent
         /\ Handle(r, req)

-----------------------------------------------------------------------------
(* The steps of a request.                                                 *)

\* Refused at once: origin, body, unknown path, missing or invalid token.
Turn(r) ==
  /\ Respond(r, "failed") \/ Respond(r, "refused")
  /\ UNCHANGED <<window, recent>>

\* A request comes in and runs as far as it can without I/O.
Arrive(r) ==
  /\ server = "listening" /\ slot[r].stage = "done"
  /\ \E route \in Served, u \in User :
       LET bearer == Routes[route].bearer
           req == [Idle EXCEPT !.route = route, !.user = IF bearer THEN u ELSE Nobody,
                               !.late = (Routes[route].first = "lookup" /\ HasPrimary(u))]
       IN \/ Turn(r)
          \/ /\ bearer
             /\ slot' = [slot EXCEPT ![r] = [req EXCEPT !.stage = "token"]]
             /\ UNCHANGED <<window, recent>>
          \/ ~bearer /\ Limit(r, req)
  /\ UNCHANGED <<server, wallets>>

\* authenticate has its row, or none, or an error it takes for a bad token.
Authenticate(r) ==
  /\ slot[r].stage = "token"
  /\ \/ Respond(r, "refused") /\ UNCHANGED <<window, recent>>
     \/ \E approved \in BOOLEAN :
          IF Routes[slot[r].route].kyc /\ ~approved THEN Respond(r, "refused") /\ UNCHANGED <<window, recent>>
          ELSE Limit(r, slot[r])
  /\ UNCHANGED <<server, wallets>>

\* The handlers other modules describe, and the reads of transfers, wallets and rates.
Work(r) ==
  /\ slot[r].stage = "work"
  /\ Respond(r, "ok") \/ Respond(r, "refused") \/ Fail(r)
  /\ UNCHANGED <<server, window, recent, wallets>>

\* The list of banks and a balance have a value to fall back on.
WorkCovered(r) ==
  /\ slot[r].stage = "covered"
  /\ Respond(r, "ok")
  /\ UNCHANGED <<server, window, recent, wallets>>

\* Three probes in turn; only the first decides between 200 and 503.
Probe(r) ==
  /\ \/ /\ slot[r].stage = "database"
        /\ \E ok \in BOOLEAN : slot' = [slot EXCEPT ![r].stage = "redis", ![r].healthy = ok]
     \/ slot[r].stage = "redis" /\ To(r, "chain")
     \/ slot[r].stage = "chain" /\ Respond(r, IF slot[r].healthy THEN "ok" ELSE "failed")
  /\ UNCHANGED <<server, window, recent, wallets>>

\* Mutant: an error of the query counts as an empty answer.
LookupPrimaryFailsOpen(r) ==
  /\ slot[r].stage = "lookup"
  /\ \/ To(r, "insert")
     \/ HasPrimary(slot[r].user) /\ Respond(r, "refused")
     \/ Respond(r, "refused")
  /\ UNCHANGED <<server, window, recent, wallets>>

\* createWallet looks for a primary wallet, then at the address.
LookupPrimary(r) ==
  /\ slot[r].stage = "lookup"
  /\ \/ Fail(r)
     \/ HasPrimary(slot[r].user) /\ Respond(r, "refused")
     \/ ~HasPrimary(slot[r].user) /\ (Respond(r, "refused") \/ To(r, "insert"))
  /\ UNCHANGED <<server, window, recent, wallets>>

\* The address is unique, the primary wallet of a user is not.  The answer of the
\* database may be lost after it has stored the row.
Insert(r) ==
  /\ slot[r].stage = "insert"
  /\ \/ Fail(r) /\ UNCHANGED wallets
     \/ \E a \in Address :
          /\ wallets[a] = Nobody
          /\ wallets' = [wallets EXCEPT ![a] = slot[r].user]
          /\ Respond(r, "ok") \/ Fail(r)
  /\ UNCHANGED <<server, window, recent>>

-----------------------------------------------------------------------------
(* The process.                                                            *)

\* Without the database the process exits; Redis and the chain may be away.
Boot ==
  /\ \E stages \in {<<"down", "database">>, <<"database", "down">>, <<"database", "redis">>,
                    <<"redis", "chain">>, <<"chain", "listening">>} :
       server = stages[1] /\ server' = stages[2]
  /\ UNCHANGED <<slot, window, recent, wallets>>

\* What ends with the process: open requests, windows, and the count per process.
Halt ==
  /\ server' = "down"
  /\ slot' = [r \in Slot |-> IF slot[r].stage = "done" THEN slot[r] ELSE [Idle EXCEPT !.answer = "cut"]]
  /\ window' = [k \in Key |-> NoHits]
  /\ recent' = [u \in User |-> {}]
  /\ UNCHANGED wallets

\* A crash, or the end of a shutdown at any time: what it waits for is the subject
\* of TransferService.
Exit == server = "listening" /\ Halt

\* Mutant: the window is not reset when it ends.
LaterUnreset(w) == IF w.hits = 0 THEN NoHits ELSE [w EXCEPT !.left = @ - 1]

\* A window one unit of time later.
Later(w) == IF w.left <= 1 THEN NoHits ELSE [w EXCEPT !.left = @ - 1]

\* The entries still younger than a window one unit of time later.
Aged(past) == {e \in {<<d[1] + 1, d[2]>> : d \in past} : e[1] < WindowMs}

Tick ==
  /\ window' = [k \in Key |-> Later(window[k])]
  /\ recent' = [u \in User |-> Aged(recent[u])]
  /\ UNCHANGED <<server, slot, wallets>>

Serve(r) ==
  \/ Authenticate(r) \/ Work(r) \/ WorkCovered(r) \/ Probe(r)
  \/ LookupPrimary(r) \/ Insert(r)

Next ==
  \/ \E r \in Slot : Arrive(r) \/ Serve(r)
  \/ Boot \/ Exit
  \/ Tick

\* The event loop serves every request; databases and nodes answer or fail.
Spec == Init /\ [][Next]_vars /\ \A r \in Slot : WF_vars(Serve(r))

-----------------------------------------------------------------------------
(***************************************************************************)
(* Properties.                                                             *)
(***************************************************************************)

\* Every variable holds values of its declared kind; no counter outlives its window.
TypeOK ==
  /\ server \in {"down", "database", "redis", "chain", "listening"}
  /\ slot \in [Slot -> [stage : Stage, route : Served \cup {"none"}, user : User \cup {Nobody},
                        answer : Answer, late : BOOLEAN, healthy : BOOLEAN]]
  /\ \A k \in Key : /\ window[k].hits \in 0..Max[k[1]] /\ window[k].left \in 0..WindowMs
                    /\ window[k].hits = 0 <=> window[k].left = 0
  /\ recent \in [User -> SUBSET ((0..WindowMs - 1) \X Nat)]
  /\ wallets \in [Address -> User \cup {Nobody}]

\* While the process stays up, no customer gets more than 2 * max - 1 transfers past
\* the limiter in any stretch of a window's length, from whatever addresses: almost
\* twice what the limiter's message promises, and no more.
TransfersAreLimited == \A u \in User : Cardinality(recent[u]) <= 2 * Max["transfer"] - 1

\* A registration that arrives after the customer's primary wallet was stored never
\* gets to insert another, even when queries fail; only concurrent ones do.
LateComersAreRefused == \A r \in Slot : slot[r].stage = "insert" => ~slot[r].late

\* Every request is answered, unless the process goes down under it.
EveryRequestIsAnswered == \A r \in Slot : slot[r].stage # "done" ~> slot[r].stage = "done"
=============================================================================
