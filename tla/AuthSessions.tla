---------------------------- MODULE AuthSessions ----------------------------
(***************************************************************************)
(* Accounts and sessions of the backend (src/services/authService.js):     *)
(* register, login, refresh and logout, each run from one await to the     *)
(* next.  A session is a row of refresh_tokens; refreshing it revokes that *)
(* row and inserts another one, in two queries and no transaction.         *)
(***************************************************************************)
EXTENDS FiniteSets, Naturals

CONSTANTS
  Request,   \* HTTP requests to /api/v1/auth
  User,      \* e-mail addresses
  NoUser,
  Token,     \* refresh tokens, as drawn by randomBytes(48)
  NoToken,
  Faults     \* which of Fault the instance may meet

\* db: a query fails, with or without effect.  crash: the process restarts.
Fault == {"db", "crash"}

ASSUME InstanceAssumption ==
  /\ NoUser \notin User /\ NoToken \notin Token
  /\ Faults \subseteq Fault

VARIABLES
  registered, \* the e-mails in the users table
  active,     \* those with is_active
  row,        \* refresh_tokens: "absent", "live" or "revoked"
  holder,     \* user_id of the row
  parent,     \* the token whose refresh issued this one (no column: history)
  expired,    \* tokens whose expires_at has passed
  given,      \* tokens a client was sent in an answer
  pc,         \* where the continuation of each request stands
  req,        \* the body of each request
  answer,     \* the HTTP answer
  hopeless    \* requests whose token or account was dead when they were posted

users == <<registered, active>>
tokens == <<row, holder, parent, expired>>
vars == <<users, tokens, given, pc, req, answer, hopeless>>

NoBody == [op |-> "none", user |-> NoUser, token |-> NoToken]

Init ==
  /\ registered \in SUBSET User /\ active = registered
  /\ row = [t \in Token |-> "absent"]
  /\ holder = [t \in Token |-> NoUser]
  /\ parent = [t \in Token |-> NoToken]
  /\ expired = {} /\ given = {}
  /\ pc = [r \in Request |-> "idle"]
  /\ req = [r \in Request |-> NoBody]
  /\ answer = [r \in Request |-> "none"]
  /\ hopeless = {}

At(r, op, place) == pc[r] = place /\ req[r].op = op

Goto(r, place) == pc' = [pc EXCEPT ![r] = place]

Answer(r, what) == Goto(r, "done") /\ answer' = [answer EXCEPT ![r] = what]

Continue(r, place) == Goto(r, place) /\ UNCHANGED answer

Usable(t) == row[t] = "live" /\ t \notin expired

-----------------------------------------------------------------------------
(* Clients post requests, with tokens they were given.                     *)

Post(r, op, u, t) ==
  /\ pc[r] = "idle"
  /\ req' = [req EXCEPT ![r] = [op |-> op, user |-> u, token |-> t]]
  /\ hopeless' = IF \/ op = "login" /\ u \in registered \ active
                    \/ op = "refresh" /\ ~(Usable(t) /\ holder[t] \in active)
                 THEN hopeless \cup {r} ELSE hopeless
  /\ Continue(r, "find")
  /\ UNCHANGED <<users, tokens, given>>

-----------------------------------------------------------------------------
(* register                                                                *)

FindEmail(r) ==
  /\ At(r, "register", "find")
  /\ \/ req[r].user \in registered /\ Answer(r, "refused")
     \/ req[r].user \notin registered /\ Continue(r, "insert")
  /\ UNCHANGED <<users, tokens, given, req, hopeless>>

\* A query that took effect: it returns, or its answer is lost.
Returned(r, outcome) ==
  outcome \/ ("db" \in Faults /\ Answer(r, "error"))

\* Mutant: users.email is not unique.
InsertUserAgain(r) ==
  /\ At(r, "register", "insert")
  /\ registered' = registered \cup {req[r].user}
  /\ active' = active \cup {req[r].user}
  /\ Returned(r, Answer(r, "created"))
  /\ UNCHANGED <<tokens, given, req, hopeless>>

\* After bcrypt.hash.  users.email is unique: the insert of a second row fails.
InsertUser(r) ==
  /\ At(r, "register", "insert")
  /\ \/ /\ req[r].user \notin registered
        /\ registered' = registered \cup {req[r].user}
        /\ active' = active \cup {req[r].user}
        /\ Returned(r, Answer(r, "created"))
     \/ req[r].user \in registered /\ Answer(r, "error") /\ UNCHANGED users
  /\ UNCHANGED <<tokens, given, req, hopeless>>

-----------------------------------------------------------------------------
(* login, refresh, logout                                                  *)

\* The user is read, then the password compared.
CheckPassword(r) ==
  /\ At(r, "login", "find")
  /\ \/ req[r].user \in active /\ Continue(r, "issue")
     \/ Answer(r, "refused")
  /\ UNCHANGED <<users, tokens, given, req, hopeless>>

\* Mutant: a revoked token is found too.
FindTokenRevokedToo(r) ==
  /\ At(r, "refresh", "find")
  /\ \/ req[r].token \notin expired /\ Continue(r, "user")
     \/ req[r].token \in expired /\ Answer(r, "refused")
  /\ UNCHANGED <<users, tokens, given, req, hopeless>>

FindToken(r) ==
  /\ At(r, "refresh", "find")
  /\ \/ Usable(req[r].token) /\ Continue(r, "user")
     \/ ~Usable(req[r].token) /\ Answer(r, "refused")
  /\ UNCHANGED <<users, tokens, given, req, hopeless>>

FindUser(r) ==
  /\ At(r, "refresh", "user")
  /\ \/ holder[req[r].token] \in active /\ Continue(r, "revoke")
     \/ holder[req[r].token] \notin active /\ Answer(r, "refused")
  /\ UNCHANGED <<users, tokens, given, req, hopeless>>

\* Mutant: the new token is issued without waiting for the old one's update.
RevokeOldUnawaited(r) ==
  /\ At(r, "refresh", "revoke")
  /\ row' = [row EXCEPT ![req[r].token] = "revoked"] \/ UNCHANGED row
  /\ Continue(r, "issue")
  /\ UNCHANGED <<users, holder, parent, expired, given, req, hopeless>>

\* The update is by id: it is not told whether the row was revoked already.
RevokeOld(r) ==
  /\ At(r, "refresh", "revoke")
  /\ row' = [row EXCEPT ![req[r].token] = "revoked"]
  /\ Returned(r, Continue(r, "issue"))
  /\ UNCHANGED <<users, holder, parent, expired, given, req, hopeless>>

\* The user a token is issued for.
Subject(r) == IF req[r].op = "login" THEN req[r].user ELSE holder[req[r].token]

\* Mutant: the row is inserted without its user.
InsertTokenAnonymous(r) ==
  /\ pc[r] = "issue"
  /\ \E t \in Token :
       /\ row[t] = "absent"
       /\ row' = [row EXCEPT ![t] = "live"]
       /\ parent' = [parent EXCEPT ![t] = req[r].token]
       /\ Answer(r, "tokens") /\ given' = given \cup {t}
  /\ UNCHANGED <<users, holder, expired, req, hopeless>>

\* The last step of login and of refresh.
InsertToken(r) ==
  /\ pc[r] = "issue"
  /\ \E t \in Token :
       /\ row[t] = "absent"
       /\ row' = [row EXCEPT ![t] = "live"]
       /\ holder' = [holder EXCEPT ![t] = Subject(r)]
       /\ parent' = [parent EXCEPT ![t] = req[r].token]
       /\ \/ Answer(r, "tokens") /\ given' = given \cup {t}
          \/ "db" \in Faults /\ Answer(r, "error") /\ UNCHANGED given
  /\ UNCHANGED <<users, expired, req, hopeless>>

\* The middleware before logout looks at the access token alone: it may have
\* expired, and its user need not be the holder of the refresh token.
Authenticate(r) ==
  /\ At(r, "logout", "find")
  /\ \/ req[r].user \in active /\ req[r].token # NoToken /\ Continue(r, "revoke")
     \/ req[r].user \in active /\ req[r].token = NoToken /\ Answer(r, "ok")
     \/ Answer(r, "refused")
  /\ UNCHANGED <<users, tokens, given, req, hopeless>>

\* Mutant: the answer does not wait for the update.
RevokeForLogoutUnawaited(r) ==
  /\ At(r, "logout", "revoke")
  /\ row' = [row EXCEPT ![req[r].token] = "revoked"] \/ UNCHANGED row
  /\ Answer(r, "ok")
  /\ UNCHANGED <<users, holder, parent, expired, given, req, hopeless>>

RevokeForLogout(r) ==
  /\ At(r, "logout", "revoke")
  /\ row' = [row EXCEPT ![req[r].token] = "revoked"]
  /\ Returned(r, Answer(r, "ok"))
  /\ UNCHANGED <<users, holder, parent, expired, given, req, hopeless>>

-----------------------------------------------------------------------------
(* Failures, time and the operators of the service.                        *)

Running == {r \in Request : pc[r] \notin {"idle", "done"}}

\* A query fails without effect: 500 (401 from the middleware of logout).
QueryFails(r) ==
  /\ "db" \in Faults /\ r \in Running
  /\ Answer(r, "error")
  /\ UNCHANGED <<users, tokens, given, req, hopeless>>

\* The process restarts: whatever runs is lost, unanswered.
Crash ==
  /\ "crash" \in Faults /\ Running # {}
  /\ pc' = [r \in Request |-> IF r \in Running THEN "done" ELSE pc[r]]
  /\ UNCHANGED <<users, tokens, given, req, answer, hopeless>>

Expire(t) ==
  /\ row[t] # "absent"
  /\ expired' = expired \cup {t}
  /\ UNCHANGED <<users, row, holder, parent, given, pc, req, answer, hopeless>>

\* An operator clears is_active; no code of the backend does, none sets it.
Deactivate(u) ==
  /\ active' = active \ {u}
  /\ UNCHANGED <<registered, tokens, given, pc, req, answer, hopeless>>

-----------------------------------------------------------------------------
\* A logout comes with an access token, here its user, and maybe a refresh token.
Arrive(r) ==
  \/ \E op \in {"register", "login"}, u \in User : Post(r, op, u, NoToken)
  \/ \E t \in given : Post(r, "refresh", NoUser, t)
  \/ \E u \in registered, t \in given \cup {NoToken} : Post(r, "logout", u, t)

Serve(r) ==
  \/ FindEmail(r) \/ InsertUser(r)
  \/ CheckPassword(r) \/ FindToken(r) \/ FindUser(r) \/ RevokeOld(r) \/ InsertToken(r)
  \/ Authenticate(r) \/ RevokeForLogout(r)

Next ==
  \/ \E r \in Request : Arrive(r) \/ Serve(r) \/ QueryFails(r)
  \/ Crash
  \/ \E t \in Token : Expire(t)
  \/ \E u \in User : Deactivate(u)

Spec == Init /\ [][Next]_vars

-----------------------------------------------------------------------------
(***************************************************************************)
(* Properties.                                                             *)
(***************************************************************************)

Body == [op : {"none", "register", "login", "refresh", "logout"},
         user : User \cup {NoUser}, token : Token \cup {NoToken}]

\* Every variable holds values of its declared kind, and a row has a user.
TypeOK ==
  /\ active \subseteq registered /\ registered \subseteq User
  /\ row \in [Token -> {"absent", "live", "revoked"}]
  /\ holder \in [Token -> User \cup {NoUser}]
  /\ \A t \in Token : row[t] = "absent" <=> holder[t] = NoUser
  /\ parent \in [Token -> Token \cup {NoToken}]
  /\ expired \subseteq Token /\ given \subseteq Token /\ hopeless \subseteq Request
  /\ pc \in [Request -> {"idle", "find", "insert", "user", "revoke", "issue", "done"}]
  /\ req \in [Request -> Body]
  /\ answer \in [Request -> {"none", "created", "refused", "error", "tokens", "ok"}]

\* One account per e-mail: though register looks the e-mail up before a slow
\* hash and inserts after it, two requests are never both told it was created.
OneAccountPerEmail ==
  \A u \in User :
    Cardinality({r \in Request : req[r].user = u /\ answer[r] = "created"}) <= 1

\* A session that is over stays over: a refresh posted after its token was
\* revoked (by a logout or another refresh) or had expired, or after its
\* account was deactivated, is never answered with tokens.
DeadSessionStaysDead == \A r \in hopeless : answer[r] # "tokens"

\* A refreshed session does not also live on under its old token: whatever fails
\* or crashes between the two queries, the token that was exchanged is revoked.
ExchangedIsRevoked ==
  \A t \in Token : parent[t] # NoToken => row[parent[t]] = "revoked"

\* Tokens named by a logout that was answered.
LoggedOut == {req[r].token : r \in {q \in Request : req[q].op = "logout" /\ answer[q] = "ok"}}

\* Once a logout is answered, no refresh that has yet to look the token up gets
\* past that query, however long ago it was posted: only those that had read the
\* row before can still issue a token out of the session.
NoRefreshAfterLogout ==
  [][\A r \in Request :
       req[r].op = "refresh" /\ req[r].token \in LoggedOut /\ pc[r] = "find" =>
         pc'[r] = "find" \/ (pc'[r] = "done" /\ answer'[r] # "tokens")]_vars

(***************************************************************************)
(* A statement of the source's comments that the code does not keep.       *)
(***************************************************************************)

\* "Rotate refresh token": a token is exchanged for one other token.
RotatedOnce ==
  \A t, u \in Token : parent[t] = parent[u] /\ parent[t] # NoToken => t = u
=============================================================================
