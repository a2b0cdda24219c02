------------------------ MODULE AuthSessions_proofs ------------------------
(***************************************************************************)
(* Proofs about accounts and sessions, for any number of requests, users   *)
(* and tokens and any faults.  Tables only grow towards revoked, expired   *)
(* and inactive (Grows), and a step is that of one request (Others): what  *)
(* holds of every request (Good) is proved once for those that stand still *)
(* and once for the one that moves.                                        *)
(***************************************************************************)
EXTENDS AuthSessions, FiniteSetTheorems, TLAPS

\* What a request that was hopeless when it was posted can still do.
Doomed(r) ==
  \/ pc[r] = "done" /\ answer[r] # "tokens"
  \/ /\ req[r].op = "login" /\ pc[r] = "find"
     /\ req[r].user \in registered \ active
  \/ /\ req[r].op = "refresh" /\ pc[r] = "find"
     /\ ~(Usable(req[r].token) /\ holder[req[r].token] \in active)
  \/ /\ req[r].op = "refresh" /\ pc[r] = "user"
     /\ holder[req[r].token] \notin active

\* What is true of one request.
Good(r) ==
  /\ answer[r] # "none" => pc[r] = "done"
  /\ pc[r] = "idle" => req[r].op = "none"
  /\ req[r].op \in {"login", "register"} => req[r].user \in User /\ req[r].token = NoToken
  /\ req[r].op = "refresh" \/ pc[r] = "revoke" => req[r].token \in given
  /\ req[r].op = "logout" => req[r].token \in given \cup {NoToken}
  /\ pc[r] = "issue" =>
       \/ req[r].op = "login" /\ req[r].user \in registered
       \/ req[r].op = "refresh" /\ row[req[r].token] = "revoked"
  /\ req[r].op = "logout" /\ answer[r] = "ok" /\ req[r].token # NoToken =>
       row[req[r].token] = "revoked"
  /\ answer[r] = "created" => req[r].op = "register" /\ req[r].user \in registered
  /\ r \in hopeless => Doomed(r)

\* What is true of the tables.
Rows ==
  /\ \A t \in Token : row[t] # "absent" => holder[t] \in registered
  /\ \A t \in given : row[t] # "absent"
  /\ ExchangedIsRevoked

\* An e-mail whose account was created has been so for one request.
CreatedOnce ==
  \A q, r \in Request :
    answer[q] = "created" /\ answer[r] = "created" /\ req[q].user = req[r].user => q = r

IInv == TypeOK /\ Rows /\ (\A r \in Request : Good(r)) /\ CreatedOnce

-----------------------------------------------------------------------------
\* How the tables change.
Grows ==
  /\ \A t \in Token :
       /\ row[t] # "absent" => row'[t] # "absent" /\ holder'[t] = holder[t]
       /\ row[t] = "revoked" => row'[t] = "revoked"
  /\ registered \subseteq registered'
  /\ active' \cap registered \subseteq active
  /\ expired \subseteq expired' /\ given \subseteq given'

\* Every request but r stands still.
Others(r) ==
  \A q \in Request \ {r} :
    /\ pc'[q] = pc[q] /\ req'[q] = req[q] /\ answer'[q] = answer[q]
    /\ q \in hopeless' <=> q \in hopeless

\* The tables as they are.
SameTables == UNCHANGED <<registered, active, row, holder, parent, expired, given>>

\* Tables that do not change have grown.
LEMMA SameGrows == SameTables => Grows
  BY DEF SameTables, Grows

\* A request that stands still stays good while the tables grow.
LEMMA StillGood ==
  ASSUME IInv, Grows, NEW q \in Request,
         pc'[q] = pc[q], req'[q] = req[q], answer'[q] = answer[q], q \in hopeless' <=> q \in hopeless
  PROVE  Good(q)'
<1>1. Good(q) /\ Rows /\ TypeOK
  BY DEF IInv
<1>2. req[q].token \in given => req[q].token \in Token /\ row[req[q].token] # "absent"
  BY <1>1 DEF Rows, TypeOK
<1>3. Doomed(q) /\ q \in hopeless => Doomed(q)'
  <2>1. ASSUME req[q].token \in given, ~(Usable(req[q].token) /\ holder[req[q].token] \in active)
        PROVE  ~(Usable(req[q].token)' /\ holder'[req[q].token] \in active')
    <3>1. holder[req[q].token] \in registered /\ row[req[q].token] \in {"live", "revoked"}
      BY <1>1, <1>2, <2>1 DEF Rows, TypeOK
    <3> QED
      BY <1>2, <2>1, <3>1 DEF Grows, Usable
  <2>2. ASSUME req[q].token \in given, holder[req[q].token] \notin active
        PROVE  holder'[req[q].token] \notin active'
    BY <1>1, <1>2, <2>2 DEF Grows, Rows
  <2> QED
    BY <1>1, <2>1, <2>2 DEF Doomed, Grows, Good
<1> QED
  BY <1>1, <1>2, <1>3 DEF Good, Grows

-----------------------------------------------------------------------------
(* The steps one by one.                                                   *)

\* The invariant after a step of r that changes no table, from what is new about r.
LEMMA QuietStep ==
  ASSUME IInv, NEW r \in Request, SameTables, Others(r), TypeOK', Good(r)',
         answer'[r] # "created"
  PROVE  IInv'
<1>1. \A q \in Request : Good(q)'
  BY StillGood, SameGrows DEF Others
<1>2. Rows'
  BY DEF IInv, Rows, SameTables, ExchangedIsRevoked
<1>3. CreatedOnce'
  BY DEF IInv, CreatedOnce, Others
<1> QED
  BY <1>1, <1>2, <1>3 DEF IInv

\* A request comes in.
LEMMA PostStep ==
  ASSUME IInv, NEW r \in Request, Arrive(r)
  PROVE  IInv'
<1> PICK op \in {"register", "login", "refresh", "logout"}, u \in User \cup {NoUser}, t \in Token \cup {NoToken} :
      /\ Post(r, op, u, t)
      /\ op \in {"register", "login"} => u \in User /\ t = NoToken
      /\ op = "refresh" => t \in given
      /\ op = "logout" => t \in given \cup {NoToken}
  BY DEF Arrive, IInv, TypeOK
<1>1. TypeOK /\ Good(r)
  BY DEF IInv
<1>2. SameTables /\ Others(r)
  BY <1>1 DEF Post, Continue, Goto, SameTables, Others, users, tokens, TypeOK
<1>3. /\ pc'[r] = "find" /\ req'[r] = [op |-> op, user |-> u, token |-> t] /\ answer'[r] = "none"
      /\ r \notin hopeless
  BY <1>1 DEF Post, Continue, Goto, TypeOK, Good, Doomed
<1>4. TypeOK'
  <2>1. req' \in [Request -> Body] /\ pc' \in [Request -> {"idle", "find", "insert", "user", "revoke", "issue", "done"}]
    BY <1>1 DEF Post, Continue, Goto, TypeOK, Body
  <2>2. hopeless' \subseteq Request /\ answer' = answer
    BY <1>1 DEF Post, Continue, TypeOK
  <2> QED
    BY <1>1, <1>2, <2>1, <2>2 DEF TypeOK, SameTables
<1>5. r \in hopeless' => Doomed(r)'
  <2>1. r \in hopeless' => \/ op = "login" /\ u \in registered \ active
                           \/ op = "refresh" /\ ~(Usable(t) /\ holder[t] \in active)
    BY <1>3 DEF Post
  <2> QED
    BY <1>2, <1>3, <2>1 DEF Doomed, SameTables, Usable
<1>6. Good(r)'
  BY <1>2, <1>3, <1>5 DEF Good, SameTables
<1> QED
  BY <1>2, <1>3, <1>4, <1>6, QuietStep

\* What the actions of one request that touch no table share.
LEMMA ReadStep ==
  ASSUME IInv, NEW r \in Request,
         FindEmail(r) \/ CheckPassword(r) \/ FindToken(r) \/ FindUser(r) \/ Authenticate(r) \/ QueryFails(r)
  PROVE  IInv'
<1>1. TypeOK /\ Good(r)
  BY DEF IInv
<1>2. SameTables /\ Others(r) /\ req' = req /\ hopeless' = hopeless
  BY <1>1 DEF FindEmail, CheckPassword, FindToken, FindUser, Authenticate, QueryFails,
              Answer, Continue, Goto, SameTables, Others, users, tokens, TypeOK
<1>3. TypeOK'
  <2>1. /\ pc' \in [Request -> {"idle", "find", "insert", "user", "revoke", "issue", "done"}]
        /\ answer' \in [Request -> {"none", "created", "refused", "error", "tokens", "ok"}]
    BY <1>1 DEF FindEmail, CheckPassword, FindToken, FindUser, Authenticate, QueryFails,
                Answer, Continue, Goto, TypeOK
  <2> QED
    BY <1>1, <1>2, <2>1 DEF TypeOK, SameTables
<1>4. \/ pc'[r] = "done" /\ answer'[r] \in {"refused", "error"} /\ pc[r] # "idle"
      \/ /\ pc[r] = "find" /\ pc'[r] = "done" /\ answer'[r] = "ok"
         /\ req[r].op = "logout" /\ req[r].token = NoToken
      \/ /\ pc[r] = "find" /\ answer'[r] = answer[r]
         /\ \/ req[r].op = "register" /\ pc'[r] = "insert"
            \/ req[r].op = "login" /\ pc'[r] = "issue" /\ req[r].user \in active
            \/ req[r].op = "refresh" /\ pc'[r] = "user" /\ Usable(req[r].token)
            \/ req[r].op = "logout" /\ pc'[r] = "revoke" /\ req[r].token # NoToken
      \/ /\ pc[r] = "user" /\ answer'[r] = answer[r] /\ pc'[r] = "revoke"
         /\ req[r].op = "refresh" /\ holder[req[r].token] \in active
  BY <1>1 DEF FindEmail, CheckPassword, FindToken, FindUser, Authenticate, QueryFails, Running,
              At, Answer, Continue, Goto, TypeOK
<1>5. r \in hopeless => Doomed(r)'
  BY <1>1, <1>2, <1>4 DEF Good, Doomed, SameTables
<1>6. Good(r)' /\ answer'[r] # "created"
  BY <1>1, <1>2, <1>4, <1>5 DEF Good, SameTables, TypeOK
<1> QED
  BY <1>2, <1>3, <1>6, QuietStep

\* Rows after a step that issues or revokes nothing but adds an account.
LEMMA InsertUserStep ==
  ASSUME IInv, NEW r \in Request, InsertUser(r)
  PROVE  IInv'
<1>1. TypeOK /\ Good(r) /\ Rows /\ CreatedOnce
  BY DEF IInv
<1> DEFINE u == req[r].user
<1>2. /\ Others(r) /\ req' = req /\ hopeless' = hopeless
      /\ UNCHANGED <<row, holder, parent, expired, given>>
      /\ pc[r] = "insert" /\ req[r].op = "register" /\ u \in User
  BY <1>1 DEF InsertUser, Returned, At, Answer, Goto, Others, users, tokens, TypeOK, Good
<1>3. /\ pc'[r] = "done" /\ answer'[r] \in {"created", "error"}
      /\ answer'[r] = "created" => u \notin registered
      /\ registered' \subseteq registered \cup {u} /\ registered \subseteq registered'
      /\ answer'[r] = "created" => u \in registered'
      /\ active' \subseteq active \cup {u} /\ (u \in registered => active' = active)
      /\ active' \subseteq registered'
  BY <1>1 DEF InsertUser, Returned, Answer, Goto, users, TypeOK
<1>4. Grows
  BY <1>2, <1>3 DEF Grows
<1>5. TypeOK'
  <2>1. /\ pc' \in [Request -> {"idle", "find", "insert", "user", "revoke", "issue", "done"}]
        /\ answer' \in [Request -> {"none", "created", "refused", "error", "tokens", "ok"}]
    BY <1>1 DEF InsertUser, Returned, Answer, Goto, TypeOK
  <2> QED
    BY <1>1, <1>2, <1>3, <2>1 DEF TypeOK
<1>6. Good(r)'
  BY <1>1, <1>2, <1>3 DEF Good, Doomed
<1>7. \A q \in Request : Good(q)'
  BY <1>4, <1>6, StillGood, <1>2 DEF Others
<1>8. Rows'
  BY <1>1, <1>2, <1>3 DEF Rows, ExchangedIsRevoked
<1>9. CreatedOnce'
  <2> SUFFICES ASSUME NEW q \in Request, q # r, answer'[q] = "created", answer'[r] = "created",
                      req'[q].user = req'[r].user
               PROVE  FALSE
    BY <1>1, <1>2 DEF CreatedOnce, Others
  <2>1. Good(q) /\ answer[q] = "created"
    BY <1>2 DEF IInv, Others
  <2> QED
    BY <1>2, <1>3, <2>1 DEF Good
<1> QED
  BY <1>5, <1>7, <1>8, <1>9 DEF IInv

\* Revoking a row, by a refresh or by a logout.
LEMMA RevokeStep ==
  ASSUME IInv, NEW r \in Request, RevokeOld(r) \/ RevokeForLogout(r)
  PROVE  IInv'
<1>1. TypeOK /\ Good(r) /\ Rows /\ CreatedOnce
  BY DEF IInv
<1> DEFINE t == req[r].token
<1>2. /\ Others(r) /\ req' = req /\ hopeless' = hopeless
      /\ UNCHANGED <<registered, active, holder, parent, expired, given>>
      /\ row' = [row EXCEPT ![t] = "revoked"]
      /\ pc[r] = "revoke"
      /\ \/ pc'[r] = "done" /\ answer'[r] \in {"error", "ok"}
         \/ req[r].op = "refresh" /\ pc'[r] = "issue" /\ answer'[r] = answer[r]
  BY <1>1 DEF RevokeOld, RevokeForLogout, Returned, At, Answer, Continue, Goto, Others, users, TypeOK
<1>3. t \in Token /\ t \in given /\ row[t] # "absent"
  BY <1>1 DEF RevokeOld, RevokeForLogout, At, Good, Rows, TypeOK
<1>4. Grows
  BY <1>1, <1>2, <1>3 DEF Grows, TypeOK
<1>5. TypeOK'
  <2>1. /\ pc' \in [Request -> {"idle", "find", "insert", "user", "revoke", "issue", "done"}]
        /\ answer' \in [Request -> {"none", "created", "refused", "error", "tokens", "ok"}]
    BY <1>1 DEF RevokeOld, RevokeForLogout, Returned, Answer, Continue, Goto, TypeOK
  <2>2. row' \in [Token -> {"absent", "live", "revoked"}] /\ \A s \in Token : row'[s] = "absent" <=> row[s] = "absent"
    BY <1>1, <1>2, <1>3 DEF TypeOK
  <2> QED
    BY <1>1, <1>2, <2>1, <2>2 DEF TypeOK
<1>6. row'[t] = "revoked"
  BY <1>1, <1>2, <1>3 DEF TypeOK
<1>7. Good(r)' /\ answer'[r] # "created"
  BY <1>1, <1>2, <1>3, <1>6 DEF Good, Doomed
<1>8. \A q \in Request : Good(q)'
  BY <1>4, <1>7, StillGood, <1>2 DEF Others
<1>9. Rows'
  BY <1>1, <1>2, <1>3, <1>4 DEF Rows, ExchangedIsRevoked, Grows, TypeOK
<1>10. CreatedOnce'
  BY <1>1, <1>2, <1>7 DEF CreatedOnce, Others
<1> QED
  BY <1>5, <1>8, <1>9, <1>10 DEF IInv

\* Issuing a token.
LEMMA InsertTokenStep ==
  ASSUME IInv, NEW r \in Request, InsertToken(r)
  PROVE  IInv'
<1>1. TypeOK /\ Good(r) /\ Rows /\ CreatedOnce
  BY DEF IInv
<1> PICK t \in Token :
      /\ row[t] = "absent"
      /\ row' = [row EXCEPT ![t] = "live"]
      /\ holder' = [holder EXCEPT ![t] = Subject(r)]
      /\ parent' = [parent EXCEPT ![t] = req[r].token]
      /\ \/ Answer(r, "tokens") /\ given' = given \cup {t}
         \/ "db" \in Faults /\ Answer(r, "error") /\ UNCHANGED given
  BY DEF InsertToken
<1>2. /\ Others(r) /\ req' = req /\ hopeless' = hopeless
      /\ UNCHANGED <<registered, active, expired>>
      /\ pc[r] = "issue" /\ pc'[r] = "done" /\ answer'[r] \in {"error", "tokens"}
      /\ given' \subseteq given \cup {t} /\ given \subseteq given'
  BY <1>1 DEF InsertToken, Answer, Goto, Others, users, TypeOK
<1>3. Subject(r) \in registered /\ Subject(r) \in User
      /\ (req[r].token = NoToken \/ (req[r].token \in Token /\ row[req[r].token] = "revoked"))
  <2>1. CASE req[r].op = "login"
    BY <1>1, <1>2, <2>1 DEF Good, Subject, TypeOK
  <2>2. CASE req[r].op = "refresh" /\ row[req[r].token] = "revoked"
    <3>1. req[r].token \in Token /\ holder[req[r].token] \in registered
      BY <1>1, <2>2 DEF Good, Rows, TypeOK
    <3> QED
      BY <1>1, <2>2, <3>1 DEF Subject, TypeOK
  <2> QED
    BY <1>1, <1>2, <2>1, <2>2 DEF Good
<1>4. Grows
  BY <1>1, <1>2 DEF Grows, TypeOK
<1>5. TypeOK'
  <2>1. /\ pc' \in [Request -> {"idle", "find", "insert", "user", "revoke", "issue", "done"}]
        /\ answer' \in [Request -> {"none", "created", "refused", "error", "tokens", "ok"}]
    BY <1>1 DEF Answer, Goto, TypeOK
  <2>2. /\ row' \in [Token -> {"absent", "live", "revoked"}]
        /\ holder' \in [Token -> User \cup {NoUser}]
        /\ parent' \in [Token -> Token \cup {NoToken}]
        /\ \A s \in Token : row'[s] = "absent" <=> holder'[s] = NoUser
    BY <1>1, <1>3, InstanceAssumption DEF TypeOK
  <2> QED
    BY <1>1, <1>2, <2>1, <2>2 DEF TypeOK
<1>6. Good(r)' /\ answer'[r] # "created"
  <2>1. r \notin hopeless
    BY <1>1, <1>2 DEF Good, Doomed
  <2> QED
    BY <1>1, <1>2, <2>1 DEF Good
<1>7. \A q \in Request : Good(q)'
  BY <1>4, <1>6, StillGood, <1>2 DEF Others
<1>8. Rows'
  <2>1. \A s \in Token : row'[s] # "absent" => holder'[s] \in registered'
    BY <1>1, <1>2, <1>3 DEF Rows, TypeOK
  <2>2. \A s \in given' : row'[s] # "absent"
    BY <1>1, <1>2 DEF Rows, TypeOK
  <2>3. ExchangedIsRevoked'
    <3> SUFFICES ASSUME NEW s \in Token, parent'[s] # NoToken PROVE row'[parent'[s]] = "revoked"
      BY DEF ExchangedIsRevoked
    <3>1. parent'[s] \in Token /\ row[parent'[s]] = "revoked"
      BY <1>1, <1>3 DEF Rows, ExchangedIsRevoked, TypeOK
    <3> QED
      BY <3>1, <1>4 DEF Grows
  <2> QED
    BY <2>1, <2>2, <2>3 DEF Rows
<1>9. CreatedOnce'
  BY <1>1, <1>2, <1>6 DEF CreatedOnce, Others
<1> QED
  BY <1>5, <1>7, <1>8, <1>9 DEF IInv

\* Steps of no request in particular.
LEMMA WorldStep ==
  ASSUME IInv, Crash \/ (\E t \in Token : Expire(t)) \/ (\E u \in User : Deactivate(u)) \/ UNCHANGED vars
  PROVE  IInv'
<1>1. TypeOK /\ Rows /\ CreatedOnce /\ \A q \in Request : Good(q)
  BY DEF IInv
<1>2. /\ UNCHANGED <<registered, row, holder, parent, given, req, answer, hopeless>>
      /\ active' \subseteq active /\ expired \subseteq expired' /\ expired' \subseteq Token
  BY <1>1 DEF Crash, Expire, Deactivate, vars, users, tokens, TypeOK
<1>3. \A q \in Request : pc'[q] = pc[q] \/ (pc[q] # "idle" /\ pc'[q] = "done")
  BY <1>1 DEF Crash, Expire, Deactivate, vars, Running, TypeOK
<1>4. Grows
  BY <1>2 DEF Grows
<1>5. TypeOK'
  <2>1. pc' \in [Request -> {"idle", "find", "insert", "user", "revoke", "issue", "done"}]
    BY <1>1 DEF Crash, Expire, Deactivate, vars, TypeOK
  <2> QED
    BY <1>1, <1>2, <2>1 DEF TypeOK
<1>6. ASSUME NEW q \in Request PROVE Good(q)'
  <2>1. CASE pc'[q] = pc[q]
    BY <1>2, <1>4, <2>1, StillGood
  <2>2. CASE pc[q] # "idle" /\ pc'[q] = "done"
    <3>1. q \in hopeless => Doomed(q)'
      BY <1>1, <1>2, <2>2 DEF Good, Doomed
    <3> QED
      BY <1>1, <1>2, <2>2, <3>1 DEF Good
  <2> QED
    BY <1>3, <2>1, <2>2
<1>7. Rows' /\ CreatedOnce'
  BY <1>1, <1>2 DEF Rows, ExchangedIsRevoked, CreatedOnce
<1> QED
  BY <1>5, <1>6, <1>7 DEF IInv

-----------------------------------------------------------------------------
\* The invariant is inductive.
LEMMA NextIInv == IInv /\ [Next]_vars => IInv'
<1> SUFFICES ASSUME IInv, [Next]_vars PROVE IInv'
  OBVIOUS
<1>1. ASSUME NEW r \in Request, Arrive(r) \/ Serve(r) \/ QueryFails(r) PROVE IInv'
  BY <1>1, PostStep, ReadStep, InsertUserStep, RevokeStep, InsertTokenStep DEF Serve
<1> QED
  BY <1>1, WorldStep DEF Next

\* It holds at first.
LEMMA InitIInv == Init => IInv
<1> SUFFICES ASSUME Init PROVE IInv
  OBVIOUS
<1>1. TypeOK
  BY InstanceAssumption DEF Init, TypeOK, Body, NoBody
<1>2. Rows /\ CreatedOnce
  BY DEF Init, Rows, ExchangedIsRevoked, CreatedOnce
<1>3. \A r \in Request : Good(r)
  BY DEF Init, Good, NoBody
<1> QED
  BY <1>1, <1>2, <1>3 DEF IInv

\* IInv holds of every behaviour.
LEMMA SpecIInv == Spec => []IInv
  BY InitIInv, NextIInv, PTL DEF Spec

\* Every variable keeps its kind, and a row its user.
THEOREM TypeCorrect == Spec => []TypeOK
<1>1. IInv => TypeOK
  BY DEF IInv
<1> QED
  BY <1>1, SpecIInv, PTL

\* No two registrations of one e-mail are both told the account was created.
THEOREM AccountsCorrect == Spec => []OneAccountPerEmail
<1>1. ASSUME IInv, NEW u \in User
      PROVE  Cardinality({r \in Request : req[r].user = u /\ answer[r] = "created"}) <= 1
  <2> DEFINE S == {r \in Request : req[r].user = u /\ answer[r] = "created"}
  <2>0. \A q, r \in S : q = r
    BY <1>1 DEF IInv, CreatedOnce
  <2> SUFFICES Cardinality(S) <= 1
    OBVIOUS
  <2> HIDE DEF S
  <2>1. CASE S = {}
    <3>1. Cardinality({}) = 0
      BY FS_EmptySet
    <3> QED
      BY <2>1, <3>1
  <2>2. CASE S # {}
    <3> PICK r \in S : TRUE
      BY <2>2
    <3>1. S = {r}
      BY <2>0
    <3>2. Cardinality({r}) = 1
      BY FS_Singleton
    <3> QED
      BY <3>1, <3>2
  <2> QED
    BY <2>1, <2>2
<1>2. IInv => OneAccountPerEmail
  BY <1>1 DEF OneAccountPerEmail
<1> QED
  BY <1>2, SpecIInv, PTL

\* A refresh or login posted for a dead session or account is never answered with tokens.
THEOREM DeadSessionsCorrect == Spec => []DeadSessionStaysDead
<1>1. IInv => DeadSessionStaysDead
  BY DEF IInv, TypeOK, Good, Doomed, DeadSessionStaysDead
<1> QED
  BY <1>1, SpecIInv, PTL

\* The token a refresh exchanged is revoked, whatever failed on the way.
THEOREM ExchangeCorrect == Spec => []ExchangedIsRevoked
<1>1. IInv => ExchangedIsRevoked
  BY DEF IInv, Rows
<1> QED
  BY <1>1, SpecIInv, PTL

\* No refresh looks a token up with success once a logout of it was answered.
THEOREM LogoutCorrect == Spec => NoRefreshAfterLogout
<1>1. ASSUME IInv, [Next]_vars, NEW r \in Request,
             req[r].op = "refresh", req[r].token \in LoggedOut, pc[r] = "find"
      PROVE  pc'[r] = "find" \/ (pc'[r] = "done" /\ answer'[r] # "tokens")
  <2>1. TypeOK /\ Good(r)
    BY <1>1 DEF IInv
  <2>2. row[req[r].token] = "revoked"
    <3>1. req[r].token # NoToken
      BY <1>1, <2>1, InstanceAssumption DEF Good, TypeOK
    <3>2. PICK q \in Request :
            req[q].op = "logout" /\ answer[q] = "ok" /\ req[q].token = req[r].token
      BY <1>1 DEF LoggedOut
    <3> QED
      BY <1>1, <3>1, <3>2 DEF IInv, Good
  <2>3. answer[r] # "tokens"
    BY <1>1, <2>1 DEF Good
  <2>4. CASE \E q \in Request \ {r} : Arrive(q) \/ Serve(q) \/ QueryFails(q)
    <3> PICK q \in Request \ {r} : Arrive(q) \/ Serve(q) \/ QueryFails(q)
      BY <2>4
    <3>1. pc'[r] = pc[r]
      BY <2>1 DEF Arrive, Serve, QueryFails, Post, FindEmail, InsertUser, Returned, CheckPassword,
                  FindToken, FindUser, RevokeOld, InsertToken, Authenticate, RevokeForLogout,
                  Answer, Continue, Goto, TypeOK
    <3> QED
      BY <1>1, <3>1
  <2>5. CASE Arrive(r) \/ Serve(r) \/ QueryFails(r)
    <3>1. FindToken(r) \/ QueryFails(r)
      BY <1>1, <2>5 DEF Arrive, Serve, Post, At, FindEmail, InsertUser, CheckPassword,
                        FindUser, RevokeOld, InsertToken, Authenticate, RevokeForLogout
    <3> QED
      BY <2>1, <2>2, <3>1 DEF FindToken, QueryFails, Usable, Answer, Goto, TypeOK
  <2>6. CASE Crash \/ (\E t \in Token : Expire(t)) \/ (\E u \in User : Deactivate(u)) \/ UNCHANGED vars
    <3>1. (pc'[r] = pc[r] \/ pc'[r] = "done") /\ answer' = answer
      BY <2>1, <2>6 DEF Crash, Expire, Deactivate, vars, TypeOK
    <3> QED
      BY <1>1, <2>3, <3>1
  <2> QED
    BY <1>1, <2>4, <2>5, <2>6 DEF Next
<1>2. IInv /\ [Next]_vars =>
        [\A r \in Request :
           req[r].op = "refresh" /\ req[r].token \in LoggedOut /\ pc[r] = "find" =>
             pc'[r] = "find" \/ (pc'[r] = "done" /\ answer'[r] # "tokens")]_vars
  BY <1>1
<1> QED
  BY <1>2, SpecIInv, PTL DEF Spec, NoRefreshAfterLogout
=============================================================================
