\* Four requests of any kind about two accounts, under every fault.
SPECIFICATION Spec
CONSTANTS
  Request = {q1, q2, q3, q4}
  User = {ann, bob}
  NoUser = nouser
  Token = {k1, k2, k3}
  NoToken = notoken
  Faults = {"db", "crash"}
SYMMETRY Symmetry
INVARIANTS TypeOK OneAccountPerEmail DeadSessionStaysDead ExchangedIsRevoked
PROPERTY NoRefreshAfterLogout
