\* A login and two refreshes of its token, no fault.
SPECIFICATION Spec
CONSTANTS
  Request = {q1, q2, q3}
  User = {ann}
  NoUser = nouser
  Token = {k1, k2, k3}
  NoToken = notoken
  Faults = {}
SYMMETRY Symmetry
INVARIANT RotatedOnce
