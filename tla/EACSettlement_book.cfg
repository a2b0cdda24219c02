\* Two concurrent payments between two banks; Word is small enough for
\* totalVolume to wrap (2 + 2 > 3).
SPECIFICATION Spec
CONSTANTS
  b1 = b1
  b2 = b2
  Caller = {b1, b2, admin}
  Admin = admin
  Key = {w}
  Wallet = {w}
  ZeroAddress = zero
  NoSigner = nobody
  TxId = {t1, t2}
  Amount = {0, 2}
  Deadline = {1, 2, 3}
  MaxTime = 3
  Word = 3
  Adjustable <- TouchedRoles
SYMMETRY Symmetry
CHECK_DEADLOCK FALSE
INVARIANTS TypeOK CountersMatchBook VolumeMatchesBook OutcomeInTime OneSignaturePerPayment
PROPERTIES ImplementsLifecycle AbandonedForGood BookIsAppendOnly
