\* Three broadcasts at once.  The process stays up and the database answers; any
\* call to the node may fail.
SPECIFICATION FairSpec
CONSTANTS
  r1 = r1
  r2 = r2
  r3 = r3
  w1 = w1
  Request = {r1, r2, r3}
  Sender <- SelfPaying
  Recipient <- PayingW1
  NoWallet = nowallet
  TransferId = {i1, i2, i3}
  NoId = noid
  RelayerKey = TRUE
  Faults = {"rpc"}
CHECK_DEADLOCK FALSE
INVARIANT NothingWaitsInVain
PROPERTY AcceptedIsResolved
