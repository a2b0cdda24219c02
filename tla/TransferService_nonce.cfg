\* Two broadcasts at once, no fault.
SPECIFICATION FairSpec
CONSTANTS
  r1 = r1
  r2 = r2
  r3 = r3
  w1 = w1
  Request = {r1, r2}
  Sender <- SelfPaying
  Recipient <- PayingW1
  NoWallet = nowallet
  TransferId = {i1, i2}
  NoId = noid
  RelayerKey = TRUE
  Faults = {}
CHECK_DEADLOCK FALSE
PROPERTY AcceptedIsSettled
