\* Two broadcasts at once under every fault, and a client without wallet.
SPECIFICATION Spec
CONSTANTS
  r1 = r1
  r2 = r2
  r3 = r3
  w1 = w1
  Request = {r1, r2, r3}
  Sender <- SenderW1OrNone
  Recipient <- PayingW1
  NoWallet = nowallet
  TransferId = {i1, i2}
  NoId = noid
  RelayerKey = TRUE
  Faults = {"db", "rpc", "refusal", "drop", "crash", "shutdown"}
CHECK_DEADLOCK FALSE
INVARIANTS TypeOK OnlyAcceptedIsSent FailedIsNotSettled
PROPERTY ImplementsRelay
