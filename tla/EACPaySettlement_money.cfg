\* Orders against changing fees, fee recipients, allowances and balances; the
\* order of 10001 overflows the checked multiplication at 200 bps.  An allowance
\* of 10030, less the order of 49, covers its net amount at 20 bps and not its fee.
SPECIFICATION Spec
CONSTANTS
  alice = alice
  bob = bob
  collector = collector
  owner0 = owner0
  relayer1 = relayer1
  x1 = x1
  x2 = x2
  Account = {alice, bob, collector, owner0, relayer1, outside}
  ZeroAddress = zero
  Outside = outside
  Deployer = owner0
  Relayer = {relayer1}
  Collector = {collector, zero}
  Token = {usd, usdt}
  TransferId = {x1, x2}
  Signed <- MCSigned
  Submitted <- MCSubmitted
  FeeRate = {200, 300}
  Allowance = {10030}
  Funds <- MCFunds
  Word = 2000001
  MaxTime = 2
INVARIANTS TypeOK PayersDebitedExactly RecipientsPaid SettledAsSigned NoHiddenRevert
PROPERTY ImplementsOrders
