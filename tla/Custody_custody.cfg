\* Two customers, two wallets, two settlement contracts and two tokens.
SPECIFICATION Spec
CONSTANTS
  Person = {p1, p2}
  Wallet = {w1, w2}
  Settlement = {s1, s2}
  Nobody = nobody
  MaxSupply = 2
SYMMETRY Interchangeable
INVARIANTS TypeOK RegistryMatchesWallets
PROPERTY FrozenMoneyStays
