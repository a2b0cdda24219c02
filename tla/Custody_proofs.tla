--------------------------- MODULE Custody_proofs ---------------------------
(***************************************************************************)
(* Proofs about tokens and customer wallets, for any persons, clones and   *)
(* settlement contracts: the factory's records, and what a freeze holds.   *)
(***************************************************************************)
EXTENDS Custody, FiniteSetTheorems, TLAPS

Clone == [initialised : BOOLEAN, owner : Person \cup {Nobody},
          guardian : Person \cup {Nobody}, settlement : Settlement \cup {Nobody}]

\* The types the two properties rest on.
Shape ==
  /\ isBlocked \subseteq Account
  /\ balanceOf \in [Account -> Nat]
  /\ settlementContract \in Settlement
  /\ walletOf \in [Person -> Wallet \cup {Nobody}]
  /\ ownerOf \in [Wallet -> Person \cup {Nobody}]
  /\ wallet \in [Wallet -> Clone]

MovesTokens ==
  \E from, to \in Account \cup {Nobody}, value \in Value :
    (from # Nobody \/ to # Nobody) /\ Move(from, to, value) /\ UNCHANGED <<factory, wallet>>

TokenSwitch ==
  /\ isBlocked' \subseteq isBlocked \cup Account
  /\ tokenPaused' \in BOOLEAN \cup {tokenPaused}
  /\ UNCHANGED <<balanceOf, totalSupply, factory, wallet>>

FactorySwitch ==
  /\ settlementContract' \in Settlement \cup {settlementContract}
  /\ factoryPaused' \in BOOLEAN \cup {factoryPaused}
  /\ UNCHANGED <<token, walletOf, ownerOf, wallet>>

PassesOn(w) ==
  /\ wallet[w].initialised
  /\ \/ \E g \in Person \cup {Nobody} : wallet' = [wallet EXCEPT ![w].guardian = g]
     \/ \E p \in Person : wallet' = [wallet EXCEPT ![w].owner = p]
  /\ UNCHANGED <<token, factory>>

\* A transaction moves tokens, switches something, deploys, or passes a wallet on.
LEMMA StepCases ==
  ASSUME [Next]_vars
  PROVE  \/ MovesTokens \/ TokenSwitch \/ FactorySwitch
         \/ \E w \in Wallet, p \in Person : CreateWallet(w, p)
         \/ \E w \in Wallet : PassesOn(w)
<1>0. \A a \in Account : a # Nobody
  BY CastAssumption DEF Account
<1>1. CASE TokenCall
  <2>3. SetTokenPaused => TokenSwitch
    BY DEF SetTokenPaused, TokenSwitch
  <2>4. \A a \in Account : BlockAddress(a) \/ UnblockAddress(a) => TokenSwitch
    BY DEF BlockAddress, UnblockAddress, TokenSwitch
  <2>5. ASSUME NEW a \in Account, NEW v \in Value, Mint(a, v) \/ Burn(a, v) PROVE MovesTokens
    BY <1>0, <2>5, Zenon DEF Mint, Burn, MovesTokens
  <2>6. ASSUME NEW a \in Account, NEW b \in Account, NEW v \in Value, Transfer(a, b, v)
        PROVE  MovesTokens
    BY <1>0, <2>6, Zenon DEF Transfer, MovesTokens
  <2> QED
    BY <1>1, <2>3, <2>4, <2>5, <2>6, Zenon DEF TokenCall
<1>2. CASE FactoryCall
  <2>1. ASSUME NEW s \in Settlement, SetSettlement(s) PROVE FactorySwitch
    BY <2>1 DEF SetSettlement, FactorySwitch
  <2>2. SetFactoryPaused => FactorySwitch
    BY DEF SetFactoryPaused, FactorySwitch
  <2> QED
    BY <1>2, <2>1, <2>2, Zenon DEF FactoryCall
<1>3. ASSUME NEW w \in Wallet, WalletCall(w) PROVE MovesTokens \/ PassesOn(w)
  <2>0. w \in Account /\ \A p \in Person : p \in Account
    BY DEF Account
  <2>1. ASSUME NEW p \in Person, NEW v \in Value, DepositToken(w, p, v) PROVE MovesTokens
    BY <1>0, <2>0, <2>1, Zenon DEF DepositToken, MovesTokens
  <2>2. ASSUME NEW c, NEW a \in Account, NEW v \in Value, WithdrawToken(w, c, a, v)
        PROVE  MovesTokens
    BY <1>0, <2>0, <2>2, Zenon DEF WithdrawToken, MovesTokens
  <2>3. ASSUME NEW c, NEW g \in Person \cup {Nobody}, SetGuardian(w, c, g)
        PROVE  PassesOn(w)
    BY <2>3, Zenon DEF SetGuardian, PassesOn
  <2>4. ASSUME NEW c, NEW p \in Person, TransferOwnership(w, c, p)
        PROVE  PassesOn(w)
    BY <2>4, Zenon DEF TransferOwnership, PassesOn
  <2> QED
    BY <1>3, <2>1, <2>2, <2>3, <2>4, Zenon DEF WalletCall
<1>4. CASE UNCHANGED vars
  BY <1>4 DEF vars, TokenSwitch, token
<1> QED
  BY <1>1, <1>2, <1>3, <1>4, Zenon DEF Next
-----------------------------------------------------------------------------
(* Balances and records keep their types.                                  *)

\* A movement takes no more than there is.
LEMMA MoveTyped ==
  ASSUME Shape, NEW from \in Account \cup {Nobody}, NEW to \in Account \cup {Nobody},
         NEW value \in Value, Move(from, to, value)
  PROVE  balanceOf' \in [Account -> Nat]
<1>1. value \in Nat
  BY BoundAssumption DEF Value
<1>2. ASSUME NEW a \in Account
      PROVE  (IF a = from THEN balanceOf[a] - value ELSE balanceOf[a])
               + (IF a = to THEN value ELSE 0) \in Nat
  <2>1. balanceOf[a] \in Nat /\ (a = from => balanceOf[a] >= value)
    BY CastAssumption DEF Move, Shape, Account
  <2> QED
    BY <1>1, <2>1
<1>3. balanceOf' = [a \in Account |->
        (IF a = from THEN balanceOf[a] - value ELSE balanceOf[a]) + (IF a = to THEN value ELSE 0)]
  BY Zenon DEF Move
<1> QED
  BY <1>2, <1>3

\* A clone passes on without a change to whether it is in use.
LEMMA PassedOn ==
  ASSUME Shape, NEW w \in Wallet, PassesOn(w)
  PROVE  /\ wallet' \in [Wallet -> Clone]
         /\ \A x \in Wallet : wallet'[x].initialised = wallet[x].initialised
<1>1. \/ \E g \in Person \cup {Nobody} : wallet' = [wallet EXCEPT ![w].guardian = g]
      \/ \E p \in Person : wallet' = [wallet EXCEPT ![w].owner = p]
  BY Zenon DEF PassesOn
<1> QED
  BY <1>1 DEF Shape, Clone

LEMMA ShapeAlways == Spec => []Shape
<1>1. Init => Shape
  BY CastAssumption DEF Init, Shape, Clone, Blank
<1>2. ASSUME Shape, [Next]_vars PROVE Shape'
  <2>1. CASE MovesTokens
    <3>1. PICK from, to \in Account \cup {Nobody}, value \in Value :
                 Move(from, to, value) /\ UNCHANGED <<factory, wallet>>
      BY <2>1, Zenon DEF MovesTokens
    <3> QED
      BY <1>2, <3>1, MoveTyped DEF Move, Shape, factory
  <2>2. CASE TokenSwitch
    BY <1>2, <2>2 DEF TokenSwitch, Shape, factory
  <2>3. CASE FactorySwitch
    BY <1>2, <2>3 DEF FactorySwitch, Shape, token
  <2>4. ASSUME NEW w \in Wallet, NEW p \in Person, CreateWallet(w, p) PROVE Shape'
    <3>1. wallet' \in [Wallet -> Clone]
      BY <1>2, <2>4 DEF CreateWallet, Initialize, Shape, Clone
    <3>2. walletOf' \in [Person -> Wallet \cup {Nobody}] /\ ownerOf' \in [Wallet -> Person \cup {Nobody}]
      BY <1>2, <2>4 DEF CreateWallet, Shape
    <3> QED
      BY <1>2, <2>4, <3>1, <3>2 DEF CreateWallet, Shape, token
  <2>5. ASSUME NEW w \in Wallet, PassesOn(w) PROVE Shape'
    <3>1. wallet' \in [Wallet -> Clone]
      BY <1>2, <2>5, PassedOn
    <3> QED
      BY <1>2, <2>5, <3>1 DEF PassesOn, Shape, token, factory
  <2> QED
    BY <1>2, <2>1, <2>2, <2>3, <2>4, <2>5, StepCases
<1> QED
  BY <1>1, <1>2, PTL DEF Spec
-----------------------------------------------------------------------------
(* The supply.                                                             *)

\* What is in circulation, one pair for each unit an account holds: the supply is
\* their number, so that a burn never takes more than there is.
Coins(balance) == UNION {{a} \X (1 .. balance[a]) : a \in Account}

SupplyIsHeld == IsFiniteSet(Coins(balanceOf)) /\ totalSupply = Cardinality(Coins(balanceOf))

LEMMA CoinOf == ASSUME NEW balance, NEW c
                PROVE  c \in Coins(balance) <=> \E a \in Account : \E n \in 1 .. balance[a] : c = <<a, n>>
  BY DEF Coins

\* after differs from before in that b has v more, and then has v more coins.
Gets(before, after, b, v) ==
  \A a \in Account : after[a] = before[a] + IF a = b THEN v ELSE 0

LEMMA CoinsGrow ==
  ASSUME NEW before \in [Account -> Nat], NEW after \in [Account -> Nat], NEW b \in Account, NEW v \in Nat,
         Gets(before, after, b, v)
  PROVE  /\ IsFiniteSet(Coins(before)) <=> IsFiniteSet(Coins(after))
         /\ IsFiniteSet(Coins(before)) => Cardinality(Coins(after)) = Cardinality(Coins(before)) + v
<1> DEFINE pile == {b} \X ((before[b] + 1) .. after[b])
<1>1. IsFiniteSet(pile) /\ Cardinality(pile) = v
  <2>1. before[b] \in Nat /\ after[b] = before[b] + v
    BY DEF Gets
  <2>2. IsFiniteSet((before[b] + 1) .. after[b]) /\ Cardinality((before[b] + 1) .. after[b]) = v
    <3> DEFINE lo == before[b] + 1
               hi == after[b]
    <3>1. lo \in Int /\ hi \in Int /\ hi - lo + 1 = v
      BY <2>1
    <3> HIDE DEF lo, hi
    <3>2. IsFiniteSet(lo .. hi) /\ Cardinality(lo .. hi) = IF lo > hi THEN 0 ELSE hi - lo + 1
      BY <3>1, FS_Interval
    <3>3. IsFiniteSet(lo .. hi) /\ Cardinality(lo .. hi) = v
      BY <3>1, <3>2
    <3> QED
      BY <3>3 DEF lo, hi
  <2>3. IsFiniteSet({b}) /\ Cardinality({b}) = 1
    BY FS_Singleton
  <2>4. IsFiniteSet(pile) /\ Cardinality(pile) = 1 * v
    BY <2>2, <2>3, FS_Product
  <2> QED
    BY <2>4
<1>2. \A c : c \in pile <=> \E n \in (before[b] + 1) .. after[b] : c = <<b, n>>
  OBVIOUS
<1> HIDE DEF pile
<1>3. Coins(after) = Coins(before) \cup pile
  <2>1. \A a \in Account : 1 .. after[a] = (1 .. before[a]) \cup IF a = b THEN (before[b] + 1) .. after[b] ELSE {}
    BY DEF Gets
  <2>2. ASSUME NEW c PROVE c \in Coins(after) <=> c \in Coins(before) \/ c \in pile
    BY <1>2, <2>1, CoinOf
  <2> QED
    BY <2>2
<1>4. Coins(before) \cap pile = {}
  <2>1. \A n \in 1 .. before[b] : n \notin (before[b] + 1) .. after[b]
    OBVIOUS
  <2> QED
    BY <1>2, <2>1, CoinOf
<1>5. IsFiniteSet(Coins(before)) <=> IsFiniteSet(Coins(after))
  BY <1>1, <1>3, FS_Union, FS_Subset
<1>6. ASSUME IsFiniteSet(Coins(before)) PROVE Cardinality(Coins(after)) = Cardinality(Coins(before)) + v
  <2>1. Cardinality(Coins(after)) = Cardinality(Coins(before)) + Cardinality(pile) - Cardinality(Coins(before) \cap pile)
    BY <1>1, <1>3, <1>6, FS_Union
  <2>2. Cardinality(Coins(before)) \in Nat /\ Cardinality(Coins(before) \cap pile) = 0
    BY <1>4, <1>6, FS_CardinalityType, FS_EmptySet
  <2> QED
    BY <1>1, <2>1, <2>2
<1> QED
  BY <1>5, <1>6
\* Every movement, a mint and a burn among them, keeps the supply equal to what is held.
LEMMA MoveKeepsSupply ==
  ASSUME Shape, SupplyIsHeld, NEW from \in Account \cup {Nobody}, NEW to \in Account \cup {Nobody},
         from # Nobody \/ to # Nobody, NEW value \in Value, Move(from, to, value)
  PROVE  SupplyIsHeld'
<1>0. /\ value \in Nat /\ Nobody \notin Account
      /\ balanceOf \in [Account -> Nat] /\ balanceOf' \in [Account -> Nat]
  BY MoveTyped, BoundAssumption, CastAssumption DEF Value, Shape, Account
<1>1. /\ from # Nobody => balanceOf[from] >= value
      /\ totalSupply' = IF from = Nobody THEN totalSupply + value
                        ELSE IF to = Nobody THEN totalSupply - value ELSE totalSupply
      /\ \A a \in Account : balanceOf'[a] =
           (IF a = from THEN balanceOf[a] - value ELSE balanceOf[a]) + (IF a = to THEN value ELSE 0)
  BY DEF Move
<1>2. \A a \in Account : balanceOf[a] \in Nat /\ balanceOf'[a] \in Nat
  BY <1>0
<1>3. IsFiniteSet(Coins(balanceOf)) /\ totalSupply = Cardinality(Coins(balanceOf))
  BY DEF SupplyIsHeld
<1>4. \A b \in [Account -> Nat] : IsFiniteSet(Coins(b)) => Cardinality(Coins(b)) \in Nat
  BY FS_CardinalityType
<1>5. CASE from = Nobody
  <2>1. Gets(balanceOf, balanceOf', to, value)
    BY <1>0, <1>1, <1>2, <1>5 DEF Gets
  <2>2. to \in Account
    BY <1>5
  <2>3. /\ IsFiniteSet(Coins(balanceOf'))
        /\ Cardinality(Coins(balanceOf')) = Cardinality(Coins(balanceOf)) + value
    BY <1>0, <1>3, <2>1, <2>2, CoinsGrow, Zenon
  <2> QED
    BY <1>1, <1>3, <1>5, <2>3 DEF SupplyIsHeld, Coins
<1>6. CASE to = Nobody
  <2>1. Gets(balanceOf', balanceOf, from, value)
    BY <1>0, <1>1, <1>2, <1>6 DEF Gets
  <2>2. from \in Account
    BY <1>6
  <2>3. /\ IsFiniteSet(Coins(balanceOf'))
        /\ Cardinality(Coins(balanceOf)) = Cardinality(Coins(balanceOf')) + value
    BY <1>0, <1>3, <2>1, <2>2, CoinsGrow, Zenon
  <2> QED
    BY <1>0, <1>1, <1>3, <1>4, <1>6, <2>2, <2>3 DEF SupplyIsHeld, Coins
<1>7. CASE from \in Account /\ to \in Account
  <2> DEFINE mid == [a \in Account |-> IF a = from THEN balanceOf[a] - value ELSE balanceOf[a]]
  <2>1. mid \in [Account -> Nat]
    BY <1>0, <1>1, <1>2, <1>7
  <2>2. Gets(mid, balanceOf, from, value) /\ Gets(mid, balanceOf', to, value)
    BY <1>0, <1>1, <1>2 DEF Gets
  <2> HIDE DEF mid
  <2>3. /\ IsFiniteSet(Coins(mid))
        /\ Cardinality(Coins(balanceOf)) = Cardinality(Coins(mid)) + value
    BY <1>0, <1>3, <1>7, <2>1, <2>2, CoinsGrow, Zenon
  <2>4. /\ IsFiniteSet(Coins(balanceOf'))
        /\ Cardinality(Coins(balanceOf')) = Cardinality(Coins(mid)) + value
    BY <1>0, <1>7, <2>1, <2>2, <2>3, CoinsGrow, Zenon
  <2>5. totalSupply' = totalSupply
    BY <1>0, <1>1, <1>7
  <2> QED
    BY <1>3, <2>3, <2>4, <2>5 DEF SupplyIsHeld, Coins
<1> QED
  BY <1>5, <1>6, <1>7

LEMMA NoCoins == ASSUME Init PROVE Coins(balanceOf) = {}
<1>1. \A a \in Account : 1 .. balanceOf[a] = {}
  BY DEF Init
<1> QED
  BY <1>1, CoinOf

Owned == [initialised : {TRUE}, owner : Person, guardian : Person \cup {Nobody}, settlement : Settlement]

\* With Shape, what makes TypeOK inductive.
InUse ==
  /\ tokenPaused \in BOOLEAN /\ factoryPaused \in BOOLEAN
  /\ SupplyIsHeld
  /\ \A w \in Wallet : wallet[w] = Blank \/ wallet[w] \in Owned

\* A clone in use keeps an owner when it is passed on.
LEMMA PassedOnOwned ==
  ASSUME Shape, InUse, NEW w \in Wallet, PassesOn(w)
  PROVE  \A x \in Wallet : wallet'[x] = Blank \/ wallet'[x] \in Owned
<1>1. \/ \E g \in Person \cup {Nobody} : wallet' = [wallet EXCEPT ![w].guardian = g]
      \/ \E p \in Person : wallet' = [wallet EXCEPT ![w].owner = p]
  BY Zenon DEF PassesOn
<1>2. wallet[w] \in Owned
  BY DEF PassesOn, InUse, Blank
<1>3. wallet'[w] \in Owned
  BY <1>1, <1>2 DEF Shape, Owned
<1>4. \A x \in Wallet \ {w} : wallet'[x] = wallet[x]
  BY <1>1 DEF Shape
<1> QED
  BY <1>3, <1>4 DEF InUse

LEMMA InUseStep == ASSUME Shape, InUse, [Next]_vars PROVE InUse'
<1>1. CASE MovesTokens
  <2>1. PICK from, to \in Account \cup {Nobody}, value \in Value :
               (from # Nobody \/ to # Nobody) /\ Move(from, to, value) /\ UNCHANGED <<factory, wallet>>
    BY <1>1, Zenon DEF MovesTokens
  <2>2. SupplyIsHeld'
    BY <2>1, MoveKeepsSupply DEF InUse
  <2> QED
    BY <2>1, <2>2 DEF Move, InUse, factory
<1>2. CASE TokenSwitch
  BY <1>2 DEF TokenSwitch, InUse, SupplyIsHeld, factory
<1>3. CASE FactorySwitch
  BY <1>3 DEF FactorySwitch, InUse, SupplyIsHeld, token
<1>4. ASSUME NEW w \in Wallet, NEW p \in Person, CreateWallet(w, p) PROVE InUse'
  <2>1. wallet'[w] \in Owned
    BY <1>4 DEF CreateWallet, Initialize, Shape, Owned
  <2>2. \A x \in Wallet \ {w} : wallet'[x] = wallet[x]
    BY <1>4 DEF CreateWallet, Initialize, Shape
  <2> QED
    BY <1>4, <2>1, <2>2 DEF CreateWallet, InUse, SupplyIsHeld, token
<1>5. ASSUME NEW w \in Wallet, PassesOn(w) PROVE InUse'
  <2>1. \A x \in Wallet : wallet'[x] = Blank \/ wallet'[x] \in Owned
    BY <1>5, PassedOnOwned
  <2> QED
    BY <1>5, <2>1 DEF PassesOn, InUse, SupplyIsHeld, token, factory
<1> QED
  BY <1>1, <1>2, <1>3, <1>4, <1>5, StepCases

LEMMA InUseAlways == Spec => []InUse
<1>1. ASSUME Init PROVE InUse
  <2>1. IsFiniteSet(Coins(balanceOf)) /\ Cardinality(Coins(balanceOf)) = 0
    BY <1>1, NoCoins, FS_EmptySet
  <2> QED
    BY <1>1, <2>1 DEF Init, InUse, SupplyIsHeld
<1> QED
  BY <1>1, InUseStep, ShapeAlways, PTL DEF Spec

\* Every variable keeps its kind: the supply stays a number and a clone in use has an
\* owner and a settlement contract.
THEOREM TypeCorrect == Spec => []TypeOK
<1>1. Shape /\ InUse => TypeOK
  BY FS_CardinalityType DEF Shape, InUse, SupplyIsHeld, Owned, TypeOK
<1> QED
  BY <1>1, ShapeAlways, InUseAlways, PTL

\* The supply is the sum of what the accounts hold, counted unit by unit.
THEOREM SupplyCorrect == Spec => []SupplyIsHeld
<1>1. InUse => SupplyIsHeld
  BY DEF InUse
<1> QED
  BY <1>1, InUseAlways, PTL

-----------------------------------------------------------------------------
(* The registry.                                                           *)

\* RegistryMatchesWallets is inductive beside Shape.
LEMMA RegistryStep ==
  ASSUME Shape, RegistryMatchesWallets, [Next]_vars
  PROVE  RegistryMatchesWallets'
<1>1. CASE MovesTokens \/ TokenSwitch \/ FactorySwitch
  <2>1. UNCHANGED <<walletOf, ownerOf, wallet>>
    BY <1>1, Zenon DEF MovesTokens, TokenSwitch, FactorySwitch, factory
  <2> QED
    BY <2>1, Zenon DEF RegistryMatchesWallets
<1>2. ASSUME NEW w \in Wallet, NEW p \in Person, CreateWallet(w, p) PROVE RegistryMatchesWallets'
  <2>1. ownerOf[w] = Nobody /\ walletOf[p] = Nobody /\ w # Nobody /\ p # Nobody
    BY <1>2, CastAssumption DEF CreateWallet, Initialize, WithoutWallet, RegistryMatchesWallets
  <2>2. \A q \in Person : walletOf'[q] = IF q = p THEN w ELSE walletOf[q]
    BY <1>2 DEF CreateWallet, Shape
  <2>3. \A x \in Wallet : ownerOf'[x] = IF x = w THEN p ELSE ownerOf[x]
    BY <1>2 DEF CreateWallet, Shape
  <2>4. \A x \in Wallet : wallet'[x].initialised <=> x = w \/ wallet[x].initialised
    BY <1>2 DEF CreateWallet, Initialize, Shape
  <2>5. \A q \in Person : walletOf[q] \in Wallet \cup {Nobody}
    BY DEF Shape
  <2>6. \A x \in Wallet : ownerOf[x] \in Person \cup {Nobody}
    BY DEF Shape
  <2>7. ASSUME NEW q \in Person, walletOf'[q] # Nobody PROVE ownerOf'[walletOf'[q]] = q
    <3>1. CASE q = p
      BY <2>2, <2>3, <3>1
    <3>2. CASE q # p
      <4>1. walletOf'[q] = walletOf[q] /\ walletOf[q] \in Wallet
        BY <2>2, <2>5, <2>7, <3>2
      <4>2. ownerOf[walletOf[q]] = q /\ walletOf[q] # w
        BY <2>1, <4>1, CastAssumption DEF RegistryMatchesWallets
      <4> QED
        BY <2>3, <4>1, <4>2
    <3> QED
      BY <3>1, <3>2
  <2>8. ASSUME NEW x \in Wallet, ownerOf'[x] # Nobody PROVE walletOf'[ownerOf'[x]] = x
    <3>1. CASE x = w
      BY <2>2, <2>3, <3>1
    <3>2. CASE x # w
      <4>1. ownerOf'[x] = ownerOf[x] /\ ownerOf[x] \in Person
        BY <2>3, <2>6, <2>8, <3>2
      <4>2. walletOf[ownerOf[x]] = x /\ ownerOf[x] # p
        BY <2>1, <4>1, CastAssumption DEF RegistryMatchesWallets
      <4> QED
        BY <2>2, <4>1, <4>2
    <3> QED
      BY <3>1, <3>2
  <2>9. ASSUME NEW x \in Wallet PROVE wallet'[x].initialised <=> ownerOf'[x] # Nobody
    BY <2>1, <2>3, <2>4 DEF RegistryMatchesWallets
  <2> QED
    BY <2>7, <2>8, <2>9, Zenon DEF RegistryMatchesWallets
<1>3. ASSUME NEW w \in Wallet, PassesOn(w) PROVE RegistryMatchesWallets'
  <2>1. UNCHANGED <<walletOf, ownerOf>> /\ \A x \in Wallet : wallet'[x].initialised = wallet[x].initialised
    BY <1>3, PassedOn DEF PassesOn, factory
  <2> QED
    BY <2>1, Zenon DEF RegistryMatchesWallets
<1> QED
  BY <1>1, <1>2, <1>3, StepCases

\* The factory's records agree with each other and with the clones.
THEOREM RegistryCorrect == Spec => []RegistryMatchesWallets
<1>1. Init => RegistryMatchesWallets
  BY DEF Init, RegistryMatchesWallets, Blank
<1> QED
  BY <1>1, RegistryStep, ShapeAlways, PTL DEF Spec
-----------------------------------------------------------------------------
(* Freezes.                                                                *)

\* No transaction moves what is frozen.
THEOREM FreezeCorrect == Spec => FrozenMoneyStays
<1>1. ASSUME Shape, [Next]_vars
      PROVE  /\ \A a \in isBlocked : balanceOf'[a] = balanceOf[a]
             /\ tokenPaused => balanceOf' = balanceOf
  <2>1. CASE MovesTokens
    <3>1. PICK from, to \in Account \cup {Nobody}, value \in Value : Move(from, to, value)
      BY <2>1, Zenon DEF MovesTokens
    <3>2. ~tokenPaused /\ from \notin isBlocked /\ to \notin isBlocked
      BY <3>1, Zenon DEF Move, Passes
    <3>3. ASSUME NEW a \in isBlocked PROVE balanceOf'[a] = balanceOf[a]
      BY <1>1, <3>1, <3>2, <3>3 DEF Move, Shape
    <3> QED
      BY <3>2, <3>3
  <2>2. CASE TokenSwitch \/ FactorySwitch \/ \E w \in Wallet, p \in Person : CreateWallet(w, p)
    <3>1. UNCHANGED balanceOf
      BY <2>2, Zenon DEF TokenSwitch, FactorySwitch, CreateWallet, token
    <3> QED
      BY <3>1
  <2>3. CASE \E w \in Wallet : PassesOn(w)
    <3>1. UNCHANGED balanceOf
      BY <2>3, Zenon DEF PassesOn, token
    <3> QED
      BY <3>1
  <2> QED
    BY <1>1, <2>1, <2>2, <2>3, StepCases
<1>2. Shape /\ [Next]_vars
        => [/\ \A a \in isBlocked : balanceOf'[a] = balanceOf[a]
            /\ tokenPaused => balanceOf' = balanceOf]_vars
  BY <1>1
<1> QED
  BY <1>2, ShapeAlways, PTL DEF Spec, FrozenMoneyStays
=============================================================================
