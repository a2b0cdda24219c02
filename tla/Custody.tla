------------------------------ MODULE Custody ------------------------------
(***************************************************************************)
(* What customers hold on the chain: the token (src/EAC/EACToken.sol), the *)
(* wallets that keep it (src/EAC/CustomerWallet.sol) and the factory that  *)
(* deploys them (src/EAC/EACWalletFactory.sol).  A step is a transaction;  *)
(* one that reverts is no step.                                            *)
(*                                                                         *)
(* Who holds a role and who approved whom is not kept: a holder of the role*)
(* may call at any time, and a person may have approved any spender.  A    *)
(* wallet has no way to approve.  EACSettlement describes AccessControl.   *)
(***************************************************************************)
EXTENDS Naturals, FiniteSets

CONSTANTS
  Person,      \* externally owned accounts
  Wallet,      \* addresses of clones
  Settlement,  \* addresses a settlement contract may have
  Nobody,      \* the zero address
  MaxSupply    \* bound: tokens in circulation

ASSUME CastAssumption ==
  /\ Nobody \notin Person \cup Wallet \cup Settlement
  /\ Wallet \cap (Person \cup Settlement) = {}
ASSUME BoundAssumption == MaxSupply \in Nat

Account == Person \cup Wallet \cup Settlement

VARIABLES
  tokenPaused, isBlocked, balanceOf, totalSupply,       \* EACToken
  factoryPaused, settlementContract, walletOf, ownerOf, \* EACWalletFactory
  wallet                                                \* the clones

token == <<tokenPaused, isBlocked, balanceOf, totalSupply>>
factory == <<factoryPaused, settlementContract, walletOf, ownerOf>>
vars == <<token, factory, wallet>>

Blank == [initialised |-> FALSE, owner |-> Nobody, guardian |-> Nobody, settlement |-> Nobody]

Init ==
  /\ tokenPaused = FALSE /\ isBlocked = {}
  /\ balanceOf = [a \in Account |-> 0] /\ totalSupply = 0
  /\ factoryPaused = FALSE /\ settlementContract \in Settlement
  /\ walletOf = [p \in Person |-> Nobody] /\ ownerOf = [w \in Wallet |-> Nobody]
  /\ wallet = [w \in Wallet |-> Blank]

-----------------------------------------------------------------------------
(* The token.                                                              *)

\* Mutant: the receiving side is not looked at.
PassesSender(from, to) == ~tokenPaused /\ from \notin isBlocked

\* The hook under every movement; minting comes from, burning goes to, Nobody.
Passes(from, to) == ~tokenPaused /\ from \notin isBlocked /\ to \notin isBlocked

\* _update, from and to not both Nobody.
Move(from, to, value) ==
  /\ Passes(from, to)
  /\ from # Nobody => balanceOf[from] >= value
  /\ totalSupply' = IF from = Nobody THEN totalSupply + value
                    ELSE IF to = Nobody THEN totalSupply - value ELSE totalSupply
  /\ balanceOf' = [a \in Account |->
       (IF a = from THEN balanceOf[a] - value ELSE balanceOf[a]) + (IF a = to THEN value ELSE 0)]
  /\ UNCHANGED <<tokenPaused, isBlocked>>

Value == 1..MaxSupply

\* By the treasury.
Mint(to, value) ==
  /\ to \notin isBlocked /\ totalSupply + value <= MaxSupply
  /\ Move(Nobody, to, value)
  /\ UNCHANGED <<factory, wallet>>

\* burn by a person, or burnFrom with an allowance or with BURNER_ROLE: only the
\* last reaches what a contract holds.
Burn(account, value) ==
  /\ Move(account, Nobody, value)
  /\ UNCHANGED <<factory, wallet>>

\* transfer or transferFrom of what a person or a settlement contract holds.
Transfer(from, to, value) ==
  /\ from \in Person \cup Settlement
  /\ Move(from, to, value)
  /\ UNCHANGED <<factory, wallet>>

SetTokenPaused ==
  /\ tokenPaused' = ~tokenPaused
  /\ UNCHANGED <<isBlocked, balanceOf, totalSupply, factory, wallet>>

BlockAddress(a) ==
  /\ isBlocked' = isBlocked \cup {a}
  /\ UNCHANGED <<tokenPaused, balanceOf, totalSupply, factory, wallet>>

UnblockAddress(a) ==
  /\ isBlocked' = isBlocked \ {a}
  /\ UNCHANGED <<tokenPaused, balanceOf, totalSupply, factory, wallet>>

-----------------------------------------------------------------------------
(* The factory.                                                            *)

SetSettlement(s) ==
  /\ settlementContract' = s
  /\ UNCHANGED <<token, factoryPaused, walletOf, ownerOf, wallet>>

SetFactoryPaused ==
  /\ factoryPaused' = ~factoryPaused
  /\ UNCHANGED <<token, settlementContract, walletOf, ownerOf, wallet>>

\* initialize.  It is external and anyone may be its caller, but the factory calls
\* it in the transaction that deploys the clone: for a clone of the factory there
\* is no other moment.  The implementation, which the factory leaves
\* uninitialised, and clones made by others are no wallets of this module.
Initialize(w, owner) ==
  /\ ~wallet[w].initialised
  /\ wallet' = [wallet EXCEPT ![w] = [initialised |-> TRUE, owner |-> owner, guardian |-> Nobody,
                                      settlement |-> settlementContract]]

\* Mutant: the existing wallet of the customer is not looked up.
WithoutWalletUnchecked(customer) == TRUE

WithoutWallet(customer) == walletOf[customer] = Nobody

\* A clone gets an address that held nothing but, maybe, tokens.
CreateWallet(w, customer) ==
  /\ ~factoryPaused /\ WithoutWallet(customer)
  /\ Initialize(w, customer)
  /\ walletOf' = [walletOf EXCEPT ![customer] = w]
  /\ ownerOf' = [ownerOf EXCEPT ![w] = customer]
  /\ UNCHANGED <<token, factoryPaused, settlementContract>>

-----------------------------------------------------------------------------
(* The wallets; any address may be their owner or guardian, a person calls.*)

\* depositToken by anyone who approved the wallet.
DepositToken(w, from, value) ==
  /\ wallet[w].initialised /\ from \in Person
  /\ Move(from, w, value)
  /\ UNCHANGED <<factory, wallet>>

\* withdrawToken by the owner or by the settlement contract of this wallet.
WithdrawToken(w, caller, to, value) ==
  /\ wallet[w].initialised /\ caller \in {wallet[w].owner, wallet[w].settlement}
  /\ Move(w, to, value)
  /\ UNCHANGED <<factory, wallet>>

\* The zero address removes the guardian.
SetGuardian(w, caller, guardian) ==
  /\ wallet[w].initialised /\ caller = wallet[w].owner
  /\ wallet' = [wallet EXCEPT ![w].guardian = guardian]
  /\ UNCHANGED <<token, factory>>

\* Mutant: the zero address is accepted as an owner.
TransferOwnershipToZero(w, caller, newOwner) ==
  /\ wallet[w].initialised /\ caller \in {wallet[w].owner, wallet[w].guardian}
  /\ \E n \in {newOwner, Nobody} : wallet' = [wallet EXCEPT ![w].owner = n]
  /\ UNCHANGED <<token, factory>>

\* The guardian stays, and the factory does not hear of it.
TransferOwnership(w, caller, newOwner) ==
  /\ wallet[w].initialised /\ caller \in {wallet[w].owner, wallet[w].guardian}
  /\ wallet' = [wallet EXCEPT ![w].owner = newOwner]
  /\ UNCHANGED <<token, factory>>

-----------------------------------------------------------------------------
TokenCall ==
  \/ \E a \in Account, v \in Value : Mint(a, v) \/ Burn(a, v)
  \/ \E a, b \in Account, v \in Value : Transfer(a, b, v)
  \/ SetTokenPaused
  \/ \E a \in Account : BlockAddress(a) \/ UnblockAddress(a)

FactoryCall ==
  \/ \E s \in Settlement : SetSettlement(s)
  \/ SetFactoryPaused
  \/ \E w \in Wallet, p \in Person : CreateWallet(w, p)

WalletCall(w) ==
  \/ \E p \in Person, v \in Value : DepositToken(w, p, v)
  \/ \E c \in Person \cup Settlement, a \in Account, v \in Value : WithdrawToken(w, c, a, v)
  \/ \E c \in Person, g \in Person \cup {Nobody} : SetGuardian(w, c, g)
  \/ \E c \in Person, p \in Person : TransferOwnership(w, c, p)

Next == TokenCall \/ FactoryCall \/ \E w \in Wallet : WalletCall(w)

Spec == Init /\ [][Next]_vars

-----------------------------------------------------------------------------
(***************************************************************************)
(* Properties.                                                             *)
(***************************************************************************)

\* Every variable holds values of its declared kind; a wallet in use has an owner and
\* a settlement contract, however often it changes hands.
TypeOK ==
  /\ tokenPaused \in BOOLEAN /\ isBlocked \subseteq Account
  /\ balanceOf \in [Account -> Nat] /\ totalSupply \in Nat
  /\ factoryPaused \in BOOLEAN /\ settlementContract \in Settlement
  /\ walletOf \in [Person -> Wallet \cup {Nobody}] /\ ownerOf \in [Wallet -> Person \cup {Nobody}]
  /\ \A w \in Wallet :
       wallet[w] = Blank \/ wallet[w] \in [initialised : {TRUE}, owner : Person,
                                           guardian : Person \cup {Nobody}, settlement : Settlement]

\* The factory's two records are inverse to each other and list exactly the wallets in
\* use: a customer gets one wallet, whoever owns it later.
RegistryMatchesWallets ==
  /\ \A p \in Person : walletOf[p] # Nobody => ownerOf[walletOf[p]] = p
  /\ \A w \in Wallet : ownerOf[w] # Nobody => walletOf[ownerOf[w]] = w
  /\ \A w \in Wallet : wallet[w].initialised <=> ownerOf[w] # Nobody

\* A freeze holds on every path: the balance of a blocked address, and every balance
\* while the token is paused, is neither spent, received, minted nor burned, by the
\* owner of a wallet, its settlement contract or a holder of BURNER_ROLE.
FrozenMoneyStays ==
  [][/\ \A a \in isBlocked : balanceOf'[a] = balanceOf[a]
     /\ tokenPaused => balanceOf' = balanceOf]_vars
=============================================================================
