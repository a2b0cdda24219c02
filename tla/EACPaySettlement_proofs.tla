---------------------- MODULE EACPaySettlement_proofs ----------------------
(***************************************************************************)
(* Proofs about the token settlement contract, for any accounts, tokens,   *)
(* orders, fee rates and word size: types, and with them that no balance   *)
(* or allowance ever goes below zero; that what is settled was signed; that*)
(* an identifier is consumed once; that payers are debited exactly what is *)
(* settled, and recipients get it less the fee; that a signed order is not *)
(* refused for a hidden reason; and that the contract implements           *)
(* SignedOrders.  The third part is about sums, whose lemmas come first: by*)
(* unfolding the fold behind Total, and a least counterexample among the   *)
(* subsets of a finite set.                                                *)
(***************************************************************************)
EXTENDS EACPaySettlement, FiniteSetTheorems, TLAPS

-----------------------------------------------------------------------------
(* Sums over finite sets.                                                  *)

\* The function by which the fold behind Total is defined, one step at a time.
Some(s) == CHOOSE x \in s : TRUE
FoldStep(f, s, g) == IF s = {} THEN 0 ELSE f[Some(s)] + g[s \ {Some(s)}]
IsFold(g, f, S) == g = [s \in SUBSET S |-> FoldStep(f, s, g)]
Fold(f, S) == CHOOSE g : IsFold(g, f, S)

LEMMA TotalIsFold == ASSUME NEW f, NEW S PROVE Total(f, S) = Fold(f, S)[S]
  BY Zenon DEF Total, Fold, IsFold, FoldStep, Some, MapThenSumSet, MapThenFoldSet

\* A non-empty set of finite sets has a member none of whose proper subsets is one.
LEMMA LeastSubset ==
  ASSUME NEW S, IsFiniteSet(S), NEW B, B \subseteq SUBSET S, B # {}
  PROVE  \E s \in B : IsFiniteSet(s) /\ \A t \in B : t \subseteq s => t = s
<1>1. B \subseteq FiniteSubsetsOf(S) /\ \A s \in B : IsFiniteSet(s)
  BY FS_FiniteSubsetsOfFinite, FS_Subset
<1>2. PICK s \in B : \A t \in B : ~(<<t, s>> \in StrictSubsetOrdering(S))
  BY <1>1, FS_StrictSubsetOrderingWellFounded, WFMin
<1> QED
  BY <1>1, <1>2 DEF StrictSubsetOrdering, FiniteSubsetsOf

LEMMA SomeMember == ASSUME NEW s, s # {} PROVE Some(s) \in s
  BY DEF Some

\* What the step computes for s depends on f at the members of s only.
LEMMA FoldIsLocal ==
  ASSUME NEW U, IsFiniteSet(U), NEW V, U \subseteq V, NEW f, NEW h, \A x \in U : f[x] = h[x],
         NEW g, IsFold(g, f, U), NEW k, IsFold(k, h, V)
  PROVE  \A s \in SUBSET U : g[s] = k[s]
<1> DEFINE B == {s \in SUBSET U : g[s] # k[s]}
<1>1. \A s \in SUBSET U : g[s] = FoldStep(f, s, g) /\ k[s] = FoldStep(h, s, k)
  BY DEF IsFold
<1>2. ASSUME B # {} PROVE FALSE
  <2>1. PICK s \in B : \A t \in B : t \subseteq s => t = s
    <3>1. B \subseteq SUBSET U
      OBVIOUS
    <3> HIDE DEF B
    <3> QED
      BY <1>2, <3>1, LeastSubset
  <2>2. s # {}
    BY <1>1 DEF FoldStep
  <2>3. Some(s) \in s /\ s \ {Some(s)} \in SUBSET U /\ f[Some(s)] = h[Some(s)]
    BY <2>2, SomeMember
  <2>4. g[s \ {Some(s)}] = k[s \ {Some(s)}]
    BY <2>1, <2>3
  <2> QED
    BY <1>1, <2>2, <2>3, <2>4 DEF FoldStep
<1> QED
  BY <1>2

LEMMA FoldExists ==
  ASSUME NEW S, IsFiniteSet(S), NEW f
  PROVE  IsFold(Fold(f, S), f, S)
<1> DEFINE B == {U \in SUBSET S : ~IsFold(Fold(f, U), f, U)}
<1>1. ASSUME B # {} PROVE FALSE
  <2>1. PICK U \in B : IsFiniteSet(U) /\ \A t \in B : t \subseteq U => t = U
    <3>1. B \subseteq SUBSET S
      OBVIOUS
    <3> HIDE DEF B
    <3> QED
      BY <1>1, <3>1, LeastSubset
  <2> DEFINE T(s) == Fold(f, s)[s]
             g == [s \in SUBSET U |-> IF s = {} THEN 0 ELSE f[Some(s)] + T(s \ {Some(s)})]
  <2>2. ASSUME NEW s \in SUBSET U, s # U PROVE g[s] = T(s)
    <3>1. IsFold(Fold(f, s), f, s) /\ IsFiniteSet(s)
      BY <2>1, <2>2, FS_Subset
    <3>2. T(s) = FoldStep(f, s, Fold(f, s))
      BY <3>1 DEF IsFold
    <3>3. CASE s = {}
      BY <3>2, <3>3 DEF FoldStep
    <3>4. CASE s # {}
      <4> DEFINE t == s \ {Some(s)}
      <4>1. t \in SUBSET U /\ t # U /\ IsFiniteSet(t) /\ t \subseteq s
        BY <3>1, <3>4, SomeMember, FS_Subset
      <4>2. IsFold(Fold(f, t), f, t)
        BY <2>1, <4>1
      <4>3. Fold(f, s)[t] = T(t)
        BY <3>1, <4>1, <4>2, FoldIsLocal
      <4> QED
        BY <3>2, <3>4, <4>3 DEF FoldStep
    <3> QED
      BY <3>3, <3>4
  <2>3. ASSUME NEW s \in SUBSET U PROVE g[s] = FoldStep(f, s, g)
    <3>1. CASE s = {}
      BY <3>1 DEF FoldStep
    <3>2. CASE s # {}
      <4>1. s \ {Some(s)} \in SUBSET U /\ s \ {Some(s)} # U
        BY <3>2, SomeMember
      <4>2. g[s \ {Some(s)}] = T(s \ {Some(s)})
        BY <2>2, <4>1
      <4> QED
        BY <3>2, <4>2 DEF FoldStep
    <3> QED
      BY <3>1, <3>2
  <2>4. IsFold(g, f, U)
    <3>1. g = [s \in SUBSET U |-> g[s]]
      OBVIOUS
    <3> HIDE DEF g
    <3> QED
      BY <2>3, <3>1 DEF IsFold
  <2> HIDE DEF g
  <2> QED
    BY <2>1, <2>4 DEF Fold
<1> QED
  BY <1>1

\* A total is its first term and the rest, and knows its function on the set only.
LEMMA TotalFirst ==
  ASSUME NEW S, IsFiniteSet(S), NEW f
  PROVE  Total(f, S) = IF S = {} THEN 0 ELSE f[Some(S)] + Total(f, S \ {Some(S)})
<1>1. IsFold(Fold(f, S), f, S)
  BY FoldExists
<1>2. Total(f, S) = FoldStep(f, S, Fold(f, S))
  BY <1>1, TotalIsFold DEF IsFold
<1>3. CASE S # {}
  <2> DEFINE t == S \ {Some(S)}
  <2>1. IsFiniteSet(t) /\ t \subseteq S
    BY FS_Subset
  <2>2. IsFold(Fold(f, t), f, t)
    BY <2>1, FoldExists
  <2>3. Fold(f, t)[t] = Fold(f, S)[t]
    <3> HIDE DEF t
    <3>1. \A g, k : IsFold(g, f, t) /\ IsFold(k, f, S) => \A u \in SUBSET t : g[u] = k[u]
      BY <2>1, FoldIsLocal
    <3> QED
      BY <1>1, <2>2, <3>1
  <2> QED
    BY <1>2, <1>3, <2>3, TotalIsFold DEF FoldStep
<1> QED
  BY <1>2, <1>3 DEF FoldStep

LEMMA TotalSame ==
  ASSUME NEW S, IsFiniteSet(S), NEW f, NEW h, \A x \in S : f[x] = h[x]
  PROVE  Total(f, S) = Total(h, S)
<1>1. IsFold(Fold(f, S), f, S) /\ IsFold(Fold(h, S), h, S)
  BY FoldExists
<1>2. Fold(f, S)[S] = Fold(h, S)[S]
  BY <1>1, FoldIsLocal
<1> QED
  BY <1>2, TotalIsFold

LEMMA TotalType ==
  ASSUME NEW S, IsFiniteSet(S), NEW f, \A x \in S : f[x] \in Int
  PROVE  Total(f, S) \in Int /\ ((\A x \in S : f[x] = 0) => Total(f, S) = 0)
<1> DEFINE Fine(s) == Total(f, s) \in Int /\ ((\A x \in s : f[x] = 0) => Total(f, s) = 0)
           B == {s \in SUBSET S : ~Fine(s)}
<1>1. B \subseteq SUBSET S
  OBVIOUS
<1>2. ASSUME B # {} PROVE FALSE
  <2>1. PICK s \in B : IsFiniteSet(s) /\ \A t \in B : t \subseteq s => t = s
    <3> HIDE DEF B
    <3> QED
      BY <1>1, <1>2, LeastSubset
  <2>2. s # {}
    <3>1. s = {} => Total(f, s) = 0
      BY <2>1, TotalFirst
    <3> QED
      BY <2>1, <3>1
  <2>3. Some(s) \in s /\ f[Some(s)] \in Int /\ s \ {Some(s)} \in SUBSET S
    BY <2>2, SomeMember
  <2>4. Fine(s \ {Some(s)})
    <3> HIDE DEF Fine
    <3> QED
      BY <2>1, <2>3
  <2>5. Total(f, s) = f[Some(s)] + Total(f, s \ {Some(s)})
    BY <2>1, <2>2, TotalFirst
  <2>6. Fine(s)
    BY <2>3, <2>4, <2>5
  <2> QED
    BY <2>6
<1>3. Fine(S)
  <2> HIDE DEF Fine
  <2> QED
    BY <1>2
<1> QED
  BY <1>3

\* Any member may be taken first.
LEMMA TotalRemove ==
  ASSUME NEW S, IsFiniteSet(S), NEW f, \A x \in S : f[x] \in Int, NEW x \in S
  PROVE  Total(f, S) = f[x] + Total(f, S \ {x})
<1> DEFINE Fine(s) == \A y \in s : Total(f, s) = f[y] + Total(f, s \ {y})
           B == {s \in SUBSET S : ~Fine(s)}
<1>1. B \subseteq SUBSET S
  OBVIOUS
<1>2. ASSUME B # {} PROVE FALSE
  <2>1. PICK s \in B : IsFiniteSet(s) /\ \A t \in B : t \subseteq s => t = s
    <3> HIDE DEF B
    <3> QED
      BY <1>1, <1>2, LeastSubset
  <2>2. \A t \in SUBSET s : t # s => Fine(t)
    <3> HIDE DEF Fine
    <3> QED
      BY <2>1
  <2>3. ASSUME NEW y \in s PROVE Total(f, s) = f[y] + Total(f, s \ {y})
    <3> DEFINE c == Some(s)
    <3>0. c \in s /\ y \in S /\ c \in S /\ f[c] \in Int /\ f[y] \in Int
      BY SomeMember
    <3>1. Total(f, s) = f[c] + Total(f, s \ {c})
      BY <2>1, TotalFirst
    <3> HIDE DEF c
    <3>2. CASE c # y
      <4>1. Total(f, s \ {c}) = f[y] + Total(f, (s \ {c}) \ {y})
        BY <2>2, <3>0, <3>2
      <4>2. Total(f, s \ {y}) = f[c] + Total(f, (s \ {y}) \ {c})
        BY <2>2, <3>0, <3>2
      <4>3. (s \ {c}) \ {y} = (s \ {y}) \ {c}
        OBVIOUS
      <4>4. Total(f, (s \ {y}) \ {c}) \in Int
        <5>1. IsFiniteSet((s \ {y}) \ {c}) /\ \A z \in (s \ {y}) \ {c} : f[z] \in Int
          BY <2>1, FS_Subset
        <5> QED
          BY <5>1, TotalType
      <4>5. Total(f, s \ {c}) = f[y] + Total(f, (s \ {y}) \ {c})
        BY <4>1, <4>3
      <4> QED
        BY <3>0, <3>1, <4>2, <4>4, <4>5
    <3> QED
      BY <3>1, <3>2
  <2> QED
    BY <2>3
<1>3. Fine(S)
  <2> HIDE DEF Fine
  <2> QED
    BY <1>2
<1> QED
  BY <1>3

\* One term changes.
LEMMA TotalChange ==
  ASSUME NEW S, IsFiniteSet(S), NEW f, NEW h, NEW x \in S,
         \A y \in S : f[y] \in Int /\ h[y] \in Int, \A y \in S \ {x} : f[y] = h[y]
  PROVE  Total(h, S) - Total(f, S) = h[x] - f[x]
<1> DEFINE rest == S \ {x}
<1>1. IsFiniteSet(rest)
  BY FS_Subset
<1>2. Total(f, rest) = Total(h, rest) /\ Total(f, rest) \in Int
  BY <1>1, TotalSame, TotalType
<1>3. Total(f, S) = f[x] + Total(f, rest) /\ Total(h, S) = h[x] + Total(h, rest)
  BY TotalRemove
<1>4. f[x] \in Int /\ h[x] \in Int
  OBVIOUS
<1> HIDE DEF rest
<1> QED
  BY <1>2, <1>3, <1>4

-----------------------------------------------------------------------------
(* Types.                                                                  *)

Book == [balance : [Account -> Nat], allowance : [Account -> 0 .. (Word - 1)]]

\* The fee is part of the amount.
LEMMA FeeWithinAmount ==
  ASSUME NEW order, order.amount \in Nat, feeBps \in 0 .. MaxFeeBps
  PROVE  Fee(order) \in 0 .. order.amount
<1> DEFINE a == order.amount
<1>1. a * feeBps \in Nat /\ a * feeBps <= a * Bps
  BY DEF MaxFeeBps, Bps
<1> HIDE DEF a
<1>2. ASSUME NEW n \in Nat, NEW m \in Nat, n <= m * Bps PROVE n \div Bps \in 0 .. m
  BY <1>2 DEF Bps
<1> QED
  BY <1>1, <1>2 DEF Fee, a

\* A pull that goes through keeps the books well-formed.
LEMMA PullTyped ==
  ASSUME NEW book \in Book, NEW from \in Account, NEW to \in Account, NEW value \in Nat,
         CanPull(book, from, to, value)
  PROVE  Pull(book, from, to, value) \in Book
<1> DEFINE paid == [book.balance EXCEPT ![from] = @ - value]
<1>1. paid \in [Account -> Nat]
  BY DEF Book, CanPull
<1>2. [paid EXCEPT ![to] = @ + value] \in [Account -> Nat]
  BY <1>1
<1>3. (IF book.allowance[from] = Word - 1 THEN book.allowance
       ELSE [book.allowance EXCEPT ![from] = @ - value]) \in [Account -> 0 .. (Word - 1)]
  BY DeploymentAssumption DEF Book, CanPull
<1> QED
  BY <1>2, <1>3, Zenon DEF Pull, Book

\* The two parts of an order's amount, and the accounts they go to.
LEMMA NetTyped ==
  ASSUME TypeOK, NEW order \in Order, order.from \in Account
  PROVE  /\ order.amount \in Nat /\ Fee(order) \in Nat /\ Net(order) \in Nat
         /\ Net(order) + Fee(order) = order.amount
         /\ order.to # ZeroAddress => order.to \in Account
         /\ feeRecipient # ZeroAddress => feeRecipient \in Account
<1>1. order.amount \in Nat /\ order.to \in Party /\ feeRecipient \in Party
  BY DeploymentAssumption DEF Order, TypeOK
<1>2. Fee(order) \in 0 .. order.amount
  BY <1>1, FeeWithinAmount DEF TypeOK
<1> QED
  BY <1>1, <1>2 DEF Net, Party

\* The two pulls of a settlement, one after the other, keep the books well-formed.
LEMMA TwoPulls ==
  ASSUME TypeOK, NEW order \in Order, NEW token \in Token, order.from \in Account,
         order.to # ZeroAddress, Payable(order, token), Pulls(order, token)
  PROVE  /\ NetPaid(order, token) \in Book
         /\ \/ /\ Fee(order) = 0
               /\ ledger' = [ledger EXCEPT ![token] = NetPaid(order, token)]
            \/ LET both == Pull(NetPaid(order, token), order.from, feeRecipient, Fee(order)) IN
               /\ Fee(order) > 0 /\ feeRecipient \in Account /\ both \in Book
               /\ ledger' = [ledger EXCEPT ![token] = both]
<1> DEFINE first == NetPaid(order, token)
<1>1. ledger[token] \in Book
  BY DEF TypeOK, Book
<1>2. Fee(order) \in Nat /\ Net(order) \in Nat /\ order.to \in Account
  BY NetTyped
<1>3. first \in Book
  BY <1>1, <1>2, PullTyped DEF Payable, NetPaid
<1>4. CASE Fee(order) = 0
  <2>1. ~(Fee(order) > 0)
    BY <1>4
  <2> QED
    BY <1>3, <1>4, <2>1, Zenon DEF Pulls
<1>5. CASE Fee(order) > 0
  <2>1. CanPull(first, order.from, feeRecipient, Fee(order))
    BY <1>5 DEF Payable
  <2>2. feeRecipient \in Account
    BY <2>1, NetTyped DEF CanPull
  <2> DEFINE both == Pull(first, order.from, feeRecipient, Fee(order))
  <2> HIDE DEF first
  <2>3. both \in Book
    BY <1>2, <1>3, <2>1, <2>2, PullTyped
  <2>4. ledger' = [ledger EXCEPT ![token] = both]
    BY <1>5, Zenon DEF Pulls, first
  <2> QED
    BY <1>3, <1>5, <2>2, <2>3, <2>4 DEF first
<1> QED
  BY <1>2, <1>4, <1>5

-----------------------------------------------------------------------------
\* What a settlement records: a signed order, now.
LEMMA SettlesSigned ==
  ASSUME NEW caller, NEW order \in Submitted, NEW token \in Token, NEW signature \in Signed,
         InitiateTransfer(caller, order, token, signature)
  PROVE  /\ order \in Signed /\ order \in Order /\ order.from \in Account /\ order.to # ZeroAddress
         /\ now <= order.deadline /\ Fresh(order.id)
         /\ Payable(order, token) /\ Pulls(order, token)
         /\ transfers' = [transfers EXCEPT ![order.id] =
              [from |-> order.from, to |-> order.to, amount |-> order.amount,
               status |-> "Confirmed", timestamp |-> now]]
<1>1. signature = order
  BY DEF InitiateTransfer, Accepts, Recover
<1>2. order.from \in Account
  BY <1>1, DeploymentAssumption
<1>3. order \in Order
  BY DeploymentAssumption
<1> QED
  BY <1>1, <1>2, <1>3, Zenon DEF InitiateTransfer, Accepts, Acceptable

\* A settlement keeps the types.
LEMMA RelayingTyped == TypeOK /\ Relaying => TypeOK'
<1> SUFFICES ASSUME TypeOK, NEW caller \in Account, NEW order \in Submitted, NEW token \in Token,
                    NEW signature \in Signed, InitiateTransfer(caller, order, token, signature)
             PROVE  TypeOK'
  BY DEF Relaying
<1>1. ledger' \in [Token -> Book]
  <2>1. NetPaid(order, token) \in Book /\ ledger \in [Token -> Book]
    BY SettlesSigned, TwoPulls DEF TypeOK, Book
  <2>2. \E book \in Book : ledger' = [ledger EXCEPT ![token] = book]
    BY SettlesSigned, TwoPulls, Zenon
  <2> QED
    BY <2>1, <2>2
<1>2. transfers' \in [TransferId -> TransferRecord]
  <2>1. [from |-> order.from, to |-> order.to, amount |-> order.amount,
         status |-> "Confirmed", timestamp |-> now] \in TransferRecord
    <3>1. order \in Order /\ now \in 0 .. MaxTime
      BY SettlesSigned DEF TypeOK
    <3> QED
      BY <3>1, Zenon DEF Order, TransferRecord, Status
  <2> QED
    BY <2>1, SettlesSigned DEF TypeOK
<1> QED
  BY <1>1, <1>2 DEF InitiateTransfer, settings, TypeOK, Book

\* Holders' own movements keep the types.
LEMMA HoldersTyped == TypeOK /\ Holders => TypeOK'
<1> SUFFICES ASSUME TypeOK, NEW holder \in Payer, NEW token \in Token, NEW value \in Allowance,
                    Approve(holder, token, value) \/ Spend(holder, token, value)
             PROVE  TypeOK'
  BY DEF Holders
<1>1. holder \in Account /\ Outside \in Account /\ value \in 0 .. (Word - 1)
  BY DeploymentAssumption DEF Payer
<1>2. ledger \in [Token -> Book]
  BY DEF TypeOK, Book
<1>3. CASE Approve(holder, token, value)
  <2>1. ledger'[token].allowance \in [Account -> 0 .. (Word - 1)]
    BY <1>1, <1>2, <1>3 DEF Approve, Book
  <2>2. ledger' \in [Token -> Book]
    BY <1>1, <1>2, <1>3, <2>1 DEF Approve, Book
  <2> QED
    BY <1>3, <2>2 DEF Approve, settings, TypeOK, Book
<1>4. CASE Spend(holder, token, value)
  <2> DEFINE less == [ledger[token].balance EXCEPT ![holder] = @ - value]
             moved == [less EXCEPT ![Outside] = @ + value]
  <2>1. less \in [Account -> Nat]
    BY <1>1, <1>2, <1>4 DEF Spend, Book
  <2>2. moved \in [Account -> Nat]
    BY <1>1, <2>1
  <2>3. [ledger[token] EXCEPT !.balance = moved] \in Book
    BY <1>2, <2>2 DEF Book
  <2>4. ledger' = [ledger EXCEPT ![token] = [ledger[token] EXCEPT !.balance = moved]]
    BY <1>1, <1>2, <1>4 DEF Spend, Book
  <2>5. ledger' \in [Token -> Book]
    BY <1>2, <2>3, <2>4
  <2> QED
    BY <1>4, <2>5 DEF Spend, settings, TypeOK, Book
<1> QED
  BY <1>3, <1>4

LEMMA InitTyped == Init => TypeOK
<1> SUFFICES ASSUME Init PROVE TypeOK
  OBVIOUS
<1>1. transfers \in [TransferId -> TransferRecord]
  <2>1. 0 \in 0 .. (Word - 1) /\ 0 \in 0 .. MaxTime /\ ZeroAddress \in Party
    BY DeploymentAssumption DEF Bps, Party
  <2>2. NoTransfer \in TransferRecord
    BY <2>1, Zenon DEF NoTransfer, TransferRecord, Status
  <2> QED
    BY <2>2, Zenon DEF Init
<1>2. ledger \in [Token -> Book]
  <2>1. ASSUME NEW t \in Token
        PROVE  [balance |-> Funds[t], allowance |-> [a \in Account |-> 0]] \in Book
    <3>1. Funds[t] \in [Account -> 0 .. (Word - 1)]
      BY DeploymentAssumption, Zenon
    <3>2. Funds[t] \in [Account -> Nat]
      BY <3>1, DeploymentAssumption
    <3>3. 0 \in 0 .. (Word - 1)
      BY DeploymentAssumption DEF Bps
    <3>4. [a \in Account |-> 0] \in [Account -> 0 .. (Word - 1)]
      BY <3>3
    <3> QED
      BY <3>2, <3>4, Zenon DEF Book
  <2> QED
    BY <2>1, Zenon DEF Init
<1>3. paused \in BOOLEAN
  BY Zenon DEF Init
<1> QED
  BY <1>1, <1>2, <1>3, DeploymentAssumption DEF Init, TypeOK, Book, Party, MaxFeeBps

\* TypeOK holds of every behaviour: no balance and no allowance ever is negative.
THEOREM TypeCorrect == Spec => []TypeOK
<1>1. Init => TypeOK
  BY InitTyped
<1>2. ASSUME TypeOK, [Next]_vars PROVE TypeOK'
  <2>1. CASE Administration
    <3>1. /\ UNCHANGED <<transfers, ledger, now>>
          /\ owner' \in Party /\ relayers' \subseteq Relayer /\ supported' \subseteq Token
          /\ paused' \in BOOLEAN /\ feeBps' \in 0 .. MaxFeeBps /\ feeRecipient' \in Collector
      <4> PICK caller \in Account :
              \/ \E relayer \in Relayer, on \in BOOLEAN : SetRelayer(caller, relayer, on)
              \/ \E token \in Token, on \in BOOLEAN : SetToken(caller, token, on)
              \/ \E bps \in FeeRate : SetFeeBps(caller, bps)
              \/ \E on \in BOOLEAN : SetPaused(caller, on)
              \/ \E collector \in Collector : SetFeeRecipient(caller, collector)
              \/ \E to \in Relayer \cup {Deployer, ZeroAddress} : ChangeOwner(caller, to)
        BY <2>1, Zenon DEF Administration
      <4>1. UNCHANGED <<transfers, ledger, now>> /\ paused' \in BOOLEAN
        BY <1>2, Zenon DEF SetRelayer, SetToken, SetFeeBps, SetPaused, SetFeeRecipient, ChangeOwner, TypeOK
      <4>2. owner' \in Party
        BY <1>2, DeploymentAssumption
           DEF SetRelayer, SetToken, SetFeeBps, SetPaused, SetFeeRecipient, ChangeOwner, TypeOK, Party
      <4>3. relayers' \subseteq Relayer
        BY <1>2 DEF SetRelayer, SetToken, SetFeeBps, SetPaused, SetFeeRecipient, ChangeOwner, TypeOK
      <4>5. supported' \subseteq Token
        BY <1>2 DEF SetRelayer, SetToken, SetFeeBps, SetPaused, SetFeeRecipient, ChangeOwner, TypeOK
      <4>6. feeRecipient' \in Collector
        BY <1>2 DEF SetRelayer, SetToken, SetFeeBps, SetPaused, SetFeeRecipient, ChangeOwner, TypeOK
      <4>4. feeBps' \in 0 .. MaxFeeBps
        <5>1. feeBps' = feeBps \/ \E bps \in FeeRate : bps <= MaxFeeBps /\ feeBps' = bps
          BY DEF SetRelayer, SetToken, SetFeeBps, SetPaused, SetFeeRecipient, ChangeOwner
        <5>2. FeeRate \subseteq Nat /\ feeBps \in 0 .. MaxFeeBps
          BY <1>2, DeploymentAssumption, Zenon DEF TypeOK
        <5> QED
          BY <5>1, <5>2 DEF MaxFeeBps
      <4> QED
        BY <4>1, <4>2, <4>3, <4>4, <4>5, <4>6
    <3> QED
      BY <1>2, <3>1 DEF TypeOK
  <2>2. CASE Tick
    BY <1>2, <2>2, DeploymentAssumption DEF Tick, TypeOK, settings
  <2>3. CASE UNCHANGED vars
    BY <1>2, <2>3 DEF vars, settings, TypeOK
  <2> QED
    BY <1>2, <2>1, <2>2, <2>3, RelayingTyped, HoldersTyped DEF Next
<1> QED
  BY <1>1, <1>2, PTL DEF Spec

-----------------------------------------------------------------------------
\* Only a settlement touches the transfers.
LEMMA OnlyRelayingRecords == [Next]_vars => Relaying \/ UNCHANGED transfers
  BY DEF Next, Administration, SetRelayer, SetToken, SetFeeBps, SetPaused, SetFeeRecipient, ChangeOwner,
         Holders, Approve, Spend, Tick, vars

\* What is settled was signed, and settled in the time the sender signed.
THEOREM SignedCorrect == Spec => []SettledAsSigned
<1>1. Init => SettledAsSigned
  BY DEF Init, SettledAsSigned, Settled, NoTransfer
<1>2. ASSUME TypeOK, SettledAsSigned, [Next]_vars PROVE SettledAsSigned'
  <2>1. CASE UNCHANGED transfers
    BY <1>2, <2>1 DEF SettledAsSigned, Settled
  <2>2. CASE Relaying
    <3> PICK caller \in Account, order \in Submitted, token \in Token, signature \in Signed :
               InitiateTransfer(caller, order, token, signature)
      BY <2>2 DEF Relaying
    <3> SUFFICES ASSUME NEW id \in TransferId, Settled(id)'
                 PROVE  \E o \in Signed :
                          /\ o.id = id
                          /\ o.from = transfers'[id].from /\ o.to = transfers'[id].to
                          /\ o.amount = transfers'[id].amount
                          /\ transfers'[id].timestamp <= o.deadline
      BY DEF SettledAsSigned
    <3>1. CASE id = order.id
      <4>3. transfers' = [transfers EXCEPT ![order.id] =
              [from |-> order.from, to |-> order.to, amount |-> order.amount,
               status |-> "Confirmed", timestamp |-> now]]
        BY SettlesSigned
      <4>4. transfers \in [TransferId -> TransferRecord]
        BY <1>2 DEF TypeOK
      <4>1. /\ transfers'[id].from = order.from /\ transfers'[id].to = order.to
            /\ transfers'[id].amount = order.amount /\ transfers'[id].timestamp = now
        BY <3>1, <4>3, <4>4
      <4>2. order \in Signed /\ now <= order.deadline
        BY SettlesSigned
      <4> QED
        BY <3>1, <4>1, <4>2
    <3>2. CASE id # order.id
      <4>1. transfers'[id] = transfers[id]
        BY <1>2, <3>2, SettlesSigned DEF TypeOK
      <4> QED
        BY <1>2, <4>1 DEF SettledAsSigned, Settled
    <3> QED
      BY <3>1, <3>2
  <2> QED
    BY <1>2, <2>1, <2>2, OnlyRelayingRecords
<1> QED
  BY <1>1, <1>2, TypeCorrect, PTL DEF Spec

\* The record of a settled transfer is never overwritten.
THEOREM OnceCorrect == Spec => SettledOnce
<1>1. ASSUME TypeOK, [Next]_vars, NEW id \in TransferId, Settled(id)
      PROVE  transfers'[id] = transfers[id]
  <2>1. CASE Relaying
    <3> PICK caller \in Account, order \in Submitted, token \in Token, signature \in Signed :
               InitiateTransfer(caller, order, token, signature)
      BY <2>1 DEF Relaying
    <3>1. order.id # id
      BY <1>1, SettlesSigned DEF Fresh, Settled
    <3> QED
      BY <1>1, <3>1, SettlesSigned DEF TypeOK
  <2> QED
    BY <1>1, <2>1, OnlyRelayingRecords
<1>2. TypeOK /\ [Next]_vars => [\A id \in TransferId : Settled(id) => transfers'[id] = transfers[id]]_vars
  BY <1>1
<1> QED
  BY <1>2, TypeCorrect, PTL DEF Spec, SettledOnce

-----------------------------------------------------------------------------
(* The money.                                                              *)

\* What the sums range over, as functions of the tables they read.
BalanceIn(books, t) == [a \in Account |-> books[t].balance[a]]
Have(books) == [t \in Token |-> Total(BalanceIn(books, t), Payers)]
SettledIn(table) == [id \in TransferId |-> IF table[id].status = "Confirmed" THEN table[id].amount ELSE 0]
DueTo(a, table) == {id \in TransferId : table[id].to = a}
Gain(a, books) == [t \in Token |-> books[t].balance[a] - Funds[t][a]]

LEMMA PayersFinite == Payers \subseteq Account /\ IsFiniteSet(Payers) /\ PureRecipient \subseteq Account
  BY DeploymentAssumption, FS_Subset DEF Payers, Payer, PureRecipient, Order, Party

\* The fee is what the rate makes of the amount, rounded down.
LEMMA FeeCapped ==
  ASSUME NEW order, order.amount \in Nat, feeBps \in 0 .. MaxFeeBps
  PROVE  Fee(order) \in Nat /\ Fee(order) * Bps <= order.amount * MaxFeeBps
<1> DEFINE a == order.amount
<1>1. a * feeBps \in Nat /\ a * feeBps <= a * MaxFeeBps /\ a * MaxFeeBps \in Nat
  BY DEF MaxFeeBps
<1> HIDE DEF a
<1>2. ASSUME NEW n \in Nat PROVE n \div Bps \in Nat /\ (n \div Bps) * Bps <= n
  BY DEF Bps
<1>3. Fee(order) \in Nat /\ Fee(order) * Bps <= a * feeBps
  BY <1>1, <1>2 DEF Fee, a
<1>4. Fee(order) * Bps \in Nat
  BY <1>3 DEF Bps
<1> QED
  BY <1>1, <1>3, <1>4 DEF a

\* The balances after a pull.
Moved(balance, from, to, value) ==
  [a \in Account |-> balance[a] + (IF a = to THEN value ELSE 0) - (IF a = from THEN value ELSE 0)]

LEMMA PullMoves ==
  ASSUME NEW book \in Book, NEW from \in Account, NEW to \in Account, NEW value \in Nat
  PROVE  Pull(book, from, to, value).balance = Moved(book.balance, from, to, value)
<1> DEFINE paid == [book.balance EXCEPT ![from] = @ - value]
<1>1. /\ paid \in [Account -> Int] /\ book.balance \in [Account -> Nat]
      /\ \A a \in Account : paid[a] = book.balance[a] - (IF a = from THEN value ELSE 0)
  BY DEF Book
<1>2. Pull(book, from, to, value).balance = [paid EXCEPT ![to] = @ + value]
  BY DEF Pull
<1> HIDE DEF paid
<1>3. [paid EXCEPT ![to] = @ + value] = Moved(book.balance, from, to, value)
  <2> DEFINE f == [paid EXCEPT ![to] = @ + value]
             m == Moved(book.balance, from, to, value)
  <2>1. ASSUME NEW a \in Account PROVE f[a] = m[a]
    <3>1. f[a] = IF a = to THEN paid[a] + value ELSE paid[a]
      BY <1>1
    <3>2. m[a] = book.balance[a] + (IF a = to THEN value ELSE 0) - (IF a = from THEN value ELSE 0)
      BY DEF Moved
    <3>3. book.balance[a] \in Nat /\ paid[a] = book.balance[a] - (IF a = from THEN value ELSE 0)
      BY <1>1
    <3> HIDE DEF f, m
    <3> QED
      BY <3>1, <3>2, <3>3
  <2>2. f = [a \in Account |-> f[a]]
    BY <1>1
  <2>3. m = [a \in Account |-> m[a]]
    BY DEF Moved
  <2> HIDE DEF f, m
  <2> QED
    BY <2>1, <2>2, <2>3 DEF f, m
<1> QED
  BY <1>2, <1>3

\* What a settlement does to the balances: the sender pays the amount, the recipient
\* and the fee recipient get it between them, the latter at most 2 %.
SplitInto(order, net, fee) == net + fee = order.amount /\ fee * Bps <= order.amount * MaxFeeBps

MovesMoney(order, token, net, fee) ==
  \A t \in Token, a \in Account :
    ledger'[t].balance[a] = ledger[t].balance[a] +
      IF t # token THEN 0
      ELSE (IF a = order.to THEN net ELSE 0) + (IF a = feeRecipient THEN fee ELSE 0)
             - (IF a = order.from THEN order.amount ELSE 0)

LEMMA SettlementMoves ==
  ASSUME TypeOK, NEW caller, NEW order \in Submitted, NEW token \in Token, NEW signature \in Signed,
         InitiateTransfer(caller, order, token, signature)
  PROVE  \E net \in Nat, fee \in Nat :
           /\ SplitInto(order, net, fee) /\ MovesMoney(order, token, net, fee)
           /\ fee > 0 => feeRecipient \in Account
<1> DEFINE fee == Fee(order)
           net == Net(order)
           first == NetPaid(order, token)
<1>1. ledger \in [Token -> Book] /\ ledger[token] \in Book
  BY DEF TypeOK, Book
<1>2. order \in Order /\ order.from \in Account /\ order.to # ZeroAddress
  BY SettlesSigned
<1>3. /\ order.amount \in Nat /\ fee \in Nat /\ net \in Nat /\ net + fee = order.amount
      /\ order.to \in Account /\ fee * Bps <= order.amount * MaxFeeBps
  <2>1. order.amount \in Nat
    BY <1>2, NetTyped
  <2>2. fee * Bps <= order.amount * MaxFeeBps
    BY <2>1, FeeCapped DEF TypeOK
  <2> QED
    BY <1>2, <2>2, NetTyped
<1>4. /\ first \in Book
      /\ \/ fee = 0 /\ ledger' = [ledger EXCEPT ![token] = first]
         \/ LET both == Pull(first, order.from, feeRecipient, fee) IN
            /\ fee > 0 /\ feeRecipient \in Account /\ both \in Book
            /\ ledger' = [ledger EXCEPT ![token] = both]
  BY <1>2, SettlesSigned, TwoPulls, Zenon
<1>5. \A a \in Account : ledger[token].balance[a] \in Nat
  BY <1>1 DEF Book
<1>6. first.balance = Moved(ledger[token].balance, order.from, order.to, net)
  BY <1>1, <1>2, <1>3, PullMoves DEF NetPaid
<1> DEFINE Paid(a) == (IF a = order.to THEN net ELSE 0) + (IF a = feeRecipient THEN fee ELSE 0)
                         - (IF a = order.from THEN order.amount ELSE 0)
<1>7. \E book \in Book : /\ ledger' = [ledger EXCEPT ![token] = book]
                         /\ \A a \in Account : book.balance[a] = ledger[token].balance[a] + Paid(a)
  <2>1. CASE fee = 0 /\ ledger' = [ledger EXCEPT ![token] = first]
    <3>1. \A a \in Account : first.balance[a] = ledger[token].balance[a] + Paid(a)
      <4> HIDE DEF first, fee, net
      <4> QED
        BY <1>2, <1>3, <1>5, <1>6, <2>1 DEF Moved
    <3> HIDE DEF first, Paid
    <3> QED
      BY <1>4, <2>1, <3>1
  <2>2. CASE LET both == Pull(first, order.from, feeRecipient, fee) IN
             /\ fee > 0 /\ feeRecipient \in Account /\ both \in Book
             /\ ledger' = [ledger EXCEPT ![token] = both]
    <3> DEFINE second == Pull(first, order.from, feeRecipient, fee)
    <3>1. feeRecipient \in Account /\ second \in Book /\ ledger' = [ledger EXCEPT ![token] = second]
      BY <2>2
    <3> HIDE DEF first, fee
    <3>2. second.balance = Moved(first.balance, order.from, feeRecipient, fee)
      BY <1>2, <1>3, <1>4, <3>1, PullMoves
    <3> HIDE DEF second
    <3>3. \A a \in Account : second.balance[a] = ledger[token].balance[a] + Paid(a)
      <4> HIDE DEF net
      <4> TAKE a \in Account
      <4>1. first.balance[a] = ledger[token].balance[a]
              + (IF a = order.to THEN net ELSE 0) - (IF a = order.from THEN net ELSE 0)
        BY <1>6 DEF Moved
      <4>2. second.balance[a] = first.balance[a]
              + (IF a = feeRecipient THEN fee ELSE 0) - (IF a = order.from THEN fee ELSE 0)
        BY <3>2 DEF Moved
      <4>3. ledger[token].balance[a] \in Nat
        BY <1>5
      <4>4. net \in Nat /\ fee \in Nat /\ net + fee = order.amount
        BY <1>3
      <4> QED
        BY <4>1, <4>2, <4>3, <4>4
    <3> HIDE DEF Paid
    <3> QED
      BY <3>1, <3>3
  <2> QED
    BY <1>4, <2>1, <2>2
<1>8. PICK book \in Book : /\ ledger' = [ledger EXCEPT ![token] = book]
                           /\ \A a \in Account : book.balance[a] = ledger[token].balance[a] + Paid(a)
  BY <1>7
<1>9. \A t \in Token, a \in Account :
        ledger'[t].balance[a] = ledger[t].balance[a] + IF t # token THEN 0 ELSE Paid(a)
  <2> HIDE DEF Paid
  <2>1. \A t \in Token, a \in Account : ledger[t].balance[a] \in Nat
    BY <1>1 DEF Book
  <2> QED
    BY <1>1, <1>8, <2>1
<1>10. /\ SplitInto(order, net, fee) /\ MovesMoney(order, token, net, fee)
       /\ fee > 0 => feeRecipient \in Account
  <2> HIDE DEF fee, net
  <2> QED
    BY <1>3, <1>4, <1>9 DEF SplitInto, MovesMoney
<1> HIDE DEF fee, net
<1> QED
  BY <1>3, <1>10

\* What the tables and books hold is of the kind the sums need.
LEMMA SumsTyped ==
  ASSUME NEW books \in [Token -> Book]
  PROVE  /\ \A t \in Token, a \in Account : books[t].balance[a] \in Nat /\ Funds[t][a] \in Nat
         /\ \A t \in Token : Have(books)[t] \in Int
         /\ \A a \in Account, t \in Token : Gain(a, books)[t] \in Int
<1>1. \A t \in Token, a \in Account : books[t].balance[a] \in Nat
  BY DEF Book
<1>2. \A t \in Token, a \in Account : Funds[t][a] \in Nat
  BY DeploymentAssumption
<1>3. ASSUME NEW t \in Token PROVE Have(books)[t] \in Int
  <2>1. \A a \in Payers : BalanceIn(books, t)[a] \in Int
    BY <1>1, PayersFinite DEF BalanceIn
  <2>2. Total(BalanceIn(books, t), Payers) \in Int
    BY <2>1, PayersFinite, TotalType
  <2> QED
    BY <2>2 DEF Have
<1> QED
  BY <1>1, <1>2, <1>3 DEF Gain

LEMMA HaveTyped == ASSUME NEW books \in [Token -> Book] PROVE Total(Have(books), Token) \in Int
  BY DeploymentAssumption, SumsTyped, TotalType

\* The payers' money in one token changes by d, in the others not at all.
LEMMA HaveChanges ==
  ASSUME NEW books \in [Token -> Book], NEW after \in [Token -> Book], NEW token \in Token, NEW d \in Int,
         Total(BalanceIn(after, token), Payers) - Total(BalanceIn(books, token), Payers) = d,
         \A t \in Token \ {token}, a \in Account : after[t].balance[a] = books[t].balance[a]
  PROVE  Total(Have(after), Token) = Total(Have(books), Token) + d
<1> DEFINE old == Have(books)
           new == Have(after)
<1>0. IsFiniteSet(Token)
  BY DeploymentAssumption
<1>1. \A t \in Token : old[t] \in Int /\ new[t] \in Int
  BY SumsTyped
<1>2. \A t \in Token \ {token} : old[t] = new[t]
  BY DEF Have, BalanceIn
<1>3. new[token] - old[token] = d
  BY DEF Have
<1> HIDE DEF old, new
<1>4. Total(new, Token) - Total(old, Token) = new[token] - old[token]
  BY <1>0, <1>1, <1>2, TotalChange
<1>5. Total(new, Token) \in Int /\ Total(old, Token) \in Int
  BY <1>0, <1>1, TotalType
<1> QED
  BY <1>3, <1>4, <1>5 DEF old, new

\* What is settled in all, and at the beginning.
LEMMA SettledTyped == TypeOK => Total(SettledIn(transfers), TransferId) \in Int
<1> SUFFICES ASSUME TypeOK PROVE Total(SettledIn(transfers), TransferId) \in Int
  OBVIOUS
<1>1. \A id \in TransferId : SettledIn(transfers)[id] \in Int
  BY DEF TypeOK, TransferRecord, SettledIn
<1> QED
  BY <1>1, DeploymentAssumption, TotalType

LEMMA NothingSettled == 
  ASSUME Init, NEW S, S \subseteq TransferId
  PROVE  Total(SettledIn(transfers), S) = 0
<1>1. \A id \in S : SettledIn(transfers)[id] = 0
  BY DEF Init, NoTransfer, SettledIn
<1>2. IsFiniteSet(S)
  BY DeploymentAssumption, FS_Subset
<1> QED
  BY <1>1, <1>2, TotalType

\* A settlement adds its amount to what is settled, and to what is due to its recipient.
LEMMA SettlementAdds ==
  ASSUME TypeOK, NEW caller, NEW order \in Submitted, NEW token \in Token, NEW signature \in Signed,
         InitiateTransfer(caller, order, token, signature)
  PROVE  /\ Total(SettledIn(transfers'), TransferId) = Total(SettledIn(transfers), TransferId) + order.amount
         /\ \A a : Total(SettledIn(transfers'), DueTo(a, transfers'))
              = Total(SettledIn(transfers), DueTo(a, transfers)) + IF a = order.to THEN order.amount ELSE 0
<1> DEFINE old == SettledIn(transfers)
           new == SettledIn(transfers')
           id == order.id
<1>1. /\ id \in TransferId /\ order.amount \in Nat /\ transfers[id].status = "None"
      /\ transfers' = [transfers EXCEPT ![id] =
           [from |-> order.from, to |-> order.to, amount |-> order.amount,
            status |-> "Confirmed", timestamp |-> now]]
  <2>1. order \in Order
    BY SettlesSigned
  <2>2. order.id \in TransferId /\ order.amount \in Nat
    BY <2>1, DeploymentAssumption DEF Order
  <2>3. transfers[order.id].status = "None"
    BY SettlesSigned DEF Fresh
  <2> QED
    BY <2>2, <2>3, SettlesSigned, Zenon
<1>2. /\ \A i \in TransferId \ {id} : transfers'[i] = transfers[i]
      /\ transfers'[id].to = order.to /\ transfers'[id].amount = order.amount
      /\ transfers'[id].status = "Confirmed"
  BY <1>1 DEF TypeOK
<1>3. /\ \A i \in TransferId \ {id} : old[i] = new[i]
      /\ new[id] = order.amount /\ old[id] = 0
  BY <1>1, <1>2 DEF SettledIn
<1>4. \A i \in TransferId : old[i] \in Int /\ new[i] \in Int
  <2>1. \A i \in TransferId : old[i] \in Int
    BY DEF TypeOK, TransferRecord, SettledIn
  <2> HIDE DEF old, new, id
  <2> QED
    BY <1>1, <1>3, <2>1
<1> HIDE DEF old, new, id
<1>5. Total(new, TransferId) = Total(old, TransferId) + order.amount
  <2>1. Total(new, TransferId) - Total(old, TransferId) = new[id] - old[id]
    <3>1. IsFiniteSet(TransferId)
      BY DeploymentAssumption
    <3> QED
      BY <1>1, <1>3, <1>4, <3>1, TotalChange, Zenon
  <2>2. Total(new, TransferId) \in Int /\ Total(old, TransferId) \in Int
    BY <1>4, DeploymentAssumption, TotalType
  <2> QED
    BY <1>1, <1>3, <2>1, <2>2
<1>6. ASSUME NEW a
      PROVE  Total(new, DueTo(a, transfers'))
               = Total(old, DueTo(a, transfers)) + IF a = order.to THEN order.amount ELSE 0
  <2> DEFINE D == DueTo(a, transfers)
             E == DueTo(a, transfers')
             rest == D \ {id}
  <2>1. D \subseteq TransferId /\ E \subseteq TransferId /\ E \ {id} = rest /\ (id \in E <=> a = order.to)
    BY <1>1, <1>2 DEF DueTo
  <2> HIDE DEF D, E
  <2>2. IsFiniteSet(D) /\ IsFiniteSet(E) /\ IsFiniteSet(rest)
    BY <2>1, DeploymentAssumption, FS_Subset
  <2>3. Total(new, rest) = Total(old, rest) /\ Total(old, rest) \in Int
    BY <1>3, <1>4, <2>1, <2>2, TotalSame, TotalType
  <2>4. Total(old, D) = Total(old, rest)
    <3>1. CASE id \in D
      <4>1. Total(old, D) = old[id] + Total(old, rest)
        BY <1>4, <2>1, <2>2, <3>1, TotalRemove
      <4> QED
        BY <1>3, <2>3, <4>1
    <3>2. CASE id \notin D
      <4>1. rest = D
        BY <3>2
      <4> QED
        BY <4>1
    <3> QED
      BY <3>1, <3>2
  <2>5. Total(new, E) = Total(new, rest) + IF a = order.to THEN order.amount ELSE 0
    <3>1. CASE a = order.to
      <4>1. Total(new, E) = new[id] + Total(new, rest)
        BY <1>4, <2>1, <2>2, <3>1, TotalRemove
      <4> QED
        BY <1>1, <1>3, <2>3, <3>1, <4>1
    <3>2. CASE a # order.to
      <4>1. rest = E
        BY <2>1, <3>2
      <4> QED
        BY <2>3, <3>2, <4>1
    <3> QED
      BY <3>1, <3>2
  <2> QED
    BY <2>3, <2>4, <2>5 DEF D, E
<1> QED
  BY <1>5, <1>6 DEF old, new
-----------------------------------------------------------------------------
(* The payers are debited exactly.                                         *)

Debited(books, table) ==
  Total([t \in Token |-> Total(Funds[t], Payers)], Token)
    = Total(Have(books), Token) + Total(SettledIn(table), TransferId)

LEMMA DebitedMeans ==
  /\ PayersDebitedExactly <=> Debited(ledger, transfers)
  /\ PayersDebitedExactly' <=> Debited(ledger', transfers')
  BY Zenon DEF PayersDebitedExactly, Debited, Have, BalanceIn, Payers, SettledIn, SettledAmount, Settled, Balance

\* The payers' money in one token when the balance of one of them changes.
LEMMA PayersChange ==
  ASSUME NEW books \in [Token -> Book], NEW after \in [Token -> Book], NEW t \in Token,
         NEW from \in Payers, NEW d \in Int,
         \A a \in Payers : after[t].balance[a] = books[t].balance[a] + IF a = from THEN d ELSE 0
  PROVE  Total(BalanceIn(after, t), Payers) - Total(BalanceIn(books, t), Payers) = d
<1> DEFINE old == BalanceIn(books, t)
           new == BalanceIn(after, t)
<1>0. IsFiniteSet(Payers) /\ from \in Payers
  BY PayersFinite
<1>1. \A a \in Payers : old[a] \in Int /\ new[a] \in Int
  BY PayersFinite, SumsTyped DEF BalanceIn
<1>2. /\ \A a \in Payers \ {from} : old[a] = new[a]
      /\ new[from] - old[from] = d
  <2>1. \A a \in Payers : new[a] = old[a] + IF a = from THEN d ELSE 0
    BY PayersFinite DEF BalanceIn
  <2> HIDE DEF old, new
  <2> QED
    BY <1>0, <1>1, <2>1
<1> HIDE DEF old, new
<1>3. Total(new, Payers) - Total(old, Payers) = new[from] - old[from]
  BY <1>0, <1>1, <1>2, TotalChange
<1> QED
  BY <1>2, <1>3 DEF old, new
\* An approval moves no money.
LEMMA ApproveKeeps ==
  ASSUME NEW holder \in Payer, NEW token \in Token, NEW value \in Allowance, Approve(holder, token, value),
         ledger \in [Token -> Book], ledger' \in [Token -> Book]
  PROVE  Total(Have(ledger'), Token) = Total(Have(ledger), Token)
<1>1. \A t \in Token : ledger'[t].balance = ledger[t].balance
  BY DEF Approve, Book
<1>2. \A t \in Token : BalanceIn(ledger', t) = BalanceIn(ledger, t)
  BY <1>1 DEF BalanceIn
<1>3. \A t \in Token : Have(ledger')[t] = Have(ledger)[t]
  BY <1>2 DEF Have
<1> QED
  BY <1>3, DeploymentAssumption, TotalSame

\* What a holder spends elsewhere stays within the accounts that are summed.
LEMMA SpendKeeps ==
  ASSUME TypeOK, NEW holder \in Payer, NEW token \in Token, NEW value \in Allowance, Spend(holder, token, value)
  PROVE  Total(Have(ledger'), Token) = Total(Have(ledger), Token)
<1>1. /\ ledger \in [Token -> Book] /\ ledger' \in [Token -> Book]
      /\ holder \in Account /\ Outside \in Account /\ value \in Nat /\ holder # Outside
      /\ holder \in Payers /\ Outside \in Payers
  <2>1. ledger \in [Token -> Book]
    BY DEF TypeOK, Book
  <2>2. ledger' \in [Token -> Book]
    BY HoldersTyped DEF Holders, TypeOK, Book
  <2> QED
    BY <2>1, <2>2, DeploymentAssumption DEF Payer, Payers, Spend
<1> DEFINE less == [ledger[token].balance EXCEPT ![holder] = @ - value]
           mid == [ledger EXCEPT ![token] = [balance |-> less, allowance |-> ledger[token].allowance]]
<1>2. less \in [Account -> Nat]
  BY <1>1 DEF Spend, Book
<1>3. mid \in [Token -> Book] /\ mid[token].balance = less
  BY <1>1, <1>2 DEF Book
<1>4. \A a \in Account : less[a] = ledger[token].balance[a] + IF a = holder THEN -value ELSE 0
  <2>1. \A a \in Account : ledger[token].balance[a] \in Nat
    BY <1>1 DEF Book
  <2> QED
    BY <1>1, <2>1 DEF Book
<1>5. \A a \in Account : ledger'[token].balance[a] = less[a] + IF a = Outside THEN value ELSE 0
  <2>1. ledger'[token].balance = [less EXCEPT ![Outside] = @ + value]
    BY <1>1 DEF Spend, Book
  <2> HIDE DEF less
  <2> QED
    BY <1>1, <1>2, <2>1
<1>6. \A t \in Token \ {token} : ledger'[t] = ledger[t]
  BY <1>1 DEF Spend
<1> HIDE DEF less, mid
<1>7. Total(BalanceIn(mid, token), Payers) - Total(BalanceIn(ledger, token), Payers) = -value
  <2>1. \A a \in Payers : mid[token].balance[a] = ledger[token].balance[a] + IF a = holder THEN -value ELSE 0
    BY <1>3, <1>4, PayersFinite
  <2>2. -value \in Int
    BY <1>1
  <2> QED
    BY <1>1, <1>3, <2>1, <2>2, PayersChange, Zenon
<1>8. Total(BalanceIn(ledger', token), Payers) - Total(BalanceIn(mid, token), Payers) = value
  <2>1. \A a \in Payers : ledger'[token].balance[a] = mid[token].balance[a] + IF a = Outside THEN value ELSE 0
    BY <1>3, <1>5, PayersFinite
  <2> QED
    BY <1>1, <1>3, <2>1, PayersChange
<1>9. Total(BalanceIn(ledger', token), Payers) - Total(BalanceIn(ledger, token), Payers) = 0
  <2>1. \A books \in [Token -> Book] : Total(BalanceIn(books, token), Payers) \in Int
    <3> TAKE books \in [Token -> Book]
    <3>1. \A a \in Payers : BalanceIn(books, token)[a] \in Int
      BY SumsTyped, PayersFinite DEF BalanceIn
    <3> QED
      BY <3>1, PayersFinite, TotalType
  <2> QED
    BY <1>1, <1>3, <1>7, <1>8, <2>1
<1>10. Total(Have(ledger'), Token) = Total(Have(ledger), Token) + 0
  BY <1>1, <1>6, <1>9, HaveChanges
<1> QED
  BY <1>1, <1>10, HaveTyped

\* A settlement debits the payers its amount.
LEMMA SettlementDebits ==
  ASSUME PayersOnlyPay, TypeOK, NEW caller, NEW order \in Submitted, NEW token \in Token, NEW signature \in Signed,
         InitiateTransfer(caller, order, token, signature), ledger' \in [Token -> Book]
  PROVE  Total(Have(ledger'), Token) = Total(Have(ledger), Token) - order.amount
<1> DEFINE amount == order.amount
<1>1. ledger \in [Token -> Book] /\ order \in Signed /\ order.from \in Payers /\ feeRecipient \notin Payers
  <2>1. order \in Signed
    BY SettlesSigned
  <2> QED
    BY <2>1 DEF TypeOK, Book, Payers, Payer, PayersOnlyPay
<1>2. order.to \notin Payers /\ amount \in Nat
  <2>1. order.amount \in Nat
    BY DeploymentAssumption DEF Order
  <2> QED
    BY <1>1, <2>1 DEF PayersOnlyPay
<1>3. PICK net \in Nat, fee \in Nat : SplitInto(order, net, fee) /\ MovesMoney(order, token, net, fee)
  BY SettlementMoves, Zenon
<1> DEFINE d == -amount
<1>4. \A t \in Token, a \in Account : ledger[t].balance[a] \in Nat
  BY <1>1, SumsTyped
<1> HIDE DEF amount
<1>5. \A a \in Payers : ledger'[token].balance[a] = ledger[token].balance[a] + IF a = order.from THEN d ELSE 0
  BY <1>1, <1>2, <1>3, <1>4, PayersFinite DEF amount, MovesMoney
<1>6. \A t \in Token \ {token}, a \in Account : ledger'[t].balance[a] = ledger[t].balance[a]
  BY <1>3, <1>4 DEF MovesMoney
<1>7. d \in Int
  BY <1>2
<1> HIDE DEF d
<1>8. Total(BalanceIn(ledger', token), Payers) - Total(BalanceIn(ledger, token), Payers) = d
  BY <1>1, <1>5, <1>7, PayersChange, Zenon
<1>9. Total(Have(ledger'), Token) = Total(Have(ledger), Token) + d
  BY <1>1, <1>6, <1>7, <1>8, HaveChanges, Zenon
<1> QED
  BY <1>1, <1>2, <1>9, HaveTyped DEF d, amount

\* Only settlements and the holders move money.
LEMMA OnlyTheseMove == [Next]_vars => Relaying \/ Holders \/ UNCHANGED <<transfers, ledger>>
  BY DEF Next, Administration, SetRelayer, SetToken, SetFeeBps, SetPaused, SetFeeRecipient, ChangeOwner,
         Tick, vars

\* The payers are debited exactly what is settled, though a settlement is two token
\* calls, the fee moves and holders spend elsewhere.  Where a payer is paid as well,
\* the balances would show the difference only; hence the hypothesis.
THEOREM DebitCorrect == ASSUME PayersOnlyPay PROVE Spec => []PayersDebitedExactly
<1>1. ASSUME Init PROVE PayersDebitedExactly
  <2>1. ASSUME NEW t \in Token PROVE Have(ledger)[t] = Total(Funds[t], Payers)
    <3>1. \A a \in Payers : BalanceIn(ledger, t)[a] = Funds[t][a]
      BY <1>1, PayersFinite DEF Init, BalanceIn
    <3>2. Total(BalanceIn(ledger, t), Payers) = Total(Funds[t], Payers)
      BY <3>1, PayersFinite, TotalSame
    <3> QED
      BY <3>2 DEF Have
  <2>2. Total(Have(ledger), Token) = Total([t \in Token |-> Total(Funds[t], Payers)], Token)
    <3> DEFINE had == [t \in Token |-> Total(Funds[t], Payers)]
    <3>1. \A t \in Token : Have(ledger)[t] = had[t]
      BY <2>1
    <3> HIDE DEF had
    <3>2. Total(Have(ledger), Token) = Total(had, Token)
      BY <3>1, DeploymentAssumption, TotalSame
    <3> QED
      BY <3>2 DEF had
  <2>3. Total(SettledIn(transfers), TransferId) = 0
    BY <1>1, NothingSettled
  <2>4. Total(Have(ledger), Token) \in Int
    BY <1>1, InitTyped, HaveTyped DEF TypeOK, Book
  <2> QED
    BY <2>2, <2>3, <2>4, DebitedMeans DEF Debited
<1>2. ASSUME TypeOK, TypeOK', PayersDebitedExactly, [Next]_vars PROVE PayersDebitedExactly'
  <2>0. ledger \in [Token -> Book] /\ ledger' \in [Token -> Book]
    BY <1>2 DEF TypeOK, Book
  <2>1. CASE UNCHANGED <<transfers, ledger>>
    BY <1>2, <2>1, DebitedMeans DEF Debited
  <2>2. CASE Relaying
    <3> PICK caller \in Account, order \in Submitted, token \in Token, signature \in Signed :
               InitiateTransfer(caller, order, token, signature)
      BY <2>2 DEF Relaying
    <3>1. Total(Have(ledger'), Token) = Total(Have(ledger), Token) - order.amount
      BY <1>2, <2>0, SettlementDebits
    <3>2. Total(SettledIn(transfers'), TransferId) = Total(SettledIn(transfers), TransferId) + order.amount
      BY <1>2, SettlementAdds
    <3>3. Total(Have(ledger), Token) \in Int /\ Total(SettledIn(transfers), TransferId) \in Int
      BY <1>2, <2>0, HaveTyped, SettledTyped
    <3>4. order.amount \in Nat
      BY DeploymentAssumption DEF Order
    <3> QED
      BY <1>2, <3>1, <3>2, <3>3, <3>4, DebitedMeans DEF Debited
  <2>3. CASE Holders
    <3> PICK holder \in Payer, token \in Token, value \in Allowance :
               Approve(holder, token, value) \/ Spend(holder, token, value)
      BY <2>3 DEF Holders
    <3>1. UNCHANGED transfers
      BY DEF Approve, Spend
    <3>2. Total(Have(ledger'), Token) = Total(Have(ledger), Token)
      <4>1. CASE Approve(holder, token, value)
        BY <2>0, <4>1, ApproveKeeps
      <4>2. CASE Spend(holder, token, value)
        BY <1>2, <4>2, SpendKeeps
      <4> QED
        BY <4>1, <4>2
    <3> QED
      BY <1>2, <3>1, <3>2, DebitedMeans DEF Debited
  <2> QED
    BY <1>2, <2>1, <2>2, <2>3, OnlyTheseMove
<1> QED
  BY <1>1, <1>2, TypeCorrect, PTL DEF Spec
-----------------------------------------------------------------------------
(* The recipients are paid fairly.                                         *)

FairlyPaid(a, books, table) ==
  LET due == Total(SettledIn(table), DueTo(a, table))
      got == Total(Gain(a, books), Token) IN
  got <= due /\ got * Bps >= due * (Bps - MaxFeeBps)

LEMMA PaidMeans ==
  /\ RecipientsPaid <=> \A a \in PureRecipient : FairlyPaid(a, ledger, transfers)
  /\ RecipientsPaid' <=> \A a \in PureRecipient : FairlyPaid(a, ledger', transfers')
  BY Zenon DEF RecipientsPaid, FairlyPaid, SettledIn, SettledAmount, Settled, DueTo, Gain

LEMMA PaidTyped ==
  ASSUME TypeOK, NEW a \in PureRecipient
  PROVE  /\ Total(Gain(a, ledger), Token) \in Int
         /\ Total(SettledIn(transfers), DueTo(a, transfers)) \in Int
<1>1. ledger \in [Token -> Book] /\ a \in Account
  BY PayersFinite DEF TypeOK, Book
<1>2. \A t \in Token : Gain(a, ledger)[t] \in Int
  BY <1>1, SumsTyped
<1>3. \A id \in DueTo(a, transfers) : SettledIn(transfers)[id] \in Int
  BY DEF TypeOK, TransferRecord, SettledIn, DueTo
<1>4. IsFiniteSet(Token) /\ IsFiniteSet(DueTo(a, transfers))
  <2>1. DueTo(a, transfers) \subseteq TransferId
    BY DEF DueTo
  <2> QED
    BY <2>1, DeploymentAssumption, FS_Subset
<1> QED
  BY <1>2, <1>3, <1>4, TotalType

\* What a recipient gains by a settlement: its net amount, if it is paid by it.
LEMMA SettlementPays ==
  ASSUME TypeOK, TypeOK', NEW caller, NEW order \in Submitted, NEW token \in Token, NEW signature \in Signed,
         InitiateTransfer(caller, order, token, signature), NEW a \in PureRecipient
  PROVE  \E net \in Nat, fee \in Nat :
           /\ SplitInto(order, net, fee)
           /\ Total(Gain(a, ledger'), Token) = Total(Gain(a, ledger), Token) + IF a = order.to THEN net ELSE 0
<1>1. /\ ledger \in [Token -> Book] /\ ledger' \in [Token -> Book] /\ order \in Signed
      /\ a \in Account /\ a # order.from /\ a # feeRecipient
  <2>1. order \in Signed
    BY SettlesSigned
  <2> QED
    BY <2>1, PayersFinite DEF TypeOK, Book, PureRecipient, Payer
<1>2. PICK net \in Nat, fee \in Nat : SplitInto(order, net, fee) /\ MovesMoney(order, token, net, fee)
  BY SettlementMoves, Zenon
<1> DEFINE old == Gain(a, ledger)
           new == Gain(a, ledger')
           d == IF a = order.to THEN net ELSE 0
<1>3. \A t \in Token : ledger[t].balance[a] \in Nat /\ Funds[t][a] \in Nat
  BY <1>1, SumsTyped
<1>4. \A t \in Token : old[t] \in Int /\ new[t] \in Int
  BY <1>1, SumsTyped
<1>5. d \in Int
  OBVIOUS
<1>6. \A t \in Token : ledger'[t].balance[a] = ledger[t].balance[a] + IF t # token THEN 0 ELSE d
  BY <1>1, <1>2, <1>3 DEF MovesMoney
<1> HIDE DEF d
<1>7. \A t \in Token : new[t] = old[t] + IF t # token THEN 0 ELSE d
  BY <1>3, <1>5, <1>6 DEF Gain
<1> HIDE DEF old, new
<1>8. /\ \A t \in Token \ {token} : old[t] = new[t]
      /\ new[token] = old[token] + d /\ old[token] \in Int
  BY <1>4, <1>5, <1>7
<1>9. IsFiniteSet(Token)
  BY DeploymentAssumption
<1>10. Total(new, Token) - Total(old, Token) = new[token] - old[token]
  BY <1>4, <1>8, <1>9, TotalChange
<1>11. Total(new, Token) \in Int /\ Total(old, Token) \in Int
  BY <1>4, <1>9, TotalType
<1>12. Total(new, Token) = Total(old, Token) + d
  BY <1>5, <1>8, <1>10, <1>11
<1> QED
  BY <1>2, <1>12, Zenon DEF old, new, d

\* What holders do themselves does not touch an account that only is paid.
LEMMA HoldersSpare ==
  ASSUME TypeOK, TypeOK', Holders, NEW a \in PureRecipient
  PROVE  UNCHANGED transfers /\ Total(Gain(a, ledger'), Token) = Total(Gain(a, ledger), Token)
<1> PICK holder \in Payer, token \in Token, value \in Allowance :
           Approve(holder, token, value) \/ Spend(holder, token, value)
  BY DEF Holders
<1>1. ledger \in [Token -> Book] /\ a \in Account /\ a # holder /\ a # Outside
  BY PayersFinite DEF TypeOK, Book, PureRecipient
<1>2. \A t \in Token : ledger'[t].balance[a] = ledger[t].balance[a]
  <2>1. CASE Approve(holder, token, value)
    BY <1>1, <2>1 DEF Approve, Book
  <2>2. CASE Spend(holder, token, value)
    <3> DEFINE less == [ledger[token].balance EXCEPT ![holder] = @ - value]
    <3>1. ledger'[token].balance = [less EXCEPT ![Outside] = @ + value]
      BY <1>1, <2>2 DEF Spend, Book
    <3>2. \A t \in Token \ {token} : ledger'[t] = ledger[t]
      BY <1>1, <2>2 DEF Spend
    <3>3. less[a] = ledger[token].balance[a] /\ DOMAIN less = Account
      BY <1>1 DEF Book
    <3> HIDE DEF less
    <3> QED
      BY <1>1, <3>1, <3>2, <3>3
  <2> QED
    BY <2>1, <2>2
<1>3. \A t \in Token : Gain(a, ledger')[t] = Gain(a, ledger)[t]
  BY <1>2 DEF Gain
<1>4. Total(Gain(a, ledger'), Token) = Total(Gain(a, ledger), Token)
  BY <1>3, DeploymentAssumption, TotalSame
<1> QED
  BY <1>4 DEF Approve, Spend

\* A recipient gets what is settled in its favour less a fee of 2 % at most,
\* whatever happens to the fee rate between the signature and the settlement.
THEOREM RecipientsCorrect == Spec => []RecipientsPaid
<1>1. ASSUME Init PROVE RecipientsPaid
  <2>1. ASSUME NEW a \in PureRecipient PROVE FairlyPaid(a, ledger, transfers)
    <3>1. ledger \in [Token -> Book] /\ a \in Account
      BY <1>1, InitTyped, PayersFinite DEF TypeOK, Book
    <3>2. \A t \in Token : Gain(a, ledger)[t] = 0
      <4>1. \A t \in Token : ledger[t].balance[a] = Funds[t][a] /\ Funds[t][a] \in Nat
        BY <1>1, <3>1, SumsTyped DEF Init
      <4> QED
        BY <4>1 DEF Gain
    <3>3. Total(Gain(a, ledger), Token) = 0
      BY <3>2, DeploymentAssumption, TotalType
    <3>4. Total(SettledIn(transfers), DueTo(a, transfers)) = 0
      BY <1>1, NothingSettled DEF DueTo
    <3> QED
      BY <3>3, <3>4 DEF FairlyPaid, Bps, MaxFeeBps
  <2> QED
    BY <2>1, PaidMeans
<1>2. ASSUME TypeOK, TypeOK', RecipientsPaid, [Next]_vars PROVE RecipientsPaid'
  <2> SUFFICES ASSUME NEW a \in PureRecipient, FairlyPaid(a, ledger, transfers)
               PROVE  FairlyPaid(a, ledger', transfers')
    BY <1>2, PaidMeans
  <2>1. CASE UNCHANGED <<transfers, ledger>>
    BY <2>1 DEF FairlyPaid
  <2>2. CASE Relaying
    <3> PICK caller \in Account, order \in Submitted, token \in Token, signature \in Signed :
               InitiateTransfer(caller, order, token, signature)
      BY <2>2 DEF Relaying
    <3> DEFINE due == Total(SettledIn(transfers), DueTo(a, transfers))
               got == Total(Gain(a, ledger), Token)
               newDue == Total(SettledIn(transfers'), DueTo(a, transfers'))
               newGot == Total(Gain(a, ledger'), Token)
    <3>1. PICK net \in Nat, fee \in Nat :
            SplitInto(order, net, fee) /\ newGot = got + IF a = order.to THEN net ELSE 0
      BY <1>2, SettlementPays, Zenon
    <3>2. newDue = due + IF a = order.to THEN order.amount ELSE 0
      BY <1>2, SettlementAdds
    <3>3. due \in Int /\ got \in Int
      BY <1>2, PaidTyped
    <3>4. order.amount \in Nat
      BY DeploymentAssumption DEF Order
    <3>5. got <= due /\ got * Bps >= due * (Bps - MaxFeeBps)
      BY DEF FairlyPaid
    <3> HIDE DEF due, got, newDue, newGot
    <3>6. newGot <= newDue /\ newGot * Bps >= newDue * (Bps - MaxFeeBps)
      BY <3>1, <3>2, <3>3, <3>4, <3>5 DEF SplitInto, Bps, MaxFeeBps
    <3> QED
      BY <3>6 DEF FairlyPaid, due, got, newDue, newGot
  <2>3. CASE Holders
    BY <1>2, <2>3, HoldersSpare DEF FairlyPaid
  <2> QED
    BY <1>2, <2>1, <2>2, <2>3, OnlyTheseMove
<1> QED
  BY <1>1, <1>2, TypeCorrect, PTL DEF Spec
-----------------------------------------------------------------------------
(* Signed orders that are relayed do go through.                           *)

\* What the first pull leaves of the sender's allowance and balance is enough for
\* the second, also for one who pays itself, and for an unlimited allowance.
LEMMA BothPullsGo ==
  ASSUME TypeOK, NEW order \in Order, NEW token \in Token, order.from \in Account, order.to # ZeroAddress,
         ledger[token].allowance[order.from] >= order.amount,
         ledger[token].balance[order.from] >= order.amount,
         Fee(order) > 0 => feeRecipient # ZeroAddress
  PROVE  Payable(order, token)
<1> DEFINE book == ledger[token]
           from == order.from
           after == NetPaid(order, token)
<1>1. book \in Book /\ book.allowance[from] \in Nat /\ book.balance[from] \in Nat
  <2>1. book \in Book
    BY DEF TypeOK, Book
  <2>2. book.allowance[from] \in 0 .. (Word - 1) /\ book.balance[from] \in Nat
    BY <2>1 DEF Book
  <2> QED
    BY <2>1, <2>2, DeploymentAssumption
<1>2. /\ order.amount \in Nat /\ Fee(order) \in Nat /\ Net(order) \in Nat /\ order.to \in Account
      /\ Net(order) + Fee(order) = order.amount
  BY NetTyped
<1>3. CanPull(book, from, order.to, Net(order))
  BY <1>1, <1>2 DEF CanPull
<1>4. after.allowance[from] >= Fee(order)
  <2>1. after.allowance = IF book.allowance[from] = Word - 1 THEN book.allowance
                          ELSE [book.allowance EXCEPT ![from] = @ - Net(order)]
    BY DEF NetPaid, Pull
  <2>2. after.allowance[from] = book.allowance[from]
          \/ after.allowance[from] = book.allowance[from] - Net(order)
    BY <1>1, <2>1 DEF Book
  <2> QED
    BY <1>1, <1>2, <2>2
<1>5. after.balance[from] >= Fee(order)
  <2>1. after.balance = Moved(book.balance, from, order.to, Net(order))
    BY <1>1, <1>2, PullMoves DEF NetPaid
  <2>2. after.balance[from] = book.balance[from] + (IF from = order.to THEN Net(order) ELSE 0) - Net(order)
    BY <2>1 DEF Moved
  <2> HIDE DEF book, after, from
  <2> QED
    BY <1>1, <1>2, <2>2 DEF book, from
<1> QED
  BY <1>3, <1>4, <1>5 DEF Payable, CanPull

\* A signed order whose sender has allowed and holds the signed amount, relayed in
\* time, is refused for no reason that the sender or the relayer cannot see.
THEOREM NoRevertCorrect == Spec => []NoHiddenRevert
<1>1. ASSUME TypeOK, NEW caller \in relayers, NEW order \in Signed, NEW token \in supported,
             ~paused, Fresh(order.id),
             order.amount > 0, order.to # ZeroAddress, now <= order.deadline,
             order.amount * feeBps < Word,
             ledger[token].allowance[order.from] >= order.amount,
             ledger[token].balance[order.from] >= order.amount,
             Fee(order) > 0 => feeRecipient # ZeroAddress
      PROVE  Accepts(caller, order, token, order)
  <2>1. order \in Order /\ token \in Token /\ order.from \in Account /\ order.from # ZeroAddress
    BY <1>1, DeploymentAssumption DEF TypeOK
  <2>2. Payable(order, token)
    BY <1>1, <2>1, BothPullsGo
  <2>3. Recover(order, order) = order.from
    BY DEF Recover
  <2>4. Acceptable(order, token)
    BY <1>1 DEF Acceptable
  <2> QED
    BY <1>1, <2>1, <2>2, <2>3, <2>4, Zenon DEF Accepts
<1>2. TypeOK => NoHiddenRevert
  BY <1>1, Zenon DEF NoHiddenRevert
<1> QED
  BY <1>2, TypeCorrect, PTL
-----------------------------------------------------------------------------
(* The contract implements SignedOrders.                                   *)

\* What an observer sees of the contract.
Record(id) == [id |-> id, from |-> transfers[id].from, to |-> transfers[id].to,
               amount |-> transfers[id].amount, at |-> transfers[id].timestamp]
Records == {Record(id) : id \in {i \in TransferId : Settled(i)}}
Balances == [t \in Token |-> ledger[t].balance]
SeenOrders == <<Records, Balances, now>>

LEMMA OrdersInit == Init => Orders!Init
<1> SUFFICES ASSUME Init PROVE Orders!Init
  OBVIOUS
<1>1. Records = {}
  BY DEF Init, Records, Settled, NoTransfer
<1>2. Balances \in [Token -> [Account -> Nat]] /\ now \in Nat
  BY InitTyped DEF TypeOK, Balances
<1> QED
  BY <1>1, <1>2, Zenon DEF Orders!Init, Records, Record, Balances

\* What no settlement touches stays recorded as it is.
LEMMA RecordsKept == UNCHANGED transfers => UNCHANGED Records
  BY Zenon DEF Records, Record, Settled

\* A settlement adds one record, of the order as it was signed, at this time.
LEMMA SettlementRecords ==
  ASSUME TypeOK, NEW caller, NEW order \in Submitted, NEW token \in Token, NEW signature \in Signed,
         InitiateTransfer(caller, order, token, signature)
  PROVE  /\ \A s \in Records : s.id # order.id
         /\ Records' = Records \cup {[id |-> order.id, from |-> order.from, to |-> order.to,
                                      amount |-> order.amount, at |-> now]}
<1> DEFINE new == [id |-> order.id, from |-> order.from, to |-> order.to, amount |-> order.amount, at |-> now]
           Row(table, id) == [id |-> id, from |-> table[id].from, to |-> table[id].to,
                              amount |-> table[id].amount, at |-> table[id].timestamp]
           In(table) == {id \in TransferId : table[id].status = "Confirmed"}
<1>1. Records = {Row(transfers, id) : id \in In(transfers)} /\ Records' = {Row(transfers', id) : id \in In(transfers')}
  BY Zenon DEF Records, Record, Settled
<1>2. /\ order.id \in TransferId /\ transfers[order.id].status = "None"
      /\ transfers' = [transfers EXCEPT ![order.id] =
           [from |-> order.from, to |-> order.to, amount |-> order.amount,
            status |-> "Confirmed", timestamp |-> now]]
  <2>1. order \in Order /\ Fresh(order.id)
    BY SettlesSigned
  <2> QED
    BY <2>1, SettlesSigned, Zenon DEF Order, Fresh
<1>3. /\ transfers'[order.id].status = "Confirmed" /\ Row(transfers', order.id) = new
      /\ \A id \in TransferId \ {order.id} : transfers'[id] = transfers[id]
  BY <1>2 DEF TypeOK
<1>4. In(transfers') = In(transfers) \cup {order.id} /\ order.id \notin In(transfers)
  BY <1>2, <1>3
<1>5. \A id \in In(transfers) : Row(transfers', id) = Row(transfers, id)
  BY <1>3, <1>4
<1>6. \A id \in In(transfers) : Row(transfers, id).id # order.id
  BY <1>4
<1> HIDE DEF In, Row, new
<1>7. Records' = Records \cup {new}
  BY <1>1, <1>3, <1>4, <1>5
<1> QED
  BY <1>1, <1>6, <1>7 DEF new

\* A settlement is the abstract one of the same order.
LEMMA SettlementSettles ==
  ASSUME TypeOK, TypeOK', NEW caller, NEW order \in Submitted, NEW token \in Token, NEW signature \in Signed,
         InitiateTransfer(caller, order, token, signature)
  PROVE  Orders!Settle(order, token)
<1>1. now <= order.deadline /\ UNCHANGED now /\ order.from \in Account
  BY SettlesSigned DEF InitiateTransfer
<1>2. PICK net \in Nat, fee \in Nat :
        /\ SplitInto(order, net, fee) /\ MovesMoney(order, token, net, fee)
        /\ fee > 0 => feeRecipient \in Account
  BY SettlementMoves, Zenon
<1>3. order.amount \in Nat /\ order.amount = net + fee
  BY <1>2 DEF SplitInto
<1>4. fee \in 0 .. Orders!MaxFee(order)
  <2>1. fee * 10000 <= order.amount * 200
    BY <1>2 DEF SplitInto, Bps, MaxFeeBps
  <2>2. \A n \in Nat : fee * 10000 <= n => fee <= n \div 10000 /\ n \div 10000 \in Nat
    OBVIOUS
  <2>3. order.amount * 200 \in Nat
    BY <1>3
  <2> QED
    BY <2>1, <2>2, <2>3 DEF Orders!MaxFee
<1>5. PICK collector \in Account : fee > 0 => collector = feeRecipient
  BY <1>1, <1>2
<1> DEFINE paid == Orders!Paid(Balances[token], order, fee, collector)
<1>6. \A t \in Token, a \in Account :
        /\ Balances[t][a] = ledger[t].balance[a] /\ ledger[t].balance[a] \in Nat
        /\ Balances'[t][a] = ledger'[t].balance[a]
  BY DEF TypeOK, Balances
<1>7. ASSUME NEW t \in Token PROVE Balances'[t] = IF t = token THEN paid ELSE Balances[t]
  <2>1. /\ Balances[t] \in [Account -> Nat] /\ Balances'[t] \in [Account -> Nat]
        /\ paid = [a \in Account |-> paid[a]]
    BY DEF TypeOK, Balances, Orders!Paid
  <2>2. ASSUME NEW a \in Account
        PROVE  Balances'[t][a] = IF t = token THEN paid[a] ELSE Balances[t][a]
    <3>1. paid[a] = Balances[token][a] + (IF a = order.to THEN order.amount - fee ELSE 0)
                      + (IF a = collector THEN fee ELSE 0)
                      - (IF a = order.from THEN order.amount ELSE 0)
      BY DEF Orders!Paid
    <3>2. ledger'[t].balance[a] = ledger[t].balance[a] +
            IF t # token THEN 0
            ELSE (IF a = order.to THEN net ELSE 0) + (IF a = feeRecipient THEN fee ELSE 0)
                   - (IF a = order.from THEN order.amount ELSE 0)
      BY <1>2 DEF MovesMoney
    <3>3. (IF a = feeRecipient THEN fee ELSE 0) = (IF a = collector THEN fee ELSE 0)
      BY <1>5
    <3>4. order.amount - fee = net
      BY <1>3
    <3> HIDE DEF paid
    <3> QED
      BY <1>3, <1>6, <3>1, <3>2, <3>3, <3>4
  <2> HIDE DEF paid
  <2> QED
    BY <2>1, <2>2
<1>8. Balances' = [Balances EXCEPT ![token] = paid]
  <2>1. Balances = [t \in Token |-> Balances[t]] /\ Balances' = [t \in Token |-> Balances'[t]]
    BY DEF Balances
  <2> HIDE DEF paid
  <2> QED
    BY <1>7, <2>1
<1>9. \E f \in 0 .. Orders!MaxFee(order), c \in Account :
        Balances' = [Balances EXCEPT ![token] = Orders!Paid(@, order, f, c)]
  BY <1>4, <1>8
<1> QED
  BY <1>1, <1>9, SettlementRecords, Zenon DEF Orders!Settle, Records, Record, Balances

\* What a holder spends is given away as it promised.
LEMMA SpendGives ==
  ASSUME TypeOK, NEW holder \in Payer, NEW token \in Token, NEW value \in Allowance, Spend(holder, token, value)
  PROVE  Orders!Give(token, holder, Outside)
<1>1. /\ ledger \in [Token -> Book] /\ holder \in Account /\ Outside \in Account /\ holder # Outside
      /\ value \in Nat /\ value <= ledger[token].balance[holder]
  BY DeploymentAssumption DEF TypeOK, Book, Payer, Spend
<1>2. ledger[token].balance \in [Account -> Nat]
  BY <1>1 DEF Book
<1>3. ledger' = [ledger EXCEPT ![token].balance[holder] = @ - value, ![token].balance[Outside] = @ + value]
  BY Zenon DEF Spend
<1>4. Balances' = [Balances EXCEPT ![token][holder] = @ - value, ![token][Outside] = @ + value]
  <2> DEFINE moved == [[ledger[token].balance EXCEPT ![holder] = @ - value] EXCEPT ![Outside] = @ + value]
  <2>1. ledger'[token].balance = moved
    BY <1>1, <1>3 DEF Book
  <2>2. \A t \in Token \ {token} : ledger'[t] = ledger[t]
    BY <1>1, <1>3
  <2>3. Balances[token] = ledger[token].balance
    BY DEF Balances
  <2>4. Balances' = [Balances EXCEPT ![token] = moved]
    <3> HIDE DEF moved
    <3> QED
      BY <2>1, <2>2 DEF Balances
  <2>5. Balances \in [Token -> [Account -> Nat]]
    BY DEF TypeOK, Balances
  <2> HIDE DEF Balances
  <2> QED
    BY <1>1, <2>3, <2>4, <2>5
<1>5. Balances[token][holder] - Balances'[token][holder] = value
  <2>1. Balances \in [Token -> [Account -> Nat]]
    BY DEF TypeOK, Balances
  <2> QED
    BY <1>1, <1>4, <2>1
<1>6. UNCHANGED <<transfers, now>>
  BY DEF Spend
<1>7. UNCHANGED <<Records, now>>
  BY <1>6, RecordsKept
<1> QED
  BY <1>1, <1>4, <1>5, <1>7, Zenon DEF Orders!Give, Records, Record, Balances

LEMMA OrdersStep == TypeOK /\ TypeOK' /\ [Next]_vars => [Orders!Next]_SeenOrders
<1> SUFFICES ASSUME TypeOK, TypeOK', [Next]_vars PROVE Orders!Next \/ UNCHANGED SeenOrders
  OBVIOUS
<1>1. CASE Relaying
  <2> PICK caller \in Account, order \in Submitted, token \in Token, signature \in Signed :
             InitiateTransfer(caller, order, token, signature)
    BY <1>1 DEF Relaying
  <2>1. order \in Signed /\ Orders!Settle(order, token)
    BY SettlesSigned, SettlementSettles
  <2> QED
    BY <2>1, Zenon DEF Orders!Next
<1>2. CASE Holders
  <2> PICK holder \in Payer, token \in Token, value \in Allowance :
             Approve(holder, token, value) \/ Spend(holder, token, value)
    BY <1>2 DEF Holders
  <2>1. CASE Approve(holder, token, value)
    <3>1. UNCHANGED <<transfers, now>>
      BY <2>1 DEF Approve
    <3>2. \A t \in Token : ledger'[t].balance = ledger[t].balance
      BY <2>1 DEF Approve, TypeOK
    <3>3. UNCHANGED Balances
      BY <3>2, Zenon DEF Balances
    <3> QED
      BY <3>1, <3>3, RecordsKept DEF SeenOrders
  <2>2. CASE Spend(holder, token, value)
    <3>1. holder \in Account /\ Outside \in Account
      BY DeploymentAssumption DEF Payer
    <3>2. Orders!Give(token, holder, Outside)
      BY <2>2, SpendGives
    <3> QED
      BY <3>1, <3>2, Zenon DEF Orders!Next
  <2> QED
    BY <2>1, <2>2
<1>3. CASE Tick
  <2>1. now' = now + 1 /\ now \in Nat /\ UNCHANGED <<transfers, ledger>>
    BY <1>3, DeploymentAssumption DEF Tick, TypeOK
  <2>2. UNCHANGED <<Records, Balances>>
    BY <2>1, RecordsKept DEF Balances
  <2>3. now' \in Nat /\ now' > now
    BY <2>1
  <2>4. Orders!Advance
    BY <2>2, <2>3, Zenon DEF Orders!Advance, Records, Record, Balances
  <2> QED
    BY <2>4, Zenon DEF Orders!Next
<1>4. CASE Administration \/ UNCHANGED vars
  <2>1. UNCHANGED <<transfers, ledger, now>>
    BY <1>4, Zenon DEF Administration, SetRelayer, SetToken, SetFeeBps, SetPaused, SetFeeRecipient,
                       ChangeOwner, vars
  <2> QED
    BY <2>1, RecordsKept DEF SeenOrders, Balances
<1> QED
  BY <1>1, <1>2, <1>3, <1>4 DEF Next

\* Whatever owner, relayers and holders do, the contract does to those who sign
\* orders only what SignedOrders promises: it settles each order once at most, in
\* time and for exactly its amount, to its recipient but for 2 % at most.
THEOREM OrdersCorrect == Spec => ImplementsOrders
<1>1. TypeOK /\ TypeOK' /\ [Next]_vars => [Orders!Next]_(Orders!vars)
  BY OrdersStep, Zenon DEF SeenOrders, Records, Record, Balances, Orders!vars
<1> QED
  BY <1>1, OrdersInit, TypeCorrect, PTL DEF Spec, ImplementsOrders, Orders!Spec
=============================================================================
