---------------------------- MODULE SignedOrders ----------------------------
(***************************************************************************)
(* What the token settlement contract promises those who sign orders,      *)
(* without owner, relayers, pause, listed tokens, allowances or a fee rate:*)
(* an order settles at most once, no later than its signer allowed, and    *)
(* then takes exactly its amount from its signer and gives it to its       *)
(* recipient but for a fee of at most 2 %.  Tokens move in no other way    *)
(* than by their holders' own payments.  EACPaySettlement implements this  *)
(* specification (see Orders in EACPaySettlement.tla).                     *)
(***************************************************************************)
EXTENDS Integers

CONSTANTS Account, Token,
          Signed       \* the orders that were signed

VARIABLES settled,     \* the orders settled, each with the time of it
          books,       \* books[token][account]: what the account holds
          clock

vars == <<settled, books, clock>>

Init ==
  /\ settled = {}
  /\ books \in [Token -> [Account -> Nat]]
  /\ clock \in Nat

\* The signer may be the recipient, and either of them the collector.
Paid(book, order, fee, collector) ==
  [a \in Account |-> book[a] + (IF a = order.to THEN order.amount - fee ELSE 0)
                             + (IF a = collector THEN fee ELSE 0)
                             - (IF a = order.from THEN order.amount ELSE 0)]

MaxFee(order) == (order.amount * 200) \div 10000

Settle(order, token) ==
  /\ \A s \in settled : s.id # order.id
  /\ clock <= order.deadline
  /\ settled' = settled \cup {[id |-> order.id, from |-> order.from, to |-> order.to,
                               amount |-> order.amount, at |-> clock]}
  /\ \E fee \in 0 .. MaxFee(order), collector \in Account :
       books' = [books EXCEPT ![token] = Paid(@, order, fee, collector)]
  /\ UNCHANGED clock

\* A holder gives some of its own tokens to somebody.
Give(token, from, to) ==
  LET value == books[token][from] - books'[token][from] IN
  /\ from # to
  /\ value \in Nat
  /\ books' = [books EXCEPT ![token][from] = @ - value, ![token][to] = @ + value]
  /\ UNCHANGED <<settled, clock>>

Advance ==
  /\ clock' \in Nat /\ clock' > clock
  /\ UNCHANGED <<settled, books>>

Next ==
  \/ \E order \in Signed, token \in Token : Settle(order, token)
  \/ \E token \in Token, from, to \in Account : Give(token, from, to)
  \/ Advance

Spec == Init /\ [][Next]_vars
=============================================================================
