------------------------- MODULE MCEACPaySettlement -------------------------
(***************************************************************************)
(* Instances of EACPaySettlement for TLC: alice pays bob by orders that    *)
(* share an identifier, and carol; a relayer may alter the orders.         *)
(***************************************************************************)
EXTENDS EACPaySettlement

CONSTANTS alice, bob, collector, owner0, relayer1, x1, x2

MkOrder(id, from, to, amount, deadline) ==
  [id |-> id, from |-> from, to |-> to, amount |-> amount, deadline |-> deadline]

\* Two orders under one identifier, a small one whose fee rounds to zero, and
\* an order whose fee overflows at 200 basis points (see Word).
MCSigned == {MkOrder(x1, alice, bob, 10000, 0),
             MkOrder(x1, alice, bob, 49, 1),
             MkOrder(x2, alice, bob, 10001, 1)}

\* A later deadline and another recipient than the ones signed.
MCSubmitted == MCSigned \cup {MkOrder(x1, alice, bob, 10000, 1),
                              MkOrder(x2, alice, relayer1, 10001, 1)}

MCFunds == [t \in Token |-> [a \in Account |-> IF a = alice THEN 20050 ELSE 0]]

ASSUME DebitHypothesis == PayersOnlyPay
=============================================================================
