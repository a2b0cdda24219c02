----------------------------- MODULE MCGateway -----------------------------
(***************************************************************************)
(* An instance of Gateway for TLC.                                         *)
(***************************************************************************)
EXTENDS Gateway

\* A route of each kind.
SomeRoutes == {"createWallet", "transfer", "banks", "countries", "health"}
\* The limiters of the transfers and of everything else.
SmallLimits == [l \in Limiter |-> IF l = "transfer" THEN 2 ELSE 1]
=============================================================================
