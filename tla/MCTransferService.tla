-------------------------- MODULE MCTransferService --------------------------
(***************************************************************************)
(* Instances of TransferService for TLC: up to three requests against one  *)
(* relayer wallet.                                                         *)
(***************************************************************************)
EXTENDS TransferService

CONSTANTS r1, r2, r3, w1

\* They pay from a wallet to itself, the only calls the contract accepts
\* (see From).
SelfPaying == [r \in Request |-> w1]
PayingW1 == [r \in Request |-> w1]
SenderW1OrNone == [r \in Request |-> IF r = r3 THEN NoWallet ELSE w1]
=============================================================================
