-------------------------- MODULE MCEACSettlement --------------------------
(***************************************************************************)
(* Instances of EACSettlement for TLC: two banks and the admin, one sender *)
(* key, two payments.                                                      *)
(***************************************************************************)
EXTENDS EACSettlement, TLC

CONSTANTS b1, b2

\* The admins add and remove the two banks, and admin and relayer roles are
\* given to and taken from the first admin.
TouchedRoles == {<<BANK, b1>>, <<BANK, b2>>, <<ADMIN, Admin>>, <<RELAYER, Admin>>}

Symmetry == Permutations(TxId) \cup Permutations({b1, b2})
=============================================================================
