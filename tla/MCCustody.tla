----------------------------- MODULE MCCustody -----------------------------
(***************************************************************************)
(* An instance of Custody for TLC.                                         *)
(***************************************************************************)
EXTENDS Custody, TLC

\* Persons, wallets and settlement contracts are interchangeable.
Interchangeable == Permutations(Person) \cup Permutations(Wallet) \cup Permutations(Settlement)
=============================================================================
