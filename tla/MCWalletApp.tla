---------------------------- MODULE MCWalletApp ----------------------------
(***************************************************************************)
(* An instance of WalletApp for TLC.                                       *)
(***************************************************************************)
EXTENDS WalletApp

\* Three currencies of the page; of RWF and TZS no rate is known in FX_RATES.
Currencies == {"KES", "TZS", "RWF"}
KnownPairs == {<<"KES", "TZS">>, <<"KES", "RWF">>}
=============================================================================
