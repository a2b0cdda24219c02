----------------------------- MODULE MCFxRates -----------------------------
(***************************************************************************)
(* The instance of FxRates for TLC is its configuration: a caller and a    *)
(* refresh are model values, the times small numbers.                      *)
(***************************************************************************)
EXTENDS FxRates
=============================================================================
