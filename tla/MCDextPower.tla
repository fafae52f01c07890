---------------------------- MODULE MCDextPower -----------------------------
(* Two sleeps, so that a rebuild is queued behind another; two resets, so    *)
(* that one falls into the handling of another.                              *)
EXTENDS DextPower
=============================================================================
