------------------------- MODULE MCRateNegotiation --------------------------
(* Two sample rates; the budgets of each run are set in its configuration.  *)
EXTENDS RateNegotiation
=============================================================================
