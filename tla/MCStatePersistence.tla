------------------------- MODULE MCStatePersistence -------------------------
(* A few changes and one or two ends of the process of each kind, as set in *)
(* each configuration.                                                      *)
EXTENDS StatePersistence
=============================================================================
