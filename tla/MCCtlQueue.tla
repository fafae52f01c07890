----------------------------- MODULE MCCtlQueue -----------------------------
(* Two slots and enough commands to lap them, faster than they are popped    *)
(* or not.                                                                   *)
EXTENDS CtlQueue
=============================================================================
