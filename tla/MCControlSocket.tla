--------------------------- MODULE MCControlSocket --------------------------
(* One client and one connection, which is all it takes to lose the daemon. *)
EXTENDS ControlSocket
=============================================================================
