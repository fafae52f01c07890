------------------------------ MODULE MCPlugin ------------------------------
(***************************************************************************)
(* The memory the plugin reads on its realtime threads: the audio rings it *)
(* keeps mapped and the sequence-locked records in them.  They share no    *)
(* variable, so each is explored with the other one at rest: part says     *)
(* which one moves.                                                        *)
(*                                                                         *)
(* Three rings mapped at once and a free address for the probe, where a    *)
(* later ring may land where an earlier one was; three words.  Addresses,  *)
(* and streams, are interchangeable.                                       *)
(***************************************************************************)
EXTENDS PluginIO, Seqlock, TLC

CONSTANTS a1, a2, a3, a4, analog, adat

MCAddrs == {a1, a2, a3, a4}
MCStreams == {analog, adat}
Symmetry == Permutations(MCAddrs) \cup Permutations(MCStreams)

VARIABLE part

realtimeVars == <<pluginVars, seqlockVars, part>>

RealtimeInit == PluginInit /\ SeqlockInit /\ part \in {"rings", "seqlock"}
RealtimeNext ==
  /\ UNCHANGED part
  /\ \/ part = "rings" /\ PluginNext /\ UNCHANGED seqlockVars
     \/ part = "seqlock" /\ SeqlockNext /\ UNCHANGED pluginVars
RealtimeSpec == RealtimeInit /\ [][RealtimeNext]_realtimeVars

\* Every variable of every part keeps its type.
RealtimeTypeOK == PluginTypeOK /\ SeqlockTypeOK
=============================================================================
