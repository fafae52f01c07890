------------------------------ MODULE MCStreams -----------------------------
(***************************************************************************)
(* The isochronous streams and the time they give: the capture and the     *)
(* transmit half of the daemon's pump, with the interrupt that serves      *)
(* both, and the plugin's zero-timestamp clock.  They share threads but no *)
(* cursor, so each is explored with the others at rest: part says which    *)
(* one moves.                                                              *)
(*                                                                         *)
(* Rings of a few packets that a starting session laps, with a pump or an  *)
(* interrupt that may be late; two frames per period of the clock, two     *)
(* nominal slopes, six host times and a ring that may hold any anchor.     *)
(***************************************************************************)
EXTENDS CaptureDrain, TransmitPacing, ZeroTimeStampClock

MCSlopes == {1, 2}
MCTimes == 1..6
MCDevSamples == -1..5
MCDevHosts == 0..7

VARIABLE part

streamVars == <<captureVars, transmitVars, clockVars, part>>

\* A part at rest is in one of its initial states, it does not matter which.
StreamsInit ==
  /\ CaptureInit /\ TransmitInit /\ ClockInit
  /\ part \in {"capture", "transmit", "clock"}
  /\ part # "capture" => ~watch.armed
  /\ part # "clock" => ticksPerPeriod = 1
StreamsNext ==
  /\ UNCHANGED part
  /\ \/ part = "capture" /\ CaptureNext /\ UNCHANGED <<transmitVars, clockVars>>
     \/ part = "transmit" /\ TransmitNext /\ UNCHANGED <<captureVars, clockVars>>
     \/ part = "clock" /\ ClockNext /\ UNCHANGED <<captureVars, transmitVars>>
StreamsSpec == StreamsInit /\ [][StreamsNext]_streamVars

\* Every variable of every part keeps its type.
StreamsTypeOK == CaptureTypeOK /\ TransmitTypeOK /\ ClockTypeOK

\* The cursors of dext and pump stay where the controller has been, and a bounded
\* time after whatever went wrong both rings are back in step with it: capture
\* drains the newest packets, transmit sends the ones written for the cycle.
ComesInStep == CaptureInStep /\ TransmitInStep

\* Once in step both rings stay so, however packets, interrupts and ticks of the
\* pump interleave, until a cycle is missed, finds somebody late or the session ends.
StaysInStep == KeepsFollowing /\ KeepsLeading
=============================================================================
