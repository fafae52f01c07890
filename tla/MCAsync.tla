------------------------------- MODULE MCAsync ------------------------------
(***************************************************************************)
(* Asynchronous traffic on the FireWire bus: the transactions of the user  *)
(* clients and of the identification, which the computer starts, and MIDI, *)
(* where the device writes into the receive buffer.  The two use different *)
(* contexts of the controller, so each is explored with the other one at   *)
(* rest: part says which one moves, and only that one is scheduled.        *)
(*                                                                         *)
(* Three transactions, one of which may be the identification's read after *)
(* a bus reset, which comes first or runs into the others; with two labels *)
(* the third transaction takes the first one's, whose answer may still be  *)
(* on its way.  A receive buffer that a few requests fill.                 *)
(***************************************************************************)
EXTENDS AsyncTransactor, MidiBridge

VARIABLE part

asyncVars == <<vars, midiVars, part>>

\* An action of one of them, with the other one at rest.
OfCalls(A) == part = "calls" /\ A /\ UNCHANGED <<midiVars, part>>
OfMidi(A) == part = "midi" /\ A /\ UNCHANGED <<vars, part>>

AsyncInit == Init /\ MidiInit /\ part \in {"calls", "midi"}
AsyncNext == OfCalls(Next) \/ OfMidi(MidiNext)

\* Each part is scheduled as its own specification says.
AsyncSpec ==
  /\ AsyncInit /\ [][AsyncNext]_asyncVars
  /\ \A c \in Callers : WF_asyncVars(OfCalls(Step(c)))
  /\ WF_asyncVars(OfMidi(Poll)) /\ WF_asyncVars(OfMidi(Rest))

\* Every variable of every part keeps its type.
AsyncTypeOK == TypeOK /\ MidiTypeOK
=============================================================================
