----------------------------- MODULE MCChannels -----------------------------
(***************************************************************************)
(* What the daemon and the other processes pass through: the control       *)
(* socket, the command queue behind it, the mixer the commands end up in,  *)
(* and the audio ring.  None of them reads a variable of another one, so   *)
(* each is explored with the others at rest: part says which one moves,    *)
(* and only that one is scheduled.                                         *)
(*                                                                         *)
(* Two clients, one of them of another version; two queue slots and two    *)
(* ring slots, with enough pushes and frames to lap them; a mixer with two *)
(* channels and one padding quadlet per block, so that a submix takes      *)
(* several ticks, and a register write that fails.                         *)
(***************************************************************************)
EXTENDS ControlSocket, CtlQueue, MixerControl, AudioRing

\* A command of every kind, with both directions of a mute; the last two name channels
\* that do not exist: one is aimed at the fader of output 0, the other beyond the RAM.
MCCommands ==
  {[type |-> "SetMixer", kind |-> "Input", src |-> 1, dest |-> 0, coeff |-> 3],
   [type |-> "SetFader", out |-> 1, coeff |-> 2],
   [type |-> "SetCellFlags", kind |-> "Playback", src |-> 0, dest |-> 0,
    mask |-> {"Muted"}, flags |-> {"Muted"}],
   [type |-> "SetCellFlags", kind |-> "Playback", src |-> 0, dest |-> 0,
    mask |-> {"Muted", "Inverted"}, flags |-> {"Inverted"}],
   [type |-> "SetOutFlags", out |-> 0, mask |-> {"Rec"}, flags |-> {"Rec"}],
   [type |-> "SetStereo", kind |-> "Input", src |-> 1, on |-> TRUE],
   [type |-> "ClearSubmix", dest |-> 0],
   [type |-> "CopySubmix", src |-> 0, dest |-> 1],
   [type |-> "SetSettings", value |-> 1],
   [type |-> "SetMixer", kind |-> "Playback", src |-> 0, dest |-> 2, coeff |-> 2],
   [type |-> "SetOutFlags", out |-> 3, mask |-> {"Rec"}, flags |-> {"Rec"}]}

VARIABLE part

channelVars == <<socketVars, queueVars, mixerVars, ringVars, part>>

\* An action of one of them, with the others at rest.
OfSocket(A) == part = "socket" /\ A /\ UNCHANGED <<queueVars, mixerVars, ringVars, part>>
OfQueue(A) == part = "queue" /\ A /\ UNCHANGED <<socketVars, mixerVars, ringVars, part>>
OfMixer(A) == part = "mixer" /\ A /\ UNCHANGED <<socketVars, queueVars, ringVars, part>>
OfRing(A) == part = "ring" /\ A /\ UNCHANGED <<socketVars, queueVars, mixerVars, part>>

ChannelsInit ==
  /\ SocketInit /\ QueueInit /\ MixerInit /\ RingInit
  /\ part \in {"socket", "queue", "mixer", "ring"}
ChannelsNext ==
  OfSocket(SocketNext) \/ OfQueue(QueueNext) \/ OfMixer(MixerNext) \/ OfRing(RingNext)

\* Each part is scheduled as its own specification says.
ChannelsSpec ==
  /\ ChannelsInit /\ [][ChannelsNext]_channelVars
  /\ WF_channelVars(OfSocket(Serve)) /\ WF_channelVars(OfSocket(Joined))
  /\ \A c \in Clients : WF_channelVars(OfSocket(Finish(c)))
  /\ WF_channelVars(OfQueue(PushDrop \/ PushPublish \/ \E h \in Halves : PushStore(h)))
  /\ WF_channelVars(OfQueue(Pop))
  /\ WF_channelVars(OfMixer(Drain)) /\ WF_channelVars(OfMixer(WriteBatch))
  /\ WF_channelVars(OfMixer(NextTick))
  /\ WF_channelVars(OfRing(Consumer)) /\ WF_channelVars(OfRing(CommitWrite))

\* Every variable of every part keeps its type.
ChannelsTypeOK == SocketTypeOK /\ QueueTypeOK /\ MixerTypeOK /\ RingTypeOK
=============================================================================
