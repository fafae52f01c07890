---------------------------- MODULE MixerControl ----------------------------
(***************************************************************************)
(* The daemon's mixer: commands from front-ends change the model           *)
(* (uf_mixer_model.hpp), the model is rendered into the shadow of the      *)
(* device's matrix RAM (uf_mixer_shadow.hpp), and the pump writes what     *)
(* changed to the device a few quadlets per tick (uf-daemon.cpp, control   *)
(* drain), while sessions come up, fail and die around it.                 *)
(*                                                                         *)
(* The matrix RAM keeps its layout, scaled down: a destination owns two    *)
(* blocks of Block quadlets (inputs, then playback), blocks are padded     *)
(* beyond the kCh channels, and the fader row lies in the last block, of a *)
(* destination that does not exist.                                        *)
(*                                                                         *)
(* The code ignores the result of every register write, so any of them may *)
(* be lost; and a channel number is used as it comes off the socket.  Two  *)
(* history variables say what that leaves behind: lost, the registers      *)
(* whose last write did not arrive, and stray, the addresses last aimed at *)
(* by a command with a channel the mixer does not have.                    *)
(***************************************************************************)
EXTENDS Integers, Sequences, FiniteSets

CONSTANTS
  kCh,               \* channels of the mixer
  Block,             \* quadlets in a block (kMixerBlock / 4)
  Dests,             \* destinations the RAM has room for
  kMixerMax,         \* the largest gain; kMixerUnity is half of it
  kCtlWritesPerTick, \* register writes per pump tick
  Commands,          \* the commands front-ends may send
  MaxCommands,       \* bound on the commands sent
  MaxLost,           \* bound on the register writes that get lost
  MaxSessions        \* bound on session starts, failed ones included

ASSUME LayoutAssumption ==
  /\ kCh \in Nat \ {0} /\ Block \in Nat /\ Dests \in Nat
  /\ kCh <= Block /\ kCh < Dests
ASSUME LimitsAssumption ==
  /\ kMixerMax \in Nat \ {0} /\ kCtlWritesPerTick \in Nat \ {0}
  /\ MaxCommands \in Nat /\ MaxSessions \in Nat /\ MaxLost \in Nat

VARIABLES
  queue,      \* commands accepted by the socket thread, not yet popped
  sent,       \* commands sent so far
  model,      \* g_model: what the user means
  settings,   \* g_settings
  shadow,     \* g_mixer: the rendered matrix
  ctlDirty,   \* address -> quadlet still to be written
  stateDirty, \* a change that touches no register
  pc,         \* where the daemon's main thread is
  device,     \* matrix RAM, output-record mask and conf block of the device
  streaming,  \* a session is up on the device
  snap,       \* g_stateSnap: the model last handed to the saver
  published,  \* the matrix and model in the published state
  sessions,   \* session starts left
  lost,       \* registers whose last write did not arrive
  losses,     \* writes that may still get lost
  stray       \* addresses last aimed at by a command out of range

busVars == <<lost, losses>>
mixerVars == <<queue, sent, model, settings, shadow, ctlDirty, stateDirty, pc,
          device, streaming, snap, published, sessions, lost, losses, stray>>

Channels == 0..(kCh - 1)
ChannelNo == 0..65535    \* a channel number of the protocol
Kinds == {"Input", "Playback"}
Ram == 0..(2 * Dests * Block - 1)
FlagSets == SUBSET {"Muted", "Inverted", "Rec"}

\* What the socket thread lets through (uf_ctl_proto.hpp, CtlServer::handle): it
\* checks the length of a message and not the channels in it.
Requests ==
       [type: {"SetMixer"}, kind: Kinds, src: ChannelNo, dest: ChannelNo, coeff: Nat]
  \cup [type: {"SetFader"}, out: ChannelNo, coeff: Nat]
  \cup [type: {"SetCellFlags"}, kind: Kinds, src: ChannelNo, dest: ChannelNo,
        mask: FlagSets, flags: FlagSets]
  \cup [type: {"SetOutFlags"}, out: ChannelNo, mask: FlagSets, flags: FlagSets]
  \cup [type: {"SetStereo"}, kind: Kinds, src: ChannelNo, on: BOOLEAN]
  \cup [type: {"ClearSubmix"}, dest: ChannelNo]
  \cup [type: {"CopySubmix"}, src: ChannelNo, dest: ChannelNo]
  \cup [type: {"SetSettings"}, value: Nat]
ASSUME CommandsAssumption == Commands \subseteq Requests

-----------------------------------------------------------------------------
(* Addresses and rendering *)

\* input_coeff_addr and playback_coeff_addr, in quadlets from kMixerRam.
CoeffAddr(kind, src, dest) ==
  dest * 2 * Block + (IF kind = "Playback" THEN Block ELSE 0) + src

\* output_fader_addr.
FaderAddr(out) == (2 * Dests - 1) * Block + out

\* signed_coeff of the gain, or of mute: the sign carries the phase, and an
\* inverted zero is -1.
Quadlet(c) ==
  LET clipped   == IF c.gain > kMixerMax THEN kMixerMax ELSE c.gain
      magnitude == IF "Muted" \in c.flags THEN 0 ELSE clipped
  IN IF "Inverted" \notin c.flags THEN magnitude
     ELSE IF magnitude = 0 THEN -1 ELSE -magnitude

Silent == [gain |-> 0, flags |-> {}]

\* MixerModel::cell and MixerModel::output, scratch included.
Cell(m, kind, src, dest) ==
  IF src \in Channels /\ dest \in Channels THEN m.cells[<<kind, src, dest>>]
                                           ELSE m.scratch
Output(m, out) == IF out \in Channels THEN m.outputs[out] ELSE m.scratch

\* MixerModel::render: the whole matrix, faders over everything else.
Render(m) ==
  [a \in Ram |->
     IF \E o \in Channels : a = FaderAddr(o)
       THEN Quadlet(m.outputs[CHOOSE o \in Channels : a = FaderAddr(o)])
     ELSE IF \E x \in Kinds \X Channels \X Channels :
               a = CoeffAddr(x[1], x[2], x[3])
       THEN LET x == CHOOSE x \in Kinds \X Channels \X Channels :
                       a = CoeffAddr(x[1], x[2], x[3])
            IN Quadlet(m.cells[x])
     ELSE 0]

\* MixerModel::rec_mask.
RecMask(m) == {o \in Channels : "Rec" \in m.outputs[o].flags}

\* MixerModel::reset_defaults: playback to its own output, faders up.
Defaults ==
  LET unity == [gain |-> kMixerMax \div 2, flags |-> {}]
  IN [cells   |-> [x \in Kinds \X Channels \X Channels |->
                     IF x[1] = "Playback" /\ x[2] = x[3] THEN unity ELSE Silent],
      outputs |-> [o \in Channels |-> unity],
      scratch |-> Silent,
      stereo  |-> {}]

\* The part of the model a blob holds.
Blob(m) == [cells |-> m.cells, outputs |-> m.outputs, stereo |-> m.stereo]

-----------------------------------------------------------------------------
(* What a command does to the model, and the cells it dirties *)

SetCell(m, c, new) ==
  IF c.src \in Channels /\ c.dest \in Channels
    THEN [m EXCEPT !.cells[<<c.kind, c.src, c.dest>>] = new]
    ELSE [m EXCEPT !.scratch = new]

SetOutput(m, c, new) ==
  IF c.out \in Channels THEN [m EXCEPT !.outputs[c.out] = new]
                        ELSE [m EXCEPT !.scratch = new]

Masked(flags, c) == (flags \ c.mask) \cup (c.flags \cap c.mask)

\* copy_submix and clear_submix: a column of the matrix.
Column(m, to, cell) ==
  [m EXCEPT !.cells = [x \in DOMAIN m.cells |->
                         IF x[3] = to THEN cell[<<x[1], x[2]>>]
                                      ELSE m.cells[x]]]

Updated(m, c) ==
  CASE c.type = "SetMixer" ->
         SetCell(m, c, [Cell(m, c.kind, c.src, c.dest) EXCEPT !.gain = c.coeff])
    [] c.type = "SetFader" ->
         SetOutput(m, c, [Output(m, c.out) EXCEPT !.gain = c.coeff])
    [] c.type = "SetCellFlags" ->
         SetCell(m, c, [Cell(m, c.kind, c.src, c.dest)
                          EXCEPT !.flags = Masked(@, c)])
    [] c.type = "SetOutFlags" ->
         SetOutput(m, c, [Output(m, c.out) EXCEPT !.flags = Masked(@, c)])
    [] c.type = "SetStereo" /\ c.src \in Channels ->
         [m EXCEPT !.stereo = IF c.on THEN @ \cup {<<c.kind, c.src \div 2>>}
                                      ELSE @ \ {<<c.kind, c.src \div 2>>}]
    [] c.type = "ClearSubmix" /\ c.dest \in Channels ->
         Column(m, c.dest, [x \in Kinds \X Channels |-> Silent])
    [] c.type = "CopySubmix" /\ c.src \in Channels /\ c.dest \in Channels ->
         Column(m, c.dest,
                [x \in Kinds \X Channels |-> m.cells[<<x[1], x[2], c.src>>]])
    [] OTHER -> m

\* Address -> quadlet for the registers the command touches (render_cell and
\* render_output after the update).
Writes(m, c) ==
  CASE c.type \in {"SetMixer", "SetCellFlags"} ->
         [a \in {CoeffAddr(c.kind, c.src, c.dest)} |->
            Quadlet(Cell(m, c.kind, c.src, c.dest))]
    [] c.type \in {"SetFader", "SetOutFlags"} ->
         [a \in {FaderAddr(c.out)} |-> Quadlet(Output(m, c.out))]
    [] c.type \in {"ClearSubmix", "CopySubmix"} ->
         [a \in {CoeffAddr(k, s, c.dest) : k \in Kinds, s \in Channels} |->
            LET x == CHOOSE x \in Kinds \X Channels :
                       a = CoeffAddr(x[1], x[2], c.dest)
            IN Quadlet(Cell(m, x[1], x[2], c.dest))]
    [] OTHER -> [a \in {} |-> 0]

\* Writes g over f.
Over(g, f) ==
  [a \in DOMAIN f \cup DOMAIN g |-> IF a \in DOMAIN g THEN g[a] ELSE f[a]]

\* The command names registers of channels the mixer has.
InRange(c) ==
  CASE c.type \in {"SetMixer", "SetCellFlags"} -> c.src \in Channels /\ c.dest \in Channels
    [] c.type \in {"SetFader", "SetOutFlags"} -> c.out \in Channels
    [] c.type \in {"ClearSubmix", "CopySubmix"} -> c.dest \in Channels
    [] OTHER -> TRUE

\* The two registers written as a block, under numbers no cell has.
RecReg == -1
ConfReg == -2

\* The registers among as that a write from the pump gets to: none without a
\* session up on the device.
Reached(as) == IF streaming THEN as ELSE {}

\* The writes among those to the registers as that fail (wq and wblock return
\* false): any of them, as long as the bound lasts.
Lossy(as) == {{}} \cup {{f[i] : i \in 1..losses} : f \in [1..losses -> as]}

\* as has been written, except for l: nobody looks at the result, so a register in l
\* stays behind until it is written again.
Lose(l, as) ==
  /\ losses' = losses - Cardinality(l)
  /\ lost' = (lost \ as) \cup l

\* The RAM after the writes ws to it, those to l having failed.
Stored(ram, ws, l) ==
  [a \in Ram |-> IF a \in Reached(DOMAIN ws) \ l THEN ws[a] ELSE ram[a]]

\* The record mask after writes to as: one beyond the RAM lands on another register,
\* and the mask is among those.
RecAfter(as) == IF as \subseteq Ram THEN {device.rec} ELSE SUBSET Channels

-----------------------------------------------------------------------------
MixerInit ==
  /\ queue = <<>> /\ sent = 0
  /\ model = Defaults /\ settings = 0
  /\ shadow = Render(Defaults)
  /\ ctlDirty = [a \in {} |-> 0] /\ stateDirty = FALSE
  /\ pc = "waiting"
  /\ device = [ram |-> [a \in Ram |-> kMixerMax], rec |-> Channels, conf |-> -1]
  /\ streaming = FALSE
  /\ snap = Blob(Defaults)
  /\ published = [cells |-> Render(Defaults), model |-> Blob(Defaults)]
  /\ sessions = MaxSessions
  /\ lost = {} /\ losses = MaxLost /\ stray = {}

\* The socket thread accepts a command (CtlServer::handle, CtlQueue::push).
Push(c) ==
  /\ sent < MaxCommands
  /\ sent' = sent + 1
  /\ queue' = Append(queue, c)
  /\ UNCHANGED <<model, settings, shadow, ctlDirty, stateDirty, pc, device,
                 streaming, snap, published, sessions, busVars, stray>>

\* Hand the model to the saver and the front-ends.
Snapshot(m, sh) ==
  /\ snap' = Blob(m)
  /\ published' = [cells |-> sh, model |-> Blob(m)]

\* drain_ctl_idle pops everything, then renders, snapshots and publishes once.
IdlePop ==
  /\ pc \in {"waiting", "idle"} /\ queue # <<>>
  /\ LET c == Head(queue)
     IN /\ model' = Updated(model, c)
        /\ settings' = IF c.type = "SetSettings" THEN c.value ELSE settings
  /\ queue' = Tail(queue)
  /\ pc' = "idle"
  /\ UNCHANGED <<sent, shadow, ctlDirty, stateDirty, device, streaming, snap,
                 published, sessions, busVars, stray>>

\* The one render, snapshot and publication at the end.
IdleDone ==
  /\ pc = "idle" /\ queue = <<>>
  /\ shadow' = Render(model)
  /\ Snapshot(model, shadow')
  /\ pc' = "waiting"
  /\ UNCHANGED <<queue, sent, model, settings, ctlDirty, stateDirty, device,
                 streaming, sessions, busVars, stray>>

\* The pump pops a command: model, shadow and dirty cells, at the addresses the
\* channels give even when there is no such channel; the record mask (when the flag
\* moved) and the conf block are written at once.
Drain ==
  /\ pc = "drain" /\ queue # <<>>
  /\ LET c      == Head(queue)
         m      == Updated(model, c)
         ws     == Writes(m, c)
         Rec(x) == "Rec" \in Output(x, c.out).flags
         recNow  == c.type = "SetOutFlags" /\ Rec(m) # Rec(model)
         confNow == c.type = "SetSettings"
         blocks == Reached({r \in {RecReg, ConfReg} :
                               IF r = RecReg THEN recNow ELSE confNow})
     IN /\ model' = m
        /\ shadow' = [a \in Ram |-> IF a \in DOMAIN ws THEN ws[a] ELSE shadow[a]]
        /\ ctlDirty' = Over(ws, ctlDirty)
        /\ stray' = IF InRange(c) THEN stray \ DOMAIN ws ELSE stray \cup DOMAIN ws
        /\ stateDirty' = (stateDirty \/ c.type = "SetStereo")
        /\ settings' = IF confNow THEN c.value ELSE settings
        /\ \E l \in Lossy(blocks) :
             /\ Lose(l, blocks)
             /\ device' = [device EXCEPT
                             !.rec = IF RecReg \in blocks \ l THEN RecMask(m) ELSE @,
                             !.conf = IF ConfReg \in blocks \ l THEN c.value ELSE @]
  /\ queue' = Tail(queue)
  /\ UNCHANGED <<sent, pc, streaming, snap, published, sessions>>

\* The lowest kCtlWritesPerTick dirty addresses (std::map order).
Batch ==
  {a \in DOMAIN ctlDirty :
     Cardinality({b \in DOMAIN ctlDirty : b < a}) < kCtlWritesPerTick}

\* ... and when the queue is empty writes a batch, snapshots and publishes.  An entry
\* is erased whether its write succeeded or not.
WriteBatch ==
  /\ pc = "drain" /\ queue = <<>>
  /\ \E l \in Lossy(Reached(Batch)) : \E rec \in RecAfter(Reached(Batch) \ l) :
       /\ Lose(l, Reached(Batch))
       /\ device' = [device EXCEPT
                       !.ram = Stored(@, [a \in Batch |-> ctlDirty[a]], l),
                       !.rec = rec]
  /\ ctlDirty' = [a \in DOMAIN ctlDirty \ Batch |-> ctlDirty[a]]
  /\ IF Batch # {} \/ stateDirty
       THEN Snapshot(model, shadow)
       ELSE UNCHANGED <<snap, published>>
  /\ stateDirty' = FALSE
  /\ pc' = "rest"
  /\ UNCHANGED <<queue, sent, model, settings, shadow, streaming, sessions, stray>>

\* Mutation: a tick without commands skips the control drain.
NextTick_OnlyCommands ==
  /\ pc = "rest"
  /\ pc' = IF queue = <<>> THEN "rest" ELSE "drain"
  /\ UNCHANGED <<queue, sent, model, settings, shadow, ctlDirty, stateDirty,
                 device, streaming, snap, published, sessions, busVars, stray>>

\* The rest of the tick: audio, and once a second a publication of its own.
NextTick ==
  /\ pc = "rest"
  /\ pc' = "drain"
  /\ published' \in {published, [cells |-> shadow, model |-> Blob(model)]}
  /\ UNCHANGED <<queue, sent, model, settings, shadow, ctlDirty, stateDirty,
                 device, streaming, snap, sessions, busVars, stray>>

\* The registers a session start writes, and what the device holds when the writes
\* to l failed.
SessionBlocks == {RecReg, ConfReg}
Started(ram, l) ==
  [ram  |-> [a \in Ram |-> IF a \in l THEN device.ram[a] ELSE ram[a]],
   rec  |-> IF RecReg \in l THEN device.rec ELSE RecMask(model),
   conf |-> IF ConfReg \in l THEN device.conf ELSE settings]

\* Mutation: the matrix is rendered but not written to the device.
SessionUp_KeepsRam ==
  /\ pc \in {"waiting", "retry", "rest"} /\ ~streaming /\ sessions > 0
  /\ sessions' = sessions - 1
  /\ shadow' = Render(model)
  /\ \E l \in Lossy(SessionBlocks) :
       /\ Lose(l, Ram \cup SessionBlocks)
       /\ device' = Started(device.ram, l)
  /\ streaming' = TRUE
  /\ pc' = "rest"
  /\ UNCHANGED <<queue, sent, model, settings, ctlDirty, stateDirty, snap,
                 published, stray>>

\* session_start: conf, record mask, then the whole matrix from the model.  What was
\* still to be written stays in ctlDirty.
SessionUp ==
  /\ pc \in {"waiting", "retry", "rest"} /\ ~streaming /\ sessions > 0
  /\ sessions' = sessions - 1
  /\ shadow' = Render(model)
  /\ \E l \in Lossy(Ram \cup SessionBlocks) :
       /\ Lose(l, Ram \cup SessionBlocks)
       /\ device' = Started(Render(model), l)
  /\ streaming' = TRUE
  /\ pc' = "rest"
  /\ UNCHANGED <<queue, sent, model, settings, ctlDirty, stateDirty, snap,
                 published, stray>>

\* session_start gives up (no tx channel) before it reaches the matrix.  At
\* start-up it is then retried, without draining commands, until it succeeds.
SessionFail ==
  /\ pc \in {"waiting", "retry", "rest"} /\ ~streaming /\ sessions > 0
  /\ sessions' = sessions - 1
  /\ \E l \in Lossy(SessionBlocks) :
       /\ Lose(l, SessionBlocks)
       /\ device' = Started(device.ram, l)
  /\ pc' = IF pc = "rest" THEN "rest" ELSE "retry"
  /\ UNCHANGED <<queue, sent, model, settings, shadow, ctlDirty, stateDirty,
                 streaming, snap, published, stray>>

\* The device is power-cycled or drops off the bus; or restart_session stops
\* the session for a rate change.  Its registers hold anything.
SessionDown ==
  /\ pc = "rest" /\ streaming
  /\ streaming' = FALSE
  /\ device' = [ram |-> [a \in Ram |-> kMixerMax], rec |-> Channels, conf |-> -1]
  /\ lost' = {}
  /\ UNCHANGED <<queue, sent, model, settings, shadow, ctlDirty, stateDirty, pc,
                 snap, published, sessions, losses, stray>>

\* The wait for the device goes on.
Idle ==
  /\ pc = "retry" \/ (pc = "waiting" /\ queue = <<>>)
  /\ UNCHANGED mixerVars

MixerNext ==
  \/ \E c \in Commands : Push(c)
  \/ IdlePop \/ IdleDone \/ Drain \/ WriteBatch \/ NextTick
  \/ SessionUp \/ SessionFail \/ SessionDown
  \/ Idle

\* The pump keeps ticking; front-ends and the device owe nothing.
MixerFairness == WF_mixerVars(Drain) /\ WF_mixerVars(WriteBatch) /\ WF_mixerVars(NextTick)

MixerSpec == MixerInit /\ [][MixerNext]_mixerVars /\ MixerFairness

-----------------------------------------------------------------------------
Cells == [gain: Nat, flags: FlagSets]

MixerTypeOK ==
  /\ sent \in 0..MaxCommands /\ sessions \in 0..MaxSessions
  /\ queue \in Seq(Commands)
  /\ model \in [cells: [Kinds \X Channels \X Channels -> Cells],
                outputs: [Channels -> Cells], scratch: Cells,
                stereo: SUBSET (Kinds \X Nat)]
  /\ settings \in Nat /\ shadow \in [Ram -> Int]
  /\ device \in [ram: [Ram -> Int], rec: SUBSET Channels, conf: Int]
  /\ DOMAIN ctlDirty \subseteq Nat /\ \A a \in DOMAIN ctlDirty : ctlDirty[a] \in Int
  /\ lost \subseteq Int /\ losses \in 0..MaxLost /\ stray \subseteq Nat
  /\ pc \in {"waiting", "idle", "retry", "drain", "rest"}
  /\ stateDirty \in BOOLEAN /\ streaming \in BOOLEAN

\* The shadow built cell by cell is the shadow a full render would build: the
\* two paths of uf-daemon.cpp never disagree about what a mute or a phase flip
\* turns into.  Excepted is an address that a command out of range was aimed at:
\* render_cell takes the value from scratch_ and the address from the channels.
ShadowIsRendered ==
  pc # "idle" => \A a \in Ram \ stray : shadow[a] = Render(model)[a]

\* While a session is up, every register of the device holds what the model
\* renders to, or the pump still has exactly that to write, or the last write to it
\* failed: one that fails stays lost, through ticks and later commands, until that
\* register's next change or the next session start (uf-daemon.cpp 1422-1423), and
\* no other register suffers by it.  The record mask and the conf block never lag.
\* Rate changes, wedges and failed rebuilds in between lose nothing else.  Nothing is
\* said of an address a command out of range was aimed at, nor of the record mask
\* once such an address lay beyond the RAM.
DeviceFollowsModel ==
  streaming =>
    /\ RecReg \notin lost /\ stray \subseteq Ram => device.rec = RecMask(model)
    /\ ConfReg \notin lost => device.conf = settings
    /\ \A a \in Ram \ stray :
         LET value == Render(model)[a]
         IN IF a \in DOMAIN ctlDirty THEN ctlDirty[a] = value
                                     ELSE a \notin lost => device.ram[a] = value

\* At the end of a tick the saver and the front-ends have the current model,
\* though the device may still be catching up, or have missed a write; and the
\* published matrix is the rendered one wherever no command out of range was aimed.
ChangesHandedOver ==
  pc = "rest" =>
    /\ snap = Blob(model) /\ published.model = Blob(model)
    /\ \A a \in Ram \ stray : published.cells[a] = Render(model)[a]

\* Once front-ends stop, a device that stays up ends with the matrix the user
\* asked for, in every register whose last write did not fail: the pump's write
\* limit delays a change and never drops it.  What a failed write dropped
\* (uf-daemon.cpp 1422-1423) is not sent again, and what a command out of range
\* was aimed at is not the model's.
DeviceCatchesUp ==
  []<>(streaming /\ queue = <<>> =>
         \A a \in Ram \ (lost \cup stray) : device.ram[a] = Render(model)[a])

\* Everything that follows the model (shadow, device, saver and front-ends) is in
\* step with it, or knows what is missing, or missed a write that failed.
FollowersInStep == ShadowIsRendered /\ DeviceFollowsModel /\ ChangesHandedOver
=============================================================================
