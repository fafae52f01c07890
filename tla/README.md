# userface800 in TLA+

userface800 is a user-space driver for the RME Fireface 800: a DriverKit
extension ("dext") that owns the OHCI FireWire controller, a daemon that runs the
FF800's protocol and moves audio, and an AudioServerPlugIn ("plugin") that
coreaudiod loads and that presents the device to CoreAudio. The three run in
three processes and meet in shared memory. Most of what can go wrong happens
between them: a cursor read at the wrong moment, a request made to a daemon that
is just starting, a file written while its source changes. This directory
specifies those parts, checks them with TLC and proves the central ones with
TLAPS.

Paths below are relative to `src/`; `D` is `platform/daemon/uf-daemon.cpp`, `C` is
`platform/daemon/uf_ctl_server.hpp`, `P` is `platform/coreaudio/UFAudioDriver.cpp`, `X` is
`platform/ohci-dext/UFFireWireOHCI.cpp`.
Line numbers are those of the modelled commit. `PROJECT.json` maps every
definition to its lines.

## 1. Inventory

| Component | State | Operations | Meets | Hard because |
|---|---|---|---|---|
| Zero-timestamp clock (`platform/shared/uf_zero_timestamp.hpp`) | sample/host pair, seed, graft offset, lock | `next`, `setTicksPerFrame` | called by the plugin with the daemon's anchor | any anchor may arrive: stale, frozen, restarted, of another rate |
| Plugin device and ring mapper (`P`) | nominal rate, mapped rings | `GetZeroTimeStamp`, `SetNominalSampleRateImpl`, `ShmMapper::refresh`, the attach hook | capture ring header | three plugin threads and a daemon that may be replaced under them |
| Plugin IO handler (`P`) | staged cycle, held slots | `flushStageToRing`, `fillStageFromRing` | both rings | retired mappings, partial slots |
| Shared audio ring (`platform/shared/uf_shm_ring.hpp`) | head, tail, slots, anchor | acquire/commit on both sides, `publishTimestamp`, `readTimestamp` | daemon and plugin | two processes, no lock |
| Seqlocks: anchor, published state, dext status page | sequence number and payload | publish, read | dext -> daemon -> plugin, tools | readers run concurrently with the writer |
| Rate agreement (`D`, `P`, ring header) | deviceRate, requestedRate, requestSeq, seenRequest | request, switch, wedge recovery, re-attach | all three processes | crashes and failures in the middle of a switch |
| Playback fill `TxFill` (`platform/shared/uf_tx_fill.hpp`) | held slot, position, dry flag | `beginPacket`, `frame`, `reset`, `release` | playback ring | misses and restarts in mid-slot |
| Control socket, protocol and client (`C`, `platform/shared/uf_ctl_proto.hpp`, `uf_ctl_client.hpp`) | connections, the serving thread's place in a message | connect, greet, send; serve, stop | front-ends -> daemon | one thread for all clients, which may end in mid-message |
| Command queue (`C`) | SPSC queue | `push`, `pop` | socket thread -> pump | a full queue moves the other side's cursor |
| Mixer model and shadow (`platform/shared/uf_mixer_model.hpp`, `uf_mixer_shadow.hpp`) | cells, outputs, stereo links, rendered RAM | edits, render | daemon | incremental and full rendering must agree; blocks overlap |
| Control drain (`D` 437-485, 1334-1435) | coalesced dirty cells | drain, write a limited batch, snapshot, publish | queue, device, saver | the write limit spreads one command over ticks and sessions |
| State saver (`D` 722-768, `platform/shared/uf_state_store.hpp`) | snapshot, its sequence number, file | poll, save, stop | pump, disk | copy under a concurrent reader, crash between steps, two writers |
| Session lifecycle (`D` 487-679, 1119-1189) | session geometry, failure count | start, stop, restart | device, dext | every step may fail |
| Pump (`D` 1191-1911) | capture and transmit cursors | drain, gap detection, anchor, paced fill, servo | dext status page, both rings | paced by interrupts, with a controller that never waits |
| Dext isochronous rings (`X` 1200-1576) | descriptors, cursors | start, stop, scan, release, refill | controller, daemon | controller, interrupt and daemon touch the same slots |
| Dext completion interrupt (`X` 1344-1415) | status page, control block | one handler | pump | applies cursors left in memory by the pump |
| Dext asynchronous transactor (`X` 876-1163, `include/uf/ohci/async.hpp`) | one request block, one response buffer, the label | quadlet and block reads and writes, with retries | every register access; the identification after a bus reset | time-outs, late and repeated responses, two queues and no lock |
| Dext bring-up, power, bus reset (`X`) | the sleep gate, flags of what has been done, node ids | `Start`, `Stop`, `SetPowerState`, rebuild, the interrupt handler | power manager, bus, everything in the dext | rebuilds under way when the next sleep or reset comes |
| MIDI bridge (`X` 1578-1735, `D` 275-330) | receive buffer and cursor, advertised address, port | enable, poll, recycle, send in chunks | device, CoreMIDI, pump | a buffer that ends in mid-packet and that other nodes write to |
| Dext user client (`platform/ohci-dext/UFFireWireOHCIUserClient.cpp`) | none of its own | dispatch to the above | daemon | its calls and the bus-reset handling are on two queues |
| Meters, protocol library, descriptor helpers, tools, TUI | small or none | codecs, display | | |

### What has to be right

* The clock's four guarantees to the HAL: period boundaries only, a pair that
  never moves backward, never overdue, a seed that marks discontinuities.
* Plugin and daemon agree about the rate, and the plugin never reads frames of one
  rate as frames of another; a dead stream comes back; a request is not forgotten.
* A ring slot belongs to one side at a time; slots are neither lost, reordered nor
  written while they wait; a seqlock read is one publication.
* The capture and transmit cursors stay within a lap and fall back into step with a
  controller that went on without them; what a restart leaves behind is taken
  neither for a gap nor for a wedge, and restarts do not cause restarts for ever.
* A realtime callback touches mapped memory only, across restarts of the daemon.
* A register read returns its own answer, a write reported as done has arrived, and
  every call returns, on a bus that loses, repeats and delays.
* After any sequence of sleeps, wakes and bus resets the controller is programmed,
  the device is addressed at the node it has now, the host is cycle master, and the
  bus comes to rest.
* MIDI bytes pass in order and once; the port does not stay dead.
* A command that was sent whole arrives whole, and front-ends can take down neither
  each other nor the daemon.
* The device's mixer RAM, the shadow, the saver and the front-ends follow the
  model, whatever the order of commands, ticks and sessions; a register write that
  fails costs that register its value and nothing else.
* The state file is whole at every moment, and changes reach it.

The hazards that matter most, each at its line with the properties that watch it, are
under `hazards` in `PROJECT.json`.

## 2. Modules

| Module | Models | State and actions |
|---|---|---|
| `ZeroTimeStampClock` | the clock and `GetZeroTimeStamp` | one action per HAL call, with any slope, time and anchor. `WithDevice`/`WithoutDevice` are the two branches of `next()`, `Settle` its common tail. Frames and ticks are integers; a slope is ticks per period |
| `RateNegotiation` | the rate handshake | the daemon as a program counter from `DaemonStart` through `StartSession`, `MakeRing`, `InitRing`, `EnterPump` to the pump's `PumpRequest` and `WedgeRestart`; the mapper (`Refresh`, `AttachStore`, `AttachBump`) and the HAL call (`SetRateStore`, `SetRateBump`, `SetRateNominal`) store by store; each daemon run has a ring of its own, so a plugin can still write to a dead one |
| `SlotFifo` | abstract: a bounded FIFO of slots | `Put`, `Get` |
| `AudioRing` | the shared ring and the loops of both sides | acquire, frame copy, commit, miss, drop; `AbandonWrite` and `ResetRead` are a session restart on either side. Refines `SlotFifo` |
| `Seqlock` | the anchor, the published state and the status page | every load and store of the sequence number and of each word is a step; `NeverIsAnswer` distinguishes readers that treat "never published" as no answer |
| `TransmitPacing` | transmit ring, completion interrupt, paced fill, restart | `TxCycle` is the controller (external), `TxInterrupt` the handler's transmit half, `ReadTxStatus` ... `TxWake` the pump's tick, `TxRestart` ... `TxSettle` restart_session. A slot's payload is the number of the packet it was written for. `Leads` describes the pump ahead of the controller |
| `CaptureDrain` | capture ring, the interrupt's receive half, drain, continuity and wedge watches, restarts | `Cycle` is the controller (external), with or without a packet of the device; `Interrupt` releases and scans; `ReadStatus` ... `Wake` are one tick of the pump: the drain, then `GapRestart`/`Disarm`/`NoGap`, then `Progress`/`WedgeRestart`; `IsoStop` ... `SessionUp` restart_session; `DaemonCrash`. A packet is the number of its bus cycle. `Follows` describes dext and pump in step with the controller |
| `AsyncTransactor` | register transactions | per queue a call with its steps (`Run`, `PollAcked`, `PollFailed`, `Take`, `AwaitTimeout`); the controller and the bus (`Send`, `Receive`, `Land`) are external. A request is its serial number, which the device answers with |
| `DextPower` | Start, bring-up, power, rebuilds, the bus-reset handler, Stop | Start on its thread, `PowerOff`/`PowerOn` of the power manager, one serial queue with the handler (`Interrupt`, `NodeId`, `Identify`, `Conclude`) and the rebuilds (`RebuildBegin` ...); a bring-up is a list of steps, each through the sleep gate. `SelfIds`, `ForeignReset`, `TooLong` are the bus |
| `PluginIO` | ShmMapper's retirement and UFIOHandler's cycle staging | `Poll` is the mapper's thread; `CallBegin`, then the accesses of a callback one by one (`FillRing`, `FillHeld`, `Read` / `Write`); `DaemonStart`, `Daemon` the other end |
| `MidiBridge` | the request context, `MidiInPoll`, registration, MIDI out | `DeviceSends`, `PeerRequest`, `BusReset` are external; `midi_poll_in`, `PollReturns` one poll, `MidiInPoll`'s recycling and its walk in it, the walk as turns of a loop (`turn`, `walk`) until it stops; `Enable`, `Disable`, `Crash` the daemon; `MessageComes`, `midi_send_to_ff800` MIDI out |
| `ControlSocket` | Client and CtlServer | `Connect`, `SendHeader`, `SendRest`, `Close` of a client; `Poll`, `Pick`, `RecvHeader`, `Handle`, `Drop` ... of the serving thread; `Stop`, `Joined`, `Crash`, `Start` of the daemon |
| `CtlQueue` | the command queue | `push` and `pop` load by load, a command copied in halves |
| `MixerControl` | model, shadow, idle drain, pump drain, session start | commands of every kind; RAM as a function on addresses with the code's layout, the overlap of the fader row included |
| `StatePersistence` | snapshot, saver thread, SaverGuard, `save_blob`, `load_blob` | a snapshot and a file are two halves; a file is an inode under two names; each half is read into the stdio buffer and reaches the file in steps of its own |
| `MC...` | instances for TLC | constants that are not plain values |
| `...Proofs` | theorems | section 5 |

`AudioRing` refines `SlotFifo`. Modules whose components meet only through values that
one of them abstracts are checked side by side by one MC module (section 3). `RateNegotiation` and `MixerControl`
both contain the session lifecycle, each reduced to what it does to their state.

Abstractions worth knowing:

* `MixerControl`: any register write may fail, and nobody notices; without a session the
  pump's writes reach nothing. A write beyond the matrix RAM may change the record
  mask, which lies there; what else it may hit is not modelled. The record mask's
  truncation at 2x and 4x and the clock register beside the conf block are left out.
* `AsyncTransactor`: clearing a block's status and stopping its context are one step (no
  other queue looks at the status in between), and the identification is a series
  of quadlet reads.
* `DextPower` keeps of the registers what decides what happens next: the gate, how far
  the controller is set up, events and masks, who is root. The interrupt handler keeps the
  number of self-IDs and its own node number in locals across its 200 ms pause, stale
  or read as all ones at a shut gate, as the code does. Of Start's allocations only the
  results the code looks at may fail: the isochronous buffers and descriptors and the
  ROM's (`X` 593-692). The asynchronous contexts' buffers and all mappings are used
  unchecked, and a failure there is not modelled.
* `MidiBridge` counts buffer and packets in quadlets; `ControlSocket` splits a message
  into its header and the rest, which is how the server receives it, and a command is
  its number on its connection.
* `PluginIO` takes one direction at a time and cycles of one frame, so that a slot is
  held across cycles. Its `Daemon` lets the other end commit a slot whenever the ring
  allows it, which is more than the pump's drain and `TxFill` do (`AudioRing` has their
  loops).
* `StatePersistence`: a crash is the death of the process. `save_blob` does not
  call fsync, so after a power failure nothing of this is promised.
* `TransmitPacing` and `CaptureDrain` take the interrupt path (`irqPump`); in the former
  the interrupt is paced by a capture stream that runs as long as transmit does, and
  restarts succeed (in the latter they may fail).
  One interrupt is one step, as is the status read (`Seqlock` justifies the
  latter). The servo's packet sizes are left out.
* Sequential consistency is assumed everywhere; `Seqlock` states the order that the
  code's fences ask for. Plain (non-atomic) copies that race are modelled as
  word-wise or half-wise steps (`CtlQueue`, `StatePersistence`).

## 3. Runs

Components that share no variable are put into one MC module and one run. A variable
`part`, chosen in the initial state and never changed, says which of them moves; the
others stay in an initial state. Nothing is lost by that: none of them reads another's
variables, so every behaviour of one of them alone is explored, and no property relates
two of them. Fairness is that of the part that moves. Where components do interact
(the two queues of the transactor, daemon and plugin, pump and saver, interrupt and
pump), the interaction is inside one module.

| Run | Components | Checks |
|---|---|---|
| `streams` | `CaptureDrain` | `ComesInStep` (`CaptureInStep`: `CountsOnlyStored`, `CaptureIsFresh`, `ComesToFollow`), `StaysInStep` (`KeepsFollowing`), `NoFalseAlarm` (`NoPhantomGap`, `NoFalseWedge`), `FlappingStops`: across laps, late interrupts and pumps, silent devices, restarts that succeed or fail and a crash of the daemon, only stored packets are counted, the drain is back in step and at the newest packets within a bounded time and stays there until a cycle is missed, the continuity and the wedge watch fire only for something that happened, and restarts that do not help come to an end, for each daemon |
| | `TransmitPacing` | `ComesInStep` (`TransmitInStep`: `LeadWithinLap`, `RegainsStep`, `ComesToLead`), `StaysInStep` (`KeepsLeading`): the dext's cursor invariant under stale cursors; controller and pump fall back into step, and stay there until a cycle finds somebody late |
| | `ZeroTimeStampClock` | `StampValid` (`OnGrid`, `HostNearNow`), `TimelineHolds` (`MonotonePair`, `SeedOnlyOnDiscontinuity`): the four guarantees of `uf_zero_timestamp.hpp`, for any sequence of anchors |
| `plugin` | `PluginIO` | `NeverUnmapped`, `CursorsInStep`, `StageIsOneCycle`: the grace period is enough for a callback, a held slot does not outlive its ring, a cycle is put together from one cycle's calls |
| | `Seqlock` | `ReadsHold` (`AcceptedIsWhole`, `NeverOlder`): accepted reads are whole and in order |
| `channels` | `ControlSocket` | `SocketInSync` (`WholeAndInOrder`, `StaysInSync`), `HandshakeEnds`, `StopReturns`: commands sent whole arrive whole and in order, both ends agree where the next message begins, no greeting is left waiting and stop() returns |
| | `CtlQueue` | `DeliversEvery`, `NewestLands`: complete and in order without overruns; the newest command lands even with them |
| | `MixerControl` | `FollowersInStep` (`ShadowIsRendered`, `DeviceFollowsModel`, `ChangesHandedOver`), `DeviceCatchesUp`: the two ways of rendering agree, and on the way to the device nothing is lost but writes that fail, each until its register is written again |
| | `AudioRing` | `ImplementsFifo`, `PlayedInOrder`, `EverySlotPlayed`: the ring is a FIFO across restarts; play steps back only after a restart, and never by a whole slot |
| `async` | `AsyncTransactor` | `ResultIsTrue` (`ReadIsAnswer`, `WriteReached`), `EveryCallReturns`: no late, repeated or partly arrived response and no left-over status is taken for the answer, and every call ends, sleep included |
| | `MidiBridge` | `MidiInOrder` (`CursorOnBoundary`, `HeardInOrder`, `OutAccounted`), `PassedIsHeard`, `PortComesBack`: the walk keeps to packet boundaries, bytes arrive in order and once, a poll with room to spare has returned everything it passed, the buffer never stays full, and a message is written in full unless the bus lost a chunk |
| `power` | `DextPower` | `BringUpsInTurn` (`BringUpsApart`, `StopQuiesces`), `ComesToRest` (`ControllerComesBack`, `NodeFollowsBus`, `HostBecomesMaster`, `NoResetStorm`): one bring-up at a time and none after Stop; in the end the controller is up, the device addressed where it is, the host cycle master and the bus at rest |
| `rate` | `RateNegotiation` | `FollowsTrueRate`, `StreamRecovers`, `RequestHonoured`: no frames in the wrong unit, a dead stream always comes back, a request is honoured while no rebuild fails |
| `state` | `StatePersistence` | `FileComplete`, `ChangesReachDisk`, `QuietStopSaves`: whole file, changes saved, clean stop |
| `rate_failed_switch`, `rate_daemon_restart`, `queue_drop`, `state_torn`, `socket_pipe` | | one property each, violated: section 4 |

A property with parts in brackets is the conjunction of those definitions, each with a
comment of its own. The type invariants of the parts of a run are one invariant of it
(`StreamsTypeOK`, `RealtimeTypeOK`, `ChannelsTypeOK`, `AsyncTypeOK`, `TypeOK`). The exceptions a property
makes are stated in the comment in front of it; section 4 says what lies behind them.

### Bounds

Every bound is a constant named `Max...`, counted down or compared in guards.

* `CaptureDrain`: a ring of 4 slots, a start that takes 6 cycles (512 and 1200 in the
  code: a start is longer than a lap in both), a proving window of 7 cycles, restarts
  closer than 32 cycles taken for flapping, up to four restarts, two faults (a late
  pump or interrupt, a silent device, a failed start, a crash), 33 cycles: room for
  four restarts, one more than `FlappingStops` allows in that time, and for a restart
  followed by `Horizon` (18) quiet cycles. The back-off after three wedges in a row
  would need more; `NoFalseWedge` is stated with the shorter limit.
* `TransmitPacing`: a ring of 6 slots, one of them empty, a lead of 3, a start that takes
  8 cycles, up to two cycles on which pump or interrupt is late (outside the start,
  where all of them are), and one restart. The code has 640, 64 and 1200: a start
  is longer than a lap in both, and the lead at most half a lap. `RegainsStep` needs
  two laps and a lead (`TxHorizon` 15); with 12 cycles it does not hold.
* `ZeroTimeStampClock`: period 2, two slopes, anchors before, at and after the present.
  The clock compares only differences with the period and the staleness window, so
  the orders of small values are all the orders there are.
* `PluginIO`: four addresses, three daemon starts, two streams, two slots of two frames,
  five cycles, six polls; a callback may take as long as the grace period. Addresses
  and streams are interchangeable, which the run uses (symmetry; it has no liveness
  property).
* `Seqlock`: three words, three publications, so that one read can span two of them.
* `ControlSocket`: two clients, one of another version, two messages per connection, three
  connections, two daemon lives, one crash.
* `CtlQueue`: two slots and six pushes: overruns of more than a lap.
* `MixerControl`: two channels, blocks of three quadlets, one destination more than there
  are outputs (so that the fader row overlaps as in the device), three writes per
  tick, two commands out of eleven, two sessions, one lost write. The commands are of
  every kind, two of them out of range: one aimed at a fader, one beyond the RAM.
  Two commands are enough for one to meet what the other left to be written; a submix
  takes two ticks.
* `AudioRing`: two slots of two frames and ten frames, so both cursors lap the ring
  twice, and one restart on each side.
* `AsyncTransactor`: two labels, two attempts, three transactions, so that the third takes
  the first one's label while an answer to the first may still be on the way; one
  identification read; one fault.
* `MidiBridge`: a buffer of 13 quadlets that two requests nearly fill, blocks of up to three
  bytes, polls of two, five bytes in, three out, two daemon starts, one trouble.
* `DextPower`: two sleeps, two foreign bus resets, one fault.
* `RateNegotiation`: two rates, two daemon runs, two plugin runs, two requests, one wedge,
  two failed rebuilds with a failure limit of 2, one crash. A second run and a second
  request are what the interesting races need; the limit is reached.
* `StatePersistence`: two changes, each touching either or both halves, one stop, exit,
  failure and crash; two quiet polls instead of four, which only shortens the wait.

Deadlock is checked in `rate` and `state`. Elsewhere the system may stop within the
bounds: bus clocks end, front-ends have nothing to say, the dext is stopped.

### Fairness

Weak fairness only, and only of what a running thread does next.

* The pump keeps ticking because it blocks with a 20 ms time-out (`D` 1902); it is the
  consumer of the playback ring and of the command queue, and polls MIDI. A mapper
  thread polls forever (`P` 95). launchd restarts the daemon (KeepAlive), so
  `DaemonStart` and `Start` are fair.
* A transaction's next step is fair for each queue: its polls are counted loops.
* In `DextPower`, Start's thread, the serial queue and the bus's own settling are fair;
  sleeps, wakes, resets and faults are not.
* In `ControlSocket` the serving thread and the join are fair, and so is a client with a
  message begun: it finishes it or ends. `StopReturns` needs the latter (section 4).
* In `MidiBridge` the controller writes the rest of a packet it has begun.
* `RestartUp \/ RestartFail` is fair as one action: a rebuild ends, one way or the other.

Front-ends, CoreAudio, the device, crashes and file operations that fail owe nothing.
`CaptureIsFresh` and `RegainsStep` say "soon" with a cycle count instead of fairness.

## 4. Where code and comments disagree

Five runs refute something a comment says; `findings` in `PROJECT.json` quotes the lines.

1. `rate_daemon_restart` (`Agreement`): the pump takes the request it finds on entry as
   already acted on (`D` 1107), but the ring is visible to the plugin since `make_ring`.
   A request of the attach hook in between is lost, and the two sides go on
   disagreeing.
2. `rate_failed_switch` (`RequestRetried`): `seenRequest` advances before the switch
   (`D` 1546); a failed rebuild leaves `rate` as it was and the wedge path rebuilds at
   the old one.
3. `queue_drop` (`DropsOnlyTheOldest`): `push` stores `tail_` while `pop` is between its
   load and its store.
4. `state_torn` (`FileIsOneSnapshot`): `g_stateSnap` is assigned while `save_blob` may be
   reading it. Two changes more than the quiet period apart are enough.
5. `socket_pipe` (`OutlivesClients`): the answer to a greeting goes to a socket whose
   client may be gone, and nothing keeps SIGPIPE from ending the daemon (`C` 194).

Seen while reading or modelling, and not stated as a run (where a property makes an
exception for one of these, its comment says so):

* Streams: the status page keeps the old session's cursors until the first interrupt of
  the new one, so a pump may drain the old count once; a daemon that died leaves its
  cursor in the control block, which interrupts apply to its successor's session
  until the first tick.
* `restart_session` calls `txSrc.reset()` with the comment "gets a fresh ring" (`D` 1176),
  but the ring stays and the held slot is played again from its start.
  `PlayedInOrder` bounds the damage to that slot. `TxFill`'s channel count is fixed at
  the first session's (`D` 1023).
* Transactions: a user client's call and the identification after a bus reset run on two
  queues and share the request block; a call the other one ran into may report
  anything. A label that comes round to that of an answer still on the bus makes the
  code take that answer for its own; with 64 labels this takes an answer that is late
  by as many transactions.
* Mixer: the pump ignores the result of a register write and erases its entry (`D` 1422),
  though by `WriteReached` the result would have told. The register stays behind until
  its next change or the next session start; `FollowersInStep` and `DeviceCatchesUp`
  except it, and say that nothing else is lost with it.
  A command for a channel that does not exist goes to a scratch cell, "where
  out-of-range writes go to die" (`platform/shared/uf_mixer_model.hpp` 298), but its
  register address is still computed from its numbers (124-131) and written, in the
  shadow and on the device (`D` 1348, 1422); for destination 31 that is the fader row.
  The next full render puts the shadow right. The same two properties except such an
  address, and say that the others keep to the model.
* Plugin: a replaced ring is recognised by its address (`P` 196). When the system maps
  the new ring where a retired one was, the handler keeps a slot of the old one.
* MIDI: `MidiInEnable` rewinds the cursor without restarting the buffer, so after a
  daemon crash bytes are delivered again; a backlog of more than eight bytes loses
  the rest of the block at the limit of a poll; a block that has only partly arrived
  is taken for garbage and dropped; the written count is read again after the walk,
  so packets that arrived meanwhile can be recycled unread; the node id advertised to
  the device is not refreshed after a bus reset or a wake; results of MIDI-out writes
  are ignored.
* Control socket: one thread serves everyone with `MSG_WAITALL`, so a client that stalls
  in mid-message holds up all others and `stop()`; a second daemon unlinks the
  first one's socket; the server does not insist on the greeting.
* `std::exit` after too many failed rebuilds (`D` 1163) skips SaverGuard, although
  its comment says every exit path goes through it (`D` 744).
* SaverGuard saves before it stops the saver (`D` 760), and both use one temporary
  file. One can truncate it just before the other renames it, so `FileComplete`
  is stated up to the SIGTERM.

## 5. Proofs

Each theorem holds for every value of the constants that satisfies the named
assumptions of its module. TLC evaluates the assumptions and checks the same
definitions on the instances above; the inductive invariants were checked with TLC on
these instances before they were proved. Most assumptions say that a number is
natural or that a set is not empty. The others are facts of the code: the interrupt's
period divides the capture ring, which holds the packets of three interrupts
(`LapAssumption`: 8 and 512); the transmit lead is at most the ring, holds the packets of
three interrupts and exceeds the least lead by more than one, and no two packets in a row
are empty (`LeadAssumption`: 640, 64, 8 and 8, and half of the packets full at 32 kHz); a callback takes no longer
than the grace period, and the null address is not one a ring is mapped at
(`PluginAssumption`); the channels fit into a block of the mixer's RAM and are fewer than
its destinations (`LayoutAssumption`); the commands of the mixer are the protocol's messages
with any channel numbers (`CommandsAssumption`).

An invariant a run checks is seldom inductive. What had to be added:

* **`StreamsProofs`**, clock: `ClockTypeCorrect`, `SampleOnGrid`, `NeverOverdue`,
  `StampMonotone`, `SeedMarksDiscontinuity`, i.e. all four guarantees, and from them
  `ClockStampValid` and `ClockTimelineHolds`.
  A sample is the graft offset plus a quantised
  count, so `GridInv` puts the offset on the grid too, as a multiple (`\E k`) rather
  than a remainder, which the provers handle better; `FreshInv` says that no host
  time precedes the first call. Monotonicity and the seed then follow per step.
* **`StreamsProofs`**, capture: `CaptureTypeCorrect`, `CaptureCountsOnlyStored`,
  `CaptureFlappingStops`. The scan counts statuses, so `StatusInv` says whose they are: a
  set status belongs to a packet stored since the read cursor. With a lap as the
  limit of the scan, a counted slot is then one of this lap. The pump's count may
  be an earlier session's; `Stored` says that the slots below it have held a packet
  all the same, without which the time stamp it reads has no type. `BurstInv` relates the
  number of gap restarts to the time of the last one and to the burst counter.
  `CaptureKeepsFollowing`: once dext and pump are in step they stay so, whatever the order
  of packets, interrupts, ticks and early wake-ups. `Follows` is inductive as it stands, up to
  `Upset`; it says which statuses are set (`RingFollows`), that the packets not drained yet
  came one cycle after the other (`DataFollows`), and what the pump owes at each point of its
  tick (`PumpFollows`). Two interrupts' worth of slots may be waiting to be handed back
  while a third comes in, hence `LapAssumption`. `FollowsIsFresh` and `FollowsSeesNoGap` say
  what that is worth: the packet drained last is of the last interrupt, and no gap is
  counted that the stream did not have, the wrap of the time stamp included.
* **`StreamsProofs`**, transmit: `TransmitTypeCorrect`, `TransmitLeadWithinLap`. The scan's
  maximum exists because it is over a bounded interval; a minimal-element theorem
  replaces induction. `TransmitKeepsLeading` is the counterpart of `CaptureKeepsFollowing`. `Leads` says
  which statuses ahead of the sent cursor are set (`StatusLeads`), that the lead is written
  and handed back one and two interrupts behind (`FillLeads`), and what the pump owes
  (`TickLeads`). The scan counts empty packets unseen, so it may be one packet ahead of the
  controller, and no more because no two empty ones follow each other (`FullAfterEmpty`, from
  the cadence's arithmetic); the resynchronisation never finds the lead too short.
  `LeadsIsInStep`: the packets on the wire are then the ones written for them.
  `StreamsStayInStep` puts both together for the property the run checks, `StaysInStep`.
  `StreamsTypeCorrect` and `StreamsKeepPromises` put the three parts together.
* **`PluginProofs`**: `PluginTypeCorrect`, `PluginNeverUnmapped`, `PluginCursorsInStep`,
  `PluginStageIsOneCycle`, `RealtimeTypeCorrect` (with the seqlocks). `MappingInv` compares
  ages: the mapping a callback works on is the published one, or was retired fewer
  polls ago than the callback has seen. `HeldInv` says that a held slot is of the ring at
  the address the handler remembers and that the other end cannot take it;
  `SeenInv` that an unfinished cycle still lacks a stream.
* **`SeqlockProofs`**: `SeqlockTypeCorrect`, `SeqlockWhole`, `SeqlockNeverOlder`, together
  `SeqlockReadsHold`.
  `PayloadInv` describes memory for even and odd sequence numbers, `ReaderInv` what a
  reader has copied if the number has not moved.
* **`ChannelsProofs`**, ring: `RingTypeCorrect`, `RingNoSharedSlot`, `RingImplementsFifo`,
  `RingPlaysInOrder`.
  `CursorInv` adds to the cursors' distance that a slot held for writing is free and
  one held for reading is committed. The refinement maps the slots between tail
  and head to a sequence; each step appends, takes the head, or leaves the
  sequence alone, the last because two cursors less than a lap apart have
  different indices. For the order of play `ContentInv` says that a committed slot holds
  consecutive frames, later than those of the slots before it, and `PlayedInv` where
  the frame played last is among them.
* **`ChannelsProofs`**, queue: `QueueTypeCorrect`, `QueueDeliversEvery`. `ExactInv` holds as long as
  nothing was dropped: what lies between the cursors are the commands not yet
  taken, each whole, and the halves that either side has copied so far are the right
  ones.
* **`ChannelsProofs`**, mixer: `MixerTypeCorrect`, `MixerFollowersInStep`. The core are lemmas about
  addresses and rendering: the fader row and the blocks of coefficients do not overlap
  for channels in range (`AddressesApart`), a quadlet depends on one cell (`RenderLocal`), and
  the writes of a command cover every quadlet it changes (`UpdateCovered`). `PendingInv`
  then says that a dirty cell holds what the model renders to now, and `DrainInv` that
  the pump never ends a drain without noticing a change. Any number of writes may fail
  and commands may name any channel: `lost` and `stray` are the registers about which
  the theorem then says nothing, and it says that no other register is affected.
* **`ChannelsProofs`**, socket: `SocketTypeCorrect`, `SocketStaysInSync`. All that concerns one client is put
  together in its `View`; `StreamOK` says of it that headers and rests alternate from where
  the thread is (`Alternating`), that numbers grow from what was queued over what the
  thread is at to what is on its way (`Numbered`), what the client still owes (`Sending`),
  and that a wrong length is only ever its own (`Blamed`). A step is then a lemma about
  one view, and leaves the others alone. `ChannelsTypeCorrect` puts the four parts
  together.
* **`AsyncProofs`**: `AsyncTypeCorrect`, `AsyncResultIsTrue`. `Mine` says, of a call no other queue ran
  into, that the request block is its own and that no response with its label is
  for another request, on the bus or in the buffer. The former rests on
  `Undisturbed`, by which a call that begins with an answer of its label on the bus does
  not count as one; the latter on the re-arming that starts every call that reads the buffer.
* **`AsyncProofs`**, MIDI: `MidiTypeCorrect`, `MidiStaysInOrder`, `MidiPassedIsHeard`. `LayoutInv` says that
  the packets lie end to end in the buffer, `OnBoundary` that the cursor is at the start or the
  end of one, `OrderInv` how what was heard, what lies in the buffer and what the device has yet
  to send follow each other, `OutInv` the same for MIDI out. The walk has a loop
  invariant, `WalkOK`, that one turn preserves. That it holds after every number of turns
  is an induction that takes no operator as a parameter: the turns at which it
  holds are a set, and a least one outside it leads to a contradiction. The same
  argument shows that the recursive function is the iteration it is meant to be
  (`IterationExists`) and that a walk is over after as many turns as the buffer has quadlets
  (`WalkEnds`). `AsyncTypesCorrect` and `AsyncKeepsPromises` put the two parts together.
* **`DextPowerProofs`**: `PowerTypeCorrect`, `PowerBringUpsInTurn`. `TurnInv` says that nothing is
  started, stopped, queued or rebuilt until Start is through; `QueuedInv` that every rebuild
  answers a sleep of its own; `QuietInv` that after a Stop that met no rebuild
  there is none later.
* **`RateProofs`**: `NegotiationTypeCorrect`, `NegotiationFollowsTrueRate`.
  `RateInv` says for each point of the daemon what the ring may name and what may
  be on the wire: a rate is named only when the wire carries it or nothing, which
  is what clearing `deviceRate` before a switch and storing it after is for.
  `MappedInv` says that a thread about to write to a ring has one.
* **`StateProofs`**: `StateTypeCorrect`, `StateFileComplete`. As long as the saver is the only
  writer (`SoleWriter`), the temporary file is never the state file under another name,
  it is the one being written, and what was passed on is in it (`DiskInv`); so a rename
  puts a whole file in place.

One attempt changed the model. `FlappingStops` could not be proved with a daemon
that crashes: its counters start anew with the next one. The bound is now on each
daemon, counted from its first session, and `SessionFails` leaves out the first session, which the
code retries until it starts (`D` 843-860).

Only model-checked:

* every liveness property: fairness and ENABLED are beyond the proof system;
* that the streams get into step: `CaptureIsFresh`, `ComesToFollow`, `RegainsStep`, `ComesToLead`, and
  `NoFalseAlarm`, which rests on it. How soon they do depends on how ring, lead, settling
  time and horizon are chosen, and for unsuitable ones they do not. Transmit takes about two laps
  and a lead. Capture, with statuses an old lap left ahead of the count, jumps once
  per lap and loses only the packets of one jump each time, so it may take as many laps as
  the ring has slots (the horizon of 18 cycles is exact for a ring of 4 with
  an interrupt per packet).

## 6. Not modelled

Register encodings, sample packing and meters (pure bit layouts and floating
point, unit-tested in `tests/`); the parsers of hardware formats (`DextPower` takes their
result); the tools and the TUI (they render the published state and send commands:
as readers and clients they are in `Seqlock` and `ControlSocket`); the one-shot capture
`IsoStart`/`IsoPoll` that only `uf-capture` uses; the servo's arithmetic and the packet
sizes it sets; `DebugPollInbound`, which logs; the user client's argument checks and
memory mappings; environment-variable switches for bench work (`UF_NO_TX`,
`UF_TX_FREERUN`, `UF_MIXER_SKIP` ...), taken as unset; the polled fallback of the pump.

## 7. Plan

Done, in this order: clock, rate agreement, shared ring with its abstract FIFO,
seqlocks, mixer control, command queue, persistence, transmit pacing; then capture
drain, transactor, power and bus reset, plugin IO, MIDI and the control socket; the
theorems of section 5, which cover the safety of every module.

Next:

1. Proofs: bounds for how soon the two streams come into step, as functions of ring, lead
   and interrupt period.
2. Protocol operators (rate and channel tables, blocking cadence, self-ID parsing)
   against reference definitions over bounded inputs.
3. `MixerControl` over the transactor, whose failures it now takes as given.
