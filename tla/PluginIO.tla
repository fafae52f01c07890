------------------------------ MODULE PluginIO ------------------------------
(***************************************************************************)
(* The plugin's realtime IO across daemon restarts                         *)
(* (coreaudio/UFAudioDriver.cpp).  ShmMapper's background thread maps the  *)
(* ring of a restarted daemon, publishes its address and unmaps the old    *)
(* one after a grace period; UFIOHandler assembles a cycle from one call   *)
(* per stream and keeps a slot of the ring between calls.  It knows a      *)
(* replaced ring by its address only, and the system hands a free address  *)
(* out again.                                                              *)
(*                                                                         *)
(* One direction at a time: "capture" reads slots the daemon fills,        *)
(* "playback" fills slots the daemon reads.  A cycle is one frame long, a  *)
(* slot kFramesPerSlot of them, so a slot is held from cycle to cycle.     *)
(***************************************************************************)
EXTENDS Naturals, FiniteSets

CONSTANTS
  Addrs,           \* addresses a ring may be mapped at
  Streams,         \* streams of the direction, outStreamCount_ many
  kSlots,          \* slots in a ring
  kFramesPerSlot,  \* frames in a slot
  Grace,           \* polls a retired mapping is kept for (5 s)
  CallPolls,       \* polls that may pass while one callback runs
  MaxRings,        \* bound on daemon starts
  MaxCycles,       \* bound on IO cycles
  MaxPolls         \* bound on polls of the background thread

\* No address, no stream: never a mapped address.
None == "none"

ASSUME PluginAssumption ==
  /\ {kSlots, kFramesPerSlot, Grace, MaxRings, MaxCycles} \subseteq Nat \ {0}
  /\ CallPolls \in 0..Grace /\ MaxPolls \in Nat
  /\ IsFiniteSet(Streams) /\ None \notin Addrs

VARIABLES
  dir,      \* "capture" or "playback"
  inst,     \* the ring the name leads to, 0 before the daemon ever ran
  ring,     \* ring -> its cursors
  mem,      \* address -> the ring mapped there, 0 for none
  ptr,      \* the published address, or None
  retired,  \* address -> polls since it was retired, for retired mappings
  io,       \* the handler
  call,     \* the callback in progress
  cycle,    \* the cycle CoreAudio is at and the streams it called for it
  polls,    \* polls so far
  reused    \* history: an address came back under the handler's feet

pluginVars == <<dir, inst, ring, mem, ptr, retired, io, call, cycle, polls, reused>>

Rings == 1..MaxRings
Silence == [s \in Streams |-> 0]

\* A handler that knows no ring: no slot held, no cycle begun.
Fresh(addr) == [last |-> addr, held |-> 0, frame |-> 0, cycle |-> 0, staged |-> 0,
                seen |-> 0, stage |-> Silence]
NoCall == [addr |-> None, stream |-> None, polls |-> 0]

PluginInit ==
  /\ dir \in {"capture", "playback"} /\ inst = 0
  /\ ring = [r \in Rings |-> [head |-> 0, tail |-> 0]]
  /\ mem = [a \in Addrs |-> 0] /\ ptr = None /\ retired = [a \in {} |-> 0]
  /\ io = Fresh(None) /\ call = NoCall /\ cycle = [now |-> 1, called |-> {}]
  /\ polls = 0 /\ reused = FALSE

-----------------------------------------------------------------------------
(* The daemon *)

\* make_ring unlinks the old ring and creates another under its name.
DaemonStart ==
  /\ inst < MaxRings /\ inst' = inst + 1
  /\ UNCHANGED <<dir, ring, mem, ptr, retired, io, call, cycle, polls, reused>>

\* The daemon's pump fills a slot of its capture ring, or its transmit fill empties
\* one of its playback ring, at any time; a full or empty ring makes it pass.
Daemon ==
  /\ inst # 0
  /\ IF dir = "capture"
       THEN /\ ring[inst].head - ring[inst].tail < kSlots
            /\ ring' = [ring EXCEPT ![inst].head = @ + 1]
       ELSE /\ ring[inst].head # ring[inst].tail
            /\ ring' = [ring EXCEPT ![inst].tail = @ + 1]
  /\ UNCHANGED <<dir, inst, mem, ptr, retired, io, call, cycle, polls, reused>>

-----------------------------------------------------------------------------
(* The background thread *)

\* Mutation: a retired mapping is dropped at the next poll.
Expired_AtOnce(age) == TRUE

\* A retired mapping has outlived the grace period.
Expired(age) == age > Grace

Free == {a \in Addrs : mem[a] = 0}

\* One poll: a probe of the ring the name leads to replaces the published mapping
\* if it is another ring, which is then retired; what was retired long enough ago
\* is unmapped.  A callback lasts for less than the grace period.
Poll ==
  /\ polls < MaxPolls /\ polls' = polls + 1
  /\ call # NoCall => call.polls < CallPolls
  /\ call' = IF call = NoCall THEN call ELSE [call EXCEPT !.polls = @ + 1]
  /\ \E a \in Free :
       LET new  == inst # 0 /\ (ptr = None \/ mem[ptr] # inst)
           old  == IF new /\ ptr # None THEN {ptr} ELSE {}
           age  == [b \in DOMAIN retired \cup old |->
                      IF b \in old THEN 0 ELSE retired[b] + 1]
           gone == {b \in DOMAIN age : Expired(age[b])}
       IN  /\ ptr' = IF new THEN a ELSE ptr
           /\ mem' = [b \in Addrs |-> IF b \in gone THEN 0
                                      ELSE IF new /\ b = a THEN inst ELSE mem[b]]
           /\ retired' = [b \in DOMAIN age \ gone |-> age[b]]
           /\ reused' = (reused \/ (new /\ io.last = a))
  /\ UNCHANGED <<dir, inst, ring, io, cycle>>

-----------------------------------------------------------------------------
(* The realtime thread *)

\* Mutation: what the handler holds outlives the ring it came from.
Handler_Keeps(addr) == [io EXCEPT !.last = addr]

\* What the handler knows once it has seen the published address.
Handler(addr) == IF addr = io.last THEN io ELSE Fresh(addr)

\* A callback loads the published address once; without a ring it returns.
CallBegin(s) ==
  /\ call = NoCall /\ s \in Streams \ cycle.called
  /\ cycle' = [cycle EXCEPT !.called = @ \cup {s}]
  /\ IF ptr = None THEN UNCHANGED <<io, call>>
     ELSE call' = [addr |-> ptr, stream |-> s, polls |-> 0] /\ io' = Handler(ptr)
  /\ UNCHANGED <<dir, inst, ring, mem, ptr, retired, polls, reused>>

\* The ring the callback works on.
Mine == mem[call.addr]

\* fillStageFromRing: a spent slot is handed back and the next one claimed, if
\* there is one.
Spent == io.held # 0 /\ io.frame >= kFramesPerSlot
FillRing ==
  IF Spent THEN [ring EXCEPT ![Mine].tail = @ + 1] ELSE ring
FillHeld ==
  IF io.held # 0 /\ ~Spent THEN [held |-> io.held, frame |-> io.frame + 1]
  ELSE IF FillRing[Mine].tail # FillRing[Mine].head THEN [held |-> Mine, frame |-> 1]
  ELSE [held |-> 0, frame |-> 0]

\* OnReadClientInput: the first stream of a cycle pulls it from the ring.
Read ==
  /\ call # NoCall /\ dir = "capture" /\ Mine # 0 /\ call' = NoCall
  /\ IF io.cycle = cycle.now THEN UNCHANGED <<io, ring>>
     ELSE /\ ring' = FillRing
          /\ io' = [io EXCEPT !.cycle = cycle.now, !.held = FillHeld.held,
                              !.frame = FillHeld.frame]
  /\ UNCHANGED <<dir, inst, mem, ptr, retired, cycle, polls, reused>>

\* flushStageToRing: the staged frame, if there is one, goes into the held slot or
\* a new one, and a full slot is committed; a full ring drops it.
Flushed(h, r) ==
  LET held  == h.held # 0 \/ r[Mine].head - r[Mine].tail < kSlots
      frame == IF h.held # 0 THEN h.frame + 1 ELSE 1
      full  == held /\ frame >= kFramesPerSlot
  IN  IF h.staged = 0 THEN [io |-> h, ring |-> r]
      ELSE [io |-> [h EXCEPT !.staged = 0,
                             !.held = IF ~held \/ full THEN 0
                                      ELSE IF h.held # 0 THEN h.held ELSE Mine,
                             !.frame = IF ~held \/ full THEN 0 ELSE frame],
            ring |-> IF full THEN [r EXCEPT ![Mine].head = @ + 1] ELSE r]

\* Mutation: the stage is not silenced for the new cycle.
Opened_Stale(h) == [h EXCEPT !.cycle = cycle.now, !.staged = 1, !.seen = 0]

\* A new cycle starts out silent.
Opened(h) ==
  [h EXCEPT !.cycle = cycle.now, !.staged = 1, !.seen = 0, !.stage = Silence]

\* OnWriteMixedOutput: a new cycle publishes what is left of the last one; the
\* last stream of a cycle publishes it.
Write ==
  /\ call # NoCall /\ dir = "playback" /\ Mine # 0 /\ call' = NoCall
  /\ LET first == Flushed(io, ring)
         begun == IF io.cycle = cycle.now THEN [io |-> io, ring |-> ring]
                  ELSE [io |-> Opened(first.io), ring |-> first.ring]
         given == [begun.io EXCEPT !.stage[call.stream] = cycle.now, !.seen = @ + 1]
         last  == Flushed(given, begun.ring)
     IN  IF given.seen >= Cardinality(Streams)
           THEN io' = [last.io EXCEPT !.cycle = 0] /\ ring' = last.ring
           ELSE io' = given /\ ring' = begun.ring
  /\ UNCHANGED <<dir, inst, mem, ptr, retired, cycle, polls, reused>>

\* CoreAudio moves on to the next cycle; a stream that was not called is idle.
NextCycle ==
  /\ call = NoCall /\ cycle.now < MaxCycles
  /\ cycle' = [now |-> cycle.now + 1, called |-> {}]
  /\ UNCHANGED <<dir, inst, ring, mem, ptr, retired, io, call, polls, reused>>

-----------------------------------------------------------------------------
PluginNext ==
  \/ DaemonStart \/ Daemon \/ Poll \/ Read \/ Write \/ NextCycle
  \/ \E s \in Streams : CallBegin(s)
PluginSpec == PluginInit /\ [][PluginNext]_pluginVars

-----------------------------------------------------------------------------
\* The values every variable stays within.
PluginTypeOK ==
  /\ dir \in {"capture", "playback"} /\ inst \in 0..MaxRings
  /\ ring \in [Rings -> [head: Nat, tail: Nat]]
  /\ mem \in [Addrs -> 0..MaxRings] /\ ptr \in Addrs \cup {None}
  /\ DOMAIN retired \subseteq Addrs /\ \A a \in DOMAIN retired : retired[a] \in 0..Grace
  /\ io \in [last: Addrs \cup {None}, held: 0..MaxRings, frame: 0..kFramesPerSlot,
             cycle: 0..MaxCycles, staged: {0, 1}, seen: 0..Cardinality(Streams),
             stage: [Streams -> 0..MaxCycles]]
  /\ call \in {NoCall} \cup [addr: Addrs, stream: Streams, polls: 0..CallPolls]
  /\ cycle \in [now: 1..MaxCycles, called: SUBSET Streams]
  /\ polls \in 0..MaxPolls /\ reused \in BOOLEAN

\* A callback never touches memory that has been unmapped, though the mapping may
\* be replaced and retired between its load of the address and its last access.
NeverUnmapped == call # NoCall => mem[call.addr] # 0

\* Neither end of a ring runs past the other across restarts, unless the address
\* came back: no slot is handed back or published that was not claimed.
CursorsInStep ==
  ~reused => \A r \in Rings : ring[r].tail <= ring[r].head
                                /\ ring[r].head <= ring[r].tail + kSlots

\* What goes to the ring as one cycle holds only what its streams gave for it: a
\* stream that is idle comes out silent instead of repeating an earlier cycle.
StageIsOneCycle ==
  io.staged # 0 => \A s \in Streams : io.stage[s] \in {0, io.cycle}
=============================================================================
