---------------------------- MODULE PluginProofs ----------------------------
(***************************************************************************)
(* The plugin's realtime IO proved for any number of rings, addresses,     *)
(* streams and slots, any grace period and any number of cycles.           *)
(***************************************************************************)
EXTENDS MCPlugin, SeqlockProofs, FiniteSetTheorems

IoType ==
  [last: Addrs \cup {None}, held: 0..MaxRings, frame: 0..kFramesPerSlot,
   cycle: 0..MaxCycles, staged: {0, 1}, seen: 0..Cardinality(Streams),
   stage: [Streams -> 0..MaxCycles]]
RingType == [Rings -> [head: Nat, tail: Nat]]

\* The published mapping and the retired ones are distinct and mapped; the mapping
\* of a callback is the published one, or was retired since the callback began.
MappingInv ==
  /\ ptr # None => mem[ptr] # 0 /\ ptr \notin DOMAIN retired
  /\ \A a \in DOMAIN retired : mem[a] # 0
  /\ call # NoCall =>
       /\ call.addr = io.last
       /\ \/ call.addr = ptr
          \/ call.addr \in DOMAIN retired /\ retired[call.addr] < call.polls

\* The handler is behind neither end of the ring whose slot it holds.
Within(r) ==
  \A q \in Rings : r[q].tail <= r[q].head /\ r[q].head <= r[q].tail + kSlots
Claimed(h, r) ==
  h.held # 0 => IF dir = "capture" THEN r[h.held].tail < r[h.held].head
                                   ELSE r[h.held].head < r[h.held].tail + kSlots

\* Unless its address came back, the slot the handler holds is of the ring mapped
\* at the address it knows, if any still is, and nobody else can take it.
HeldInv ==
  ~reused => /\ Claimed(io, ring)
             /\ io.held # 0 => io.last # None /\ mem[io.last] \in {0, io.held}

\* Capture stages nothing; an unfinished playback cycle still lacks a stream.
SeenInv ==
  /\ dir = "capture" => io.staged = 0
  /\ dir = "playback" /\ io.cycle # 0 => io.seen < Cardinality(Streams)

\* The inductive invariant of the plugin's realtime IO.
PluginInv ==
  /\ PluginTypeOK /\ MappingInv
  /\ HeldInv /\ CursorsInStep
  /\ SeenInv /\ StageIsOneCycle
-----------------------------------------------------------------------------
\* The plugin starts in the invariant.
LEMMA PluginInitially == PluginInit => PluginInv
<1> SUFFICES ASSUME PluginInit PROVE PluginInv
  OBVIOUS
<1> USE PluginAssumption
<1>n. /\ kSlots \in Nat \ {0} /\ kFramesPerSlot \in Nat \ {0} /\ Grace \in Nat \ {0}
      /\ MaxRings \in Nat \ {0} /\ MaxCycles \in Nat \ {0}
  OBVIOUS
<1>c. Cardinality(Streams) \in Nat
  BY FS_CardinalityType
<1>1. PluginTypeOK
  <2>1. io \in IoType
    BY <1>n, <1>c DEF PluginInit, IoType, Fresh, Silence
  <2>2. reused \in BOOLEAN
    BY Zenon DEF PluginInit
  <2>3. /\ dir \in {"capture", "playback"} /\ inst \in 0..MaxRings
        /\ ring \in RingType /\ mem \in [Addrs -> 0..MaxRings]
        /\ ptr \in Addrs \cup {None} /\ DOMAIN retired = {}
        /\ call = NoCall /\ cycle \in [now: 1..MaxCycles, called: SUBSET Streams]
        /\ polls \in 0..MaxPolls
    BY <1>n DEF PluginInit, RingType, Rings
  <2> QED BY <2>1, <2>2, <2>3 DEF PluginTypeOK, IoType, RingType
<1>2. MappingInv
  BY DEF PluginInit, MappingInv
<1>3. HeldInv /\ SeenInv /\ StageIsOneCycle
  BY DEF PluginInit, HeldInv, Claimed, SeenInv, StageIsOneCycle, Fresh
<1>4. CursorsInStep
  BY <1>n DEF PluginInit, CursorsInStep
<1> QED BY <1>1, <1>2, <1>3, <1>4 DEF PluginInv

\* The numbers and types the steps below keep needing.
LEMMA PluginFacts ==
  ASSUME PluginTypeOK
  PROVE  /\ kSlots \in Nat \ {0} /\ kFramesPerSlot \in Nat \ {0} /\ Grace \in Nat \ {0}
         /\ MaxRings \in Nat \ {0} /\ MaxCycles \in Nat \ {0} /\ MaxPolls \in Nat
         /\ CallPolls \in 0..Grace /\ Cardinality(Streams) \in Nat
         /\ io \in IoType /\ ring \in RingType
         /\ call # NoCall => call \in [addr: Addrs, stream: Streams, polls: 0..CallPolls]
<1>1. Cardinality(Streams) \in Nat
  BY PluginAssumption, FS_CardinalityType
<1> QED BY <1>1, PluginAssumption DEF PluginTypeOK, IoType, RingType

-----------------------------------------------------------------------------
(* The daemon *)

\* A new ring under the name touches nothing the plugin holds.
LEMMA DaemonStartStep == PluginInv /\ DaemonStart => PluginInv'
<1> SUFFICES ASSUME PluginInv, DaemonStart PROVE PluginInv'
  OBVIOUS
<1> USE DEF PluginInv
<1>1. PluginTypeOK'
  BY PluginFacts DEF DaemonStart, PluginTypeOK
<1>2. MappingInv' /\ HeldInv' /\ SeenInv' /\ StageIsOneCycle'
  BY DEF DaemonStart, MappingInv, HeldInv, Claimed, SeenInv, StageIsOneCycle
<1>3. CursorsInStep'
  BY DEF DaemonStart, CursorsInStep
<1> QED BY <1>1, <1>2, <1>3

\* The daemon moves only its own end of its own ring, away from a held slot.
LEMMA DaemonStep == PluginInv /\ Daemon => PluginInv'
<1> SUFFICES ASSUME PluginInv, Daemon PROVE PluginInv'
  OBVIOUS
<1> USE PluginFacts DEF PluginInv
<1>i. inst \in Rings
  BY DEF Daemon, PluginTypeOK, Rings
<1>r. /\ ring' \in RingType
      /\ \A q \in Rings : /\ ring[q].head \in Nat /\ ring[q].tail \in Nat
                          /\ ring'[q].head \in Nat /\ ring'[q].tail \in Nat
  BY <1>i DEF Daemon, RingType
<1>1. PluginTypeOK'
  BY <1>r DEF Daemon, PluginTypeOK, RingType
<1>2. MappingInv' /\ SeenInv' /\ StageIsOneCycle'
  BY DEF Daemon, MappingInv, SeenInv, StageIsOneCycle
<1>3. CursorsInStep' /\ HeldInv'
  <2> SUFFICES ASSUME ~reused PROVE (CursorsInStep /\ HeldInv)'
    BY DEF Daemon, CursorsInStep, HeldInv
  <2>h. io.held \in Nat /\ (io.held # 0 => io.held \in Rings)
    BY DEF IoType, Rings
  <2>1. CASE dir = "capture"
    <3>1. /\ ring[inst].head - ring[inst].tail < kSlots
          /\ \A q \in Rings : /\ ring'[q].tail = ring[q].tail
                              /\ ring'[q].head = IF q = inst THEN ring[q].head + 1
                                                 ELSE ring[q].head
      BY <2>1, <1>i DEF Daemon, RingType
    <3>2. CursorsInStep'
      BY <3>1, <1>r DEF Daemon, CursorsInStep
    <3>3. HeldInv'
      BY <2>1, <3>1, <1>r, <2>h DEF Daemon, HeldInv, Claimed
    <3> QED BY <3>2, <3>3
  <2>2. CASE dir # "capture"
    <3>1. /\ ring[inst].head # ring[inst].tail
          /\ \A q \in Rings : /\ ring'[q].head = ring[q].head
                              /\ ring'[q].tail = IF q = inst THEN ring[q].tail + 1
                                                 ELSE ring[q].tail
      BY <2>2, <1>i DEF Daemon, RingType
    <3>2. CursorsInStep'
      BY <3>1, <1>r, <1>i DEF Daemon, CursorsInStep
    <3>3. HeldInv'
      BY <2>2, <3>1, <1>r, <2>h DEF Daemon, HeldInv, Claimed
    <3> QED BY <3>2, <3>3
  <2> QED BY <2>1, <2>2
<1> QED BY <1>1, <1>2, <1>3
-----------------------------------------------------------------------------
(* The background thread *)

\* A mapping a callback may still use is not unmapped: it is the published one, or
\* it was retired fewer polls ago than the callback has lasted.
LEMMA PollStep == PluginInv /\ Poll => PluginInv'
<1> SUFFICES ASSUME PluginInv, Poll PROVE PluginInv'
  OBVIOUS
<1> USE PluginFacts DEF PluginInv
<1>a. PICK a \in Free :
        LET new  == inst # 0 /\ (ptr = None \/ mem[ptr] # inst)
            old  == IF new /\ ptr # None THEN {ptr} ELSE {}
            age  == [b \in DOMAIN retired \cup old |->
                       IF b \in old THEN 0 ELSE retired[b] + 1]
            gone == {b \in DOMAIN age : Expired(age[b])}
        IN  /\ ptr' = IF new THEN a ELSE ptr
            /\ mem' = [b \in Addrs |-> IF b \in gone THEN 0
                                       ELSE IF new /\ b = a THEN inst ELSE mem[b]]
            /\ retired' = [b \in DOMAIN age \ gone |-> age[b]]
            /\ reused' = (reused \/ (new /\ io.last = a))
  BY DEF Poll
<1> DEFINE new  == inst # 0 /\ (ptr = None \/ mem[ptr] # inst)
           old  == IF new /\ ptr # None THEN {ptr} ELSE {}
           aged == DOMAIN retired \cup old
           age  == [b \in aged |-> IF b \in old THEN 0 ELSE retired[b] + 1]
           gone == {b \in aged : age[b] > Grace}
<1>u. UNCHANGED <<dir, inst, ring, io, cycle>>
  BY DEF Poll
<1>p. /\ ptr' = IF new THEN a ELSE ptr
      /\ mem' = [b \in Addrs |-> IF b \in gone THEN 0
                                 ELSE IF new /\ b = a THEN inst ELSE mem[b]]
      /\ retired' = [b \in aged \ gone |-> age[b]]
      /\ reused' = (reused \/ (new /\ io.last = a))
  BY <1>a DEF Expired
<1>f. a \in Addrs /\ mem[a] = 0 /\ a \notin aged /\ a # None
  BY PluginAssumption DEF Free, MappingInv, PluginTypeOK
<1>g. /\ aged \subseteq Addrs
      /\ \A b \in aged : age[b] \in Nat
      /\ \A b \in DOMAIN retired \ old : age[b] = retired[b] + 1
      /\ \A b \in old : age[b] = 0
  BY DEF PluginTypeOK
<1>d. /\ DOMAIN retired' = aged \ gone
      /\ \A b \in DOMAIN retired' : retired'[b] = age[b] /\ retired'[b] \in 0..Grace
  <2> HIDE DEF aged, age
  <2>1. DOMAIN retired' = aged \ gone
    BY <1>p
  <2>2. \A b \in aged \ gone : retired'[b] = age[b]
    BY <1>p
  <2> QED BY <2>1, <2>2, <1>g
<1>m. mem' \in [Addrs -> 0..MaxRings]
  <2> HIDE DEF new, gone
  <2> QED BY <1>p DEF PluginTypeOK
<1>l. \A b \in Addrs \ gone : mem[b] # 0 => mem'[b] = mem[b]
  <2> HIDE DEF new, gone
  <2> QED BY <1>p, <1>f
<1>n. new => ptr' = a /\ mem'[a] = inst /\ inst # 0
  <2>1. a \notin gone
    BY <1>f
  <2> HIDE DEF gone
  <2> QED BY <2>1, <1>p, <1>f
<1>o. ~new => ptr' = ptr /\ old = {}
  BY <1>p
<1>c. call # NoCall => /\ call.polls < CallPolls
                       /\ call' = [call EXCEPT !.polls = @ + 1]
  BY DEF Poll
<1>k. /\ call = NoCall => call' = NoCall
      /\ call # NoCall => /\ call' \in [addr: Addrs, stream: Streams, polls: 0..CallPolls]
                          /\ call'.addr = call.addr
                          /\ call'.polls = call.polls + 1
  BY <1>c DEF Poll
<1>1. PluginTypeOK'
  <2>1. reused' \in BOOLEAN
    BY <1>p, Zenon DEF PluginTypeOK
  <2>2. ptr' \in Addrs \cup {None}
    BY <1>p, <1>f DEF PluginTypeOK
  <2>3. polls' \in 0..MaxPolls
    BY DEF Poll, PluginTypeOK
  <2>4. DOMAIN retired' \subseteq Addrs
    BY <1>d, <1>g
  <2>5. call' \in {NoCall} \cup [addr: Addrs, stream: Streams, polls: 0..CallPolls]
    BY <1>k
  <2> HIDE DEF new, old, aged, age, gone
  <2> QED BY <1>u, <1>m, <1>d, <2>1, <2>2, <2>3, <2>4, <2>5 DEF PluginTypeOK
<1>2. MappingInv'
  <2>1. ptr' # None => mem'[ptr'] # 0 /\ ptr' \notin DOMAIN retired'
    <3>1. CASE new
      <4> HIDE DEF new
      <4> QED BY <3>1, <1>n, <1>f, <1>d
    <3>2. CASE ~new
      <4>1. ptr # None => ptr \notin aged /\ mem[ptr] # 0 /\ ptr \in Addrs
        BY <1>o, <3>2 DEF MappingInv, PluginTypeOK
      <4> QED BY <4>1, <1>o, <3>2, <1>l, <1>d
    <3> QED BY <3>1, <3>2
  <2>2. \A b \in DOMAIN retired' : mem'[b] # 0
    <3>1. \A b \in aged : mem[b] # 0 /\ b \in Addrs
      BY DEF MappingInv, PluginTypeOK
    <3> QED BY <3>1, <1>d, <1>l
  <2>3. ASSUME call' # NoCall
        PROVE  /\ call'.addr = io'.last
               /\ \/ call'.addr = ptr'
                  \/ call'.addr \in DOMAIN retired' /\ retired'[call'.addr] < call'.polls
    <3>1. call # NoCall /\ call'.addr = call.addr /\ call'.polls = call.polls + 1
          /\ call.polls \in Nat /\ call.polls < CallPolls /\ call.addr \in Addrs
      BY <2>3, <1>k, <1>c
    <3>2. call'.addr = io'.last
      BY <3>1, <1>u DEF MappingInv
    <3>3. CASE call.addr \in DOMAIN retired /\ retired[call.addr] < call.polls
      <4>1. call.addr \notin old
        BY <3>3, PluginAssumption DEF MappingInv
      <4>2. call.addr \in aged /\ age[call.addr] = retired[call.addr] + 1
        BY <3>3, <4>1, <1>g
      <4>3. age[call.addr] <= Grace /\ age[call.addr] < call.polls + 1
        BY <4>2, <3>1, <3>3 DEF PluginTypeOK
      <4> HIDE DEF old, aged, age
      <4>4. call.addr \in aged \ gone
        BY <4>2, <4>3, <1>g
      <4> HIDE DEF new, old, aged, age, gone
      <4> QED BY <4>3, <4>4, <1>d, <3>1, <3>2
    <3>4. CASE call.addr = ptr /\ ~new
      BY <3>4, <3>1, <3>2, <1>o
    <3>5. CASE call.addr = ptr /\ new
      <4>1. call.addr \in old /\ age[call.addr] = 0
        BY <3>5, <3>1, <1>g, PluginAssumption
      <4>2. call.addr \in aged \ gone
        BY <4>1
      <4> HIDE DEF new, old, aged, age, gone
      <4> QED BY <4>1, <4>2, <1>d, <3>1, <3>2
    <3> QED BY <3>1, <3>3, <3>4, <3>5 DEF MappingInv
  <2> HIDE DEF new, old, aged, age, gone
  <2> QED BY <2>1, <2>2, <2>3 DEF MappingInv
<1>3. HeldInv'
  <2> SUFFICES ASSUME ~reused' PROVE HeldInv'
    BY DEF HeldInv
  <2>1. ~reused /\ (new => io.last # a)
    BY <1>p
  <2>2. Claimed(io, ring)'
    BY <2>1, <1>u DEF HeldInv, Claimed
  <2>3. ASSUME io.held # 0 PROVE mem'[io.last] \in {0, io.held}
    <3>1. io.last \in Addrs /\ mem[io.last] \in {0, io.held}
      BY <2>1, <2>3 DEF HeldInv, IoType
    <3> HIDE DEF new, gone
    <3> QED BY <3>1, <2>1, <1>p
  <2> QED BY <2>1, <2>2, <2>3, <1>u DEF HeldInv
<1>4. CursorsInStep'
  BY <1>p, <1>u DEF CursorsInStep
<1>5. SeenInv' /\ StageIsOneCycle'
  BY <1>u DEF SeenInv, StageIsOneCycle
<1> QED BY <1>1, <1>2, <1>3, <1>4, <1>5

-----------------------------------------------------------------------------
(* The realtime thread *)

\* A callback works on the address it loads, and a handler that did not know that
\* address holds no slot.
LEMMA CallBeginStep ==
  ASSUME NEW s \in Streams PROVE PluginInv /\ CallBegin(s) => PluginInv'
<1> SUFFICES ASSUME PluginInv, CallBegin(s) PROVE PluginInv'
  OBVIOUS
<1> USE PluginFacts DEF PluginInv
<1>u. UNCHANGED <<dir, inst, ring, mem, ptr, retired, polls, reused>>
  BY DEF CallBegin
<1>y. cycle' \in [now: 1..MaxCycles, called: SUBSET Streams]
  BY DEF CallBegin, PluginTypeOK
<1>1. CASE ptr = None
  <2>1. UNCHANGED <<io, call>>
    BY <1>1 DEF CallBegin
  <2>2. PluginTypeOK'
    BY <2>1, <1>u, <1>y DEF PluginTypeOK
  <2>3. (MappingInv /\ HeldInv /\ CursorsInStep /\ SeenInv /\ StageIsOneCycle)'
    BY <2>1, <1>u DEF MappingInv, HeldInv, Claimed, CursorsInStep, SeenInv, StageIsOneCycle
  <2> QED BY <2>2, <2>3
<1>2. CASE ptr # None
  <2>1. /\ call' = [addr |-> ptr, stream |-> s, polls |-> 0]
        /\ io' = IF ptr = io.last THEN io ELSE Fresh(ptr)
    BY <1>2 DEF CallBegin, Handler
  <2>p. ptr \in Addrs
    BY <1>2 DEF PluginTypeOK
  <2>2. io' \in IoType /\ io'.last = ptr
    BY <2>1, <2>p DEF IoType, Fresh, Silence
  <2>3. call' \in [addr: Addrs, stream: Streams, polls: 0..CallPolls]
    BY <2>1, <2>p
  <2>4. PluginTypeOK'
    BY <2>2, <2>3, <1>u, <1>y DEF PluginTypeOK, IoType
  <2>5. MappingInv'
    <3>1. call'.addr = ptr' /\ call'.addr = io'.last
      BY <2>1, <2>2, <1>u
    <3> QED BY <3>1, <1>u DEF MappingInv
  <2>6. HeldInv'
    BY <2>1, <1>2, <1>u DEF HeldInv, Claimed, Fresh
  <2>7. CursorsInStep'
    BY <1>u DEF CursorsInStep
  <2>8. SeenInv' /\ StageIsOneCycle'
    BY <2>1, <1>u DEF SeenInv, StageIsOneCycle, Fresh
  <2> QED BY <2>4, <2>5, <2>6, <2>7, <2>8
<1> QED BY <1>1, <1>2

\* The next cycle finds the plugin as the last one left it.
LEMMA NextCycleStep == PluginInv /\ NextCycle => PluginInv'
<1> SUFFICES ASSUME PluginInv, NextCycle PROVE PluginInv'
  OBVIOUS
<1> USE PluginFacts DEF PluginInv
<1>1. cycle' \in [now: 1..MaxCycles, called: SUBSET Streams]
  BY DEF NextCycle, PluginTypeOK
<1>2. PluginTypeOK'
  BY <1>1 DEF NextCycle, PluginTypeOK
<1>3. (MappingInv /\ HeldInv /\ CursorsInStep /\ SeenInv /\ StageIsOneCycle)'
  BY DEF NextCycle, MappingInv, HeldInv, Claimed, CursorsInStep, SeenInv, StageIsOneCycle
<1> QED BY <1>2, <1>3
\* fillStageFromRing hands a slot back only if it holds one, and claims one only if
\* the daemon has filled it.
LEMMA ReadStep == PluginInv /\ Read => PluginInv'
<1> SUFFICES ASSUME PluginInv, Read PROVE PluginInv'
  OBVIOUS
<1> USE PluginFacts DEF PluginInv
<1>u. /\ UNCHANGED <<dir, inst, mem, ptr, retired, cycle, polls, reused>>
      /\ call' = NoCall /\ dir = "capture" /\ call # NoCall
  BY DEF Read
<1>m. Mine \in Rings /\ Mine = mem[io.last] /\ io.last \in Addrs /\ cycle.now \in 1..MaxCycles
  BY <1>u, SMTT(40) DEF Read, Mine, MappingInv, PluginTypeOK, Rings
<1>1. CASE io.cycle = cycle.now
  <2>1. UNCHANGED <<io, ring>>
    BY <1>1 DEF Read
  <2>2. PluginTypeOK'
    BY <2>1, <1>u DEF PluginTypeOK
  <2>3. (MappingInv /\ HeldInv /\ CursorsInStep /\ SeenInv /\ StageIsOneCycle)'
    BY <2>1, <1>u DEF MappingInv, HeldInv, Claimed, CursorsInStep, SeenInv, StageIsOneCycle
  <2> QED BY <2>2, <2>3
<1>2. CASE io.cycle # cycle.now
  <2>1. /\ ring' = FillRing
        /\ io' = [io EXCEPT !.cycle = cycle.now, !.held = FillHeld.held,
                            !.frame = FillHeld.frame]
    BY <1>2 DEF Read
  <2>2. /\ FillRing \in RingType
        /\ \A q \in Rings :
             /\ FillRing[q].head = ring[q].head
             /\ FillRing[q].tail = IF Spent /\ q = Mine THEN ring[q].tail + 1
                                   ELSE ring[q].tail
    BY <1>m DEF FillRing, RingType
  <2>h. io.held \in 0..MaxRings /\ io.frame \in 0..kFramesPerSlot /\ Mine \in 1..MaxRings
    BY <1>m DEF IoType, Rings
  <2>3. /\ FillHeld.held \in 0..MaxRings /\ FillHeld.frame \in 0..kFramesPerSlot
        /\ \/ FillHeld.held = io.held /\ io.held # 0 /\ ~Spent
           \/ FillHeld.held = Mine /\ FillRing[Mine].tail # FillRing[Mine].head
              /\ (io.held = 0 \/ Spent)
           \/ FillHeld.held = 0
    <3>1. CASE io.held # 0 /\ ~Spent
      BY <3>1, <2>h DEF FillHeld, Spent
    <3>2. CASE ~(io.held # 0 /\ ~Spent)
      <4> HIDE DEF FillRing
      <4> QED BY <3>2, <2>h DEF FillHeld
    <3> QED BY <3>1, <3>2
  <2>4. io' \in IoType /\ io'.held = FillHeld.held /\ io'.last = io.last
        /\ io'.staged = io.staged
    <3>1. io \in IoType /\ cycle.now \in 0..MaxCycles
      BY <1>m
    <3> HIDE DEF PluginInv
    <3> QED BY ONLY <3>1, <2>1, <2>3 DEF IoType
  <2>5. PluginTypeOK'
    BY <2>1, <2>2, <2>4, <1>u DEF PluginTypeOK, IoType, RingType
  <2>6. MappingInv'
    BY <1>u DEF MappingInv
  <2>7. HeldInv' /\ CursorsInStep'
    <3> SUFFICES ASSUME ~reused PROVE HeldInv' /\ CursorsInStep'
      BY <1>u DEF HeldInv, CursorsInStep
    <3>0. Claimed(io, ring) /\ (io.held # 0 => io.held = Mine)
      BY <1>m DEF HeldInv, Rings
    <3>1. \A q \in Rings : /\ ring[q].head \in Nat /\ ring[q].tail \in Nat
                           /\ ring[q].tail <= ring[q].head
                           /\ ring[q].head <= ring[q].tail + kSlots
      BY DEF CursorsInStep, RingType
    <3>2. Spent => ring[Mine].tail < ring[Mine].head
      BY <3>0, <1>u DEF Spent, Claimed
    <3>3. CursorsInStep'
      BY <3>1, <3>2, <2>1, <2>2, <1>u DEF CursorsInStep
    <3>4. FillHeld.held # 0 => /\ FillHeld.held = Mine
                               /\ FillRing[Mine].tail < FillRing[Mine].head
      BY <3>0, <3>1, <3>2, <2>2, <2>3, <1>m, <1>u DEF Claimed
    <3>5. HeldInv'
      BY <3>4, <2>1, <2>4, <1>m, <1>u, PluginAssumption DEF HeldInv, Claimed
    <3> QED BY <3>3, <3>5
  <2>8. SeenInv' /\ StageIsOneCycle'
    BY <2>4, <1>u DEF SeenInv, StageIsOneCycle
  <2> QED BY <2>5, <2>6, <2>7, <2>8
<1> QED BY <1>1, <1>2
\* flushStageToRing empties the stage and leaves the cycle alone; it publishes only
\* a slot it claimed, and it claims one only if the ring is not full.
LEMMA FlushKeeps ==
  ASSUME PluginTypeOK, NEW h \in IoType, NEW r \in RingType, Mine \in Rings
  PROVE  LET f == Flushed(h, r)
         IN  /\ f.io \in IoType /\ f.ring \in RingType
             /\ f.io.staged = 0 /\ f.io.cycle = h.cycle /\ f.io.seen = h.seen
             /\ f.io.stage = h.stage /\ f.io.last = h.last
             /\ f.io.held \in {0, h.held, Mine}
             /\ dir = "playback" /\ h.held \in {0, Mine} /\ Within(r) /\ Claimed(h, r)
                  => /\ f.io.held \in {0, Mine}
                     /\ Within(f.ring) /\ Claimed(f.io, f.ring)
<1> USE PluginFacts
<1> DEFINE held  == h.held # 0 \/ r[Mine].head - r[Mine].tail < kSlots
           frame == IF h.held # 0 THEN h.frame + 1 ELSE 1
           full  == held /\ frame >= kFramesPerSlot
           keep  == ~(~held \/ full)
           f     == Flushed(h, r)
<1>h. /\ h.held \in 0..MaxRings /\ h.frame \in 0..kFramesPerSlot /\ Mine \in 1..MaxRings
      /\ \A q \in Rings : r[q].head \in Nat /\ r[q].tail \in Nat
  BY DEF IoType, RingType, Rings
<1>1. CASE h.staged = 0
  BY <1>1 DEF Flushed
<1>2. CASE h.staged # 0
  <2>1. /\ f.io = [h EXCEPT !.staged = 0,
                            !.held = IF ~held \/ full THEN 0
                                     ELSE IF h.held # 0 THEN h.held ELSE Mine,
                            !.frame = IF ~held \/ full THEN 0 ELSE frame]
        /\ f.ring = IF full THEN [r EXCEPT ![Mine].head = @ + 1] ELSE r
    BY <1>2 DEF Flushed
  <2>f. keep => frame \in 0..kFramesPerSlot
    BY <1>h
  <2>2. /\ f.ring \in RingType
        /\ \A q \in Rings :
             /\ f.ring[q].tail = r[q].tail
             /\ f.ring[q].head = IF full /\ q = Mine THEN r[q].head + 1 ELSE r[q].head
    <3> HIDE DEF full, f
    <3> QED BY <2>1 DEF RingType
  <2>3. /\ f.io \in IoType /\ f.io.staged = 0 /\ f.io.cycle = h.cycle
        /\ f.io.seen = h.seen /\ f.io.stage = h.stage /\ f.io.last = h.last
        /\ f.io.held = IF keep THEN (IF h.held # 0 THEN h.held ELSE Mine) ELSE 0
    <3> DEFINE held2  == IF keep THEN (IF h.held # 0 THEN h.held ELSE Mine) ELSE 0
               frame2 == IF keep THEN frame ELSE 0
    <3>1. held2 \in 0..MaxRings /\ frame2 \in 0..kFramesPerSlot
      BY <2>f, <1>h
    <3>2. f.io = [h EXCEPT !.staged = 0, !.held = held2, !.frame = frame2]
      BY <2>1
    <3> HIDE DEF f, held2, frame2
    <3>3. /\ f.io \in IoType /\ f.io.staged = 0 /\ f.io.cycle = h.cycle
          /\ f.io.seen = h.seen /\ f.io.stage = h.stage /\ f.io.last = h.last
          /\ f.io.held = held2
      BY ONLY <3>1, <3>2, h \in IoType DEF IoType
    <3> QED BY <3>3 DEF held2
  <2>4. ASSUME dir = "playback", h.held \in {0, Mine}, Within(r), Claimed(h, r)
        PROVE  f.io.held \in {0, Mine} /\ Within(f.ring) /\ Claimed(f.io, f.ring)
    <3>1. f.io.held \in {0, Mine}
      <4> HIDE DEF f
      <4> QED BY <2>3, <2>4
    <3>2. held => r[Mine].head < r[Mine].tail + kSlots
      BY <2>4, <1>h DEF Claimed
    <3>3. Within(f.ring)
      <4> HIDE DEF held, frame, f
      <4> QED BY <3>2, <2>2, <2>4, <1>h DEF Within
    <3>4. f.io.held # 0 => ~full /\ held
      <4> HIDE DEF f
      <4> QED BY <2>3
    <3>5. Claimed(f.io, f.ring)
      <4> HIDE DEF held, frame, full, f
      <4> QED BY <3>1, <3>2, <3>4, <2>2, <2>4 DEF Claimed
    <3> QED BY <3>1, <3>3, <3>5
  <2>5. f.io.held \in {0, h.held, Mine}
    <3> HIDE DEF f
    <3> QED BY <2>3
  <2> HIDE DEF f
  <2>6. /\ f.io \in IoType /\ f.ring \in RingType
        /\ f.io.staged = 0 /\ f.io.cycle = h.cycle /\ f.io.seen = h.seen
        /\ f.io.stage = h.stage /\ f.io.last = h.last
    BY <2>2, <2>3
  <2> QED BY <2>4, <2>5, <2>6 DEF f
<1> QED BY <1>1, <1>2

\* A write publishes at most what was staged for one cycle, into slots it claimed.
LEMMA WriteStep == PluginInv /\ Write => PluginInv'
<1> SUFFICES ASSUME PluginInv, Write PROVE PluginInv'
  OBVIOUS
<1> USE PluginFacts DEF PluginInv
<1> DEFINE first == Flushed(io, ring)
           begun == IF io.cycle = cycle.now THEN [io |-> io, ring |-> ring]
                    ELSE [io |-> Opened(first.io), ring |-> first.ring]
           given == [begun.io EXCEPT !.stage[call.stream] = cycle.now, !.seen = @ + 1]
           last  == Flushed(given, begun.ring)
           N     == Cardinality(Streams)
           Whole(h) == \A s \in Streams : h.stage[s] \in {0, h.cycle}
           Good(h, r) == /\ h.held \in {0, Mine} /\ Within(r) /\ Claimed(h, r)
<1>u. /\ UNCHANGED <<dir, inst, mem, ptr, retired, cycle, polls, reused>>
      /\ call' = NoCall /\ dir = "playback" /\ call # NoCall
  BY DEF Write
<1>m. /\ Mine \in Rings /\ Mine = mem[io.last] /\ io.last \in Addrs
      /\ cycle.now \in 1..MaxCycles /\ call.stream \in Streams
  <2>1. call.addr \in Addrs /\ call.stream \in Streams /\ io.last = call.addr
    BY <1>u DEF MappingInv
  <2>2. mem[call.addr] \in 0..MaxRings /\ mem[call.addr] # 0
    BY <2>1 DEF Write, Mine, PluginTypeOK
  <2>3. cycle.now \in 1..MaxCycles
    BY DEF PluginTypeOK
  <2> QED BY <2>1, <2>2, <2>3 DEF Mine, Rings
<1>c. N \in Nat \ {0}
  BY <1>m, PluginAssumption, FS_EmptySet
<1>g. ~reused => Good(io, ring)
  BY <1>m DEF HeldInv, CursorsInStep, Within, Rings
<1>b. /\ begun.io \in IoType /\ begun.ring \in RingType /\ begun.io.last = io.last
      /\ begun.io.cycle = cycle.now /\ begun.io.seen < N
      /\ begun.io.staged # 0 => Whole(begun.io)
      /\ ~reused => Good(begun.io, begun.ring)
  <2>1. CASE io.cycle = cycle.now
    <3>1. begun.io = io /\ begun.ring = ring
      BY <2>1
    <3> HIDE DEF begun
    <3> QED BY <3>1, <2>1, <1>u, <1>m, <1>g DEF SeenInv, StageIsOneCycle
  <2>2. CASE io.cycle # cycle.now
    <3>1. /\ begun.ring = first.ring
          /\ begun.io = [first.io EXCEPT !.cycle = cycle.now, !.staged = 1,
                                         !.seen = 0, !.stage = Silence]
      BY <2>2 DEF Opened
    <3>2. /\ first.io \in IoType /\ first.ring \in RingType /\ first.io.last = io.last
          /\ ~reused => Good(first.io, first.ring)
      BY FlushKeeps, <1>m, <1>g, <1>u
    <3> HIDE DEF begun, first
    <3>3. /\ begun.io \in IoType /\ begun.io.last = io.last /\ begun.io.held = first.io.held
          /\ begun.io.cycle = cycle.now /\ begun.io.seen = 0 /\ begun.io.stage = Silence
      <4>1. Silence \in [Streams -> 0..MaxCycles] /\ cycle.now \in 0..MaxCycles /\ 0 \in 0..N
        BY <1>m, <1>c DEF Silence
      <4> QED BY ONLY <4>1, <3>1, <3>2 DEF IoType
    <3>4. Whole(begun.io)
      BY <3>3 DEF Silence
    <3>5. ~reused => Good(begun.io, begun.ring)
      BY <3>1, <3>2, <3>3 DEF Claimed
    <3> QED BY <3>1, <3>2, <3>3, <3>4, <3>5, <1>c
  <2> QED BY <2>1, <2>2
<1>i. /\ given \in IoType /\ given.last = io.last /\ given.cycle = cycle.now
      /\ given.seen = begun.io.seen + 1 /\ given.staged = begun.io.staged
      /\ given.held = begun.io.held
      /\ given.stage = [begun.io.stage EXCEPT ![call.stream] = cycle.now]
  <2> HIDE DEF begun
  <2>1. begun.io.stage \in [Streams -> 0..MaxCycles] /\ begun.io.seen \in Nat
    BY <1>b DEF IoType
  <2>2. [begun.io.stage EXCEPT ![call.stream] = cycle.now] \in [Streams -> 0..MaxCycles]
    BY <2>1, <1>m
  <2>3. begun.io.seen + 1 \in 0..N
    BY <2>1, <1>b, <1>c
  <2> QED BY <2>2, <2>3, <1>b, <1>m DEF IoType
<1>w. given.staged # 0 => Whole(given)
  <2> HIDE DEF begun, given
  <2> QED BY <1>i, <1>b, <1>m DEF IoType
<1>k. ~reused => Good(given, begun.ring)
  <2> HIDE DEF begun, given
  <2> QED BY <1>i, <1>b DEF Claimed
<1>n. /\ io' \in IoType /\ ring' \in RingType /\ io'.last = io.last
      /\ io'.cycle # 0 => io'.seen < N
      /\ io'.staged # 0 => Whole(io')
      /\ ~reused => Good(io', ring')
  <2>1. CASE given.seen >= N
    <3>1. io' = [last.io EXCEPT !.cycle = 0] /\ ring' = last.ring
      BY <2>1 DEF Write
    <3>2. /\ last.io \in IoType /\ last.ring \in RingType /\ last.io.last = io.last
          /\ last.io.staged = 0
          /\ ~reused => Good(last.io, last.ring)
      <4> HIDE DEF begun, given
      <4> QED BY FlushKeeps, <1>i, <1>b, <1>k, <1>m, <1>u
    <3> HIDE DEF last
    <3>3. /\ io' \in IoType /\ io'.last = io.last /\ io'.cycle = 0 /\ io'.staged = 0
          /\ io'.held = last.io.held
      BY <3>1, <3>2 DEF IoType
    <3> QED BY <3>1, <3>2, <3>3 DEF Claimed
  <2>2. CASE ~(given.seen >= N)
    <3>1. io' = given /\ ring' = begun.ring
      BY <2>2 DEF Write
    <3> HIDE DEF given, begun
    <3>2. given.seen \in Nat /\ given.seen < N
      BY <2>2, <1>i, <1>c DEF IoType
    <3> QED BY <3>1, <3>2, <1>i, <1>b, <1>w, <1>k
  <2> QED BY <2>1, <2>2
<1> HIDE DEF first, begun, given, last
<1>1. PluginTypeOK'
  BY <1>n, <1>u DEF PluginTypeOK, IoType, RingType
<1>2. MappingInv'
  BY <1>u DEF MappingInv
<1>3. HeldInv'
  BY <1>n, <1>m, <1>u, PluginAssumption DEF HeldInv, Claimed
<1>4. CursorsInStep'
  BY <1>n, <1>u DEF CursorsInStep, Within
<1>5. SeenInv' /\ StageIsOneCycle'
  BY <1>n, <1>u DEF SeenInv, StageIsOneCycle
<1> QED BY <1>1, <1>2, <1>3, <1>4, <1>5
-----------------------------------------------------------------------------
\* Every step of the daemon, of the background thread and of the realtime thread
\* keeps the invariant.
LEMMA PluginStep == PluginInv /\ [PluginNext]_pluginVars => PluginInv'
<1> SUFFICES ASSUME PluginInv, [PluginNext]_pluginVars PROVE PluginInv'
  OBVIOUS
<1>1. CASE UNCHANGED pluginVars
  <2>1. PluginTypeOK'
    BY <1>1 DEF pluginVars, PluginInv, PluginTypeOK
  <2>2. (MappingInv /\ HeldInv /\ CursorsInStep /\ SeenInv /\ StageIsOneCycle)'
    BY <1>1 DEF pluginVars, PluginInv, MappingInv, HeldInv, Claimed, CursorsInStep,
                SeenInv, StageIsOneCycle
  <2> QED BY <2>1, <2>2 DEF PluginInv
<1> QED BY <1>1, DaemonStartStep, DaemonStep, PollStep, CallBeginStep, ReadStep, WriteStep,
           NextCycleStep DEF PluginNext

\* The plugin keeps the invariant, whatever the daemon, the background thread and
\* CoreAudio do and however their steps interleave.
THEOREM PluginInvariant == PluginSpec => []PluginInv
BY PluginInitially, PluginStep, PTL DEF PluginSpec

\* Every variable of the plugin keeps its type: no held frame runs past its slot,
\* no retired mapping outlives its grace period, no cycle has more calls than streams.
THEOREM PluginTypeCorrect == PluginSpec => []PluginTypeOK
BY PluginInvariant, PTL DEF PluginInv

\* Where ShmMapper unmaps a retired ring a grace period after it was replaced, and a
\* callback lasts no longer than that, no callback touches unmapped memory.
THEOREM PluginNeverUnmapped == PluginSpec => []NeverUnmapped
<1>1. PluginInv => NeverUnmapped
  BY PluginFacts, PluginAssumption DEF PluginInv, MappingInv, NeverUnmapped
<1> QED BY <1>1, PluginInvariant, PTL

\* Across any number of daemon restarts, UFIOHandler hands back and publishes only
\* slots it claimed, unless a new ring landed where its last one was.
THEOREM PluginCursorsInStep == PluginSpec => []CursorsInStep
BY PluginInvariant, PTL DEF PluginInv

\* OnWriteMixedOutput and flushStageToRing never publish a stage with samples of two
\* cycles, whichever streams are idle and wherever the ring is replaced.
THEOREM PluginStageIsOneCycle == PluginSpec => []StageIsOneCycle
BY PluginInvariant, PTL DEF PluginInv

\* The rings and the seqlocks in them together: each keeps its types whatever the
\* other does.
THEOREM RealtimeTypeCorrect == RealtimeSpec => []RealtimeTypeOK
<1>1. RealtimeInit => PluginInv /\ SeqlockInv
  BY PluginInitially, SeqlockInitially DEF RealtimeInit
<1>2. PluginInv /\ SeqlockInv /\ [RealtimeNext]_realtimeVars => (PluginInv /\ SeqlockInv)'
  <2> SUFFICES ASSUME PluginInv, SeqlockInv, [RealtimeNext]_realtimeVars
               PROVE  PluginInv' /\ SeqlockInv'
    OBVIOUS
  <2>1. [PluginNext]_pluginVars /\ [SeqlockNext]_seqlockVars
    BY DEF RealtimeNext, realtimeVars
  <2> QED BY <2>1, PluginStep, SeqlockStep
<1>3. PluginInv /\ SeqlockInv => RealtimeTypeOK
  BY DEF PluginInv, SeqlockInv, RealtimeTypeOK
<1> QED BY <1>1, <1>2, <1>3, PTL DEF RealtimeSpec
=============================================================================
