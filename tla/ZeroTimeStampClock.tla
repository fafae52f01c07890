------------------------- MODULE ZeroTimeStampClock -------------------------
(***************************************************************************)
(* The zero-timestamp clock of the CoreAudio plugin                        *)
(* (platform/shared/uf_zero_timestamp.hpp), as the HAL's IO thread drives  *)
(* it from UFDevice::GetZeroTimeStamp (platform/coreaudio/                 *)
(* UFAudioDriver.cpp).                                                     *)
(*                                                                         *)
(* The HAL calls one method; every call first follows the nominal rate     *)
(* (setTicksPerFrame) and then asks the clock for the next stamp.  The     *)
(* device anchor read from shared memory is an input the clock may not     *)
(* trust, so here it is arbitrary: any frame count, any host time, absent  *)
(* or present, in any order.  Frames and host ticks are integers; a        *)
(* negative DevSamples element stands for a negative or non-finite double. *)
(***************************************************************************)
EXTENDS Integers

CONSTANTS
  Period,       \* period_: frames per zero-timestamp period
  StaleMargin,  \* staleMarginTicks_
  Slopes,       \* values ticksPerPeriod_ takes as the nominal rate changes
  Times,        \* values of mach_absolute_time()
  DevSamples,   \* frame counts the ring may hold
  DevHosts,     \* host times the ring may hold
  MaxSeed       \* bound on the discontinuities explored

ASSUME PeriodAssumption == Period \in Nat \ {0}
ASSUME MarginAssumption == StaleMargin \in Nat \ {0}
ASSUME SlopesAssumption == Slopes \subseteq Nat \ {0} /\ Slopes # {}
ASSUME TimesAssumption  == Times \subseteq Nat \ {0}
ASSUME InputsAssumption == DevSamples \subseteq Int /\ DevHosts \subseteq Nat
ASSUME MaxSeedAssumption == MaxSeed \in Nat \ {0}

VARIABLES
  started,         \* started_
  locked,          \* locked_: following the device clock
  sample,          \* sample_: frame index handed to the HAL
  host,            \* host_: host time handed to the HAL
  seed,            \* seed_
  offset,          \* offset_: device frame count -> our timeline
  devSampleSeen,   \* devSampleSeen_
  ticksPerPeriod,  \* ticksPerPeriod_
  now              \* mach_absolute_time() at the latest call (0: none yet)

clockVars == <<started, locked, sample, host, seed, offset, devSampleSeen,
          ticksPerPeriod, now>>

ClockInit ==
  /\ started = FALSE
  /\ locked = FALSE
  /\ sample = 0
  /\ host = 0
  /\ seed = 1
  /\ offset = 0
  /\ devSampleSeen = 0
  /\ ticksPerPeriod \in Slopes
  /\ now = 0

-----------------------------------------------------------------------------
(* The pieces of next(), each for a call at time t whose ring read gave    *)
(* frame count d at host time h, with the free-run slope tpp in force.     *)

\* staleTicks(): one anchor interval plus the fixed margin.
StaleTicks(tpp) == StaleMargin + tpp

\* Mutation: a negative (or non-finite) frame count is believed.
Plausible_AnyCount(tpp, t, d, h) ==
  h # 0 /\ (IF h > t THEN h - t <= tpp ELSE t - h <= StaleTicks(tpp))

\* plausible(): an anchor the clock is willing to believe.
Plausible(tpp, t, d, h) ==
  /\ h # 0
  /\ d >= 0
  /\ IF h > t THEN h - t <= tpp ELSE t - h <= StaleTicks(tpp)

\* The frame count rounded down to a period boundary.
Quantise(d) == (d \div Period) * Period

\* The host time the call starts from: the first call starts at t.
HostAt(t) == IF started THEN host ELSE t

\* The device clock is gained, or its timeline restarted: graft it.
Grafts(s) == ~locked \/ s < devSampleSeen

\* Device frame count -> our timeline, after a possible graft.
OffsetFor(s) == IF Grafts(s) THEN sample + Period - s ELSE offset

\* Mutation: only the frame count has to be newer.
Adopts_OlderHost(t, s, h) == s + OffsetFor(s) > sample

\* Only a wholly newer anchor is adopted.
Adopts(t, s, h) == s + OffsetFor(s) > sample /\ h >= HostAt(t)

\* Mutation: a locked clock is never given up.
Settle_NeverLoses(tpp, t, smp, hst, lk, sd) ==
  LET periods == IF t > hst /\ ~lk THEN (t - hst) \div tpp ELSE 0
  IN /\ locked' = lk /\ seed' = sd
     /\ sample' = smp + periods * Period
     /\ host'   = hst + periods * tpp

(***************************************************************************)
(* The tail of next(), given the anchor (smp, hst), lock lk and seed sd    *)
(* that the device part left: an anchor further behind t than the window   *)
(* loses the lock, and an unlocked clock free-runs by whole periods.       *)
(***************************************************************************)
Settle(tpp, t, smp, hst, lk, sd) ==
  LET lag     == t - hst
      loses   == lk /\ lag > StaleTicks(tpp)
      periods == IF lag > 0 /\ (~lk \/ loses) THEN lag \div tpp ELSE 0
  IN /\ locked' = (lk /\ ~loses)
     /\ seed'   = (IF loses THEN sd + 1 ELSE sd)
     /\ sample' = smp + periods * Period
     /\ host'   = hst + periods * tpp

\* No usable anchor: ring unmapped, rate mismatch, torn read or implausible.
WithoutDevice(tpp, t) ==
  /\ Settle(tpp, t, sample, HostAt(t), locked, seed)
  /\ UNCHANGED <<offset, devSampleSeen>>

\* A plausible anchor whose quantised frame count is s.
WithDevice(tpp, t, s, h) ==
  LET adopts == Adopts(t, s, h)
  IN /\ Settle(tpp, t,
               IF adopts THEN s + OffsetFor(s) ELSE sample,
               IF adopts THEN h ELSE HostAt(t),
               TRUE,
               IF Grafts(s) THEN seed + 1 ELSE seed)
     /\ offset' = OffsetFor(s)
     /\ devSampleSeen' = s

\* UFDevice::GetZeroTimeStamp: setTicksPerFrame, then next().
GetZeroTimeStamp(tpp, t, devValid, d, h) ==
  /\ t >= now
  /\ now' = t
  /\ started' = TRUE
  /\ ticksPerPeriod' = tpp
  /\ IF devValid /\ Plausible(tpp, t, d, h)
       THEN WithDevice(tpp, t, Quantise(d), h)
       ELSE WithoutDevice(tpp, t)
  /\ seed' <= MaxSeed

ClockNext ==
  \E tpp \in Slopes, t \in Times, devValid \in BOOLEAN,
     d \in DevSamples, h \in DevHosts :
       GetZeroTimeStamp(tpp, t, devValid, d, h)

ClockSpec == ClockInit /\ [][ClockNext]_clockVars

-----------------------------------------------------------------------------
ClockTypeOK ==
  /\ started \in BOOLEAN
  /\ locked \in BOOLEAN
  /\ sample \in Nat
  /\ host \in Nat
  /\ seed \in 1..MaxSeed
  /\ offset \in Int
  /\ devSampleSeen \in Nat
  /\ ticksPerPeriod \in Slopes
  /\ now \in Times \cup {0}

\* Guarantee 1 of uf_zero_timestamp.hpp: every sample time handed to the HAL
\* is a period boundary, whatever frame counts the daemon published and
\* however often the device timeline was grafted onto ours.
OnGrid == sample % Period = 0

\* Guarantee 3: the host time handed back is never more than staleTicks behind
\* the time of the call -- what keeps the HAL from running IO cycles back to
\* back -- and never further ahead than the longest period, so the HAL is not
\* put to sleep either.
HostNearNow ==
  started => /\ now - host <= StaleTicks(ticksPerPeriod)
             /\ \E tpp \in Slopes : host - now <= tpp

\* Guarantees 2 and 3: neither half of the stamp ever moves backward, and a
\* host time never advances against a frame count that stands still (the pair
\* is adopted or extrapolated whole).
MonotonePair ==
  [][/\ sample' >= sample
     /\ host' >= host
     /\ started /\ host' > host => sample' > sample]_clockVars

\* Guarantee 4: the seed moves by one exactly when the device clock is gained,
\* lost, or restarts from an earlier frame, so one call never gains and loses
\* the clock and a steady clock never bumps it.
SeedOnlyOnDiscontinuity ==
  [][/\ seed' \in {seed, seed + 1}
     /\ seed' # seed <=> \/ locked' # locked
                         \/ locked /\ devSampleSeen' < devSampleSeen]_clockVars

\* Guarantees 1 and 3 together: each stamp handed to the HAL is good by itself.
StampValid == OnGrid /\ HostNearNow

\* Guarantees 2 and 4 together: each stamp goes on from the one before, and where
\* the device's timeline breaks the seed says so.
TimelineHolds == MonotonePair /\ SeedOnlyOnDiscontinuity
=============================================================================
