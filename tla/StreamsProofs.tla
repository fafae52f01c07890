--------------------------- MODULE StreamsProofs ----------------------------
(***************************************************************************)
(* The streams proved for every size of their rings and every bound: the   *)
(* four guarantees of uf_zero_timestamp.hpp; the capture drain's cursors   *)
(* and restarts, and that a drain in step with the controller stays so;    *)
(* the transmit cursors, and that a pump that leads the controller goes on *)
(* leading it.  The clock comes first, then facts about the operators the  *)
(* rings are built from, then the two rings.                               *)
(***************************************************************************)
EXTENDS MCStreams, WellFoundedInduction, TLAPS

\* The frame grid in a form the provers handle better than a remainder.
Multiple(x) == \E k \in Int : x = k * Period

\* What a step needs to keep the sample on the grid: the graft offset is on it
\* too, because the sample is only ever the offset plus a quantised count.
GridInv == Multiple(sample) /\ Multiple(offset)

\* Before the first call no host time has been handed out.
FreshInv == ~started => host = 0

\* The inductive invariant of the clock.
ClockInv == ClockTypeOK /\ GridInv /\ HostNearNow /\ FreshInv

-----------------------------------------------------------------------------
\* A multiple of the period leaves no remainder.
LEMMA MultipleNoRemainder ==
  ASSUME NEW x \in Int, Multiple(x)
  PROVE  x % Period = 0
<1>1. PICK k \in Int : x = k * Period
  BY DEF Multiple
<1> DEFINE q == x \div Period
           r == x % Period
<1>2. q \in Int /\ r \in 0..(Period - 1) /\ x = Period * q + r
  BY PeriodAssumption
<1> HIDE DEF q, r
<1>3. PICK m \in Int : m = k - q
  BY <1>2
<1>4. r = m * Period
  BY <1>1, <1>2, <1>3, PeriodAssumption
<1>5. CASE m >= 1
  <2>1. m * Period >= Period
    BY <1>5, PeriodAssumption
  <2> QED BY <2>1, <1>2, <1>4, PeriodAssumption
<1>6. CASE m <= -1
  <2>1. m * Period <= -Period
    BY <1>6, PeriodAssumption
  <2> QED BY <2>1, <1>2, <1>4, PeriodAssumption
<1>7. CASE m = 0
  <2>1. r = 0
    BY <1>7, <1>4, PeriodAssumption
  <2> QED BY <2>1 DEF r
<1> QED BY <1>5, <1>6, <1>7

\* Sums and differences of multiples are multiples.
LEMMA MultipleSum ==
  ASSUME NEW x \in Int, NEW y \in Int, Multiple(x), Multiple(y)
  PROVE  Multiple(x + y) /\ Multiple(x - y)
<1>1. PICK j \in Int : x = j * Period
  BY DEF Multiple
<1>2. PICK k \in Int : y = k * Period
  BY DEF Multiple
<1>3. x + y = (j + k) * Period /\ x - y = (j - k) * Period
  BY <1>1, <1>2, PeriodAssumption
<1> QED BY <1>3 DEF Multiple

\* A whole number of periods is a multiple, and so is the period itself.
LEMMA MultipleScale ==
  ASSUME NEW n \in Int
  PROVE  Multiple(n * Period) /\ Multiple(Period)
<1>1. Multiple(n * Period)
  BY DEF Multiple
<1>2. \E k \in Int : Period = k * Period
  <2> WITNESS 1 \in Int
  <2> QED BY PeriodAssumption
<1>3. Multiple(Period)
  BY <1>2 DEF Multiple
<1> QED BY <1>1, <1>3

\* Quantise returns a natural on the grid.
LEMMA QuantiseOnGrid ==
  ASSUME NEW d \in Nat
  PROVE  Quantise(d) \in Nat /\ Multiple(Quantise(d))
<1>1. d \div Period \in Nat
  BY PeriodAssumption
<1>2. (d \div Period) * Period \in Nat
  BY <1>1, PeriodAssumption
<1> QED BY <1>1, <1>2, MultipleScale DEF Quantise

\* Free-running by whole periods never overtakes the call and leaves less than
\* one period of lag.
LEMMA FreeRunLag ==
  ASSUME NEW lag \in Nat, NEW tpp \in Nat \ {0}
  PROVE  /\ lag \div tpp \in Nat
         /\ (lag \div tpp) * tpp \in Nat
         /\ (lag \div tpp) * tpp <= lag
         /\ lag - (lag \div tpp) * tpp < tpp
<1> DEFINE q == lag \div tpp
           r == lag % tpp
<1>1. q \in Nat /\ r \in 0..(tpp - 1) /\ lag = tpp * q + r
  OBVIOUS
<1>2. q * tpp \in Nat /\ q * tpp = tpp * q
  BY <1>1
<1> HIDE DEF q, r
<1>3. q * tpp <= lag /\ lag - q * tpp < tpp
  BY <1>1, <1>2
<1> QED BY <1>1, <1>2, <1>3 DEF q

-----------------------------------------------------------------------------
\* The tail of next(): whatever anchor the device part left, the stamp handed
\* back is on the grid, not behind that anchor and not stale.
LEMMA SettleStep ==
  ASSUME NEW tpp \in Slopes, NEW t \in Times,
         NEW smp \in Nat, NEW hst \in Nat, NEW lk \in BOOLEAN, NEW sd \in Nat,
         Multiple(smp), Settle(tpp, t, smp, hst, lk, sd)
  PROVE  /\ sample' \in Nat /\ sample' >= smp /\ Multiple(sample')
         /\ host' \in Nat /\ host' >= hst /\ (host' = hst \/ host' <= t)
         /\ t - host' <= StaleTicks(tpp)
         /\ host' > hst => sample' > smp
         /\ locked' = (lk /\ ~(t - hst > StaleTicks(tpp)))
         /\ seed' = IF lk /\ t - hst > StaleTicks(tpp) THEN sd + 1 ELSE sd
<1> DEFINE lag     == t - hst
           loses   == lk /\ lag > StaleTicks(tpp)
           periods == IF lag > 0 /\ (~lk \/ loses) THEN lag \div tpp ELSE 0
<1>1. tpp \in Nat \ {0} /\ t \in Nat /\ StaleTicks(tpp) \in Nat /\ StaleTicks(tpp) > tpp
  BY SlopesAssumption, TimesAssumption, MarginAssumption DEF StaleTicks
<1>2. /\ locked' = (lk /\ ~loses)
      /\ seed' = IF loses THEN sd + 1 ELSE sd
      /\ sample' = smp + periods * Period
      /\ host' = hst + periods * tpp
  BY DEF Settle
<1>3. /\ periods \in Nat /\ periods * tpp \in Nat
      /\ periods = 0 \/ periods * tpp <= lag
      /\ lag - periods * tpp <= StaleTicks(tpp)
  <2>1. CASE lag > 0 /\ (~lk \/ loses)
    <3>1. lag \in Nat
      BY <2>1, <1>1
    <3> HIDE DEF lag, loses
    <3>2. periods = lag \div tpp
      BY <2>1
    <3> QED BY <3>1, <3>2, <1>1, FreeRunLag
  <2>2. CASE ~(lag > 0 /\ (~lk \/ loses))
    BY <2>2, <1>1
  <2> QED BY <2>1, <2>2
<1> HIDE DEF periods
<1>4. periods * Period \in Nat
  BY <1>3, PeriodAssumption
<1>5. periods > 0 => periods * Period > 0
  BY <1>3, PeriodAssumption
<1>6. periods = 0 => periods * tpp = 0
  BY <1>1
<1>7. Multiple(sample')
  BY <1>2, <1>3, <1>4, MultipleScale, MultipleSum
<1>8. sample' \in Nat /\ sample' >= smp
  BY <1>2, <1>4
<1>9. host' \in Nat /\ host' >= hst /\ (host' = hst \/ host' <= t) /\ t - host' <= StaleTicks(tpp)
  BY <1>1, <1>2, <1>3, <1>6
<1>10. host' > hst => sample' > smp
  BY <1>1, <1>2, <1>3, <1>4, <1>5, <1>6
<1> QED BY <1>2, <1>7, <1>8, <1>9, <1>10

-----------------------------------------------------------------------------
\* What one call does to the inductive invariant and to the stamp.
StampStep ==
  /\ sample' >= sample
  /\ host' >= host
  /\ started /\ host' > host => sample' > sample
  /\ seed' \in {seed, seed + 1}
  /\ seed' # seed <=> \/ locked' # locked
                      \/ locked /\ devSampleSeen' < devSampleSeen

\* Keeping the host time held so far, or any time not past the call, puts the
\* stamp no further ahead of the call than one of the slopes.
LEMMA HostAhead ==
  ASSUME ClockInv, NEW t \in Times, t >= now, NEW tpp \in Slopes,
         NEW x \in Nat, x = HostAt(t) \/ x <= t
  PROVE  \E e \in Slopes : x - t <= e
<1>1. t \in Nat /\ now \in Nat /\ tpp \in Nat /\ host \in Nat
  BY TimesAssumption, SlopesAssumption DEF ClockInv, ClockTypeOK
<1>2. CASE x <= t
  BY <1>1, <1>2
<1>3. CASE x = HostAt(t) /\ ~started
  BY <1>1, <1>3 DEF HostAt
<1>4. CASE x = HostAt(t) /\ started
  <2>1. PICK e \in Slopes : host - now <= e
    BY <1>4 DEF ClockInv, HostNearNow
  <2>2. e \in Nat
    BY SlopesAssumption
  <2> QED BY <2>1, <2>2, <1>1, <1>4 DEF HostAt
<1> QED BY <1>2, <1>3, <1>4

\* A call with no usable anchor.
LEMMA WithoutDeviceStep ==
  ASSUME ClockInv, NEW tpp \in Slopes, NEW t \in Times,
         t >= now, now' = t, started' = TRUE, ticksPerPeriod' = tpp,
         WithoutDevice(tpp, t), seed' <= MaxSeed
  PROVE  ClockInv' /\ StampStep
<1> USE DEF ClockInv, GridInv, ClockTypeOK
<1>1. tpp \in Nat \ {0} /\ t \in Nat /\ StaleTicks(tpp) \in Nat
  BY SlopesAssumption, TimesAssumption, MarginAssumption DEF StaleTicks
<1>2. HostAt(t) \in Nat /\ HostAt(t) >= host /\ (started => HostAt(t) = host)
  BY <1>1 DEF HostAt, FreshInv
<1>3. Settle(tpp, t, sample, HostAt(t), locked, seed)
      /\ offset' = offset /\ devSampleSeen' = devSampleSeen
  BY DEF WithoutDevice
<1>4. seed \in Nat
  BY MaxSeedAssumption
<1>5. /\ sample' \in Nat /\ sample' >= sample /\ Multiple(sample')
      /\ host' \in Nat /\ host' >= HostAt(t) /\ (host' = HostAt(t) \/ host' <= t)
      /\ t - host' <= StaleTicks(tpp)
      /\ host' > HostAt(t) => sample' > sample
      /\ locked' = (locked /\ ~(t - HostAt(t) > StaleTicks(tpp)))
      /\ seed' = IF locked /\ t - HostAt(t) > StaleTicks(tpp) THEN seed + 1 ELSE seed
  BY <1>2, <1>3, <1>4, SettleStep
<1>6. ClockTypeOK' /\ GridInv'
  BY <1>1, <1>3, <1>4, <1>5, MaxSeedAssumption
<1>7. HostNearNow' /\ FreshInv'
  BY <1>1, <1>5, HostAhead DEF HostNearNow, FreshInv
<1>8. StampStep
  BY <1>1, <1>2, <1>3, <1>4, <1>5 DEF StampStep
<1> QED BY <1>6, <1>7, <1>8

\* A call that believes the device's anchor.
LEMMA WithDeviceStep ==
  ASSUME ClockInv, NEW tpp \in Slopes, NEW t \in Times,
         NEW d \in DevSamples, NEW h \in DevHosts,
         t >= now, now' = t, started' = TRUE, ticksPerPeriod' = tpp,
         Plausible(tpp, t, d, h), WithDevice(tpp, t, Quantise(d), h),
         seed' <= MaxSeed
  PROVE  ClockInv' /\ StampStep
<1> USE DEF ClockInv, GridInv, ClockTypeOK
<1> DEFINE s == Quantise(d)
           adopts == Adopts(t, s, h)
           smp == IF adopts THEN s + OffsetFor(s) ELSE sample
           hst == IF adopts THEN h ELSE HostAt(t)
           sd  == IF Grafts(s) THEN seed + 1 ELSE seed
<1>1. tpp \in Nat \ {0} /\ t \in Nat /\ StaleTicks(tpp) \in Nat
  BY SlopesAssumption, TimesAssumption, MarginAssumption DEF StaleTicks
<1>2. s \in Nat /\ Multiple(s) /\ h \in Nat
  BY QuantiseOnGrid, InputsAssumption DEF Plausible
<1>3. HostAt(t) \in Nat /\ HostAt(t) >= host /\ (started => HostAt(t) = host)
  BY <1>1 DEF HostAt, FreshInv
<1>4. Settle(tpp, t, smp, hst, TRUE, sd) /\ offset' = OffsetFor(s) /\ devSampleSeen' = s
  BY DEF WithDevice
<1> HIDE DEF s
<1>5. OffsetFor(s) \in Int /\ Multiple(OffsetFor(s))
  <2>1. sample \in Int /\ Period \in Int /\ Period - s \in Int /\ s \in Int
    BY <1>2, PeriodAssumption
  <2>2. Multiple(Period - s)
    BY <2>1, <1>2, MultipleSum, MultipleScale, Zenon
  <2>3. Multiple(sample + (Period - s))
    BY <2>1, <2>2, MultipleSum, Zenon
  <2> QED BY <2>1, <2>3 DEF OffsetFor
<1>6. smp \in Nat /\ smp >= sample /\ Multiple(smp) /\ (adopts => smp > sample)
  <2>1. s \in Int /\ s + OffsetFor(s) \in Int
    BY <1>2, <1>5
  <2>2. CASE adopts
    <3>1. Multiple(s + OffsetFor(s))
      BY <2>1, <1>2, <1>5, MultipleSum, Zenon
    <3> QED BY <2>1, <2>2, <3>1 DEF Adopts
  <2>3. CASE ~adopts
    BY <2>3
  <2> QED BY <2>2, <2>3
<1>7. hst \in Nat /\ hst >= HostAt(t) /\ (hst > HostAt(t) => smp > sample)
  BY <1>2, <1>3, <1>6 DEF Adopts
<1>8. sd \in Nat /\ sd >= 1 /\ seed \in Nat
  BY MaxSeedAssumption
<1>9. hst - t <= tpp \/ hst = HostAt(t)
  BY <1>1, <1>2 DEF Plausible
\* A graft always lands one period past our timeline, so it is refused only
\* for an anchor older than the host time we hold: either way the lag is in
\* the window and the same call cannot lose the clock again.
<1>10. Grafts(s) => t - hst <= StaleTicks(tpp)
  <2> SUFFICES ASSUME Grafts(s) PROVE t - hst <= StaleTicks(tpp)
    OBVIOUS
  <2>1. t - h <= StaleTicks(tpp)
    BY <1>1, <1>2 DEF Plausible
  <2>2. s + OffsetFor(s) > sample
    BY <1>2, PeriodAssumption DEF OffsetFor
  <2>3. h < HostAt(t) \/ adopts
    BY <2>2, <1>2, <1>3 DEF Adopts
  <2> QED BY <2>1, <2>3, <1>1, <1>2, <1>3
<1> HIDE DEF smp, hst, sd, adopts
<1>11. /\ sample' \in Nat /\ sample' >= smp /\ Multiple(sample')
       /\ host' \in Nat /\ host' >= hst /\ (host' = hst \/ host' <= t)
       /\ t - host' <= StaleTicks(tpp)
       /\ host' > hst => sample' > smp
       /\ locked' = (TRUE /\ ~(t - hst > StaleTicks(tpp)))
       /\ seed' = IF TRUE /\ t - hst > StaleTicks(tpp) THEN sd + 1 ELSE sd
  BY <1>4, <1>6, <1>7, <1>8, SettleStep
<1>12. ClockTypeOK'
  <2>1. locked' \in BOOLEAN
    BY <1>11
  <2>2. seed' \in 1..MaxSeed
    BY <1>8, <1>11, MaxSeedAssumption
  <2> QED BY <2>1, <2>2, <1>2, <1>4, <1>5, <1>11
<1>13. GridInv'
  BY <1>4, <1>5, <1>11
<1>14. HostNearNow' /\ FreshInv'
  <2>1. \E e \in Slopes : host' - t <= e
    <3>1. CASE host' <= t
      BY <3>1, <1>11, HostAhead
    <3>2. CASE host' = hst /\ hst - t <= tpp
      BY <3>2
    <3>3. CASE host' = hst /\ hst = HostAt(t)
      BY <3>3, <1>1, <1>11, HostAhead
    <3> QED BY <3>1, <3>2, <3>3, <1>9, <1>11
  <2> QED BY <1>11, <2>1 DEF HostNearNow, FreshInv
<1>15. sample' >= sample /\ host' >= host /\ (started /\ host' > host => sample' > sample)
  BY <1>3, <1>6, <1>7, <1>11
<1>16. /\ seed' \in {seed, seed + 1}
       /\ seed' # seed <=> \/ locked' # locked
                           \/ locked /\ devSampleSeen' < devSampleSeen
  BY <1>1, <1>2, <1>4, <1>7, <1>8, <1>10, <1>11 DEF sd, Grafts
<1> QED BY <1>12, <1>13, <1>14, <1>15, <1>16 DEF StampStep

\* Every step keeps the inductive invariant and obeys the stamp's rules.
LEMMA ClockStep ==
  ASSUME ClockInv, [ClockNext]_clockVars
  PROVE  ClockInv' /\ (StampStep \/ UNCHANGED clockVars)
<1>1. CASE UNCHANGED clockVars
  BY <1>1 DEF clockVars, ClockInv, ClockTypeOK, GridInv, HostNearNow, FreshInv, Multiple
<1>2. ASSUME NEW tpp \in Slopes, NEW t \in Times, NEW devValid \in BOOLEAN,
             NEW d \in DevSamples, NEW h \in DevHosts,
             GetZeroTimeStamp(tpp, t, devValid, d, h)
      PROVE  ClockInv' /\ StampStep
  <2>1. /\ t >= now /\ now' = t /\ started' = TRUE /\ ticksPerPeriod' = tpp
        /\ seed' <= MaxSeed
    BY <1>2 DEF GetZeroTimeStamp
  <2>2. CASE devValid /\ Plausible(tpp, t, d, h)
    <3>1. WithDevice(tpp, t, Quantise(d), h)
      BY <1>2, <2>2 DEF GetZeroTimeStamp
    <3> QED BY <2>1, <2>2, <3>1, WithDeviceStep
  <2>3. CASE ~(devValid /\ Plausible(tpp, t, d, h))
    <3>1. WithoutDevice(tpp, t)
      BY <1>2, <2>3 DEF GetZeroTimeStamp
    <3> QED BY <2>1, <3>1, WithoutDeviceStep
  <2> QED BY <2>2, <2>3
<1> QED BY <1>1, <1>2 DEF ClockNext

\* The clock starts in the inductive invariant.
LEMMA ClockInitially == ClockInit => ClockInv
<1> SUFFICES ASSUME ClockInit PROVE ClockInv
  OBVIOUS
<1>1. \E k \in Int : 0 = k * Period
  <2> WITNESS 0 \in Int
  <2> QED BY PeriodAssumption
<1>2. Multiple(0)
  BY <1>1 DEF Multiple
<1>3. ClockTypeOK
  <2>1. 1 \in 1..MaxSeed
    BY MaxSeedAssumption
  <2>2. started \in BOOLEAN /\ locked \in BOOLEAN /\ now \in Times \cup {0}
    BY Zenon DEF ClockInit
  <2>3. /\ sample \in Nat /\ host \in Nat /\ offset \in Int /\ devSampleSeen \in Nat
        /\ seed \in 1..MaxSeed /\ ticksPerPeriod \in Slopes
    BY <2>1 DEF ClockInit
  <2> QED BY <2>2, <2>3 DEF ClockTypeOK
<1>4. GridInv /\ HostNearNow /\ FreshInv
  BY <1>2 DEF ClockInit, GridInv, HostNearNow, FreshInv
<1> QED BY <1>3, <1>4 DEF ClockInv

\* The inductive invariant holds throughout every behaviour.
THEOREM ClockInvariant == ClockSpec => []ClockInv
<1>1. ClockInv /\ [ClockNext]_clockVars => ClockInv'
  BY ClockStep
<1> QED BY ClockInitially, <1>1, PTL DEF ClockSpec

\* The clock's variables keep their types in every call of GetZeroTimeStamp.
THEOREM ClockTypeCorrect == ClockSpec => []ClockTypeOK
<1>1. ClockInv => ClockTypeOK
  BY DEF ClockInv
<1> QED BY <1>1, ClockInvariant, PTL

\* Guarantee 1: every sample time handed to the HAL is a period boundary.
THEOREM SampleOnGrid == ClockSpec => []OnGrid
<1>1. ClockInv => OnGrid
  BY MultipleNoRemainder DEF ClockInv, ClockTypeOK, GridInv, OnGrid
<1> QED BY <1>1, ClockInvariant, PTL

\* Guarantee 3: no stamp is staler than the window, so the HAL's busy loop is
\* unreachable whatever the daemon publishes, and none lies further ahead than
\* one period.
THEOREM NeverOverdue == ClockSpec => []HostNearNow
<1>1. ClockInv => HostNearNow
  BY DEF ClockInv
<1> QED BY <1>1, ClockInvariant, PTL

\* Guarantees 2 and 3: neither half of the stamp moves backward, and they move
\* as a pair.
THEOREM StampMonotone == ClockSpec => MonotonePair
<1>1. ClockInv /\ [ClockNext]_clockVars =>
        [/\ sample' >= sample
         /\ host' >= host
         /\ started /\ host' > host => sample' > sample]_clockVars
  BY ClockStep DEF StampStep
<1> QED BY <1>1, ClockInvariant, PTL DEF ClockSpec, MonotonePair

\* Guarantee 4: the seed marks exactly the gains, losses and restarts of the
\* device clock, one per call at most.
THEOREM SeedMarksDiscontinuity == ClockSpec => SeedOnlyOnDiscontinuity
<1>1. ClockInv /\ [ClockNext]_clockVars =>
        [/\ seed' \in {seed, seed + 1}
         /\ seed' # seed <=> \/ locked' # locked
                             \/ locked /\ devSampleSeen' < devSampleSeen]_clockVars
  BY ClockStep DEF StampStep
<1> QED BY <1>1, ClockInvariant, PTL DEF ClockSpec, SeedOnlyOnDiscontinuity

\* Each stamp GetZeroTimeStamp returns lies on the grid and near the present.
THEOREM ClockStampValid == ClockSpec => []StampValid
BY SampleOnGrid, NeverOverdue, PTL DEF StampValid

\* The stamps form one timeline, with its breaks marked by the seed.
THEOREM ClockTimelineHolds == ClockSpec => TimelineHolds
BY StampMonotone, SeedMarksDiscontinuity, PTL DEF TimelineHolds

-----------------------------------------------------------------------------
(* Facts about the operators the two rings are built from.                 *)

\* A nonempty bounded set of natural numbers has a greatest element, which is
\* what Max picks.
LEMMA MaxOfBounded ==
  ASSUME NEW n \in Nat, NEW S, S \subseteq 0..n, S # {}
  PROVE  Max(S) \in S /\ \A y \in S : y <= Max(S)
<1> DEFINE T == {n - x : x \in S}
           R == OpToRel(<, Nat)
<1>1. T \subseteq Nat /\ T # {}
  <2>1. \A x \in S : x \in Int /\ n - x \in Nat
    OBVIOUS
  <2> QED BY <2>1
<1>2. IsWellFoundedOn(R, Nat)
  BY NatLessThanWellFounded, Zenon
<1>3. \A u, v \in Nat : u < v => <<u, v>> \in R
  BY DEF OpToRel
<1>4. PICK t \in T : \A u \in T : ~(u < t)
  <2> HIDE DEF T, R
  <2>1. \E t \in T : \A u \in T : ~(<<u, t>> \in R)
    BY <1>1, <1>2, WFMin
  <2> QED BY <1>1, <1>3, <2>1
<1>5. PICK m \in S : t = n - m
  OBVIOUS
<1>6. \A y \in S : m >= y
  <2>1. \A y \in S : y \in Int /\ ~(n - y < n - m)
    BY <1>4, <1>5, SMTT(40)
  <2> QED BY <2>1
<1>7. \E x \in S : \A y \in S : x >= y
  BY <1>6
<1> QED BY <1>7 DEF Max

\* Max and Min of two integers.
LEMMA MaxMinOfTwo ==
  ASSUME NEW a \in Int, NEW b \in Int
  PROVE  /\ Max({a, b}) = IF a >= b THEN a ELSE b
         /\ Min({a, b}) = IF a <= b THEN a ELSE b
<1>1. /\ \E x \in {a, b} : \A y \in {a, b} : x >= y
      /\ \E x \in {a, b} : \A y \in {a, b} : x <= y
  OBVIOUS
<1> QED BY <1>1 DEF Max, Min

\* Counts less than a lap apart fall on different slots.
LEMMA LapDistinct ==
  ASSUME NEW n \in Nat \ {0}, NEW a \in Nat, NEW b \in Nat, b < a, a % n = b % n
  PROVE  a - b >= n
<1> DEFINE p == a \div n
           q == b \div n
<1>1. /\ p \in Int /\ q \in Int
      /\ a = n * p + (a % n) /\ b = n * q + (b % n)
  OBVIOUS
<1> HIDE DEF p, q
<1>2. a - b = n * (p - q)
  BY <1>1
<1>3. p - q >= 1
  <2> SUFFICES ASSUME p - q <= 0 PROVE FALSE
    BY <1>1
  <2>1. n * (p - q) <= 0
    BY <1>1
  <2> QED BY <1>2, <2>1
<1>4. n * (p - q) >= n
  BY <1>1, <1>3
<1> QED BY <1>2, <1>4

\* Whole stretches of n: more time never makes fewer of them, and n more makes
\* one more.
LEMMA StretchesGrow ==
  ASSUME NEW n \in Nat \ {0}, NEW a \in Nat, NEW b \in Nat, a <= b
  PROVE  /\ a \div n \in Nat /\ b \div n \in Nat
         /\ a \div n <= b \div n
         /\ a + n <= b => (a \div n) + 1 <= b \div n
<1> DEFINE p == a \div n
           q == b \div n
<1>1. /\ p \in Int /\ q \in Int
      /\ a = n * p + (a % n) /\ b = n * q + (b % n)
      /\ a % n \in 0..(n - 1) /\ b % n \in 0..(n - 1)
  OBVIOUS
<1>2. a < n * (p + 1) /\ b < n * (q + 1) /\ n * p <= a /\ n * q <= b
  BY <1>1
<1> HIDE DEF p, q
<1>3. ASSUME NEW x \in Int, NEW y \in Int, n * x < n * y
      PROVE  x < y
  <2> SUFFICES ASSUME y <= x PROVE FALSE
    OBVIOUS
  <2>1. n * (x - y) >= 0
    OBVIOUS
  <2> QED BY <1>3, <2>1
<1>4. 0 < p + 1 /\ 0 < q + 1
  <2>1. n * 0 < n * (p + 1) /\ n * 0 < n * (q + 1)
    BY <1>1, <1>2
  <2> QED BY <1>1, <1>3, <2>1
<1>5. p < q + 1
  <2>1. n * p < n * (q + 1)
    BY <1>1, <1>2
  <2> QED BY <1>1, <1>3, <2>1
<1>6. ASSUME a + n <= b PROVE p + 1 <= q
  <2>1. n * (p + 1) < n * (q + 1)
    BY <1>1, <1>2, <1>6
  <2> QED BY <1>1, <1>3, <2>1
<1> QED BY <1>1, <1>4, <1>5, <1>6 DEF p, q

\* A remainder is what is left once a multiple has been taken away.
LEMMA RemainderIs ==
  ASSUME NEW n \in Nat \ {0}, NEW p \in Int, NEW r \in 0..(n - 1)
  PROVE  (n * p + r) % n = r
<1> DEFINE a == n * p + r
           q == a \div n
           t == a % n
<1>1. a \in Int /\ q \in Int /\ t \in 0..(n - 1) /\ a = n * q + t
  OBVIOUS
<1>2. n * (q - p) = r - t
  BY <1>1
<1> HIDE DEF q, t, a
<1>3. ~(q - p >= 1)
  <2> SUFFICES ASSUME q - p >= 1 PROVE FALSE
    OBVIOUS
  <2>1. n * (q - p) >= n
    BY <1>1
  <2> QED BY <1>1, <1>2, <2>1
<1>4. ~(q - p <= -1)
  <2> SUFFICES ASSUME q - p <= -1 PROVE FALSE
    OBVIOUS
  <2>1. n * (q - p) <= -n
    BY <1>1
  <2> QED BY <1>1, <1>2, <2>1
<1>5. q = p
  BY <1>1, <1>3, <1>4
<1>6. t = r
  BY <1>1, <1>2, <1>5
<1> QED BY <1>6 DEF t, a

\* A number and its remainder.
LEMMA RemainderOf ==
  ASSUME NEW n \in Nat \ {0}, NEW a \in Int
  PROVE  /\ a \div n \in Int /\ a % n \in 0..(n - 1)
         /\ a = n * (a \div n) + (a % n)
OBVIOUS

\* ... and the quotient is that multiple.
LEMMA QuotientIs ==
  ASSUME NEW n \in Nat \ {0}, NEW p \in Int, NEW r \in 0..(n - 1)
  PROVE  (n * p + r) \div n = p
<1> DEFINE a == n * p + r
           q == a \div n
<1>1. a \in Int /\ a = n * p + r /\ a % n = r
  BY RemainderIs
<1> HIDE DEF a
<1>2. q \in Int /\ a = n * q + (a % n)
  BY <1>1, RemainderOf
<1> HIDE DEF q
<1>3. n * (q - p) = 0
  BY <1>1, <1>2
<1>4. q - p = 0
  BY <1>2, <1>3
<1> QED BY <1>2, <1>4 DEF q, a

\* Numbers on the same slot are followed by numbers on the same slot.
LEMMA SameSlotNext ==
  ASSUME NEW n \in Nat \ {0}, NEW a \in Nat, NEW b \in Nat, a % n = b % n
  PROVE  (a + 1) % n = (b + 1) % n
<1> DEFINE p == a \div n
           q == b \div n
           r == a % n
<1>1. /\ p \in Int /\ q \in Int /\ r \in 0..(n - 1) /\ a = n * p + r /\ b = n * q + r
  BY RemainderOf
<1> HIDE DEF p, q, r
<1>2. CASE r + 1 < n
  <2>1. r + 1 \in 0..(n - 1) /\ a + 1 = n * p + (r + 1) /\ b + 1 = n * q + (r + 1)
    BY <1>1, <1>2
  <2> QED BY <1>1, <2>1, RemainderIs
<1>3. CASE r + 1 = n
  <2>1. 0 \in 0..(n - 1) /\ p + 1 \in Int /\ q + 1 \in Int
    BY <1>1
  <2>2. a + 1 = n * (p + 1) + 0 /\ b + 1 = n * (q + 1) + 0
    BY <1>1, <1>3
  <2> QED BY <2>1, <2>2, RemainderIs
<1> QED BY <1>1, <1>2, <1>3

\* Between two interrupts only the last packet raises one.
LEMMA RaisesAt ==
  ASSUME NEW k \in Nat \ {0}, NEW w \in Int, (w - 1) % k = 0, NEW g \in 0..(k - 1)
  PROVE  (w + g) % k = 0 <=> g = k - 1
<1> DEFINE j == (w - 1) \div k
<1>1. j \in Int /\ w - 1 = k * j
  BY RemainderOf
<1> HIDE DEF j
<1>2. CASE g = k - 1
  <2>1. w + g = k * (j + 1) + 0 /\ j + 1 \in Int /\ 0 \in 0..(k - 1)
    BY <1>1, <1>2
  <2> QED BY <1>2, <2>1, RemainderIs
<1>3. CASE g # k - 1
  <2>1. w + g = k * j + (g + 1) /\ g + 1 \in 0..(k - 1)
    BY <1>1, <1>3
  <2>2. (w + g) % k = g + 1
    BY <1>1, <2>1, RemainderIs
  <2> QED BY <1>3, <2>2
<1> QED BY <1>2, <1>3

\* The same a whole period later.
LEMMA PeriodLater ==
  ASSUME NEW k \in Nat \ {0}, NEW w \in Int, w % k = 0
  PROVE  (w + k) % k = 0
<1> DEFINE j == w \div k
<1>1. j \in Int /\ w = k * j
  BY RemainderOf
<1> HIDE DEF j
<1>2. w + k = k * (j + 1) + 0 /\ j + 1 \in Int /\ 0 \in 0..(k - 1)
  BY <1>1
<1> QED BY <1>2, RemainderIs

-----------------------------------------------------------------------------
(* The capture drain.                                                      *)

\* Packets were stored in all the slots a count of n stands for.
Stored(n) == \A k \in 0..(n - 1) : held[k % Ring] # Empty

\* Every status that is set was set for a packet of this session that has not
\* been released, whichever lap it belongs to.
StatusInv == \A s \in filled : \E k \in read..(head - 1) : k % Ring = s

\* The dext's cursors stay within a lap and behind the controller, and whatever
\* count the pump goes by, an earlier session's included, packets were stored
\* for it.
CountInv ==
  /\ write <= read + Ring /\ write <= head /\ StatusInv
  /\ Stored(head) /\ Stored(pump.total) /\ Stored(rxCompleted)

\* The restarts of a daemon, by the time of the last one: a group of at most
\* three for every FloorCycles since the daemon came up.
BurstInv ==
  /\ watch.since <= cycle /\ watch.at <= cycle
  /\ watch.since = Empty => watch.restarts = 0 /\ pump.at \in {"start", "settle"}
  /\ watch.disarmed \/ watch.burst <= 2
  /\ watch.restarts = 0 => watch.at = 0 - FloorCycles /\ watch.burst = 0
  /\ watch.restarts > 0 =>
       /\ watch.since <= watch.at
       /\ watch.restarts <= 3 * ((watch.at - watch.since) \div FloorCycles) + 3
       /\ ~watch.disarmed =>
            watch.restarts <=
              3 * ((watch.at - watch.since) \div FloorCycles) + watch.burst + 1

\* The inductive invariant of the capture drain.
CaptureInv == CaptureTypeOK /\ CountInv /\ BurstInv

\* The types of the pump's two records.
PumpType ==
  [at: {"tick", "store", "request", "drain", "gap", "wedge", "wait", "stop", "start",
        "settle"}, up: Nat, woke: Nat, total: Nat, consumed: Nat, progress: Nat,
   seen: Nat, wedges: Nat]
WatchType ==
  [since: Nat \cup {Empty}, have: BOOLEAN, last: Nat, gaps: BOOLEAN, worst: Nat,
   armed: BOOLEAN, disarmed: BOOLEAN, burst: Nat, at: Int, restarts: Nat]

\* The types that every step below needs, in one place.
LEMMA CaptureFacts ==
  ASSUME CaptureInv
  PROVE  /\ cycle \in Nat /\ cycle <= MaxCycles /\ head \in Nat
         /\ held \in [Slots -> Nat \cup {Empty}] /\ filled \subseteq Slots
         /\ write \in Nat /\ read \in Nat /\ read <= write /\ write <= read + Ring
         /\ write <= head /\ rxCompleted \in Nat \cup {Empty} /\ releaseUpTo \in Nat
         /\ pump \in PumpType /\ watch \in WatchType
         /\ faults \in Nat /\ faults <= MaxFaults
         /\ restarts \in Nat /\ restarts <= MaxRestarts /\ calm \in Nat
         /\ alive \in BOOLEAN /\ running \in BOOLEAN /\ irq \in BOOLEAN
         /\ news \in BOOLEAN /\ stale \in BOOLEAN
         /\ CountInv /\ BurstInv
<1>1. /\ alive \in BOOLEAN /\ running \in BOOLEAN /\ irq \in BOOLEAN
      /\ news \in BOOLEAN /\ stale \in BOOLEAN /\ CountInv /\ BurstInv
      /\ pump \in PumpType /\ watch \in WatchType
  BY Zenon DEF CaptureInv, CaptureTypeOK, PumpType, WatchType
<1> QED BY <1>1, CaptureAssumption DEF CaptureInv, CaptureTypeOK, CountInv

\* A count falls on a slot of the ring.
LEMMA SlotInRing ==
  ASSUME NEW k \in Nat
  PROVE  k % Ring \in Slots
BY CaptureAssumption DEF Slots

\* A release stops at what has been counted and never moves back.
LEMMA ReleaseBounds ==
  ASSUME CaptureInv, NEW upTo \in Nat
  PROVE  ReleaseTo(upTo) \in Nat /\ read <= ReleaseTo(upTo) /\ ReleaseTo(upTo) <= write
<1> DEFINE m == Min({upTo, write})
<1>1. read \in Nat /\ write \in Nat /\ read <= write
  BY CaptureFacts
<1>2. m \in Nat /\ m <= write
  <2>1. m = IF upTo <= write THEN upTo ELSE write
    BY <1>1, MaxMinOfTwo
  <2> QED BY <1>1, <2>1
<1> HIDE DEF m
<1>3. Max({read, m}) = IF read >= m THEN read ELSE m
  BY <1>1, <1>2, MaxMinOfTwo
<1> QED BY <1>1, <1>2, <1>3 DEF ReleaseTo, m

\* The statuses left by a release belong to packets that are not released yet.
LEMMA RearmedStatuses ==
  ASSUME CaptureInv, NEW to \in Nat, read <= to, to <= write
  PROVE  /\ Rearmed(to) \subseteq Slots
         /\ \A s \in Rearmed(to) : \E k \in to..(head - 1) : k % Ring = s
<1>1. Rearmed(to) \subseteq filled
  BY DEF Rearmed
<1>2. ASSUME NEW s \in Rearmed(to)
      PROVE  \E k \in to..(head - 1) : k % Ring = s
  <2>1. PICK k \in read..(head - 1) : k % Ring = s
    BY <1>1, CaptureFacts DEF CountInv, StatusInv
  <2>2. k \notin read..(to - 1)
    BY <2>1 DEF Rearmed
  <2> QED BY <2>1, <2>2, CaptureFacts
<1> QED BY <1>1, <1>2, CaptureFacts

\* The scan finds packets that are stored, and not more than a lap of them.
LEMMA ScanBounds ==
  ASSUME CaptureInv, NEW from \in Nat, read <= from, from <= write, NEW statuses,
         \A s \in statuses : \E k \in from..(head - 1) : k % Ring = s
  PROVE  /\ CompletedTo(from, statuses) \in Nat
         /\ write <= CompletedTo(from, statuses)
         /\ CompletedTo(from, statuses) <= from + Ring
         /\ CompletedTo(from, statuses) <= head
<1> DEFINE S == {w \in write..(from + Ring) :
                   \A k \in write..(w - 1) : k % Ring \in statuses}
           c == Max(S)
<1>1. write \in S
  BY CaptureFacts, CaptureAssumption
<1>2. S \subseteq 0..(from + Ring) /\ S # {} /\ from + Ring \in Nat
  BY <1>1, CaptureFacts, CaptureAssumption, SMTT(40)
<1>3. c \in S
  <2> HIDE DEF S
  <2> QED BY <1>2, MaxOfBounded
<1>4. c \in Nat /\ write <= c /\ c <= from + Ring
  BY <1>3, CaptureFacts, CaptureAssumption
<1>5. c <= head
  <2> SUFFICES ASSUME head < c PROVE FALSE
    BY <1>4, CaptureFacts
  <2>1. head % Ring \in statuses
    BY <1>3, <1>4, CaptureFacts
  <2>2. PICK k \in from..(head - 1) : k % Ring = head % Ring
    BY <2>1
  <2>3. head - k >= Ring
    BY <2>2, LapDistinct, CaptureFacts, CaptureAssumption
  <2> QED BY <1>4, <2>2, <2>3, CaptureFacts, CaptureAssumption
<1> QED BY <1>4, <1>5 DEF CompletedTo

\* A step that leaves the controller, the ring and the dext's cursors alone
\* keeps the invariant if the pump's records keep theirs.
LEMMA PumpKeeps ==
  ASSUME CaptureInv,
         UNCHANGED <<cycle, head, held, running, filled, write, read, irq, rxCompleted>>,
         alive' \in BOOLEAN, news' \in BOOLEAN, stale' \in BOOLEAN, calm' \in Nat,
         releaseUpTo' \in Nat, faults' \in 0..MaxFaults, restarts' \in 0..MaxRestarts,
         pump' \in PumpType, pump'.total \in {0, pump.total, rxCompleted},
         watch' \in WatchType, BurstInv'
  PROVE  CaptureInv'
<1>1. /\ alive' \in BOOLEAN /\ running' \in BOOLEAN /\ irq' \in BOOLEAN
      /\ news' \in BOOLEAN /\ stale' \in BOOLEAN
  BY CaptureFacts, Zenon
<1>2. /\ cycle' \in 0..MaxCycles /\ head' \in Nat /\ held' \in [Slots -> Nat \cup {Empty}]
      /\ filled' \subseteq Slots /\ write' \in Nat /\ read' \in 0..write'
      /\ rxCompleted' \in Nat \cup {Empty}
  BY CaptureFacts, CaptureAssumption
<1>3. CaptureTypeOK'
  BY <1>1, <1>2, Zenon DEF CaptureTypeOK, PumpType, WatchType
<1>4. Stored(pump.total) /\ Stored(rxCompleted) /\ Stored(0)
  BY CaptureFacts DEF CountInv, Stored
<1>5. CountInv'
  BY <1>4, CaptureFacts DEF CountInv, StatusInv, Stored
<1> QED BY <1>3, <1>5 DEF CaptureInv

\* The count of restarts is safe in any step that does not touch it; a later
\* time and a watch that has just disarmed itself included.
LEMMA BurstKept ==
  ASSUME CaptureInv, cycle' \in Nat, cycle <= cycle', watch' \in WatchType,
         watch'.since = watch.since, watch'.at = watch.at, watch'.burst = watch.burst,
         watch'.restarts = watch.restarts, watch.disarmed => watch'.disarmed,
         watch'.since = Empty => pump'.at \in {"start", "settle"}
  PROVE  BurstInv'
<1>1. BurstInv /\ cycle \in Nat /\ watch \in WatchType
  BY CaptureFacts
<1> QED BY <1>1, CaptureAssumption DEF BurstInv, WatchType, Empty

\* A pump step that moves on to `place` and leaves the watch alone.
LEMMA PlaceKept ==
  ASSUME CaptureInv, cycle' = cycle, watch' = watch,
         pump.at \notin {"start", "settle"} \/ pump'.at \in {"start", "settle"}
  PROVE  BurstInv' /\ watch' \in WatchType
<1>1. watch \in WatchType /\ BurstInv /\ cycle \in Nat
  BY CaptureFacts
<1>2. watch'.since = Empty => pump'.at \in {"start", "settle"}
  BY <1>1 DEF BurstInv
<1> QED BY <1>1, <1>2, BurstKept

-----------------------------------------------------------------------------
\* A bus cycle.
LEMMA CycleKeeps ==
  ASSUME CaptureInv, NEW packet \in BOOLEAN, Cycle(packet)
  PROVE  CaptureInv'
<1> DEFINE s == head % Ring
<1>1. s \in Slots
  BY CaptureFacts, SlotInRing
<1>2. /\ head' = IF packet THEN head + 1 ELSE head
      /\ held' = IF packet THEN [held EXCEPT ![s] = cycle] ELSE held
      /\ filled' = IF packet THEN filled \cup {s} ELSE filled
      /\ cycle' = cycle + 1 /\ cycle < MaxCycles
      /\ UNCHANGED <<write, read, rxCompleted, releaseUpTo, pump, watch, restarts>>
  BY DEF Cycle
<1>3. /\ irq' \in BOOLEAN /\ alive' \in BOOLEAN /\ running' \in BOOLEAN
      /\ news' \in BOOLEAN /\ stale' \in BOOLEAN
  BY CaptureFacts, Zenon DEF Cycle
<1>4. calm' \in Nat /\ faults' \in 0..MaxFaults
  BY CaptureFacts, CaptureAssumption DEF Cycle
<1> HIDE DEF s
<1>5. /\ cycle' \in 0..MaxCycles /\ head' \in Nat /\ held' \in [Slots -> Nat \cup {Empty}]
      /\ filled' \subseteq Slots /\ write' \in Nat /\ read' \in 0..write'
      /\ rxCompleted' \in Nat \cup {Empty} /\ releaseUpTo' \in Nat
      /\ restarts' \in 0..MaxRestarts
  BY <1>1, <1>2, CaptureFacts, CaptureAssumption
<1>6. pump' \in PumpType /\ watch' \in WatchType
  BY <1>2, CaptureFacts
<1>7. CaptureTypeOK'
  BY <1>3, <1>4, <1>5, <1>6, Zenon DEF CaptureTypeOK, PumpType, WatchType
<1>8. StatusInv'
  <2> SUFFICES ASSUME NEW t \in filled'
               PROVE  \E k \in read'..(head' - 1) : k % Ring = t
    BY DEF StatusInv
  <2>1. CASE t \in filled
    <3>1. PICK k \in read..(head - 1) : k % Ring = t
      BY <2>1, CaptureFacts DEF CountInv, StatusInv
    <3> QED BY <1>2, <3>1, CaptureFacts
  <2>2. CASE packet /\ t = s
    <3>1. head \in read'..(head' - 1) /\ head % Ring = t
      BY <1>2, <2>2, CaptureFacts DEF s
    <3> QED BY <3>1
  <2> QED BY <1>2, <2>1, <2>2
<1>9. \A k \in Nat : held[k % Ring] # Empty => held'[k % Ring] # Empty
  <2> SUFFICES ASSUME NEW k \in Nat, held[k % Ring] # Empty
               PROVE  held'[k % Ring] # Empty
    OBVIOUS
  <2>1. k % Ring \in Slots /\ cycle # Empty
    BY SlotInRing, CaptureFacts DEF Empty
  <2> QED BY <1>1, <1>2, <2>1, CaptureFacts
<1>10. Stored(head)' /\ Stored(pump.total)' /\ Stored(rxCompleted)'
  <2>1. Stored(head) /\ Stored(pump.total) /\ Stored(rxCompleted)
    BY CaptureFacts DEF CountInv
  <2>2. packet => held'[head % Ring] # Empty
    BY <1>1, <1>2, CaptureFacts DEF Empty, s
  <2>3. Stored(head)'
    BY <1>2, <1>9, <2>1, <2>2, CaptureFacts DEF Stored
  <2>4. Stored(pump.total)' /\ Stored(rxCompleted)'
    BY <1>2, <1>9, <2>1 DEF Stored
  <2> QED BY <2>3, <2>4
<1>11. CountInv'
  BY <1>2, <1>8, <1>10, CaptureFacts DEF CountInv
<1>12. BurstInv'
  BY <1>2, <1>6, CaptureFacts, BurstKept DEF BurstInv
<1> QED BY <1>7, <1>11, <1>12 DEF CaptureInv

\* The device turning its transmission on or off.
LEMMA TurnKeeps ==
  ASSUME CaptureInv, Turn
  PROVE  CaptureInv'
<1>1. /\ UNCHANGED <<cycle, head, held, running, filled, write, read, irq, rxCompleted>>
      /\ UNCHANGED <<news, stale, calm, releaseUpTo, restarts, pump, watch>>
      /\ faults' \in 0..MaxFaults
  BY CaptureFacts, CaptureAssumption DEF Turn, dext
<1>2. alive' \in BOOLEAN /\ news' \in BOOLEAN /\ stale' \in BOOLEAN
  BY <1>1, CaptureFacts, Zenon DEF Turn
<1>3. BurstInv' /\ watch' \in WatchType
  BY <1>1, PlaceKept
<1> QED BY <1>1, <1>2, <1>3, CaptureFacts, PumpKeeps

\* Releasing and counting, which the interrupt and kUFOhciPump share: whatever
\* cursor the release was given, what is counted after it was stored.
LEMMA CountingKeeps ==
  ASSUME CaptureInv, UNCHANGED <<cycle, alive, head, held, running, calm, faults>>,
         UNCHANGED <<releaseUpTo, stale, watch, restarts>>,
         read' \in Nat, read <= read', read' <= write, filled' = Rearmed(read'),
         write' \in {write, CompletedTo(read', filled')},
         irq' \in BOOLEAN, news' \in BOOLEAN, rxCompleted' \in {rxCompleted, write'},
         pump' \in PumpType, pump'.total \in {pump.total, write'},
         pump'.at = pump.at \/ pump.at \notin {"start", "settle"}
  PROVE  CaptureInv'
<1>1. /\ filled' \subseteq Slots
      /\ \A s \in filled' : \E k \in read'..(head - 1) : k % Ring = s
  BY RearmedStatuses
<1> DEFINE c == CompletedTo(read', filled')
<1>2. c \in Nat /\ write <= c /\ c <= read' + Ring /\ c <= head
  BY <1>1, ScanBounds
<1> HIDE DEF c
<1>3. /\ write' \in Nat /\ write <= write' /\ write' <= read' + Ring /\ write' <= head
  BY <1>2, CaptureFacts, CaptureAssumption DEF c
<1>4. /\ alive' \in BOOLEAN /\ running' \in BOOLEAN /\ irq' \in BOOLEAN
      /\ news' \in BOOLEAN /\ stale' \in BOOLEAN /\ watch' \in WatchType
  BY CaptureFacts, Zenon
<1>5. /\ cycle' \in 0..MaxCycles /\ head' \in Nat /\ held' \in [Slots -> Nat \cup {Empty}]
      /\ read' \in 0..write' /\ rxCompleted' \in Nat \cup {Empty} /\ releaseUpTo' \in Nat
      /\ calm' \in Nat /\ faults' \in 0..MaxFaults /\ restarts' \in 0..MaxRestarts
  BY <1>3, CaptureFacts, CaptureAssumption
<1>6. CaptureTypeOK'
  BY <1>1, <1>3, <1>4, <1>5, Zenon DEF CaptureTypeOK, PumpType, WatchType
<1>7. Stored(head) /\ Stored(pump.total) /\ Stored(rxCompleted)
  BY CaptureFacts DEF CountInv
<1>8. \A k \in 0..(write' - 1) : held'[k % Ring] # Empty
  <2>1. head \in Nat
    BY CaptureFacts
  <2>2. \A n \in Nat : n <= head => \A k \in 0..(n - 1) : k \in 0..(head - 1)
    BY ONLY <2>1
  <2>3. \A k \in 0..(write' - 1) : k \in 0..(head - 1)
    BY ONLY <1>3, <2>2
  <2> QED BY <1>7, <2>3 DEF Stored
<1>9. Stored(head)' /\ Stored(pump.total)' /\ Stored(rxCompleted)'
  BY <1>7, <1>8 DEF Stored
<1>10. CountInv'
  BY <1>1, <1>3, <1>9 DEF CountInv, StatusInv
<1>11. BurstInv'
  <2>1. watch'.since = Empty => pump'.at \in {"start", "settle"}
    BY CaptureFacts DEF BurstInv
  <2> QED BY <1>4, <2>1, CaptureFacts, BurstKept
<1> QED BY <1>6, <1>10, <1>11 DEF CaptureInv

\* The completion interrupt.
LEMMA InterruptKeeps ==
  ASSUME CaptureInv, Interrupt
  PROVE  CaptureInv'
<1>1. read' \in Nat /\ read <= read' /\ read' <= write
  BY CaptureFacts, ReleaseBounds DEF Interrupt
<1>2. /\ UNCHANGED <<cycle, alive, head, held, running, calm, faults>>
      /\ UNCHANGED <<releaseUpTo, stale, watch, restarts, pump>>
      /\ filled' = Rearmed(read') /\ write' \in {write, CompletedTo(read', filled')}
      /\ rxCompleted' \in {rxCompleted, write'}
  BY DEF Interrupt, bus
<1>3. irq' \in BOOLEAN /\ news' \in BOOLEAN
  BY Zenon DEF Interrupt
<1>4. pump' \in PumpType /\ pump'.total = pump.total /\ pump'.at = pump.at
  BY <1>2, CaptureFacts
<1> QED BY <1>1, <1>2, <1>3, <1>4, CountingKeeps

\* The tick that asks the dext itself.
LEMMA PumpDextKeeps ==
  ASSUME CaptureInv, PumpDext
  PROVE  CaptureInv'
<1>1. pump \in PumpType /\ pump.at = "tick"
  BY CaptureFacts DEF PumpDext
<1>2. read' \in Nat /\ read <= read' /\ read' <= write
  BY <1>1, ReleaseBounds DEF PumpDext, PumpType
<1>3. /\ UNCHANGED <<cycle, alive, head, held, running, calm, faults>>
      /\ UNCHANGED <<releaseUpTo, stale, watch, restarts, irq, news, rxCompleted>>
      /\ filled' = Rearmed(read') /\ write' = CompletedTo(read', filled')
      /\ pump' = [pump EXCEPT !.at = "request", !.total = write']
  BY DEF PumpDext, bus
<1>4. write' \in Nat
  <2>1. \A s \in filled' : \E k \in read'..(head - 1) : k % Ring = s
    BY <1>2, <1>3, RearmedStatuses
  <2> QED BY <1>2, <1>3, <2>1, ScanBounds
<1>5. pump' \in PumpType /\ pump'.total = write'
  BY <1>1, <1>3, <1>4 DEF PumpType
<1>6. irq' \in BOOLEAN /\ news' \in BOOLEAN
  BY <1>3, CaptureFacts, Zenon
<1> QED BY <1>1, <1>2, <1>3, <1>5, <1>6, CountingKeeps

\* The steps of a tick that only move the pump along.
LEMMA TickKeeps ==
  ASSUME CaptureInv, ReadStatus \/ StoreControl \/ NoRequest \/ Wake
                       \/ Progress \/ NoProgress
  PROVE  CaptureInv'
<1>1. /\ UNCHANGED <<cycle, head, held, running, filled, write, read, irq, rxCompleted>>
      /\ UNCHANGED <<alive, calm, faults, restarts, watch>>
  BY DEF ReadStatus, StoreControl, NoRequest, Wake, Progress, NoProgress, PumpOnly, bus,
         dext
<1>2. alive' \in BOOLEAN /\ news' \in BOOLEAN /\ stale' \in BOOLEAN
  BY CaptureFacts, Zenon DEF ReadStatus, StoreControl, NoRequest, Wake, Progress,
       NoProgress, PumpOnly, bus, dext
<1>3. pump \in PumpType /\ cycle \in Nat /\ rxCompleted \in Nat \cup {Empty}
  BY CaptureFacts
<1>4. pump.at \notin {"start", "settle"} /\ pump' \in PumpType
      /\ pump'.total \in {pump.total, rxCompleted}
  <2>1. CASE ReadStatus
    BY <1>3, <2>1 DEF ReadStatus, PumpType
  <2>2. CASE StoreControl
    BY <1>3, <2>2 DEF StoreControl, PumpType
  <2>3. CASE NoRequest
    BY <1>3, <2>3 DEF NoRequest, PumpType
  <2>4. CASE Wake
    BY <1>3, <2>4 DEF Wake, PumpType
  <2>5. CASE Progress
    BY <1>3, <2>5 DEF Progress, PumpType
  <2>6. CASE NoProgress
    BY <1>3, <2>6 DEF NoProgress, PumpType
  <2> QED BY <2>1, <2>2, <2>3, <2>4, <2>5, <2>6
<1>5. releaseUpTo' \in Nat
  BY <1>3, CaptureFacts DEF ReadStatus, StoreControl, NoRequest, Wake, Progress,
       NoProgress, PumpType
<1>6. BurstInv' /\ watch' \in WatchType
  BY <1>1, <1>4, PlaceKept
<1>7. calm' \in Nat /\ faults' \in 0..MaxFaults /\ restarts' \in 0..MaxRestarts
  BY <1>1, CaptureFacts, CaptureAssumption
<1> QED BY <1>1, <1>2, <1>4, <1>5, <1>6, <1>7, PumpKeeps

\* A packet is drained: it is one the controller stored, if in an earlier
\* session, so its time stamp is a cycle of the bus.
LEMMA DrainKeeps ==
  ASSUME CaptureInv, DrainPacket
  PROVE  CaptureInv'
<1> DEFINE packet == held[pump.consumed % Ring]
           d == IF watch.have THEN Distance(watch.last, packet) ELSE 1
<1>1. /\ pump \in PumpType /\ watch \in WatchType /\ pump.at = "drain"
      /\ pump.consumed < pump.total /\ Stored(pump.total)
  BY CaptureFacts DEF DrainPacket, CountInv
<1>2. packet \in Nat
  <2>1. pump.consumed \in Nat /\ pump.consumed \in 0..(pump.total - 1)
    BY <1>1 DEF PumpType
  <2>2. pump.consumed % Ring \in Slots /\ packet # Empty
    BY <1>1, <2>1, SlotInRing DEF Stored
  <2> QED BY <2>2, CaptureFacts
<1>3. d \in Nat
  <2>1. watch.last \in Nat
    BY <1>1 DEF WatchType
  <2> HIDE DEF packet
  <2>2. watch.last % CycleSpan \in 0..(CycleSpan - 1) /\ packet % CycleSpan \in 0..(CycleSpan - 1)
    BY <1>2, <2>1, CaptureAssumption
  <2> QED BY <2>2, CaptureAssumption DEF Distance
<1>4. watch' = [watch EXCEPT !.gaps = @ \/ d # 1,
                  !.worst = IF d > kCycleGapRestart THEN d ELSE @,
                  !.last = packet, !.have = TRUE]
  BY DEF DrainPacket
<1> HIDE DEF packet, d
<1>5. watch' \in WatchType
  <2>1. (watch.gaps \/ d # 1) \in BOOLEAN
    BY Zenon
  <2>2. (IF d > kCycleGapRestart THEN d ELSE watch.worst) \in Nat
    BY <1>1, <1>3 DEF WatchType
  <2> QED BY <1>1, <1>2, <1>4, <2>1, <2>2 DEF WatchType
<1>6. /\ UNCHANGED <<cycle, head, held, running, filled, write, read, irq, rxCompleted>>
      /\ UNCHANGED <<alive, calm, faults, restarts, news, releaseUpTo, stale>>
      /\ pump' = [pump EXCEPT !.consumed = @ + 1]
  BY DEF DrainPacket, PumpOnly, bus, dext
<1>7. pump' \in PumpType /\ pump'.total = pump.total /\ pump'.at = "drain"
  BY <1>1, <1>6 DEF PumpType
<1>8. BurstInv'
  <2>1. watch.since # Empty
    BY <1>1, CaptureFacts DEF BurstInv
  <2>2. /\ watch'.since = watch.since /\ watch'.at = watch.at
        /\ watch'.burst = watch.burst /\ watch'.restarts = watch.restarts
        /\ watch'.disarmed = watch.disarmed
    BY <1>1, <1>4 DEF WatchType
  <2> QED BY <1>5, <1>6, <2>1, <2>2, CaptureFacts, BurstKept
<1>9. /\ alive' \in BOOLEAN /\ news' \in BOOLEAN /\ stale' \in BOOLEAN
      /\ releaseUpTo' \in Nat /\ calm' \in Nat
  BY <1>6, CaptureFacts, Zenon
<1>10. faults' \in 0..MaxFaults /\ restarts' \in 0..MaxRestarts
  BY <1>6, CaptureFacts, CaptureAssumption
<1> QED BY <1>5, <1>6, <1>7, <1>8, <1>9, <1>10, PumpKeeps

\* What GapRestart, Disarm, NoGap and Drained leave alone.
LEMMA WatchStepFrame ==
  ASSUME CaptureInv,
         UNCHANGED <<cycle, head, held, running, filled, write, read, irq, rxCompleted>>,
         UNCHANGED <<alive, calm, faults, news, stale>>,
         releaseUpTo' \in {releaseUpTo, 0}, restarts' \in {restarts, restarts - 1},
         restarts' >= 0,
         pump' \in PumpType, pump'.total = pump.total,
         watch' \in WatchType, BurstInv'
  PROVE  CaptureInv'
<1>1. /\ alive' \in BOOLEAN /\ news' \in BOOLEAN /\ stale' \in BOOLEAN /\ calm' \in Nat
  BY CaptureFacts, Zenon
<1>2. faults' \in 0..MaxFaults /\ restarts' \in 0..MaxRestarts /\ releaseUpTo' \in Nat
  BY CaptureFacts, CaptureAssumption
<1> QED BY <1>1, <1>2, PumpKeeps

\* The end of a drain, which may arm or disarm the restart.
LEMMA DrainedKeeps ==
  ASSUME CaptureInv, Drained
  PROVE  CaptureInv'
<1>1. pump \in PumpType /\ watch \in WatchType /\ pump.at = "drain" /\ cycle \in Nat
  BY CaptureFacts DEF Drained
<1>2. /\ UNCHANGED <<cycle, head, held, running, filled, write, read, irq, rxCompleted>>
      /\ UNCHANGED <<alive, calm, faults, news, stale>>
      /\ releaseUpTo' = releaseUpTo /\ restarts' = restarts /\ restarts' >= 0
      /\ pump' = [pump EXCEPT !.at = "gap"] /\ watch' = Proved(watch)
  BY CaptureFacts DEF Drained, PumpOnly, bus, dext
<1>3. pump' \in PumpType /\ pump'.total = pump.total
  BY <1>1, <1>2 DEF PumpType
<1>4. watch' \in WatchType
  <2>1. watch.gaps \in BOOLEAN /\ (~watch.gaps) \in BOOLEAN
    BY <1>1, Zenon DEF WatchType
  <2> QED BY <1>1, <1>2, <2>1 DEF Proved, WatchType
<1>5. /\ watch'.since = watch.since /\ watch'.at = watch.at
      /\ watch'.burst = watch.burst /\ watch'.restarts = watch.restarts
      /\ watch.disarmed => watch'.disarmed
  BY <1>1, <1>2 DEF Proved, WatchType
<1>6. watch.since # Empty
  BY <1>1, CaptureFacts DEF BurstInv
<1>7. BurstInv'
  BY <1>1, <1>2, <1>4, <1>5, <1>6, BurstKept
<1> QED BY <1>2, <1>3, <1>4, <1>7, WatchStepFrame

\* No gap that counts.
LEMMA NoGapKeeps ==
  ASSUME CaptureInv, NoGap
  PROVE  CaptureInv'
<1>1. pump \in PumpType /\ watch \in WatchType /\ pump.at = "gap" /\ cycle \in Nat
  BY CaptureFacts DEF NoGap
<1>2. /\ UNCHANGED <<cycle, head, held, running, filled, write, read, irq, rxCompleted>>
      /\ UNCHANGED <<alive, calm, faults, news, stale>>
      /\ releaseUpTo' = releaseUpTo /\ restarts' = restarts /\ restarts' >= 0
      /\ pump' = [pump EXCEPT !.at = "wedge"] /\ watch' = [watch EXCEPT !.worst = 0]
  BY CaptureFacts DEF NoGap, PumpOnly, bus, dext
<1>3. pump' \in PumpType /\ pump'.total = pump.total
  BY <1>1, <1>2 DEF PumpType
<1>4. /\ watch' \in WatchType
      /\ watch'.since = watch.since /\ watch'.at = watch.at
      /\ watch'.burst = watch.burst /\ watch'.restarts = watch.restarts
      /\ watch'.disarmed = watch.disarmed
  BY <1>1, <1>2 DEF WatchType
<1>5. watch.since # Empty
  BY <1>1, CaptureFacts DEF BurstInv
<1>6. BurstInv'
  BY <1>1, <1>2, <1>4, <1>5, BurstKept
<1> QED BY <1>2, <1>3, <1>4, <1>6, WatchStepFrame

\* How many restarts there can have been by a restart at the present time, by
\* how many there had been at the last one.
LEMMA RestartCounts ==
  ASSUME CaptureInv, watch.restarts > 0
  PROVE  /\ watch.since \in Nat /\ watch.at \in Nat /\ watch.at - watch.since \in Nat
         /\ cycle - watch.since \in Nat
         /\ (watch.at - watch.since) \div FloorCycles \in Nat
         /\ (cycle - watch.since) \div FloorCycles \in Nat
         /\ (watch.at - watch.since) \div FloorCycles
              <= (cycle - watch.since) \div FloorCycles
         /\ cycle - watch.at >= FloorCycles =>
              ((watch.at - watch.since) \div FloorCycles) + 1
                <= (cycle - watch.since) \div FloorCycles
<1>1. watch \in WatchType /\ cycle \in Nat /\ BurstInv
  BY CaptureFacts
<1>2. watch.since \in Nat /\ watch.since <= watch.at /\ watch.at \in Int
      /\ watch.at <= cycle
  BY <1>1 DEF BurstInv, WatchType
<1>3. /\ watch.at \in Nat /\ watch.at - watch.since \in Nat
      /\ cycle - watch.since \in Nat
      /\ watch.at - watch.since <= cycle - watch.since
      /\ cycle - watch.at >= FloorCycles =>
           (watch.at - watch.since) + FloorCycles <= cycle - watch.since
  BY <1>1, <1>2, CaptureAssumption
<1>4. FloorCycles \in Nat \ {0}
  BY CaptureAssumption
<1> QED BY <1>2, <1>3, <1>4, StretchesGrow

\* A restart for a gap starts a group of its own or is the second or third of
\* one.
LEMMA GapRestartKeeps ==
  ASSUME CaptureInv, GapRestart
  PROVE  CaptureInv'
<1> DEFINE b == Burst(cycle - watch.at)
<1>1. /\ pump \in PumpType /\ watch \in WatchType /\ pump.at = "gap" /\ cycle \in Nat
      /\ BurstInv /\ FloorCycles \in Nat \ {0}
  BY CaptureFacts, CaptureAssumption DEF GapRestart
<1>2. /\ UNCHANGED <<cycle, head, held, running, filled, write, read, irq, rxCompleted>>
      /\ UNCHANGED <<alive, calm, faults, news, stale>>
      /\ releaseUpTo' = 0 /\ restarts' = restarts - 1 /\ restarts' >= 0
      /\ pump' = [pump EXCEPT !.at = "stop"]
  BY CaptureFacts DEF GapRestart, Restart, dext
<1>3. /\ watch' = [watch EXCEPT !.worst = 0, !.at = cycle, !.have = FALSE,
                     !.burst = b, !.restarts = @ + 1]
      /\ b < 3 /\ ~watch.disarmed
  BY DEF GapRestart, Broken
<1>4. b = IF cycle - watch.at < FloorCycles THEN watch.burst + 1 ELSE 0
  BY DEF Burst
<1> HIDE DEF b
<1>5. b \in Nat
  BY <1>1, <1>4 DEF WatchType
<1>6. watch' \in WatchType
  <2>1. watch \in WatchType /\ cycle \in Int /\ FALSE \in BOOLEAN /\ 0 \in Nat
    BY <1>1
  <2>2. watch.restarts + 1 \in Nat
    BY <1>1 DEF WatchType
  <2> QED BY ONLY <1>3, <1>5, <2>1, <2>2 DEF WatchType
<1>7. /\ watch'.since = watch.since /\ watch'.at = cycle /\ watch'.burst = b
      /\ watch'.restarts = watch.restarts + 1 /\ watch'.disarmed = watch.disarmed
  BY <1>1, <1>3 DEF WatchType
<1>8. pump' \in PumpType /\ pump'.total = pump.total
  BY <1>1, <1>2 DEF PumpType
<1>9. watch.since \in Nat /\ watch.since <= cycle /\ cycle - watch.since \in Nat
  BY <1>1 DEF BurstInv, WatchType
<1>10. watch.restarts + 1 <= 3 * ((cycle - watch.since) \div FloorCycles) + b + 1
  <2>1. CASE watch.restarts = 0
    <3>1. (cycle - watch.since) \div FloorCycles \in Nat
      BY <1>1, <1>9, StretchesGrow
    <3> QED BY <1>5, <2>1, <3>1
  <2>2. CASE watch.restarts > 0
    <3> DEFINE p == (watch.at - watch.since) \div FloorCycles
               q == (cycle - watch.since) \div FloorCycles
    <3>1. /\ p \in Nat /\ q \in Nat /\ p <= q
          /\ cycle - watch.at >= FloorCycles => p + 1 <= q
      BY <2>2, RestartCounts
    <3>2. watch.restarts <= 3 * p + watch.burst + 1 /\ watch.burst <= 2
      BY <1>1, <1>3, <2>2 DEF BurstInv
    <3>3. watch.restarts \in Nat /\ watch.burst \in Nat /\ watch.at \in Int
      BY <1>1 DEF WatchType
    <3> HIDE DEF p, q
    <3>4. watch.restarts + 1 <= 3 * q + b + 1
      BY <1>1, <1>4, <3>1, <3>2, <3>3
    <3> QED BY <3>4 DEF q
  <2> QED BY <1>1, <2>1, <2>2 DEF WatchType
<1>11. BurstInv'
  <2>1. watch.restarts + 1 > 0 /\ watch.since # Empty /\ b <= 2
    BY <1>1, <1>3, <1>5, <1>9 DEF WatchType, Empty
  <2>2. (cycle - watch.since) \div FloorCycles \in Nat
    BY <1>1, <1>9, StretchesGrow
  <2>3. watch.restarts + 1 <= 3 * ((cycle - watch.since) \div FloorCycles) + 3
    BY <1>1, <1>5, <1>10, <2>1, <2>2 DEF WatchType
  <2>4. cycle' = cycle
    BY <1>2
  <2> QED BY <1>1, <1>7, <1>9, <1>10, <2>1, <2>3, <2>4 DEF BurstInv, WatchType
<1> QED BY <1>2, <1>6, <1>8, <1>11, WatchStepFrame

\* The third restart in a row is followed by none.
LEMMA DisarmKeeps ==
  ASSUME CaptureInv, Disarm
  PROVE  CaptureInv'
<1> DEFINE b == Burst(cycle - watch.at)
<1>1. /\ pump \in PumpType /\ watch \in WatchType /\ pump.at = "gap" /\ cycle \in Nat
      /\ BurstInv /\ FloorCycles \in Nat \ {0}
  BY CaptureFacts, CaptureAssumption DEF Disarm
<1>2. /\ UNCHANGED <<cycle, head, held, running, filled, write, read, irq, rxCompleted>>
      /\ UNCHANGED <<alive, calm, faults, news, stale>>
      /\ releaseUpTo' = releaseUpTo /\ restarts' = restarts /\ restarts' >= 0
      /\ pump' = [pump EXCEPT !.at = "wedge"]
  BY CaptureFacts DEF Disarm, PumpOnly, bus, dext
<1>3. /\ watch' = [watch EXCEPT !.worst = 0, !.at = cycle, !.disarmed = TRUE, !.burst = b]
      /\ b >= 3
  BY DEF Disarm
<1>4. b = IF cycle - watch.at < FloorCycles THEN watch.burst + 1 ELSE 0
  BY DEF Burst
<1> HIDE DEF b
<1>5. b \in Nat
  BY <1>1, <1>4 DEF WatchType
<1>6. watch' \in WatchType
  <2>1. watch \in WatchType /\ cycle \in Int /\ TRUE \in BOOLEAN /\ 0 \in Nat
    BY <1>1
  <2> QED BY ONLY <1>3, <1>5, <2>1 DEF WatchType
<1>7. /\ watch'.since = watch.since /\ watch'.at = cycle
      /\ watch'.restarts = watch.restarts /\ watch'.disarmed = TRUE
  BY <1>1, <1>3 DEF WatchType
<1>8. pump' \in PumpType /\ pump'.total = pump.total
  BY <1>1, <1>2 DEF PumpType
<1>9. watch.restarts > 0
  BY <1>1, <1>3, <1>4 DEF BurstInv, WatchType
<1>10. watch.restarts <= 3 * ((cycle - watch.since) \div FloorCycles) + 3
  <2> DEFINE p == (watch.at - watch.since) \div FloorCycles
             q == (cycle - watch.since) \div FloorCycles
  <2>1. p \in Nat /\ q \in Nat /\ p <= q
    BY <1>9, RestartCounts
  <2>2. watch.restarts <= 3 * p + 3 /\ watch.restarts \in Nat
    BY <1>1, <1>9 DEF BurstInv, WatchType
  <2> HIDE DEF p, q
  <2>3. watch.restarts <= 3 * q + 3
    BY <2>1, <2>2
  <2> QED BY <2>3 DEF q
<1>11. BurstInv'
  <2>1. watch.since \in Nat /\ watch.since # Empty /\ watch.since <= cycle
    BY <1>1, <1>9 DEF BurstInv, WatchType
  <2>2. cycle' = cycle
    BY <1>2
  <2> QED BY <1>1, <1>7, <1>9, <1>10, <2>1, <2>2 DEF BurstInv
<1> QED BY <1>2, <1>6, <1>8, <1>11, WatchStepFrame

\* The decisions to restart for other reasons, and a session that does
\* not start.
LEMMA StopKeeps ==
  ASSUME CaptureInv, WedgeRestart \/ RateRestart \/ SessionFails
  PROVE  CaptureInv'
<1>1. /\ pump \in PumpType /\ watch \in WatchType /\ cycle \in Nat /\ faults \in Nat
      /\ faults <= MaxFaults /\ restarts \in Nat /\ restarts <= MaxRestarts
      /\ releaseUpTo \in Nat
  BY CaptureFacts
<1>2. /\ UNCHANGED <<cycle, head, held, running, filled, write, read, irq, rxCompleted>>
      /\ UNCHANGED <<alive, calm, news, stale, watch>>
  BY DEF WedgeRestart, RateRestart, SessionFails, Restart, dext
<1>3. /\ releaseUpTo' \in Nat /\ faults' \in 0..MaxFaults /\ restarts' \in 0..MaxRestarts
  <2>1. CASE WedgeRestart
    BY <1>1, <2>1, CaptureAssumption DEF WedgeRestart, Restart
  <2>2. CASE RateRestart
    BY <1>1, <2>2, CaptureAssumption DEF RateRestart, Restart
  <2>3. CASE SessionFails
    BY <1>1, <2>3, CaptureAssumption DEF SessionFails
  <2> QED BY <2>1, <2>2, <2>3
<1>4. pump' \in PumpType /\ pump'.total = pump.total
  <2>1. CASE WedgeRestart
    <3>1. pump' = [pump EXCEPT !.at = "stop", !.wedges = pump.wedges + 1]
      BY <2>1 DEF WedgeRestart
    <3>2. pump.wedges + 1 \in Nat
      BY <1>1 DEF PumpType
    <3> QED BY ONLY <1>1, <3>1, <3>2 DEF PumpType
  <2>2. CASE RateRestart
    BY <1>1, <2>2 DEF RateRestart, PumpType
  <2>3. CASE SessionFails
    BY <1>1, <2>3 DEF SessionFails, PumpType
  <2> QED BY <2>1, <2>2, <2>3
<1>5. alive' \in BOOLEAN /\ news' \in BOOLEAN /\ stale' \in BOOLEAN /\ calm' \in Nat
  BY <1>2, CaptureFacts, Zenon
<1>6. watch.since # Empty
  BY CaptureFacts DEF WedgeRestart, RateRestart, SessionFails, BurstInv
<1>7. BurstInv' /\ watch' \in WatchType
  BY <1>1, <1>2, <1>6, BurstKept
<1> QED BY <1>2, <1>3, <1>4, <1>5, <1>7, PumpKeeps

\* The context is stopped; the ring and the cursors stay as they are.
LEMMA IsoStopKeeps ==
  ASSUME CaptureInv, IsoStop
  PROVE  CaptureInv'
<1>1. pump \in PumpType /\ cycle \in Nat
  BY CaptureFacts
<1>2. /\ UNCHANGED <<cycle, alive, head, held, calm, faults, releaseUpTo, restarts>>
      /\ UNCHANGED <<filled, write, read, rxCompleted, irq, news, stale, watch>>
      /\ pump' = [pump EXCEPT !.at = "start"]
  BY DEF IsoStop, bus
<1>3. /\ alive' \in BOOLEAN /\ running' \in BOOLEAN /\ irq' \in BOOLEAN
      /\ news' \in BOOLEAN /\ stale' \in BOOLEAN /\ watch' \in WatchType
  BY <1>2, CaptureFacts, Zenon DEF IsoStop
<1>4. pump' \in PumpType /\ pump'.total = pump.total /\ pump'.at = "start"
  BY <1>1, <1>2 DEF PumpType
<1>5. /\ cycle' \in 0..MaxCycles /\ head' \in Nat /\ held' \in [Slots -> Nat \cup {Empty}]
      /\ filled' \subseteq Slots /\ write' \in Nat /\ read' \in 0..write'
      /\ rxCompleted' \in Nat \cup {Empty} /\ releaseUpTo' \in Nat
      /\ calm' \in Nat /\ faults' \in 0..MaxFaults /\ restarts' \in 0..MaxRestarts
  BY <1>2, CaptureFacts, CaptureAssumption
<1>6. CaptureTypeOK'
  BY <1>3, <1>4, <1>5, Zenon DEF CaptureTypeOK, PumpType, WatchType
<1>7. CountInv'
  BY <1>2, <1>4, CaptureFacts DEF CountInv, StatusInv, Stored
<1>8. BurstInv'
  BY <1>2, <1>4, CaptureFacts, PlaceKept
<1> QED BY <1>6, <1>7, <1>8 DEF CaptureInv

\* The context starts over: no status is left set, but the ring, the page and
\* the pump keep what the session before left there.
LEMMA IsoStartKeeps ==
  ASSUME CaptureInv, IsoStartContinuous
  PROVE  CaptureInv'
<1>1. pump \in PumpType /\ cycle \in Nat
  BY CaptureFacts
<1>2. /\ UNCHANGED <<cycle, alive, held, calm, faults, releaseUpTo, restarts>>
      /\ UNCHANGED <<rxCompleted, irq, news, stale, watch>>
      /\ head' = 0 /\ filled' = {} /\ write' = 0 /\ read' = 0
      /\ pump' = [pump EXCEPT !.at = "settle", !.up = cycle]
  BY DEF IsoStartContinuous
<1>3. /\ alive' \in BOOLEAN /\ running' \in BOOLEAN /\ irq' \in BOOLEAN
      /\ news' \in BOOLEAN /\ stale' \in BOOLEAN /\ watch' \in WatchType
  BY <1>2, CaptureFacts, Zenon DEF IsoStartContinuous
<1>4. pump' \in PumpType /\ pump'.total = pump.total /\ pump'.at = "settle"
  BY <1>1, <1>2 DEF PumpType
<1>5. /\ cycle' \in 0..MaxCycles /\ head' \in Nat /\ held' \in [Slots -> Nat \cup {Empty}]
      /\ filled' \subseteq Slots /\ write' \in Nat /\ read' \in 0..write'
      /\ rxCompleted' \in Nat \cup {Empty} /\ releaseUpTo' \in Nat
      /\ calm' \in Nat /\ faults' \in 0..MaxFaults /\ restarts' \in 0..MaxRestarts
  BY <1>2, CaptureFacts, CaptureAssumption
<1>6. CaptureTypeOK'
  BY <1>3, <1>4, <1>5, Zenon DEF CaptureTypeOK, PumpType, WatchType
<1>7. Stored(pump.total) /\ Stored(rxCompleted)
  BY CaptureFacts DEF CountInv
<1>8. CountInv'
  BY <1>2, <1>4, <1>7, CaptureAssumption DEF CountInv, StatusInv, Stored
<1>9. BurstInv'
  BY <1>2, <1>4, CaptureFacts, PlaceKept
<1> QED BY <1>6, <1>8, <1>9 DEF CaptureInv

\* session_start returns; the first time, the daemon's clock of restarts starts.
LEMMA SessionUpKeeps ==
  ASSUME CaptureInv, SessionUp
  PROVE  CaptureInv'
<1> DEFINE u == IF watch.since = Empty THEN cycle ELSE watch.since
<1>1. pump \in PumpType /\ watch \in WatchType /\ cycle \in Nat /\ BurstInv
  BY CaptureFacts
<1>2. /\ UNCHANGED <<cycle, head, held, running, filled, write, read, irq, rxCompleted>>
      /\ UNCHANGED <<alive, calm, faults, news, releaseUpTo, restarts>>
      /\ pump' = [pump EXCEPT !.at = "tick", !.consumed = 0, !.progress = cycle]
      /\ watch' = [watch EXCEPT !.since = u]
  BY DEF SessionUp, PumpOnly, bus, dext
<1>3. u \in Nat /\ u <= cycle /\ (watch.since = Empty \/ u = watch.since)
  BY <1>1 DEF WatchType, BurstInv
<1> HIDE DEF u
<1>4. pump' \in PumpType /\ pump'.total = pump.total
  BY <1>1, <1>2 DEF PumpType
<1>5. /\ watch' \in WatchType /\ watch'.since = u /\ watch'.at = watch.at
      /\ watch'.burst = watch.burst /\ watch'.restarts = watch.restarts
      /\ watch'.disarmed = watch.disarmed
  BY <1>1, <1>2, <1>3 DEF WatchType
<1>6. BurstInv'
  <2>1. CASE watch.since = Empty
    <3>1. watch.restarts = 0 /\ u # Empty /\ cycle' = cycle
      BY <1>1, <1>2, <1>3, <2>1 DEF BurstInv, Empty
    <3> QED BY <1>1, <1>3, <1>5, <3>1 DEF BurstInv
  <2>2. CASE u = watch.since
    <3>1. u # Empty /\ cycle' = cycle
      BY <1>2, <1>3 DEF Empty
    <3> QED BY <1>1, <1>5, <2>2, <3>1, BurstKept
  <2> QED BY <1>3, <2>1, <2>2
<1>7. alive' \in BOOLEAN /\ news' \in BOOLEAN /\ stale' \in BOOLEAN /\ calm' \in Nat
  BY <1>2, CaptureFacts, Zenon DEF SessionUp
<1>8. releaseUpTo' \in Nat /\ faults' \in 0..MaxFaults /\ restarts' \in 0..MaxRestarts
  BY <1>2, CaptureFacts, CaptureAssumption
<1> QED BY <1>2, <1>4, <1>5, <1>6, <1>7, <1>8, PumpKeeps

\* Another daemon: fresh records, the dext as the dead one left it.
LEMMA CrashKeeps ==
  ASSUME CaptureInv, DaemonCrash
  PROVE  CaptureInv'
<1>1. /\ UNCHANGED <<cycle, head, held, running, filled, write, read, irq, rxCompleted>>
      /\ UNCHANGED <<alive, stale, releaseUpTo>>
      /\ pump' = FreshPump /\ watch' = FreshWatch(FALSE) /\ calm' = 0
  BY DEF DaemonCrash
<1>2. pump' \in PumpType /\ pump'.total = 0 /\ pump'.at = "start"
  BY <1>1 DEF FreshPump, PumpType
<1>3. watch' \in WatchType
  BY <1>1, CaptureAssumption DEF FreshWatch, WatchType
<1>4. BurstInv'
  BY <1>1, <1>2, CaptureFacts, CaptureAssumption DEF FreshWatch, BurstInv, Empty
<1>5. alive' \in BOOLEAN /\ news' \in BOOLEAN /\ stale' \in BOOLEAN
  BY <1>1, CaptureFacts, Zenon DEF DaemonCrash
<1>6. /\ releaseUpTo' \in Nat /\ calm' \in Nat /\ faults' \in 0..MaxFaults
      /\ restarts' \in 0..MaxRestarts
  BY <1>1, CaptureFacts, CaptureAssumption DEF DaemonCrash
<1> QED BY <1>1, <1>2, <1>3, <1>4, <1>5, <1>6, PumpKeeps

\* The capture drain starts in the inductive invariant.
LEMMA CaptureInitially == CaptureInit => CaptureInv
<1> SUFFICES ASSUME CaptureInit PROVE CaptureInv
  OBVIOUS
<1>1. /\ alive \in BOOLEAN /\ running \in BOOLEAN /\ irq \in BOOLEAN
      /\ news \in BOOLEAN /\ stale \in BOOLEAN
  BY Zenon DEF CaptureInit
<1>2. PICK armed \in BOOLEAN : watch = FreshWatch(armed)
  BY DEF CaptureInit
<1>3. watch \in WatchType
  BY <1>2, CaptureAssumption DEF FreshWatch, WatchType
<1>4. pump \in PumpType
  BY DEF CaptureInit, FreshPump, PumpType
<1>5. /\ cycle \in 0..MaxCycles /\ head \in Nat /\ held \in [Slots -> Nat \cup {Empty}]
      /\ filled \subseteq Slots /\ write \in Nat /\ read \in 0..write
      /\ rxCompleted \in Nat \cup {Empty} /\ releaseUpTo \in Nat
      /\ calm \in Nat /\ faults \in 0..MaxFaults /\ restarts \in 0..MaxRestarts
  BY CaptureAssumption DEF CaptureInit
<1>6. CaptureTypeOK
  BY <1>1, <1>3, <1>4, <1>5, Zenon DEF CaptureTypeOK, PumpType, WatchType
<1>7. CountInv
  BY CaptureAssumption DEF CaptureInit, FreshPump, CountInv, StatusInv, Stored, Empty
<1>8. BurstInv
  BY <1>2, CaptureAssumption DEF CaptureInit, FreshPump, FreshWatch, BurstInv, Empty
<1> QED BY <1>6, <1>7, <1>8 DEF CaptureInv

\* Every step of the capture drain keeps the inductive invariant.
LEMMA CaptureStep == CaptureInv /\ [CaptureNext]_captureVars => CaptureInv'
<1> SUFFICES ASSUME CaptureInv, [CaptureNext]_captureVars PROVE CaptureInv'
  OBVIOUS
<1>1. CASE \E packet \in BOOLEAN : Cycle(packet)
  BY <1>1, CycleKeeps
<1>2. CASE Turn
  BY <1>2, TurnKeeps
<1>3. CASE Interrupt
  BY <1>3, InterruptKeeps
<1>4. CASE Tick
  BY <1>4, PumpDextKeeps, TickKeeps, DrainKeeps, DrainedKeeps DEF Tick
<1>5. CASE Watches
  BY <1>5, GapRestartKeeps, DisarmKeeps, NoGapKeeps, TickKeeps, StopKeeps DEF Watches
<1>6. CASE Session
  BY <1>6, StopKeeps, IsoStopKeeps, IsoStartKeeps, SessionUpKeeps, CrashKeeps DEF Session
<1>7. CASE UNCHANGED captureVars
  <2>1. UNCHANGED <<cycle, alive, running, head, held, filled, write, read, irq,
                    rxCompleted, news, releaseUpTo, pump, watch, calm, stale, faults,
                    restarts>>
    BY <1>7 DEF captureVars, bus, dext
  <2> QED BY <2>1 DEF CaptureInv, CaptureTypeOK, CountInv, StatusInv, Stored, BurstInv
<1> QED BY <1>1, <1>2, <1>3, <1>4, <1>5, <1>6, <1>7 DEF CaptureNext

\* The inductive invariant of the capture drain holds throughout.
THEOREM CaptureInvariant == CaptureSpec => []CaptureInv
BY CaptureInitially, CaptureStep, PTL DEF CaptureSpec

\* The drain's variables keep their types, which takes that every packet the pump
\* looks at was stored: the count it goes by may be an earlier session's.
THEOREM CaptureTypeCorrect == CaptureSpec => []CaptureTypeOK
<1>1. CaptureInv => CaptureTypeOK
  BY DEF CaptureInv
<1> QED BY <1>1, CaptureInvariant, PTL

\* uf_iso_completion and IsoCompletedCount never count a packet the controller
\* has not stored, for every size of the ring and every cursor handed to them.
THEOREM CaptureCountsOnlyStored == CaptureSpec => []CountsOnlyStored
<1>1. CaptureInv => CountsOnlyStored
  BY DEF CaptureInv, CountInv, CountsOnlyStored
<1> QED BY <1>1, CaptureInvariant, PTL

\* The pump's continuity watch does not restart the stream for ever: at most
\* three times for every kCycleRestartFloorSec the daemon has been up.
LEMMA BurstBounds == CaptureInv => FlappingStops
<1> SUFFICES ASSUME CaptureInv PROVE FlappingStops
  OBVIOUS
<1>1. /\ watch \in WatchType /\ cycle \in Nat /\ BurstInv
      /\ FloorCycles \in Nat \ {0}
  BY CaptureFacts, CaptureAssumption
<1> DEFINE q == (cycle - watch.since) \div FloorCycles
<1>2. q \in Nat
  <2>1. cycle - watch.since \in Nat
    BY <1>1 DEF WatchType, BurstInv, Empty
  <2> QED BY <1>1, <2>1, StretchesGrow
<1>3. watch.restarts <= 3 * (1 + q)
  <2>1. CASE watch.restarts = 0
    <3> HIDE DEF q
    <3> QED BY <1>2, <2>1
  <2>2. CASE watch.restarts > 0
    <3> DEFINE p == (watch.at - watch.since) \div FloorCycles
    <3>1. p \in Nat /\ p <= q
      BY <2>2, RestartCounts
    <3>2. watch.restarts <= 3 * p + 3 /\ watch.restarts \in Nat
      BY <1>1, <2>2 DEF BurstInv, WatchType
    <3> HIDE DEF p, q
    <3> QED BY <1>2, <3>1, <3>2
  <2> QED BY <1>1, <2>1, <2>2 DEF WatchType
<1> QED BY <1>3 DEF FlappingStops

\* ... in every behaviour of the drain.
THEOREM CaptureFlappingStops == CaptureSpec => []FlappingStops
BY BurstBounds, CaptureInvariant, PTL

-----------------------------------------------------------------------------
(* The capture drain in step with the controller.                          *)

\* Whether a packet raises an interrupt is a matter of its slot.
LEMMA SameInterrupt ==
  ASSUME NEW a \in Nat, NEW b \in Nat, a % Ring = b % Ring
  PROVE  a % kIrqEvery = b % kIrqEvery
<1>0. Ring \in Nat \ {0} /\ kIrqEvery \in Nat \ {0} /\ Ring % kIrqEvery = 0
  BY CaptureAssumption
<1> DEFINE p == a \div Ring
           q == b \div Ring
           r == a % Ring
           m == Ring \div kIrqEvery
           u == r \div kIrqEvery
           v == r % kIrqEvery
<1>1. /\ p \in Int /\ q \in Int /\ r \in 0..(Ring - 1) /\ a = Ring * p + r /\ b = Ring * q + r
  BY <1>0, RemainderOf
<1>2. m \in Int /\ Ring = kIrqEvery * m
  BY <1>0, RemainderOf
<1>3. u \in Int /\ v \in 0..(kIrqEvery - 1) /\ r = kIrqEvery * u + v
  BY <1>0, <1>1, RemainderOf
<1> HIDE DEF p, q, r, m, u, v
<1>4. m * p + u \in Int /\ m * q + u \in Int
  BY <1>1, <1>2, <1>3
<1>5. a = kIrqEvery * (m * p + u) + v
  BY <1>0, <1>1, <1>2, <1>3
<1>6. b = kIrqEvery * (m * q + u) + v
  BY <1>0, <1>1, <1>2, <1>3
<1> DEFINE x == m * p + u
           y == m * q + u
<1> HIDE DEF x, y
<1>7. a % kIrqEvery = v
  BY <1>0, <1>3, <1>4, <1>5, RemainderIs DEF x
<1>8. b % kIrqEvery = v
  BY <1>0, <1>3, <1>4, <1>6, RemainderIs DEF y
<1> QED BY <1>7, <1>8

\* The cursors of a drain that follows the controller, and how far apart they are.
LEMMA FollowFacts ==
  ASSUME CaptureInv, NEW at \in 0..head, RingFollows(at), DataFollows(at), PumpFollows(at)
  PROVE  /\ at \in Nat /\ head \in Nat /\ cycle \in Nat /\ write \in Nat \ {0} /\ read \in Nat
         /\ releaseUpTo \in Nat /\ pump.consumed \in Nat /\ pump.total \in Nat
         /\ kIrqEvery \in Nat \ {0} /\ Ring \in Nat \ {0} /\ 3 * kIrqEvery <= Ring
         /\ write <= at /\ at <= write + kIrqEvery /\ (~irq => at < write + kIrqEvery)
         /\ pump.consumed <= write /\ at - kIrqEvery <= pump.consumed
         /\ read <= pump.consumed /\ write - 2 * kIrqEvery <= read
         /\ releaseUpTo <= pump.consumed /\ write - 2 * kIrqEvery <= releaseUpTo
         /\ at - read <= Ring
<1>1. /\ at \in Nat /\ head \in Nat /\ cycle \in Nat /\ write \in Nat \ {0} /\ read \in Nat
      /\ releaseUpTo \in Nat /\ kIrqEvery \in Nat \ {0} /\ Ring \in Nat \ {0}
      /\ 3 * kIrqEvery <= Ring
  BY CaptureFacts, CaptureAssumption, LapAssumption DEF RingFollows
<1>2. pump.consumed \in Nat /\ pump.total \in Nat
  BY CaptureFacts DEF PumpType
<1> DEFINE c == pump.consumed
<1>3. write <= at /\ at <= write + kIrqEvery /\ (~irq => at < write + kIrqEvery)
  <2>1. CASE irq
    BY <1>1, <2>1 DEF RingFollows
  <2>2. CASE ~irq
    BY <1>1, <2>2 DEF RingFollows
  <2> QED BY <2>1, <2>2
<1>4. c <= write /\ at - kIrqEvery <= c
  BY <1>1, <1>2 DEF DataFollows
<1>5. /\ read <= c /\ write - 2 * kIrqEvery <= read
      /\ releaseUpTo <= c /\ write - 2 * kIrqEvery <= releaseUpTo
  BY <1>1, <1>2 DEF PumpFollows
<1> HIDE DEF c
<1>6. at - read <= Ring
  BY <1>1, <1>3, <1>5
<1> QED BY <1>1, <1>2, <1>3, <1>4, <1>5, <1>6 DEF c

\* A packet comes in and everybody has kept up: the controller is one further.
LEMMA FollowCycle ==
  ASSUME CaptureInv, NEW at \in 0..head, RingFollows(at), DataFollows(at), PumpFollows(at),
         Cycle(TRUE), KeptUp
  PROVE  at + 1 \in 0..head' /\ (RingFollows(at + 1) /\ DataFollows(at + 1) /\ PumpFollows(at + 1))'
<1>1. /\ ~irq /\ ~news /\ pump.at = "wait" /\ pump.consumed = write
      /\ releaseUpTo >= write - kIrqEvery
  BY DEF KeptUp, PumpFollows
<1>2. /\ cycle' = cycle + 1 /\ head' = head + 1 /\ held' = [held EXCEPT ![head % Ring] = cycle]
      /\ filled' = filled \cup {head % Ring}
      /\ irq' = (irq \/ head % kIrqEvery = 0)
      /\ UNCHANGED <<running, write, read, rxCompleted, news, releaseUpTo, pump, watch>>
  BY DEF Cycle
<1> DEFINE c == pump.consumed
<1>3. /\ at \in Nat /\ head \in Nat /\ cycle \in Nat /\ write \in Nat \ {0} /\ read \in Nat
      /\ releaseUpTo \in Nat /\ c \in Nat
      /\ kIrqEvery \in Nat \ {0} /\ Ring \in Nat \ {0} /\ 3 * kIrqEvery <= Ring
      /\ write <= at /\ at < write + kIrqEvery /\ c = write
      /\ read <= c /\ write - 2 * kIrqEvery <= read
      /\ releaseUpTo <= c /\ write - 2 * kIrqEvery <= releaseUpTo
  BY <1>1, FollowFacts
<1>4. at % Ring = head % Ring /\ (at + 1) % Ring = head' % Ring
  <2>1. at % Ring = head % Ring
    BY DEF RingFollows
  <2> QED BY <1>2, <1>3, <2>1, SameSlotNext
<1>5. irq' <=> at = write + kIrqEvery - 1
  <2>1. head % kIrqEvery = at % kIrqEvery
    BY <1>3, <1>4, SameInterrupt
  <2> DEFINE g == at - write
  <2>2. /\ g \in 0..(kIrqEvery - 1) /\ at = write + g
        /\ write \in Int /\ (write - 1) % kIrqEvery = 0
    BY <1>3 DEF RingFollows
  <2> HIDE DEF g
  <2>3. (write + g) % kIrqEvery = 0 <=> g = kIrqEvery - 1
    BY <1>3, <2>2, RaisesAt
  <2>4. at % kIrqEvery = 0 <=> at = write + kIrqEvery - 1
    BY <1>3, <2>2, <2>3
  <2> QED BY <1>1, <1>2, <2>1, <2>4, Zenon
<1>6. filled' = {k % Ring : k \in read..((at + 1) - 1)}
  <2>1. filled = {k % Ring : k \in read..(at - 1)}
    BY DEF RingFollows
  <2>2. \A k : k \in read..((at + 1) - 1) <=> k \in read..(at - 1) \/ k = at
    <3> HIDE DEF c
    <3> QED BY <1>3
  <2> QED BY <1>2, <1>4, <2>1, <2>2
<1>7. RingFollows(at + 1)'
  <2>1. IF irq' THEN at + 1 = write + kIrqEvery ELSE at + 1 \in write..(write + kIrqEvery - 1)
    <3> HIDE DEF c
    <3>1. CASE irq'
      <4>1. at = write + kIrqEvery - 1
        BY <1>5, <3>1
      <4>2. at + 1 = write + kIrqEvery
        BY <1>3, <4>1
      <4> QED BY <3>1, <4>2
    <3>2. CASE ~irq'
      <4>1. at # write + kIrqEvery - 1
        BY <1>5, <3>2
      <4>2. at + 1 \in write..(write + kIrqEvery - 1)
        BY <1>3, <4>1
      <4> QED BY <3>2, <4>2
    <3> QED BY <3>1, <3>2
  <2> QED BY <1>2, <1>4, <1>6, <2>1, Zenon DEF RingFollows
<1>8. DataFollows(at + 1)'
  <2>1. c \in ((at + 1) - kIrqEvery)..write
    BY <1>3
  <2>2. ASSUME NEW k \in c..((at + 1) - 1)
        PROVE  held'[k % Ring] = cycle' - ((at + 1) - k)
    <3>1. k \in Nat /\ k % Ring \in Slots /\ held \in [Slots -> Nat \cup {Empty}]
      <4>1. k \in Nat
        BY <1>3
      <4> QED BY <4>1, SlotInRing, CaptureFacts
    <3>2. CASE k = at
      <4>1. held'[k % Ring] = cycle
        BY <1>2, <1>4, <3>1, <3>2
      <4> QED BY <1>2, <1>3, <3>2, <4>1
    <3>3. CASE k # at
      <4>1. k \in c..(at - 1) /\ k < at /\ at - k < Ring
        <5> HIDE DEF c
        <5> QED BY <1>3, <3>3
      <4>2. k % Ring # head % Ring
        <5> SUFFICES ASSUME at % Ring = k % Ring PROVE FALSE
          BY <1>4
        <5>1. at \in Nat /\ k \in Nat /\ Ring \in Nat \ {0} /\ k < at
          BY <1>3, <3>1, <4>1
        <5>2. at - k >= Ring
          BY ONLY <5>1, at % Ring = k % Ring, LapDistinct
        <5> QED BY <4>1, <5>1, <5>2
      <4>3. held'[k % Ring] = held[k % Ring]
        BY <1>2, <3>1, <4>2
      <4>4. held[k % Ring] = cycle - (at - k)
        BY <4>1 DEF DataFollows
      <4>5. cycle' - ((at + 1) - k) = cycle - (at - k)
        BY <1>2, <1>3, <3>1
      <4> QED BY <4>3, <4>4, <4>5
    <3> QED BY <3>2, <3>3
  <2>3. watch.have /\ watch.last = cycle' - ((at + 1) - c) - 1
    <3>1. watch.have /\ watch.last = cycle - (at - c) - 1
      BY DEF DataFollows
    <3>2. cycle' - ((at + 1) - c) - 1 = cycle - (at - c) - 1
      <4> HIDE DEF c
      <4> QED BY <1>2, <1>3
    <3> QED BY <3>1, <3>2
  <2> QED BY <1>2, <2>1, <2>2, <2>3 DEF DataFollows
<1>9. PumpFollows(at + 1)'
  <2>1. ~news' /\ pump' = pump /\ UNCHANGED <<read, releaseUpTo, write>>
    BY <1>1, <1>2
  <2> QED BY <1>1, <2>1, Zenon DEF PumpFollows
<1>10. at + 1 \in 0..head'
  BY <1>2, <1>3, FollowFacts
<1> QED BY <1>7, <1>8, <1>9, <1>10

\* The interrupt counts every packet there is, and re-arms the slots that have been
\* drained, none of which the controller has come back to.
LEMMA FollowInterrupt ==
  ASSUME CaptureInv, NEW at \in 0..head, RingFollows(at), DataFollows(at), PumpFollows(at),
         Interrupt
  PROVE  (RingFollows(at) /\ DataFollows(at) /\ PumpFollows(at))'
<1>1. /\ irq /\ irq' = FALSE /\ news' = TRUE /\ rxCompleted' = write'
      /\ read' = IF releaseUpTo = 0 THEN read ELSE ReleaseTo(releaseUpTo)
      /\ filled' = Rearmed(read') /\ write' = CompletedTo(read', filled')
      /\ UNCHANGED <<cycle, head, held, running, releaseUpTo, pump, watch>>
  BY DEF Interrupt, bus, RingFollows
<1>2. /\ at = write + kIrqEvery /\ pump.consumed = write /\ releaseUpTo >= write - kIrqEvery
  BY <1>1 DEF PumpFollows, RingFollows
<1>3. /\ at \in Nat /\ write \in Nat \ {0} /\ read \in Nat /\ releaseUpTo \in Nat
      /\ kIrqEvery \in Nat \ {0} /\ Ring \in Nat \ {0} /\ 3 * kIrqEvery <= Ring
      /\ read <= write /\ write - 2 * kIrqEvery <= read /\ releaseUpTo <= write
      /\ at - read <= Ring
  BY <1>2, FollowFacts
<1>4. read' \in Nat /\ read <= read' /\ releaseUpTo <= read' /\ read' <= write
  <2>1. CASE releaseUpTo = 0
    BY <1>1, <1>3, <2>1
  <2>2. CASE releaseUpTo # 0
    <3> DEFINE m == Min({releaseUpTo, write})
    <3>1. m = releaseUpTo
      <4>1. m = IF releaseUpTo <= write THEN releaseUpTo ELSE write
        <5>1. releaseUpTo \in Int /\ write \in Int
          BY <1>3
        <5> QED BY <5>1, MaxMinOfTwo
      <4> QED BY <1>3, <4>1
    <3> HIDE DEF m
    <3>2. Max({read, releaseUpTo}) = IF read >= releaseUpTo THEN read ELSE releaseUpTo
      BY <1>3, MaxMinOfTwo
    <3>3. read' = Max({read, releaseUpTo})
      BY <1>1, <2>2, <3>1 DEF ReleaseTo, m
    <3> QED BY <1>3, <3>2, <3>3
  <2> QED BY <2>1, <2>2
<1> DEFINE to == read'
<1>4a. /\ to \in Nat /\ read \in Nat /\ at \in Nat /\ write \in Nat /\ Ring \in Nat \ {0}
       /\ read <= to /\ to <= write /\ write <= at /\ at - read <= Ring
       /\ filled' = Rearmed(to) /\ write' = CompletedTo(to, filled')
  BY <1>1, <1>2, <1>3, <1>4
<1> HIDE DEF to
<1>5. filled' = {k % Ring : k \in to..(at - 1)}
  <2>1. filled = {k % Ring : k \in read..(at - 1)}
    BY DEF RingFollows
  <2>2. \A k \in read..(at - 1) : k \in read..(to - 1) \/ k \in to..(at - 1)
    BY <1>4a
  <2>3. \A k \in to..(at - 1) : k \in read..(at - 1)
    BY <1>4a
  <2>4. ASSUME NEW k \in to..(at - 1), NEW j \in read..(to - 1), k % Ring = j % Ring
        PROVE  FALSE
    <3>1. k \in Nat /\ j \in Nat /\ j < k /\ k - j < Ring
      BY <1>4a
    <3>2. k - j >= Ring
      BY <1>4a, <2>4, <3>1, LapDistinct
    <3> QED BY <1>4a, <3>1, <3>2
  <2>5. filled' = filled \ {k % Ring : k \in read..(to - 1)}
    BY <1>4a DEF Rearmed
  <2> QED BY <2>1, <2>2, <2>3, <2>4, <2>5
<1>6. write' = at
  <2> DEFINE S == {v \in write..(to + Ring) : \A k \in write..(v - 1) : k % Ring \in filled'}
             v == Max(S)
  <2>1. at \in S
    <3>1. at \in write..(to + Ring)
      BY <1>4a
    <3>2. \A k \in write..(at - 1) : k \in to..(at - 1)
      BY <1>4a
    <3> QED BY <1>5, <3>1, <3>2
  <2>2. S \subseteq 0..(to + Ring) /\ to + Ring \in Nat
    BY <1>4a
  <2>3. v \in S /\ at <= v
    <3> HIDE DEF S
    <3> QED BY <2>1, <2>2, MaxOfBounded
  <2>4. v \in write..(to + Ring) /\ \A k \in write..(v - 1) : k % Ring \in filled'
    BY <2>3
  <2> HIDE DEF v, S
  <2>5. ~(at < v)
    <3> SUFFICES ASSUME at < v PROVE FALSE
      OBVIOUS
    <3>1. at \in write..(v - 1)
      BY <1>4a, <2>4
    <3>2. PICK k \in to..(at - 1) : k % Ring = at % Ring
      BY <1>5, <2>4, <3>1
    <3>3. k \in Nat /\ k < at
      BY <1>4a
    <3>4. at - k >= Ring
      BY <1>4a, <3>2, <3>3, LapDistinct
    <3> QED BY <1>4a, <2>4, <3>3, <3>4
  <2>6. v = at
    BY <1>4a, <2>3, <2>4, <2>5
  <2> QED BY <1>4a, <2>6 DEF CompletedTo, v, S
<1>7. RingFollows(at)'
  <2>1. (write' - 1) % kIrqEvery = 0
    <3> DEFINE z == write - 1
    <3>1. z \in Int /\ z % kIrqEvery = 0 /\ write' - 1 = z + kIrqEvery
      BY <1>2, <1>3, <1>6 DEF RingFollows
    <3> HIDE DEF z
    <3>2. (z + kIrqEvery) % kIrqEvery = 0
      BY <1>3, <3>1, PeriodLater
    <3> QED BY <3>1, <3>2
  <2>2. at \in write'..(write' + kIrqEvery - 1) /\ write' > 0
    BY <1>2, <1>3, <1>6
  <2>3. running /\ at % Ring = head % Ring
    BY DEF RingFollows
  <2> QED BY <1>1, <1>5, <2>1, <2>2, <2>3, Zenon DEF RingFollows, to
<1>8. DataFollows(at)'
  <2>1. pump.consumed \in (at - kIrqEvery)..write'
    BY <1>2, <1>3, <1>6
  <2> QED BY <1>1, <2>1 DEF DataFollows
<1>9. PumpFollows(at)'
  <2>1. {read', releaseUpTo} \subseteq (write' - 2 * kIrqEvery)..pump.consumed
    BY <1>2, <1>3, <1>4, <1>6
  <2>2. pump.at \in {"store", "request", "drain"} => pump.total <= write'
    <3>1. pump.total \in Nat /\ (pump.at \in {"store", "request", "drain"} => pump.total <= write)
      BY FollowFacts DEF PumpFollows
    <3> DEFINE t == pump.total
    <3>2. t \in Nat /\ t <= write => t <= write'
      <4> HIDE DEF t
      <4> QED BY <1>2, <1>3, <1>6
    <3> QED BY <3>1, <3>2
  <2>3. pump.at \in {"tick", "store", "request", "drain", "gap", "wedge", "wait"}
    BY DEF PumpFollows
  <2> QED BY <1>1, <1>6, <2>1, <2>2, <2>3, Zenon DEF PumpFollows
<1> QED BY <1>7, <1>8, <1>9

\* A step of the pump that drains nothing leaves the ring and the data as they were.
LEMMA FollowKept ==
  ASSUME NEW at, RingFollows(at), DataFollows(at),
         UNCHANGED <<running, head, rxCompleted, write, filled, read, irq, held, cycle>>,
         pump'.consumed = pump.consumed, watch'.have = watch.have, watch'.last = watch.last
  PROVE  RingFollows(at)' /\ DataFollows(at)'
BY Zenon DEF RingFollows, DataFollows

\* The tick up to the drain, and the end of it: the pump moves along.
LEMMA FollowTick ==
  ASSUME CaptureInv, NEW at \in 0..head, RingFollows(at), DataFollows(at), PumpFollows(at),
         ReadStatus \/ StoreControl \/ NoRequest \/ Wake \/ Progress \/ NoProgress
           \/ Drained \/ Disarm \/ NoGap
  PROVE  (RingFollows(at) /\ DataFollows(at) /\ PumpFollows(at))'
<1> DEFINE Numbers ==
             /\ UNCHANGED <<cycle, head, held, running, filled, write, read, irq, rxCompleted>>
             /\ pump'.consumed = pump.consumed
             /\ watch'.have = watch.have /\ watch'.last = watch.last
<1>1. pump \in PumpType /\ watch \in WatchType
  BY CaptureFacts
<1>2. /\ write \in Nat \ {0} /\ releaseUpTo \in Nat /\ pump.consumed \in Nat
      /\ pump.total \in Nat /\ kIrqEvery \in Nat \ {0}
      /\ pump.consumed <= write /\ at - kIrqEvery <= pump.consumed /\ write <= at /\ at \in Nat
      /\ write - 2 * kIrqEvery <= releaseUpTo /\ releaseUpTo <= pump.consumed
      /\ rxCompleted = write
  BY FollowFacts DEF RingFollows
<1>3. write - kIrqEvery <= pump.consumed
  <2> DEFINE c == pump.consumed
  <2>1. c \in Nat /\ at - kIrqEvery <= c
    BY <1>2
  <2> HIDE DEF c
  <2>2. write - kIrqEvery <= c
    BY <1>2, <2>1
  <2> QED BY <2>2 DEF c
<1>4. CASE ReadStatus
  <2>1. Numbers /\ UNCHANGED <<news, releaseUpTo>>
    BY <1>1, <1>4 DEF ReadStatus, PumpOnly, bus, dext, PumpType
  <2>2. pump'.at = "store" /\ pump'.total = write
    BY <1>1, <1>2, <1>4 DEF ReadStatus, PumpType
  <2>3. write <= write
    BY <1>2
  <2>4. PumpFollows(at)'
    BY <2>1, <2>2, <2>3, Zenon DEF PumpFollows
  <2> QED BY <2>1, <2>4, FollowKept
<1>5. CASE StoreControl
  <2>1. Numbers /\ UNCHANGED news
    BY <1>1, <1>5 DEF StoreControl, PumpOnly, bus, dext, PumpType
  <2>2. /\ pump.at = "store" /\ pump'.at = "request" /\ pump'.total = pump.total
        /\ releaseUpTo' = pump.consumed
    BY <1>1, <1>5 DEF StoreControl, PumpType
  <2>3. {read', releaseUpTo'} \subseteq (write - 2 * kIrqEvery)..pump.consumed
    BY <1>2, <1>3, <2>1, <2>2 DEF PumpFollows
  <2>4. irq' => ~news' /\ pump'.consumed = write /\ releaseUpTo' >= write - kIrqEvery
    BY <1>3, <2>1, <2>2 DEF PumpFollows
  <2>5. releaseUpTo' >= write - kIrqEvery
    BY <1>2, <1>3, <2>2
  <2>6. PumpFollows(at)'
    BY <2>1, <2>2, <2>3, <2>4, <2>5, Zenon DEF PumpFollows
  <2> QED BY <2>1, <2>6, FollowKept
<1>6. CASE NoRequest
  <2>1. Numbers /\ UNCHANGED <<news, releaseUpTo>>
    BY <1>1, <1>6 DEF NoRequest, PumpOnly, bus, dext, PumpType
  <2>2. pump.at = "request" /\ pump'.at = "drain" /\ pump'.total = pump.total
    BY <1>1, <1>6 DEF NoRequest, PumpType
  <2>3. PumpFollows(at)'
    BY <2>1, <2>2, Zenon DEF PumpFollows
  <2> QED BY <2>1, <2>3, FollowKept
<1>7. CASE Wake
  <2>1. Numbers /\ UNCHANGED releaseUpTo /\ news' = FALSE
    BY <1>1, <1>7 DEF Wake, bus, PumpType
  <2>2. pump.at = "wait" /\ pump'.at = "tick" /\ pump'.total = pump.total
    BY <1>1, <1>7 DEF Wake, PumpType
  <2>3. PumpFollows(at)'
    BY <2>1, <2>2, Zenon DEF PumpFollows
  <2> QED BY <2>1, <2>3, FollowKept
<1>8. CASE Progress \/ NoProgress
  <2>1. Numbers /\ UNCHANGED <<news, releaseUpTo>>
    BY <1>1, <1>8 DEF Progress, NoProgress, PumpOnly, bus, dext, PumpType
  <2>2. pump.at = "wedge" /\ pump'.at = "wait" /\ pump'.total = pump.total
    BY <1>1, <1>8 DEF Progress, NoProgress, PumpType
  <2>3. PumpFollows(at)'
    BY <2>1, <2>2, Zenon DEF PumpFollows
  <2> QED BY <2>1, <2>3, FollowKept
<1>9. CASE Disarm \/ NoGap
  <2>1. Numbers /\ UNCHANGED <<news, releaseUpTo>>
    BY <1>1, <1>9 DEF Disarm, NoGap, PumpOnly, bus, dext, PumpType, WatchType
  <2>2. pump.at = "gap" /\ pump'.at = "wedge" /\ pump'.total = pump.total
    BY <1>1, <1>9 DEF Disarm, NoGap, PumpType
  <2>3. PumpFollows(at)'
    BY <2>1, <2>2, Zenon DEF PumpFollows
  <2> QED BY <2>1, <2>3, FollowKept
<1>10. CASE Drained
  <2>1. Numbers /\ UNCHANGED <<news, releaseUpTo>>
    <3>1. watch' = Proved(watch)
      BY <1>10 DEF Drained
    <3>2. watch'.have = watch.have /\ watch'.last = watch.last
      BY <1>1, <3>1 DEF Proved, WatchType
    <3> QED BY <1>1, <1>10, <3>2 DEF Drained, PumpOnly, bus, dext, PumpType
  <2>2. /\ pump.at = "drain" /\ pump'.at = "gap" /\ pump'.total = pump.total
        /\ pump.consumed >= pump.total
    BY <1>1, <1>10 DEF Drained, PumpType
  <2>3. ~news => pump.consumed = write
    <3> DEFINE c == pump.consumed
               t == pump.total
    <3>1. (~news => t = write) /\ c >= t /\ c <= write /\ c \in Nat /\ t \in Nat
      BY <1>2, <2>2 DEF PumpFollows
    <3> HIDE DEF c, t
    <3>2. ~news => c = write
      BY <1>2, <3>1
    <3> QED BY <3>2 DEF c
  <2>4. PumpFollows(at)'
    BY <2>1, <2>2, <2>3, Zenon DEF PumpFollows
  <2> QED BY <2>1, <2>4, FollowKept
<1> QED BY <1>4, <1>5, <1>6, <1>7, <1>8, <1>9, <1>10

\* The packet drained next is the one that came in the cycle after the last one.
LEMMA FollowDrain ==
  ASSUME CaptureInv, NEW at \in 0..head, RingFollows(at), DataFollows(at), PumpFollows(at),
         DrainPacket
  PROVE  /\ (RingFollows(at) /\ DataFollows(at) /\ PumpFollows(at))'
         /\ watch'.last = watch.last + 1
<1> DEFINE c == pump.consumed
<1>1. pump \in PumpType /\ watch \in WatchType
  BY CaptureFacts
<1>2. /\ write \in Nat \ {0} /\ releaseUpTo \in Nat /\ read \in Nat /\ c \in Nat
      /\ kIrqEvery \in Nat \ {0} /\ at \in Nat /\ cycle \in Nat
      /\ c <= write /\ at - kIrqEvery <= c /\ write <= at /\ pump.total \in Nat
      /\ write - 2 * kIrqEvery <= releaseUpTo /\ releaseUpTo <= c
      /\ write - 2 * kIrqEvery <= read /\ read <= c
  BY FollowFacts
<1>3. /\ pump.at = "drain" /\ c < pump.total /\ pump.total <= write
      /\ (~news => pump.total = write)
  BY DEF DrainPacket, PumpFollows
<1>4. /\ UNCHANGED <<cycle, head, held, running, filled, write, read, irq, rxCompleted>>
      /\ UNCHANGED <<news, releaseUpTo>>
      /\ pump'.consumed = c + 1 /\ pump'.at = "drain" /\ pump'.total = pump.total
  BY <1>1, <1>3 DEF DrainPacket, PumpOnly, bus, dext, PumpType
<1>5. watch'.have = TRUE /\ watch'.last = held[c % Ring]
  BY <1>1 DEF DrainPacket, WatchType
<1>6. c + 1 <= write /\ c < at /\ c \in c..(at - 1)
  <2> DEFINE t == pump.total
  <2>1. c < t /\ t <= write /\ t \in Nat
    BY <1>2, <1>3
  <2> HIDE DEF t, c
  <2> QED BY <1>2, <2>1
<1>7. held[c % Ring] = cycle - (at - c) /\ watch.last = cycle - (at - c) - 1
  BY <1>6 DEF DataFollows
<1> HIDE DEF c
<1>8. watch'.last = watch.last + 1
  BY <1>2, <1>5, <1>7
<1>9. RingFollows(at)'
  BY <1>4, Zenon DEF RingFollows
<1>10. DataFollows(at)'
  <2>1. c + 1 \in (at - kIrqEvery)..write
    BY <1>2, <1>6
  <2>2. \A k \in (c + 1)..(at - 1) : held[k % Ring] = cycle - (at - k)
    <3>1. \A k \in (c + 1)..(at - 1) : k \in c..(at - 1)
      BY <1>2
    <3> QED BY <3>1 DEF DataFollows, c
  <2>3. watch'.last = cycle - (at - (c + 1)) - 1
    BY <1>2, <1>5, <1>7
  <2> QED BY <1>4, <1>5, <2>1, <2>2, <2>3 DEF DataFollows
<1>11. PumpFollows(at)'
  <2>1. {read, releaseUpTo} \subseteq (write - 2 * kIrqEvery)..(c + 1)
    BY <1>2
  <2>2. ~irq
    <3> SUFFICES ASSUME irq PROVE FALSE
      OBVIOUS
    <3>1. c = write
      BY DEF PumpFollows, c
    <3> QED BY <1>2, <1>6, <3>1
  <2> QED BY <1>3, <1>4, <2>1, <2>2, Zenon DEF PumpFollows
<1> QED BY <1>8, <1>9, <1>10, <1>11

\* Whatever is not a cycle somebody missed or the end of the session keeps them
\* in step.
LEMMA FollowStep ==
  ASSUME CaptureInv, Follows, [CaptureNext]_captureVars, ~Upset
  PROVE  Follows'
<1>1. PICK at \in 0..head : RingFollows(at) /\ DataFollows(at) /\ PumpFollows(at)
  BY DEF Follows
<1>2. /\ rxCompleted # Empty /\ pump.at \notin {"stop", "start", "settle"}
  <2>1. rxCompleted = write /\ write \in Nat
    BY <1>1, FollowFacts DEF RingFollows
  <2> QED BY <1>1, <2>1 DEF PumpFollows, Empty
<1>3. ASSUME UNCHANGED head, (RingFollows(at) /\ DataFollows(at) /\ PumpFollows(at))'
      PROVE  Follows'
  BY <1>3 DEF Follows
<1>4. CASE \E packet \in BOOLEAN : Cycle(packet)
  <2>1. PICK packet \in BOOLEAN : Cycle(packet)
    BY <1>4
  <2>2. cycle' # cycle
    <3>1. cycle' = cycle + 1 /\ cycle \in Nat
      BY <1>1, <2>1, FollowFacts DEF Cycle
    <3> QED BY <3>1
  <2>3. packet /\ KeptUp
    <3>1. calm' # 0
      BY <2>2 DEF Upset
    <3> QED BY <2>1, <3>1 DEF Cycle
  <2>4. Cycle(TRUE)
    BY <2>1, <2>3
  <2>5. at + 1 \in 0..head' /\ (RingFollows(at + 1) /\ DataFollows(at + 1) /\ PumpFollows(at + 1))'
    BY <1>1, <2>3, <2>4, FollowCycle
  <2> QED BY <2>5 DEF Follows
<1>5. CASE Turn \/ UNCHANGED captureVars
  <2>1. /\ UNCHANGED <<cycle, head, held, running, filled, write, read, irq, rxCompleted>>
        /\ UNCHANGED <<news, releaseUpTo, pump, watch>>
    BY <1>5 DEF Turn, captureVars, bus, dext
  <2>2. RingFollows(at)' /\ DataFollows(at)'
    BY <1>1, <2>1, FollowKept
  <2>3. PumpFollows(at)'
    BY <1>1, <2>1, Zenon DEF PumpFollows
  <2> QED BY <1>3, <2>1, <2>2, <2>3
<1>6. CASE Interrupt
  <2>1. UNCHANGED head
    BY <1>6 DEF Interrupt, bus
  <2> QED BY <1>1, <1>3, <1>6, <2>1, FollowInterrupt
<1>7. CASE PumpDext
  BY <1>2, <1>7 DEF PumpDext
<1>8. CASE ReadStatus \/ StoreControl \/ NoRequest \/ Wake \/ Progress \/ NoProgress
             \/ Drained \/ Disarm \/ NoGap
  <2>1. UNCHANGED head
    BY <1>8 DEF ReadStatus, StoreControl, NoRequest, Wake, Progress, NoProgress, Drained,
                Disarm, NoGap, PumpOnly, bus
  <2> QED BY <1>1, <1>3, <1>8, <2>1, FollowTick
<1>9. CASE DrainPacket
  <2>1. UNCHANGED head
    BY <1>9 DEF DrainPacket, PumpOnly, bus
  <2> QED BY <1>1, <1>3, <1>9, <2>1, FollowDrain
<1>10. CASE GapRestart \/ WedgeRestart \/ RateRestart \/ DaemonCrash
  <2>1. pump \in PumpType
    BY CaptureFacts
  <2>2. pump'.at \in {"stop", "start"}
    <3>1. CASE GapRestart
      BY <2>1, <3>1 DEF GapRestart, PumpType
    <3>2. CASE WedgeRestart
      BY <2>1, <3>2 DEF WedgeRestart, PumpType
    <3>3. CASE RateRestart
      BY <2>1, <3>3 DEF RateRestart, PumpType
    <3>4. CASE DaemonCrash
      BY <3>4 DEF DaemonCrash, FreshPump
    <3> QED BY <1>10, <3>1, <3>2, <3>3, <3>4
  <2> QED BY <2>2 DEF Upset
<1>11. CASE IsoStop \/ IsoStartContinuous \/ SessionFails \/ SessionUp
  BY <1>2, <1>11 DEF IsoStop, IsoStartContinuous, SessionFails, SessionUp
<1> QED BY <1>4, <1>5, <1>6, <1>7, <1>8, <1>9, <1>10, <1>11
        DEF CaptureNext, Tick, Watches, Session

\* Dext and pump that follow the controller go on following it, through whatever
\* interleaving of packets, interrupts and ticks, until a cycle is missed or the
\* session ends: KeepsFollowing, for every ring and every interrupt period.
THEOREM CaptureKeepsFollowing == CaptureSpec => KeepsFollowing
<1>1. CaptureInv /\ [CaptureNext]_captureVars => [Follows /\ ~Upset => Follows']_captureVars
  BY FollowStep
<1> QED BY <1>1, CaptureInvariant, PTL DEF CaptureSpec, KeepsFollowing

\* A drain that follows the controller is fresh: nothing it has read last is older
\* than the packets of one interrupt.
THEOREM FollowsIsFresh ==
  CaptureSpec => [](Follows => watch.last >= cycle - 1 - kIrqEvery)
<1>1. CaptureInv => (Follows => watch.last >= cycle - 1 - kIrqEvery)
  <2> SUFFICES ASSUME CaptureInv, Follows PROVE watch.last >= cycle - 1 - kIrqEvery
    OBVIOUS
  <2>1. PICK at \in 0..head : RingFollows(at) /\ DataFollows(at) /\ PumpFollows(at)
    BY DEF Follows
  <2> DEFINE c == pump.consumed
             l == watch.last
  <2>2. /\ at \in Nat /\ c \in Nat /\ cycle \in Nat /\ kIrqEvery \in Nat /\ at - kIrqEvery <= c
        /\ l = cycle - (at - c) - 1
    BY <2>1, FollowFacts DEF DataFollows
  <2> HIDE DEF c, l
  <2>3. l >= cycle - 1 - kIrqEvery
    BY <2>2
  <2> QED BY <2>3 DEF l
<1> QED BY <1>1, CaptureInvariant, PTL

\* The time stamps of two cycles in a row are one apart, the wrap included.
LEMMA NextCycle ==
  ASSUME NEW x \in Nat
  PROVE  Distance(x, x + 1) = 1
<1> DEFINE n == CycleSpan
           p == x \div n
           r == x % n
           y == (x + 1) % n
<1>1. n \in Nat \ {0} /\ n > 1
  BY CaptureAssumption, LapAssumption
<1>2. p \in Int /\ r \in 0..(n - 1) /\ x = n * p + r
  BY <1>1, RemainderOf
<1>3. Distance(x, x + 1) = IF y - r < 0 THEN y - r + n ELSE y - r
  BY Zenon DEF Distance
<1>4. ASSUME NEW q \in Int, NEW t \in 0..(n - 1), x + 1 = n * q + t
      PROVE  y = t
  BY <1>1, <1>4, RemainderIs
<1> HIDE DEF n, p, r, y
<1>5. CASE r + 1 < n
  <2>1. r + 1 \in 0..(n - 1) /\ x + 1 = n * p + (r + 1)
    BY <1>1, <1>2, <1>5
  <2>2. y = r + 1
    BY <1>2, <1>4, <2>1
  <2> QED BY <1>1, <1>2, <1>3, <2>2
<1>6. CASE r + 1 = n
  <2>1. 0 \in 0..(n - 1) /\ p + 1 \in Int /\ x + 1 = n * (p + 1) + 0
    BY <1>1, <1>2, <1>6
  <2>2. y = 0
    BY <1>4, <2>1
  <2> QED BY <1>1, <1>2, <1>3, <1>6, <2>2
<1> QED BY <1>1, <1>2, <1>5, <1>6

\* ... and counts no gap: while it follows the controller every packet it drains is
\* the next cycle's, so the watch sees a gap only where the stream had one.
THEOREM FollowsSeesNoGap ==
  CaptureSpec => [][Follows /\ DrainPacket => Distance(watch.last, watch'.last) = 1]_captureVars
<1>1. CaptureInv /\ [CaptureNext]_captureVars
        => [Follows /\ DrainPacket => Distance(watch.last, watch'.last) = 1]_captureVars
  <2> SUFFICES ASSUME CaptureInv, Follows, DrainPacket
               PROVE  Distance(watch.last, watch'.last) = 1
    OBVIOUS
  <2>1. PICK at \in 0..head : RingFollows(at) /\ DataFollows(at) /\ PumpFollows(at)
    BY DEF Follows
  <2>2. watch'.last = watch.last + 1
    BY <2>1, FollowDrain
  <2>3. watch.last \in Nat
    BY CaptureFacts DEF WatchType
  <2> QED BY <2>2, <2>3, NextCycle
<1> QED BY <1>1, CaptureInvariant, PTL DEF CaptureSpec

-----------------------------------------------------------------------------
(* The transmit pacing.                                                    *)

\* The cursors alone: the scan stops at the fill cursor and the refill a lap
\* ahead of the scan's, so no other fact about the ring is needed.
TransmitInv == TransmitTypeOK /\ LeadWithinLap

\* The type of the pump's record.
TxPumpType ==
  [at: {"tick", "store", "resync", "fill", "wait", "stop", "start", "settle"},
   sent: Nat, fillPkt: Nat, up: Nat]

\* A packet's slot is a slot of the ring.
LEMMA TxSlotInRing ==
  ASSUME NEW k \in Nat
  PROVE  Slot(k) \in TxSlots
BY RingAssumption DEF Slot, TxSlots

\* The types that every step below needs.
LEMMA TransmitFacts ==
  ASSUME TransmitInv
  PROVE  /\ txCycle \in Nat /\ txCycle <= MaxTxCycles /\ txHead \in Nat
         /\ written \subseteq TxSlots /\ sent \in Nat /\ fill \in Nat
         /\ sent <= fill /\ fill <= sent + kITPackets /\ txSent \in Nat
         /\ txFillUpTo \in Nat /\ payload \in [TxSlots -> Nat \cup {Silence}]
         /\ txPump \in TxPumpType /\ txCalm \in Nat /\ late \in Nat /\ late <= MaxLate
         /\ txRestarts \in Nat /\ itRunning \in BOOLEAN /\ txIrq \in BOOLEAN
         /\ txNews \in BOOLEAN
<1>1. /\ itRunning \in BOOLEAN /\ txIrq \in BOOLEAN /\ txNews \in BOOLEAN
      /\ txPump \in TxPumpType
  BY Zenon DEF TransmitInv, TransmitTypeOK, TxPumpType
<1> QED BY <1>1, TxBoundsAssumption DEF TransmitInv, TransmitTypeOK, LeadWithinLap

\* A refill never takes a packet back and stays within a lap of the scan.
LEMMA RefillBounds ==
  ASSUME TransmitInv, NEW upTo \in Nat
  PROVE  /\ RefillTo(upTo) \in Nat /\ fill <= RefillTo(upTo)
         /\ RefillTo(upTo) <= sent + kITPackets
<1> DEFINE lap == sent + kITPackets
           m == Min({upTo, lap})
<1>1. fill \in Nat /\ fill <= lap /\ lap \in Nat
  BY TransmitFacts, RingAssumption
<1> HIDE DEF lap
<1>2. m \in Nat /\ m <= lap
  <2>1. m = IF upTo <= lap THEN upTo ELSE lap
    BY <1>1, MaxMinOfTwo
  <2> QED BY <1>1, <2>1
<1> HIDE DEF m
<1>3. Max({fill, m}) = IF fill >= m THEN fill ELSE m
  BY <1>1, <1>2, MaxMinOfTwo
<1> QED BY <1>1, <1>2, <1>3 DEF RefillTo, m, lap

\* The scan moves forward and stops at the fill cursor.
LEMMA TxScanBounds ==
  ASSUME NEW from \in Nat, sent = from, NEW to \in Nat, from <= to, NEW statuses
  PROVE  ScanTo(to, statuses) \in Nat /\ from <= ScanTo(to, statuses)
         /\ ScanTo(to, statuses) <= to
<1> DEFINE S == {s \in sent..to : \A k \in sent..(s - 1) :
                   IsFull(Slot(k)) => Slot(k) \in statuses}
<1>1. sent \in S /\ S \subseteq 0..to
  OBVIOUS
<1>2. Max(S) \in S
  <2> HIDE DEF S
  <2> QED BY <1>1, MaxOfBounded
<1> QED BY <1>2 DEF ScanTo

\* The completion interrupt: refill, then scan.
LEMMA TxInterruptKeeps ==
  ASSUME TransmitInv, TxInterrupt
  PROVE  TransmitInv'
<1>1. /\ UNCHANGED <<txCycle, txHead, payload, txFillUpTo, txPump, txCalm, late, txRestarts>>
      /\ txSent' = sent'
  BY DEF TxInterrupt
<1>2. itRunning' \in BOOLEAN /\ txIrq' \in BOOLEAN /\ txNews' \in BOOLEAN
  BY TransmitFacts, Zenon DEF TxInterrupt
<1>3. /\ written' \subseteq TxSlots /\ sent' \in Nat /\ fill' \in Nat
      /\ sent' <= fill' /\ fill' <= sent' + kITPackets
  <2>1. CASE itRunning
    <3>1. /\ fill' = IF txFillUpTo = 0 THEN fill ELSE RefillTo(txFillUpTo)
          /\ written' = Pending(fill') /\ sent' = ScanTo(fill', written')
      BY <2>1 DEF TxInterrupt
    <3>2. fill' \in Nat /\ fill <= fill' /\ fill' <= sent + kITPackets
      BY <3>1, TransmitFacts, RefillBounds
    <3>3. sent \in Nat /\ sent <= fill'
      BY <3>2, TransmitFacts
    <3>4. sent' \in Nat /\ sent <= sent' /\ sent' <= fill'
      BY <3>1, <3>2, <3>3, TxScanBounds
    <3>5. written' \subseteq TxSlots
      BY <3>1, TransmitFacts DEF Pending
    <3>6. kITPackets \in Nat
      BY RingAssumption
    <3>7. \A f, s, t, n \in Nat : f <= s + n /\ s <= t => f <= t + n
      OBVIOUS
    <3>8. fill' <= sent' + kITPackets
      BY ONLY <3>2, <3>3, <3>4, <3>6, <3>7
    <3> QED BY <3>2, <3>4, <3>5, <3>8
  <2>2. CASE ~itRunning
    BY <2>2, TransmitFacts DEF TxInterrupt
  <2> QED BY <2>1, <2>2
<1>4. /\ txCycle' \in 0..MaxTxCycles /\ txHead' \in Nat /\ txSent' \in Nat
      /\ txFillUpTo' \in Nat /\ payload' \in [TxSlots -> Nat \cup {Silence}]
      /\ txPump' \in TxPumpType /\ txCalm' \in Nat /\ late' \in 0..MaxLate
      /\ txRestarts' \in Nat
  BY <1>1, <1>3, TransmitFacts, TxBoundsAssumption
<1>5. TransmitTypeOK'
  BY <1>2, <1>3, <1>4, Zenon DEF TransmitTypeOK, TxPumpType
<1> QED BY <1>3, <1>5 DEF TransmitInv, LeadWithinLap

\* The steps that leave both cursors of the dext where they are.
LEMMA LeadKept ==
  ASSUME TransmitInv, UNCHANGED <<sent, fill>>, TransmitTypeOK'
  PROVE  TransmitInv'
BY DEF TransmitInv, LeadWithinLap

\* A bus cycle.
LEMMA TxCycleKeeps ==
  ASSUME TransmitInv, TxCycle
  PROVE  TransmitInv'
<1>1. UNCHANGED <<sent, fill>> /\ UNCHANGED <<txSent, payload, txFillUpTo, txPump, txRestarts>>
  BY DEF TxCycle
<1>2. itRunning' \in BOOLEAN /\ txIrq' \in BOOLEAN /\ txNews' \in BOOLEAN
  BY TransmitFacts, Zenon DEF TxCycle
<1>3. Slot(txHead) \in TxSlots
  BY TransmitFacts, TxSlotInRing
<1>4. /\ txCycle' \in 0..MaxTxCycles /\ txHead' \in Nat /\ written' \subseteq TxSlots
      /\ txCalm' \in Nat /\ late' \in 0..MaxLate
  BY <1>3, TransmitFacts, TxBoundsAssumption DEF TxCycle
<1>5. /\ sent' \in Nat /\ fill' \in Nat /\ txSent' \in Nat /\ txFillUpTo' \in Nat
      /\ payload' \in [TxSlots -> Nat \cup {Silence}] /\ txPump' \in TxPumpType
      /\ txRestarts' \in Nat
  BY <1>1, TransmitFacts
<1>6. TransmitTypeOK'
  BY <1>2, <1>4, <1>5, Zenon DEF TransmitTypeOK, TxPumpType
<1> QED BY <1>1, <1>6, LeadKept

\* The steps of the pump's tick.
LEMMA TxTickKeeps ==
  ASSUME TransmitInv, TxTick \/ TxRestart \/ TxSettle
  PROVE  TransmitInv'
<1> USE DEF TxTick
<1>1. /\ UNCHANGED <<sent, fill>>
      /\ UNCHANGED <<txCycle, txHead, itRunning, written, txIrq, txSent, txCalm, late>>
  BY DEF ReadTxStatus, StoreFill, Resync, FillPacket, Wait, TxWake, TxRestart, TxSettle,
         TxRest, txDext
<1>2. txNews' \in BOOLEAN /\ itRunning' \in BOOLEAN /\ txIrq' \in BOOLEAN
  BY <1>1, TransmitFacts, Zenon DEF ReadTxStatus, StoreFill, Resync, FillPacket, Wait,
       TxWake, TxRestart, TxSettle, TxRest, txDext
<1>3. /\ txPump \in TxPumpType /\ txSent \in Nat /\ txFillUpTo \in Nat
      /\ payload \in [TxSlots -> Nat \cup {Silence}] /\ txRestarts \in Nat
  BY TransmitFacts
<1>4. txPump' \in TxPumpType
  <2>1. CASE ReadTxStatus
    BY <1>3, <2>1 DEF ReadTxStatus, TxPumpType
  <2>2. CASE StoreFill
    BY <1>3, <2>2 DEF StoreFill, TxPumpType
  <2>3. CASE Resync
    <3> DEFINE p == IF \/ txPump.fillPkt < txPump.sent + kTxMinLeadPkts
                       \/ txPump.fillPkt - txPump.sent > kITPackets
                      THEN txPump.sent + kTxLeadPkts ELSE txPump.fillPkt
    <3>1. txPump' = [txPump EXCEPT !.at = "fill", !.fillPkt = p]
      BY <2>3 DEF Resync
    <3>2. kTxLeadPkts \in Nat
      BY RingAssumption
    <3>3. p \in Nat
      BY <1>3, <3>2 DEF TxPumpType
    <3> HIDE DEF p
    <3> QED BY <1>3, <3>1, <3>3 DEF TxPumpType
  <2>4. CASE FillPacket
    BY <1>3, <2>4 DEF FillPacket, TxPumpType
  <2>5. CASE Wait
    BY <1>3, <2>5 DEF Wait, TxPumpType
  <2>6. CASE TxWake
    BY <1>3, <2>6 DEF TxWake, TxPumpType
  <2>7. CASE TxRestart
    BY <1>3, <2>7 DEF TxRestart, TxPumpType
  <2>8. CASE TxSettle
    BY <1>3, <2>8, RingAssumption DEF TxSettle, TxPumpType
  <2> QED BY <2>1, <2>2, <2>3, <2>4, <2>5, <2>6, <2>7, <2>8
<1>5. txFillUpTo' \in Nat /\ txRestarts' \in Nat
  BY <1>3 DEF ReadTxStatus, StoreFill, Resync, FillPacket, Wait, TxWake, TxRestart,
              TxSettle, TxRest, TxPumpType
<1>6. payload' \in [TxSlots -> Nat \cup {Silence}]
  <2>1. CASE FillPacket
    <3>1. txPump.fillPkt \in Nat
      BY <1>3 DEF TxPumpType
    <3>2. Slot(txPump.fillPkt) \in TxSlots
      BY <3>1, TxSlotInRing
    <3> QED BY <1>3, <2>1, <3>1, <3>2 DEF FillPacket
  <2>2. CASE TxSettle
    BY <2>2 DEF TxSettle
  <2>3. CASE ~FillPacket /\ ~TxSettle
    BY <1>3, <2>3 DEF ReadTxStatus, StoreFill, Resync, Wait, TxWake, TxRestart
  <2> QED BY <2>1, <2>2, <2>3
<1>7. /\ txCycle' \in 0..MaxTxCycles /\ txHead' \in Nat /\ written' \subseteq TxSlots
      /\ sent' \in Nat /\ fill' \in Nat /\ txSent' \in Nat /\ txCalm' \in Nat
      /\ late' \in 0..MaxLate
  BY <1>1, TransmitFacts, TxBoundsAssumption
<1>8. TransmitTypeOK'
  BY <1>2, <1>4, <1>5, <1>6, <1>7, Zenon DEF TransmitTypeOK, TxPumpType
<1> QED BY <1>1, <1>8, LeadKept

\* The context is stopped, or started with a full lap filled.
LEMMA TxContextKeeps ==
  ASSUME TransmitInv, IsoTxStop \/ IsoTxStart
  PROVE  TransmitInv'
<1>1. UNCHANGED <<txCycle, txSent, payload, txFillUpTo, txCalm, late, txRestarts>>
  BY DEF IsoTxStop, IsoTxStart
<1>2. txNews' \in BOOLEAN /\ itRunning' \in BOOLEAN /\ txIrq' \in BOOLEAN
  BY TransmitFacts, Zenon DEF IsoTxStop, IsoTxStart
<1>3. txPump' \in TxPumpType
  BY TransmitFacts DEF IsoTxStop, IsoTxStart, TxPumpType
<1>4. /\ txHead' \in Nat /\ written' \subseteq TxSlots /\ sent' \in Nat /\ fill' \in Nat
      /\ sent' <= fill' /\ fill' <= sent' + kITPackets
  BY TransmitFacts, RingAssumption DEF IsoTxStop, IsoTxStart
<1>5. /\ txCycle' \in 0..MaxTxCycles /\ txSent' \in Nat /\ txFillUpTo' \in Nat
      /\ payload' \in [TxSlots -> Nat \cup {Silence}] /\ txCalm' \in Nat
      /\ late' \in 0..MaxLate /\ txRestarts' \in Nat
  BY <1>1, TransmitFacts, TxBoundsAssumption
<1>6. TransmitTypeOK'
  BY <1>2, <1>3, <1>4, <1>5, Zenon DEF TransmitTypeOK, TxPumpType
<1> QED BY <1>4, <1>6 DEF TransmitInv, LeadWithinLap

\* The transmit pacing starts in the inductive invariant.
LEMMA TransmitInitially == TransmitInit => TransmitInv
<1> SUFFICES ASSUME TransmitInit PROVE TransmitInv
  OBVIOUS
<1>1. txNews \in BOOLEAN /\ itRunning \in BOOLEAN /\ txIrq \in BOOLEAN
  BY Zenon DEF TransmitInit
<1>2. txPump \in TxPumpType
  BY RingAssumption DEF TransmitInit, TxPumpType
<1>3. /\ txCycle \in 0..MaxTxCycles /\ txHead \in Nat /\ written \subseteq TxSlots
      /\ sent = 0 /\ fill = 0 /\ txSent \in Nat /\ txFillUpTo \in Nat
      /\ payload \in [TxSlots -> Nat \cup {Silence}] /\ txCalm \in Nat
      /\ late \in 0..MaxLate /\ txRestarts \in Nat
  BY TxBoundsAssumption DEF TransmitInit
<1>4. 0 \in Nat
  OBVIOUS
<1>5. TransmitTypeOK
  BY <1>1, <1>2, <1>3, <1>4, Zenon DEF TransmitTypeOK, TxPumpType
<1> QED BY <1>3, <1>5, RingAssumption DEF TransmitInv, LeadWithinLap

\* Every step of the transmit pacing keeps the inductive invariant.
LEMMA TransmitStep == TransmitInv /\ [TransmitNext]_transmitVars => TransmitInv'
<1> SUFFICES ASSUME TransmitInv, [TransmitNext]_transmitVars PROVE TransmitInv'
  OBVIOUS
<1>1. CASE TxCycle
  BY <1>1, TxCycleKeeps
<1>2. CASE TxInterrupt
  BY <1>2, TxInterruptKeeps
<1>3. CASE TxTick
  BY <1>3, TxTickKeeps
<1>4. CASE TxSession
  BY <1>4, TxTickKeeps, TxContextKeeps DEF TxSession
<1>5. CASE UNCHANGED transmitVars
  BY <1>5 DEF transmitVars, txDext, TransmitInv, TransmitTypeOK, LeadWithinLap
<1> QED BY <1>1, <1>2, <1>3, <1>4, <1>5 DEF TransmitNext

\* The inductive invariant of the transmit pacing holds throughout.
THEOREM TransmitInvariant == TransmitSpec => []TransmitInv
BY TransmitInitially, TransmitStep, PTL DEF TransmitSpec

\* The transmit cursors and the pump's record keep their types.
THEOREM TransmitTypeCorrect == TransmitSpec => []TransmitTypeOK
<1>1. TransmitInv => TransmitTypeOK
  BY DEF TransmitInv
<1> QED BY <1>1, TransmitInvariant, PTL

\* The dext's note on itSentCursor and itFillCursor holds for every ring size,
\* cadence and cursor the pump hands over.
THEOREM TransmitLeadWithinLap == TransmitSpec => []LeadWithinLap
<1>1. TransmitInv => LeadWithinLap
  BY DEF TransmitInv
<1> QED BY <1>1, TransmitInvariant, PTL

-----------------------------------------------------------------------------
(* The transmit pump ahead of the controller.                              *)

\* At least half of the packets are full, so no two in a row are empty, the last of
\* a lap and the first of the next included.
LEMMA FullAfterEmpty ==
  ASSUME NEW k \in Nat, ~IsFull(Slot(k))
  PROVE  IsFull(Slot(k + 1))
<1> DEFINE n == kITPackets
           f == fullCount
           i == k % n
           m == k \div n
<1>1. /\ n \in Nat \ {0} /\ f \in Nat /\ f <= n /\ n <= 2 * f /\ f > 0
  BY RingAssumption, LeadAssumption
<1>2. i \in 0..(n - 1) /\ m \in Int /\ k = n * m + i
  BY <1>1, RemainderOf
<1>3. ~(((i + 1) * f) \div n > (i * f) \div n)
  BY DEF IsFull, Slot
<1> HIDE DEF i, m
<1> DEFINE a == i * f
           q == a \div n
           r == a % n
<1>4. /\ a \in Nat /\ q \in Int /\ r \in 0..(n - 1) /\ a = n * q + r
  <2>1. a \in Nat
    BY <1>1, <1>2
  <2> HIDE DEF a
  <2> QED BY <1>1, <2>1, RemainderOf
<1>5. (i + 1) * f = a + f /\ (i + 2) * f = a + 2 * f
  BY <1>1, <1>2
<1> HIDE DEF a, q, r
<1>6. r + f < n
  <2> SUFFICES ASSUME r + f >= n PROVE FALSE
    BY <1>1, <1>4
  <2>1. a + f = n * (q + 1) + (r + f - n) /\ r + f - n \in 0..(n - 1) /\ q + 1 \in Int
    BY <1>1, <1>4
  <2>2. (a + f) \div n = q + 1
    BY <1>1, <2>1, QuotientIs
  <2> QED BY <1>3, <1>4, <1>5, <2>2 DEF q, a
<1>7. (a + f) \div n = q
  <2>1. a + f = n * q + (r + f) /\ r + f \in 0..(n - 1)
    BY <1>1, <1>4, <1>6
  <2> QED BY <1>1, <1>4, <2>1, QuotientIs
<1>8. (a + 2 * f) \div n = q + 1
  <2>1. a + 2 * f = n * (q + 1) + (r + 2 * f - n) /\ r + 2 * f - n \in 0..(n - 1) /\ q + 1 \in Int
    BY <1>1, <1>4, <1>6
  <2> QED BY <1>1, <2>1, QuotientIs
<1>9. i # n - 1
  <2> SUFFICES ASSUME i = n - 1 PROVE FALSE
    OBVIOUS
  <2>1. a + f = n * f + 0 /\ a = n * (f - 1) + (n - f)
    BY <1>1, <1>2 DEF a
  <2>2. (a + f) \div n = f
    BY <1>1, <2>1, QuotientIs
  <2>3. f - 1 \in Int /\ n - f \in 0..(n - 1)
    BY <1>1
  <2>4. a \div n = f - 1
    BY <1>1, <2>1, <2>3, QuotientIs
  <2> QED BY <1>1, <1>7, <2>2, <2>4 DEF q
<1>10. Slot(k + 1) = i + 1
  <2>1. k + 1 = n * m + (i + 1) /\ i + 1 \in 0..(n - 1)
    BY <1>1, <1>2, <1>9
  <2> QED BY <1>1, <1>2, <2>1, RemainderIs DEF Slot
<1>11. ((i + 2) * f) \div n > ((i + 1) * f) \div n
  BY <1>4, <1>5, <1>7, <1>8
<1>12. (i + 1) + 1 = i + 2
  BY <1>2
<1> QED BY <1>10, <1>11, <1>12 DEF IsFull

\* Packets less than a lap apart have different slots.
LEMMA SlotDistinct ==
  ASSUME NEW a \in Nat, NEW b \in Nat, b < a, a - b < kITPackets
  PROVE  Slot(a) # Slot(b)
<1>1. kITPackets \in Nat \ {0}
  BY RingAssumption
<1> SUFFICES ASSUME a % kITPackets = b % kITPackets PROVE FALSE
  BY DEF Slot
<1>2. a - b >= kITPackets
  BY <1>1, LapDistinct
<1> QED BY <1>1, <1>2


\* The cursors of a pump that leads the controller, and how far apart they are.
LEMMA LeadFacts ==
  ASSUME TransmitInv, NEW base \in 0..sent, NEW at \in base..(base + kTxIrqEvery),
         StatusLeads(at, base), FillLeads(at, base), TickLeads(at, base)
  PROVE  /\ base \in Nat /\ at \in Nat /\ sent \in Nat /\ fill \in Nat /\ txHead \in Nat
         /\ txFillUpTo \in Nat /\ txPump.fillPkt \in Nat /\ txPump.sent \in Nat
         /\ kTxIrqEvery \in Nat \ {0} /\ kITPackets \in Nat \ {0} /\ kTxLeadPkts \in Nat
         /\ kTxMinLeadPkts \in Nat /\ 3 * kTxIrqEvery <= kTxLeadPkts
         /\ kTxMinLeadPkts + kTxIrqEvery < kTxLeadPkts /\ kTxLeadPkts <= kITPackets
         /\ base <= sent /\ sent <= base + 1 /\ base <= at /\ at <= base + kTxIrqEvery
         /\ fill <= sent + kITPackets
         /\ base + kTxLeadPkts - 2 * kTxIrqEvery <= fill /\ fill <= txPump.fillPkt
         /\ base + kTxLeadPkts - 2 * kTxIrqEvery <= txFillUpTo /\ txFillUpTo <= txPump.fillPkt
         /\ base + kTxLeadPkts - kTxIrqEvery <= txPump.fillPkt
         /\ txPump.fillPkt <= txPump.sent + kTxLeadPkts /\ txPump.sent <= sent
<1>1. /\ sent \in Nat /\ fill \in Nat /\ txHead \in Nat /\ txFillUpTo \in Nat
      /\ fill <= sent + kITPackets /\ txPump \in TxPumpType
  BY TransmitFacts
<1>2. txPump.fillPkt \in Nat /\ txPump.sent \in Nat
  BY <1>1 DEF TxPumpType
<1>3. /\ kTxIrqEvery \in Nat \ {0} /\ kITPackets \in Nat \ {0} /\ kTxLeadPkts \in Nat
      /\ kTxMinLeadPkts \in Nat /\ 3 * kTxIrqEvery <= kTxLeadPkts
      /\ kTxMinLeadPkts + kTxIrqEvery < kTxLeadPkts /\ kTxLeadPkts <= kITPackets
  BY RingAssumption, LeadAssumption
<1> DEFINE f == txPump.fillPkt
           p == txPump.sent
<1>4. /\ {fill, txFillUpTo} \subseteq (base + kTxLeadPkts - 2 * kTxIrqEvery)..f
      /\ f \in (base + kTxLeadPkts - kTxIrqEvery)..(p + kTxLeadPkts)
      /\ p <= sent
  BY DEF FillLeads
<1>5. f \in Nat /\ p \in Nat
  BY <1>2
<1>6. base \in Nat /\ at \in Nat /\ base <= at /\ at <= base + kTxIrqEvery /\ base <= sent
  BY <1>1, <1>3
<1>7. sent <= base + 1
  BY <1>1, <1>6 DEF StatusLeads
<1> HIDE DEF f, p
<1>8. /\ base + kTxLeadPkts - 2 * kTxIrqEvery <= fill /\ fill <= f
      /\ base + kTxLeadPkts - 2 * kTxIrqEvery <= txFillUpTo /\ txFillUpTo <= f
      /\ base + kTxLeadPkts - kTxIrqEvery <= f /\ f <= p + kTxLeadPkts
  BY <1>1, <1>3, <1>4, <1>5, <1>6
<1> QED BY <1>1, <1>3, <1>4, <1>5, <1>6, <1>7, <1>8 DEF f, p

\* A packet goes out and everybody has kept up: the controller is one further.
LEMMA LeadCycle ==
  ASSUME TransmitInv, NEW base \in 0..sent, NEW at \in base..(base + kTxIrqEvery),
         StatusLeads(at, base), FillLeads(at, base), TickLeads(at, base),
         TxCycle, TxKeptUp
  PROVE  /\ at + 1 \in base..(base + kTxIrqEvery)
         /\ (StatusLeads(at + 1, base) /\ FillLeads(at + 1, base) /\ TickLeads(at + 1, base))'
<1>1. /\ ~txIrq /\ ~txNews /\ txPump.at = "wait" /\ txPump.fillPkt >= sent + kTxLeadPkts
      /\ txFillUpTo >= base + kTxLeadPkts - kTxIrqEvery
  BY DEF TxKeptUp, TickLeads
<1>2. /\ itRunning /\ txHead' = txHead + 1 /\ written' = written \cup {Slot(txHead)}
      /\ txIrq' = (txIrq \/ txHead % kTxIrqEvery = 0)
      /\ UNCHANGED <<itRunning, sent, fill, txSent, txNews, payload, txFillUpTo, txPump>>
  BY DEF TxCycle, StatusLeads
<1> DEFINE f == txPump.fillPkt
           g == at - base
<1>3. /\ base \in Nat /\ at \in Nat /\ sent \in Nat /\ fill \in Nat /\ txHead \in Nat
      /\ f \in Nat /\ kTxIrqEvery \in Nat \ {0} /\ kITPackets \in Nat \ {0}
      /\ kTxLeadPkts \in Nat /\ 3 * kTxIrqEvery <= kTxLeadPkts
      /\ base <= sent /\ sent <= base + 1 /\ base <= at /\ fill <= sent + kITPackets
      /\ base + kTxLeadPkts - 2 * kTxIrqEvery <= fill
  BY LeadFacts
<1> HIDE DEF f
<1>4. at < base + kTxIrqEvery /\ g \in 0..(kTxIrqEvery - 1) /\ at = base + g
  <2>1. at \in base..(base + kTxIrqEvery - 1)
    BY <1>1 DEF StatusLeads
  <2> QED BY <1>3, <2>1
<1>5. Slot(at) = Slot(txHead) /\ Slot(at + 1) = Slot(txHead')
  <2>1. Slot(at) = Slot(txHead)
    BY DEF StatusLeads
  <2> QED BY <1>2, <1>3, <2>1, SameSlotNext DEF Slot
<1>6. txIrq' <=> at = base + kTxIrqEvery - 1
  <2> DEFINE w == txHead - g
  <2>1. w \in Int /\ (w - 1) % kTxIrqEvery = 0 /\ txHead = w + g
    <3>1. (txHead - g - 1) % kTxIrqEvery = 0
      BY DEF StatusLeads
    <3> HIDE DEF g
    <3> QED BY <1>3, <1>4, <3>1
  <2> HIDE DEF w, g
  <2>2. (w + g) % kTxIrqEvery = 0 <=> g = kTxIrqEvery - 1
    BY <1>3, <1>4, <2>1, RaisesAt
  <2>3. g = kTxIrqEvery - 1 <=> at = base + kTxIrqEvery - 1
    BY <1>3, <1>4
  <2> QED BY <1>1, <1>2, <2>1, <2>2, <2>3, Zenon
<1>7. StatusLeads(at + 1, base)'
  <2>1. IF txIrq' THEN at + 1 = base + kTxIrqEvery ELSE at + 1 \in base..(base + kTxIrqEvery - 1)
    <3>1. CASE txIrq'
      <4>1. at = base + kTxIrqEvery - 1
        BY <1>6, <3>1
      <4>2. at + 1 = base + kTxIrqEvery
        BY <1>3, <4>1
      <4> QED BY <3>1, <4>2
    <3>2. CASE ~txIrq'
      <4>1. at # base + kTxIrqEvery - 1
        BY <1>6, <3>2
      <4>2. at + 1 \in base..(base + kTxIrqEvery - 1)
        BY <1>3, <1>4, <4>1
      <4> QED BY <3>2, <4>2
    <3> QED BY <3>1, <3>2
  <2>2. (txHead' - ((at + 1) - base) - 1) % kTxIrqEvery = 0
    <3>1. txHead' - ((at + 1) - base) - 1 = txHead - (at - base) - 1
      BY <1>2, <1>3
    <3> QED BY <3>1 DEF StatusLeads
  <2>3. ASSUME NEW k \in sent..(fill - 1), IsFull(Slot(k))
        PROVE  Slot(k) \in written' <=> k < at + 1
    <3>1. Slot(k) \in written <=> k < at
      BY <2>3 DEF StatusLeads
    <3>2. k \in Nat /\ sent <= k /\ k < fill
      BY <1>3
    <3>3. CASE k = at
      BY <1>2, <1>3, <1>5, <3>3
    <3>4. CASE k # at
      <4>1. Slot(k) # Slot(at)
        <5>1. CASE k < at
          <6>1. at - k < kITPackets
            BY <1>3, <1>4, <3>2, LeadFacts
          <6> QED BY <1>3, <3>2, <5>1, <6>1, SlotDistinct
        <5>2. CASE at < k /\ k - at < kITPackets
          BY <1>3, <3>2, <5>2, SlotDistinct
        <5>3. CASE at < k /\ k - at >= kITPackets
          <6>1. at = base /\ sent = base + 1
            BY <1>3, <3>2, <5>3
          <6>2. ~IsFull(Slot(base))
            BY <1>3, <6>1 DEF StatusLeads
          <6> QED BY <2>3, <6>1, <6>2
        <5> QED BY <1>3, <3>2, <3>4, <5>1, <5>2, <5>3
      <4>2. Slot(k) \in written' <=> Slot(k) \in written
        BY <1>2, <1>5, <4>1
      <4>3. k < at + 1 <=> k < at
        BY <1>3, <3>2, <3>4
      <4> QED BY <3>1, <4>2, <4>3
    <3> QED BY <3>3, <3>4
  <2>4. /\ itRunning' /\ txSent' = sent' /\ sent' = sent /\ fill' = fill
        /\ sent = base \/ (sent = base + 1 /\ ~IsFull(Slot(base)))
    BY <1>2 DEF StatusLeads
  <2>5. \A k \in sent'..(fill' - 1) : IsFull(Slot(k)) => (Slot(k) \in written' <=> k < at + 1)
    BY <2>3, <2>4, Zenon
  <2> QED BY <1>5, <2>1, <2>2, <2>4, <2>5, Zenon DEF StatusLeads
<1>8. FillLeads(at + 1, base)'
  <2>1. \A k \in (at + 1)..(f - 1) : k \in at..(f - 1)
    BY <1>3
  <2>2. /\ {fill, txFillUpTo} \subseteq (base + kTxLeadPkts - 2 * kTxIrqEvery)..f
        /\ f \in (base + kTxLeadPkts - kTxIrqEvery)..(txPump.sent + kTxLeadPkts)
        /\ txPump.sent <= sent
        /\ \A k \in (at + 1)..(f - 1) : IsFull(Slot(k)) => payload[Slot(k)] = k
    BY <2>1 DEF FillLeads, f
  <2>3. UNCHANGED <<fill, txFillUpTo, txPump, sent, payload>>
    BY <1>2
  <2> QED BY <2>2, <2>3, Zenon DEF FillLeads, f
<1>9. TickLeads(at + 1, base)'
  <2>1. /\ UNCHANGED <<sent, txFillUpTo, txPump>> /\ ~txNews'
    BY <1>1, <1>2
  <2> QED BY <1>1, <2>1, Zenon DEF TickLeads
<1> QED BY <1>3, <1>4, <1>7, <1>8, <1>9

\* The interrupt hands back slots whose packets are out, and counts every packet
\* that is: the controller's place is the new base.
LEMMA LeadInterrupt ==
  ASSUME TransmitInv, NEW base \in 0..sent, NEW at \in base..(base + kTxIrqEvery),
         StatusLeads(at, base), FillLeads(at, base), TickLeads(at, base),
         TxInterrupt
  PROVE  /\ at \in 0..sent'
         /\ (StatusLeads(at, at) /\ FillLeads(at, at) /\ TickLeads(at, at))'
<1>1. /\ txIrq /\ ~txIrq' /\ txNews' /\ itRunning /\ txSent' = sent'
      /\ fill' = (IF txFillUpTo = 0 THEN fill ELSE RefillTo(txFillUpTo))
      /\ written' = Pending(fill') /\ sent' = ScanTo(fill', written')
      /\ UNCHANGED <<itRunning, txHead, payload, txFillUpTo, txPump>>
  BY DEF TxInterrupt, StatusLeads
<1> DEFINE f == txPump.fillPkt
           p == txPump.sent
           to == fill'
           s == sent'
<1>2. /\ at = base + kTxIrqEvery /\ ~txNews /\ f >= sent + kTxLeadPkts
      /\ txFillUpTo >= base + kTxLeadPkts - kTxIrqEvery
  BY <1>1 DEF StatusLeads, TickLeads
<1>3. /\ base \in Nat /\ at \in Nat /\ sent \in Nat /\ fill \in Nat /\ txHead \in Nat
      /\ f \in Nat /\ p \in Nat /\ txFillUpTo \in Nat
      /\ kTxIrqEvery \in Nat \ {0} /\ kITPackets \in Nat \ {0}
      /\ kTxLeadPkts \in Nat /\ 3 * kTxIrqEvery <= kTxLeadPkts /\ kTxLeadPkts <= kITPackets
      /\ base <= sent /\ sent <= base + 1 /\ fill <= sent + kITPackets
      /\ base + kTxLeadPkts - 2 * kTxIrqEvery <= fill /\ fill <= f
      /\ txFillUpTo <= f /\ f <= p + kTxLeadPkts /\ p <= sent
  BY LeadFacts
<1> HIDE DEF f, p
<1>4. to = IF fill >= txFillUpTo THEN fill ELSE txFillUpTo
  <2>1. txFillUpTo # 0 /\ txFillUpTo <= sent + kITPackets
    BY <1>2, <1>3
  <2> DEFINE m == Min({txFillUpTo, sent + kITPackets})
  <2>2. m = txFillUpTo
    <3>1. txFillUpTo \in Int /\ sent + kITPackets \in Int
      BY <1>3
    <3>2. m = IF txFillUpTo <= sent + kITPackets THEN txFillUpTo ELSE sent + kITPackets
      BY <3>1, MaxMinOfTwo
    <3> QED BY <2>1, <3>2
  <2> HIDE DEF m
  <2>3. Max({fill, txFillUpTo}) = IF fill >= txFillUpTo THEN fill ELSE txFillUpTo
    <3>1. fill \in Int /\ txFillUpTo \in Int
      BY <1>3
    <3> QED BY <3>1, MaxMinOfTwo
  <2>4. to = Max({fill, txFillUpTo})
    BY <1>1, <2>1, <2>2 DEF RefillTo, m
  <2> QED BY <2>3, <2>4
<1>5. /\ written' = written \ {Slot(k) : k \in fill..(to - 1)}
      /\ s = Max({v \in sent..to : \A k \in sent..(v - 1) : IsFull(Slot(k)) => Slot(k) \in written'})
  BY <1>1 DEF Pending, ScanTo
<1> HIDE DEF to, s
<1>6. /\ to \in Nat /\ fill <= to /\ txFillUpTo <= to /\ to <= f /\ to <= sent + kITPackets
      /\ at <= fill /\ at + 1 <= to /\ sent <= at /\ at + kTxLeadPkts - 2 * kTxIrqEvery <= to
  BY <1>2, <1>3, <1>4
<1>7. ASSUME NEW k \in sent..(to - 1), IsFull(Slot(k))
      PROVE  Slot(k) \in written' <=> k < at
  <2>1. k \in Nat /\ sent <= k /\ k < to
    BY <1>3, <1>6
  <2>2. CASE k < fill
    <3>1. k \in sent..(fill - 1)
      BY <1>3, <2>1, <2>2
    <3>2. Slot(k) \in written <=> k < at
      BY <1>7, <3>1 DEF StatusLeads
    <3>3. ASSUME NEW j \in fill..(to - 1)
          PROVE  Slot(j) # Slot(k)
      <4>1. j \in Nat /\ k < j /\ j - k < kITPackets
        BY <1>3, <1>6, <2>1, <2>2
      <4> QED BY <2>1, <4>1, SlotDistinct
    <3> QED BY <1>5, <3>2, <3>3
  <2>3. CASE k >= fill
    <3>1. k \in fill..(to - 1) /\ ~(k < at)
      BY <1>3, <1>6, <2>1, <2>3
    <3> QED BY <1>5, <3>1
  <2> QED BY <1>3, <2>1, <2>2, <2>3
<1>8. s = at \/ (s = at + 1 /\ ~IsFull(Slot(at)))
  <2> DEFINE S == {v \in sent..to : \A k \in sent..(v - 1) : IsFull(Slot(k)) => Slot(k) \in written'}
  <2>1. at \in S
    <3>1. at \in sent..to
      BY <1>3, <1>6
    <3>2. \A k \in sent..(at - 1) : k \in sent..(to - 1) /\ k < at
      BY <1>3, <1>6
    <3> QED BY <1>7, <3>1, <3>2
  <2>2. S \subseteq 0..to
    BY <1>3, <1>6
  <2>3. s \in S /\ \A y \in S : y <= s
    <3>1. s = Max(S)
      BY <1>5
    <3> HIDE DEF S
    <3> QED BY <1>6, <2>1, <2>2, <3>1, MaxOfBounded
  <2>4. s \in sent..to /\ s >= at /\ s \in Nat
    BY <1>3, <1>6, <2>1, <2>3
  <2>5. ASSUME NEW k \in at..(s - 1)
        PROVE  ~IsFull(Slot(k))
    <3>1. k \in sent..(s - 1) /\ k \in sent..(to - 1) /\ ~(k < at)
      BY <1>3, <1>6, <2>4
    <3>2. IsFull(Slot(k)) => Slot(k) \in written'
      BY <2>3, <3>1
    <3> QED BY <1>7, <3>1, <3>2
  <2>6. CASE IsFull(Slot(at))
    <3>1. ~(at < s)
      <4> SUFFICES ASSUME at < s PROVE FALSE
        OBVIOUS
      <4>1. at \in at..(s - 1)
        BY <1>3, <2>4
      <4> QED BY <2>5, <2>6, <4>1
    <3> QED BY <1>3, <2>4, <3>1
  <2>7. CASE ~IsFull(Slot(at))
    <3>1. ~(at + 1 < s)
      <4> SUFFICES ASSUME at + 1 < s PROVE FALSE
        OBVIOUS
      <4>1. at + 1 \in at..(s - 1)
        BY <1>3, <2>4
      <4>2. IsFull(Slot(at + 1))
        BY <1>3, <2>7, FullAfterEmpty
      <4> QED BY <2>5, <4>1, <4>2
    <3>2. s = at \/ s = at + 1
      BY <1>3, <2>4, <3>1
    <3> QED BY <2>7, <3>2
  <2> QED BY <2>6, <2>7
<1>9. s \in Nat /\ at <= s /\ s <= at + 1 /\ sent <= s
  BY <1>3, <1>6, <1>8
<1>10. StatusLeads(at, at)'
  <2>1. (txHead - (at - at) - 1) % kTxIrqEvery = 0
    <3> DEFINE z == txHead - (at - base) - 1
    <3>1. z \in Int /\ z % kTxIrqEvery = 0 /\ txHead - (at - at) - 1 = z + kTxIrqEvery
      BY <1>2, <1>3 DEF StatusLeads
    <3> HIDE DEF z
    <3>2. (z + kTxIrqEvery) % kTxIrqEvery = 0
      BY <1>3, <3>1, PeriodLater
    <3> QED BY <3>1, <3>2
  <2>2. at \in at..(at + kTxIrqEvery - 1)
    BY <1>3
  <2>3. \A k \in s..(to - 1) : IsFull(Slot(k)) => (Slot(k) \in written' <=> k < at)
    <3>1. \A k \in s..(to - 1) : k \in sent..(to - 1)
      BY <1>3, <1>6, <1>9
    <3> QED BY <1>7, <3>1
  <2>4. Slot(at) = Slot(txHead)
    BY DEF StatusLeads
  <2> QED BY <1>1, <1>8, <2>1, <2>2, <2>3, <2>4, Zenon DEF StatusLeads, s, to
<1>11. FillLeads(at, at)'
  <2>1. /\ to \in (at + kTxLeadPkts - 2 * kTxIrqEvery)..f
        /\ txFillUpTo \in (at + kTxLeadPkts - 2 * kTxIrqEvery)..f
        /\ f \in (at + kTxLeadPkts - kTxIrqEvery)..(p + kTxLeadPkts)
        /\ p <= s
    BY <1>2, <1>3, <1>6, <1>9
  <2>2. \A k \in at..(f - 1) : IsFull(Slot(k)) => payload[Slot(k)] = k
    BY DEF FillLeads, f
  <2>3. {to, txFillUpTo} \subseteq (at + kTxLeadPkts - 2 * kTxIrqEvery)..f
    BY <2>1
  <2> QED BY <1>1, <2>1, <2>2, <2>3, Zenon DEF FillLeads, f, p, s, to
<1>12. TickLeads(at, at)'
  <2>1. txPump.at \in {"tick", "store", "resync", "fill", "wait"}
    BY DEF TickLeads
  <2> QED BY <1>1, <2>1, Zenon DEF TickLeads
<1>13. at \in 0..sent'
  BY <1>3, <1>9 DEF s
<1> QED BY <1>10, <1>11, <1>12, <1>13

\* A step of the pump leaves the statuses as they were.
LEMMA StatusesKept ==
  ASSUME NEW at, NEW base, StatusLeads(at, base),
         UNCHANGED <<itRunning, txHead, txSent, sent, fill, written, txIrq>>
  PROVE  StatusLeads(at, base)'
BY Zenon DEF StatusLeads

\* The tick: the snapshot, the cursor handed over, a resynchronisation that finds
\* nothing to correct, and the packets of the lead.
LEMMA LeadTick ==
  ASSUME TransmitInv, NEW base \in 0..sent, NEW at \in base..(base + kTxIrqEvery),
         StatusLeads(at, base), FillLeads(at, base), TickLeads(at, base), TxTick
  PROVE  (StatusLeads(at, base) /\ FillLeads(at, base) /\ TickLeads(at, base))'
<1> DEFINE f == txPump.fillPkt
           p == txPump.sent
<1>1. txPump \in TxPumpType /\ payload \in [TxSlots -> Nat \cup {Silence}]
  BY TransmitFacts
<1>2. /\ base \in Nat /\ at \in Nat /\ sent \in Nat /\ fill \in Nat
      /\ f \in Nat /\ p \in Nat /\ txFillUpTo \in Nat /\ txSent = sent
      /\ kTxIrqEvery \in Nat \ {0} /\ kITPackets \in Nat \ {0} /\ kTxMinLeadPkts \in Nat
      /\ kTxLeadPkts \in Nat /\ 3 * kTxIrqEvery <= kTxLeadPkts /\ kTxLeadPkts <= kITPackets
      /\ kTxMinLeadPkts + kTxIrqEvery < kTxLeadPkts
      /\ base <= sent /\ sent <= base + 1 /\ base <= at /\ at <= base + kTxIrqEvery
      /\ base + kTxLeadPkts - 2 * kTxIrqEvery <= fill /\ fill <= f
      /\ base + kTxLeadPkts - 2 * kTxIrqEvery <= txFillUpTo /\ txFillUpTo <= f
      /\ base + kTxLeadPkts - kTxIrqEvery <= f /\ f <= p + kTxLeadPkts /\ p <= sent
  BY LeadFacts DEF StatusLeads
<1>3. /\ UNCHANGED <<itRunning, txHead, txSent, sent, fill, written, txIrq>>
      /\ (~TxWake => UNCHANGED txNews)
  BY DEF TxTick, ReadTxStatus, StoreFill, Resync, FillPacket, Wait, TxWake, TxRest, txDext
<1>4. StatusLeads(at, base)'
  BY <1>3, StatusesKept
<1>5. \A k \in at..(f - 1) : IsFull(Slot(k)) => payload[Slot(k)] = k
  BY DEF FillLeads
<1>6. CASE ReadTxStatus
  <2>1. /\ txPump.at = "tick" /\ txPump'.at = "store" /\ txPump'.sent = sent /\ txPump'.fillPkt = f
        /\ UNCHANGED <<payload, txFillUpTo, txNews>>
    BY <1>1, <1>2, <1>6 DEF ReadTxStatus, TxPumpType, TxRest, txDext
  <2>2. FillLeads(at, base)'
    <3> HIDE DEF f, p
    <3>1. /\ {fill, txFillUpTo} \subseteq (base + kTxLeadPkts - 2 * kTxIrqEvery)..f
          /\ f \in (base + kTxLeadPkts - kTxIrqEvery)..(sent + kTxLeadPkts)
          /\ sent <= sent
      BY <1>2
    <3> QED BY <1>3, <1>5, <2>1, <3>1, Zenon DEF FillLeads
  <2>3. TickLeads(at, base)'
    BY <1>3, <2>1, Zenon DEF TickLeads
  <2> QED BY <1>4, <2>2, <2>3
<1>7. CASE StoreFill
  <2>1. /\ txPump.at = "store" /\ txPump'.at = "resync" /\ txPump'.sent = p /\ txPump'.fillPkt = f
        /\ txFillUpTo' = f /\ UNCHANGED <<payload, txNews>>
    BY <1>1, <1>2, <1>7 DEF StoreFill, TxPumpType, TxRest, txDext
  <2>2. FillLeads(at, base)'
    <3>1. p <= sent
      BY <1>2
    <3> HIDE DEF f, p
    <3>2. /\ {fill, f} \subseteq (base + kTxLeadPkts - 2 * kTxIrqEvery)..f
          /\ f \in (base + kTxLeadPkts - kTxIrqEvery)..(p + kTxLeadPkts)
      BY <1>2
    <3> QED BY <1>3, <1>5, <2>1, <3>1, <3>2, Zenon DEF FillLeads
  <2>3. TickLeads(at, base)'
    <3>1. f >= base + kTxLeadPkts - kTxIrqEvery
      <4> HIDE DEF f
      <4> QED BY <1>2
    <3> QED BY <1>3, <2>1, <3>1, Zenon DEF TickLeads
  <2> QED BY <1>4, <2>2, <2>3
<1>8. CASE Resync
  <2>1. ~(f < p + kTxMinLeadPkts) /\ ~(f - p > kITPackets)
    <3> HIDE DEF f, p
    <3> QED BY <1>2
  <2>2. /\ txPump.at = "resync" /\ txPump'.at = "fill" /\ txPump'.sent = p /\ txPump'.fillPkt = f
        /\ UNCHANGED <<payload, txFillUpTo, txNews>>
    BY <1>1, <1>8, <2>1 DEF Resync, TxPumpType, TxRest, txDext
  <2>3. FillLeads(at, base)'
    BY <1>3, <2>2, Zenon DEF FillLeads
  <2>4. TickLeads(at, base)'
    BY <1>3, <2>2, Zenon DEF TickLeads
  <2> QED BY <1>4, <2>3, <2>4
<1>9. CASE FillPacket
  <2>1. /\ txPump.at = "fill" /\ txPump'.at = "fill" /\ txPump'.sent = p /\ txPump'.fillPkt = f + 1
        /\ f < p + kTxLeadPkts
        /\ payload' = (IF IsFull(Slot(f)) THEN [payload EXCEPT ![Slot(f)] = f] ELSE payload)
        /\ UNCHANGED <<txFillUpTo, txNews>>
    BY <1>1, <1>9 DEF FillPacket, TxPumpType, TxRest, txDext
  <2>2. FillLeads(at, base)'
    <3>1. p <= sent
      BY <1>2
    <3>2. ASSUME NEW k \in at..f, IsFull(Slot(k))
          PROVE  payload'[Slot(k)] = k
      <4> HIDE DEF f, p
      <4>1. k \in Nat /\ Slot(k) \in TxSlots
        <5>1. k \in Nat
          BY <1>2
        <5> QED BY <5>1, TxSlotInRing
      <4>2. CASE k = f
        <5>1. Slot(k) = Slot(f) /\ IsFull(Slot(f))
          BY <3>2, <4>2
        <5> QED BY <1>1, <2>1, <4>1, <4>2, <5>1
      <4>3. CASE k # f
        <5>1. k \in at..(f - 1) /\ k < f
          BY <1>2, <4>1, <4>3
        <5>2. payload[Slot(k)] = k
          BY <1>5, <3>2, <5>1
        <5>3. ~IsFull(Slot(f)) \/ Slot(f) # Slot(k)
          <6>1. CASE f - k < kITPackets
            BY <1>2, <4>1, <5>1, <6>1, SlotDistinct
          <6>2. CASE f - k >= kITPackets
            <7>1. k = base /\ sent = base + 1
              BY <1>2, <2>1, <4>1, <6>2
            <7>2. ~IsFull(Slot(base))
              BY <1>2, <7>1 DEF StatusLeads
            <7> QED BY <3>2, <7>1, <7>2
          <6> QED BY <1>2, <4>1, <6>1, <6>2
        <5> QED BY <1>1, <2>1, <4>1, <5>2, <5>3
      <4> QED BY <4>2, <4>3
    <3> HIDE DEF f, p
    <3>3. /\ {fill, txFillUpTo} \subseteq (base + kTxLeadPkts - 2 * kTxIrqEvery)..(f + 1)
          /\ f + 1 \in (base + kTxLeadPkts - kTxIrqEvery)..(p + kTxLeadPkts)
          /\ (f + 1) - 1 = f
      BY <1>2, <2>1
    <3>4. \A k \in at..((f + 1) - 1) : IsFull(Slot(k)) => payload'[Slot(k)] = k
      BY <3>2, <3>3
    <3> QED BY <1>3, <2>1, <3>1, <3>3, <3>4, Zenon DEF FillLeads
  <2>3. TickLeads(at, base)'
    <3>1. f >= sent + kTxLeadPkts => f + 1 >= sent + kTxLeadPkts
      <4> HIDE DEF f
      <4> QED BY <1>2
    <3> QED BY <1>3, <2>1, <3>1, Zenon DEF TickLeads
  <2> QED BY <1>4, <2>2, <2>3
<1>10. CASE Wait
  <2>1. /\ txPump.at = "fill" /\ txPump'.at = "wait" /\ txPump'.sent = p /\ txPump'.fillPkt = f
        /\ f >= p + kTxLeadPkts /\ UNCHANGED <<payload, txFillUpTo, txNews>>
    BY <1>1, <1>10 DEF Wait, TxPumpType, TxRest, txDext
  <2>2. FillLeads(at, base)'
    BY <1>3, <2>1, Zenon DEF FillLeads
  <2>3. TickLeads(at, base)'
    BY <1>3, <2>1, Zenon DEF TickLeads
  <2> QED BY <1>4, <2>2, <2>3
<1>11. CASE TxWake
  <2>1. /\ txPump.at = "wait" /\ txPump'.at = "tick" /\ txPump'.sent = p /\ txPump'.fillPkt = f
        /\ UNCHANGED <<payload, txFillUpTo>> /\ ~txNews'
    BY <1>1, <1>11 DEF TxWake, TxPumpType
  <2>2. FillLeads(at, base)'
    BY <1>3, <2>1, Zenon DEF FillLeads
  <2>3. TickLeads(at, base)'
    BY <1>3, <2>1, Zenon DEF TickLeads
  <2> QED BY <1>4, <2>2, <2>3
<1> QED BY <1>6, <1>7, <1>8, <1>9, <1>10, <1>11 DEF TxTick

\* Whatever is not a cycle somebody was late for or the end of the session keeps the
\* pump ahead of the controller.
LEMMA LeadStep ==
  ASSUME TransmitInv, Leads, [TransmitNext]_transmitVars, ~TxUpset
  PROVE  Leads'
<1>0. PICK base \in 0..sent : \E at \in base..(base + kTxIrqEvery) :
        StatusLeads(at, base) /\ FillLeads(at, base) /\ TickLeads(at, base)
  BY DEF Leads
<1>1. PICK at \in base..(base + kTxIrqEvery) :
        StatusLeads(at, base) /\ FillLeads(at, base) /\ TickLeads(at, base)
  BY <1>0
<1>2. txPump.at \in {"tick", "store", "resync", "fill", "wait"}
  BY <1>1 DEF TickLeads
<1>3. CASE TxCycle
  <2>1. txCycle' = txCycle + 1 /\ txCycle \in Nat /\ UNCHANGED sent
    BY <1>3, TransmitFacts DEF TxCycle
  <2>2. txCalm' # 0
    BY <2>1 DEF TxUpset
  <2>3. TxKeptUp
    BY <1>3, <2>2 DEF TxCycle
  <2>4. /\ at + 1 \in base..(base + kTxIrqEvery)
        /\ (StatusLeads(at + 1, base) /\ FillLeads(at + 1, base) /\ TickLeads(at + 1, base))'
    BY <1>1, <1>3, <2>3, LeadCycle
  <2> QED BY <2>1, <2>4 DEF Leads
<1>4. CASE TxInterrupt
  <2>1. /\ at \in 0..sent'
        /\ (StatusLeads(at, at) /\ FillLeads(at, at) /\ TickLeads(at, at))'
    BY <1>1, <1>4, LeadInterrupt
  <2>2. at \in at..(at + kTxIrqEvery)
    BY <2>1, RingAssumption
  <2> QED BY <2>1, <2>2 DEF Leads
<1>5. CASE TxTick
  <2>1. UNCHANGED sent
    BY <1>5 DEF TxTick, ReadTxStatus, StoreFill, Resync, FillPacket, Wait, TxWake, TxRest, txDext
  <2>2. (StatusLeads(at, base) /\ FillLeads(at, base) /\ TickLeads(at, base))'
    BY <1>1, <1>5, LeadTick
  <2> QED BY <1>1, <2>1, <2>2 DEF Leads
<1>6. CASE TxSession
  <2>1. TxRestart
    BY <1>2, <1>6 DEF TxSession, IsoTxStop, IsoTxStart, TxSettle
  <2>2. txPump'.at = "stop"
    BY <2>1, TransmitFacts DEF TxRestart, TxPumpType
  <2> QED BY <2>2 DEF TxUpset
<1>7. CASE UNCHANGED transmitVars
  <2>1. UNCHANGED <<itRunning, txHead, txSent, sent, fill, written, txIrq>>
    BY <1>7 DEF transmitVars, txDext
  <2>2. UNCHANGED <<txPump, payload, txFillUpTo, txNews>>
    BY <1>7 DEF transmitVars, txDext
  <2>3. (StatusLeads(at, base) /\ FillLeads(at, base) /\ TickLeads(at, base))'
    BY <1>1, <2>1, <2>2, Zenon DEF StatusLeads, FillLeads, TickLeads
  <2> QED BY <1>1, <2>1, <2>3 DEF Leads
<1> QED BY <1>3, <1>4, <1>5, <1>6, <1>7 DEF TransmitNext

\* A pump that leads the controller goes on leading it until a cycle finds it or the
\* interrupt late or the session ends: KeepsLeading, for every ring, cadence, lead
\* and interrupt period of LeadAssumption.
THEOREM TransmitKeepsLeading == TransmitSpec => KeepsLeading
<1>1. TransmitInv /\ [TransmitNext]_transmitVars => [Leads /\ ~TxUpset => Leads']_transmitVars
  BY LeadStep
<1> QED BY <1>1, TransmitInvariant, PTL DEF TransmitSpec, KeepsLeading

\* What goes on the wire is then what the pump wrote for it: InStep, without the
\* horizon.
THEOREM LeadsIsInStep == TransmitSpec => [](Leads => InStep)
<1>1. TransmitInv => (Leads => InStep)
  <2> SUFFICES ASSUME TransmitInv, Leads, IsFull(Slot(txHead))
               PROVE  /\ payload[Slot(txHead)] \in sent..(txPump.fillPkt - 1)
                      /\ Slot(payload[Slot(txHead)]) = Slot(txHead)
    BY DEF InStep
  <2>0. PICK base \in 0..sent : \E at \in base..(base + kTxIrqEvery) :
          StatusLeads(at, base) /\ FillLeads(at, base) /\ TickLeads(at, base)
    BY DEF Leads
  <2>1. PICK at \in base..(base + kTxIrqEvery) :
          StatusLeads(at, base) /\ FillLeads(at, base) /\ TickLeads(at, base)
    BY <2>0
  <2>2. Slot(at) = Slot(txHead)
    BY <2>1 DEF StatusLeads
  <2> DEFINE f == txPump.fillPkt
  <2>3. /\ base \in Nat /\ at \in Nat /\ sent \in Nat /\ f \in Nat
        /\ kTxIrqEvery \in Nat \ {0} /\ kTxLeadPkts \in Nat /\ 3 * kTxIrqEvery <= kTxLeadPkts
        /\ base <= sent /\ sent <= base + 1 /\ base <= at /\ at <= base + kTxIrqEvery
        /\ base + kTxLeadPkts - kTxIrqEvery <= f
    BY <2>1, LeadFacts
  <2>4. sent <= at
    <3> SUFFICES ASSUME at < sent PROVE FALSE
      BY <2>3
    <3>1. at = base /\ sent = base + 1
      <4> HIDE DEF f
      <4> QED BY <2>3
    <3>2. ~IsFull(Slot(base))
      BY <2>1, <2>3, <3>1 DEF StatusLeads
    <3> QED BY <2>2, <3>1, <3>2
  <2>5. at \in sent..(f - 1) /\ at \in at..(f - 1)
    <3> HIDE DEF f
    <3> QED BY <2>3, <2>4
  <2>6. payload[Slot(at)] = at
    BY <2>1, <2>2, <2>5 DEF FillLeads
  <2> QED BY <2>2, <2>5, <2>6
<1> QED BY <1>1, TransmitInvariant, PTL

-----------------------------------------------------------------------------
(* The streams together, as the run explores them.                         *)

\* Every part keeps its invariant, whichever of them moves.
StreamsInv == CaptureInv /\ TransmitInv /\ ClockInv

\* The three inductive invariants hold throughout, of the parts at rest too.
THEOREM StreamsInvariant == StreamsSpec => []StreamsInv
<1>1. StreamsInit => StreamsInv
  BY CaptureInitially, TransmitInitially, ClockInitially DEF StreamsInit, StreamsInv
<1>2. StreamsInv /\ [StreamsNext]_streamVars => StreamsInv'
  <2> SUFFICES ASSUME StreamsInv, [StreamsNext]_streamVars PROVE StreamsInv'
    OBVIOUS
  <2>1. /\ [CaptureNext]_captureVars /\ [TransmitNext]_transmitVars
        /\ [ClockNext]_clockVars
    BY DEF StreamsNext, streamVars
  <2> QED BY <2>1, CaptureStep, TransmitStep, ClockStep DEF StreamsInv
<1> QED BY <1>1, <1>2, PTL DEF StreamsSpec

\* Every variable of the drain, the pacing and the clock keeps its type.
THEOREM StreamsTypeCorrect == StreamsSpec => []StreamsTypeOK
<1>1. StreamsInv => StreamsTypeOK
  BY DEF StreamsInv, CaptureInv, TransmitInv, ClockInv, StreamsTypeOK
<1> QED BY <1>1, StreamsInvariant, PTL

\* A behaviour of the run is one of each part, the parts at rest stuttering.
LEMMA StreamsParts == StreamsSpec => CaptureSpec /\ TransmitSpec /\ ClockSpec
<1>1. StreamsInit => CaptureInit /\ TransmitInit /\ ClockInit
  BY DEF StreamsInit
<1>2. [StreamsNext]_streamVars
        => [CaptureNext]_captureVars /\ [TransmitNext]_transmitVars /\ [ClockNext]_clockVars
  BY DEF StreamsNext, streamVars
<1> QED BY <1>1, <1>2, PTL DEF StreamsSpec, CaptureSpec, TransmitSpec, ClockSpec

\* Dext and pump, once in step with the controller on both rings, stay in step until a
\* cycle is missed, finds one of them late, or the session ends.
THEOREM StreamsStayInStep == StreamsSpec => StaysInStep
<1> QED BY StreamsParts, CaptureKeepsFollowing, TransmitKeepsLeading, PTL DEF StaysInStep

\* ... and each part keeps its promises while the run moves one of them and leaves
\* the others at rest: nothing is counted that was not stored, restarts stay bounded,
\* the transmit cursors stay within a lap, and the clock's stamps and timeline hold.
THEOREM StreamsKeepPromises ==
  StreamsSpec => /\ [](CountsOnlyStored /\ FlappingStops /\ LeadWithinLap /\ StampValid)
                 /\ TimelineHolds
<1> QED BY StreamsParts, CaptureCountsOnlyStored, CaptureFlappingStops, TransmitLeadWithinLap,
           ClockStampValid, ClockTimelineHolds, PTL
=============================================================================
