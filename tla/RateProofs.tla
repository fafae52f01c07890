----------------------------- MODULE RateProofs -----------------------------
(***************************************************************************)
(* The plugin follows only the true rate: proved for any set of rates, any *)
(* number of daemon and plugin runs, and any budget of failures.           *)
(***************************************************************************)
EXTENDS RateNegotiation, TLAPS

\* A thread about to write to a ring has one.
MappedInv ==
  /\ pluginUp /\ mapper # "poll" => attached # 0
  /\ hal.at = "bump" => hal.cap # 0

\* What deviceRate and the wire can be at each point of the daemon: the ring
\* names a rate only when the device streams at it or not at all.
RateInv ==
  /\ run = 0 => dpc = "down"
  /\ \A r \in 1..MaxRuns : r > run => ring[r].deviceRate = 0
  /\ dpc \in {"session", "make_ring", "init_ring", "restart", "republish"}
       => ring[run].deviceRate = 0
  /\ dpc \in {"setup", "pump"} => ring[run].deviceRate \in {0, rate}
  /\ dpc \in {"down", "restart"} => wire = 0
  /\ wire \in {0, rate}

\* The inductive invariant of the negotiation.
NegotiationInv == TypeOK /\ MappedInv /\ RateInv

-----------------------------------------------------------------------------
\* Storing a request in a ring's header, or bumping its sequence number,
\* publishes no rate.
LEMMA RequestStored ==
  ASSUME NEW g \in [1..MaxRuns -> RingFields], NEW r \in 1..MaxRuns, NEW v \in Rates
  PROVE  /\ [g EXCEPT ![r].requestedRate = v] \in [1..MaxRuns -> RingFields]
         /\ [g EXCEPT ![r].requestSeq = @ + 1] \in [1..MaxRuns -> RingFields]
         /\ \A x \in 1..MaxRuns :
              /\ [g EXCEPT ![r].requestedRate = v][x].deviceRate = g[x].deviceRate
              /\ [g EXCEPT ![r].requestSeq = @ + 1][x].deviceRate = g[x].deviceRate
<1>1. [g EXCEPT ![r].requestedRate = v] \in [1..MaxRuns -> RingFields]
  BY DEF RingFields
<1>2. [g EXCEPT ![r].requestSeq = @ + 1] \in [1..MaxRuns -> RingFields]
  BY DEF RingFields
<1>3. \A x \in 1..MaxRuns :
        [g EXCEPT ![r].requestedRate = v][x].deviceRate = g[x].deviceRate
  BY DEF RingFields
<1>4. \A x \in 1..MaxRuns :
        [g EXCEPT ![r].requestSeq = @ + 1][x].deviceRate = g[x].deviceRate
  BY DEF RingFields
<1> QED BY <1>1, <1>2, <1>3, <1>4

\* A new ring with its rate published.
LEMMA NewRing ==
  ASSUME NEW g \in [1..MaxRuns -> RingFields], NEW r \in 1..MaxRuns,
         NEW v \in Rates
  PROVE  /\ [g EXCEPT ![r] = [Fresh EXCEPT !.deviceRate = v]]
              \in [1..MaxRuns -> RingFields]
         /\ \A x \in 1..MaxRuns :
              [g EXCEPT ![r] = [Fresh EXCEPT !.deviceRate = v]][x].deviceRate
                = IF x = r THEN v ELSE g[x].deviceRate
<1> DEFINE f == [Fresh EXCEPT !.deviceRate = v]
<1>1. f \in RingFields /\ f.deviceRate = v
  BY DEF Fresh, RingFields
<1> HIDE DEF f
<1>2. [g EXCEPT ![r] = f] \in [1..MaxRuns -> RingFields]
  BY <1>1
<1>3. \A x \in 1..MaxRuns : [g EXCEPT ![r] = f][x].deviceRate
                              = IF x = r THEN v ELSE g[x].deviceRate
  BY <1>1
<1> QED BY <1>2, <1>3 DEF f

\* Spending an event leaves a budget.
LEMMA SpendBudget ==
  ASSUME NEW kind \in {"plugin", "set", "wedge", "fail", "crash"},
         budget \in [{"plugin", "set", "wedge", "fail", "crash"} -> Nat],
         Spend(kind)
  PROVE  budget' \in [{"plugin", "set", "wedge", "fail", "crash"} -> Nat]
BY DEF Spend

-----------------------------------------------------------------------------
\* The negotiation starts in the invariant.
LEMMA NegotiationInit == Init => NegotiationInv
<1> SUFFICES ASSUME Init PROVE NegotiationInv
  OBVIOUS
<1> USE RatesAssumption, BoundsAssumption
<1>1. ring \in [1..MaxRuns -> RingFields]
  <2>1. Fresh \in RingFields
    BY DEF Fresh, RingFields
  <2> QED BY <2>1 DEF Init
<1>2. budget \in [{"plugin", "set", "wedge", "fail", "crash"} -> Nat]
  BY DEF Init
<1>3. hal \in [at: {"idle", "bump", "nominal"}, rate: Rates, cap: 0..MaxRuns]
  BY DEF Init
<1>4. pluginUp \in BOOLEAN
  BY Zenon DEF Init
<1>5. TypeOK
  BY <1>1, <1>2, <1>3, <1>4 DEF Init, TypeOK
<1>6. MappedInv
  BY DEF Init, MappedInv
<1>7. RateInv
  BY DEF Init, RateInv, Fresh
<1> QED BY <1>5, <1>6, <1>7 DEF NegotiationInv

\* A running daemon has made, or is about to make, a ring of its own.
LEMMA RunningHasRing ==
  ASSUME NegotiationInv, dpc # "down"
  PROVE  run \in 1..MaxRuns /\ run \in 0..MaxRuns
<1>1. run \in 0..MaxRuns
  BY DEF NegotiationInv, TypeOK
<1>2. run # 0
  BY DEF NegotiationInv, RateInv
<1> QED BY <1>1, <1>2, BoundsAssumption

\* The first half of restart_session, from the pump.
LEMMA RestartBegins ==
  ASSUME NegotiationInv, dpc = "pump",
         NEW newRate \in Rates, BeginRestart(newRate),
         seenRequest' \in Nat,
         UNCHANGED <<named, run, rate, restartFailures, pluginVars, budget>>
  PROVE  NegotiationInv'
<1> USE BoundsAssumption DEF NegotiationInv, pluginVars
<1>1. run \in 1..MaxRuns /\ run \in 0..MaxRuns
  BY RunningHasRing
<1>2. /\ ring' \in [1..MaxRuns -> RingFields]
      /\ \A x \in 1..MaxRuns :
           ring'[x].deviceRate = IF x = run THEN 0 ELSE ring[x].deviceRate
  <2>1. ring \in [1..MaxRuns -> RingFields] /\ 0 \in Rates \cup {0}
    BY DEF TypeOK
  <2>2. ring' = [ring EXCEPT ![run].deviceRate = 0]
    BY DEF BeginRestart
  <2>3. ring' \in [1..MaxRuns -> RingFields]
    BY <1>1, <2>1, <2>2 DEF RingFields
  <2>4. \A x \in 1..MaxRuns :
          ring'[x].deviceRate = IF x = run THEN 0 ELSE ring[x].deviceRate
    BY <1>1, <2>1, <2>2 DEF RingFields
  <2> QED BY <2>3, <2>4
<1>3. TypeOK'
  BY <1>2 DEF BeginRestart, TypeOK
<1>4. MappedInv'
  BY DEF MappedInv
<1>5. RateInv'
  BY <1>1, <1>2 DEF BeginRestart, TypeOK, RateInv
<1> QED BY <1>3, <1>4, <1>5

\* Every step of the daemon keeps the invariant.
LEMMA DaemonStep == NegotiationInv /\ Daemon => NegotiationInv'
<1> SUFFICES ASSUME NegotiationInv, Daemon PROVE NegotiationInv'
  OBVIOUS
<1> USE RatesAssumption, BoundsAssumption DEF NegotiationInv, daemonVars, pluginVars
<1>t. TypeOK /\ MappedInv /\ RateInv
  OBVIOUS
<1>1. CASE DaemonStart
  <2>1. TypeOK'
    BY <1>1, <1>t DEF DaemonStart, TypeOK, RateInv
  <2>2. MappedInv'
    BY <1>1, <1>t DEF DaemonStart, MappedInv
  <2>3. RateInv'
    BY <1>1, <1>t DEF DaemonStart, TypeOK, RateInv
  <2> QED BY <2>1, <2>2, <2>3
<1>2. CASE StartSession
  <2>1. TypeOK'
    BY <1>2, <1>t DEF StartSession, TypeOK, RateInv
  <2>2. MappedInv'
    BY <1>2, <1>t DEF StartSession, MappedInv
  <2>3. RateInv'
    BY <1>2, <1>t DEF StartSession, TypeOK, RateInv
  <2> QED BY <2>1, <2>2, <2>3
<1>3. CASE MakeRing
  <2>1. TypeOK'
    BY <1>3, <1>t DEF MakeRing, TypeOK, RateInv
  <2>2. MappedInv'
    BY <1>3, <1>t DEF MakeRing, MappedInv
  <2>3. RateInv'
    BY <1>3, <1>t DEF MakeRing, TypeOK, RateInv
  <2> QED BY <2>1, <2>2, <2>3
<1>4. CASE InitRing
  <2>n. run \in 1..MaxRuns /\ run \in 0..MaxRuns
    BY <1>4, RunningHasRing DEF InitRing
  <2>r. /\ ring' \in [1..MaxRuns -> RingFields]
        /\ \A x \in 1..MaxRuns :
             ring'[x].deviceRate = IF x = run THEN rate ELSE ring[x].deviceRate
    BY <2>n, <1>4, <1>t, NewRing, ZenonT(40) DEF InitRing, TypeOK
  <2>1. TypeOK'
    BY <2>r, <1>4, <1>t DEF InitRing, TypeOK
  <2>2. MappedInv'
    BY <1>4, <1>t DEF InitRing, MappedInv
  <2>3. RateInv'
    BY <2>n, <2>r, <1>4, <1>t DEF InitRing, RateInv, TypeOK
  <2> QED BY <2>1, <2>2, <2>3
<1>5. CASE EnterPump
  <2>1. TypeOK'
    <3>1. ring[run].requestSeq \in Nat
      BY <1>5, <1>t, SMTT(40) DEF EnterPump, TypeOK, RateInv, RingFields
    <3> QED BY <3>1, <1>5, <1>t DEF EnterPump, TypeOK
  <2>2. MappedInv'
    BY <1>5, <1>t DEF EnterPump, MappedInv
  <2>3. RateInv'
    BY <1>5, <1>t DEF EnterPump, RateInv
  <2> QED BY <2>1, <2>2, <2>3
<1>6. CASE PumpRequest
  <2> DEFINE want == ring[run].requestedRate
  <2>1. run \in 1..MaxRuns /\ ring[run].requestSeq \in Nat
    BY <1>6, <1>t, RunningHasRing DEF PumpRequest, TypeOK, RingFields
  <2>2. seenRequest' \in Nat
    BY <2>1, <1>6 DEF PumpRequest
  <2>3. CASE want \in Rates /\ want # rate
    <3>1. BeginRestart(want) /\ want \in Rates /\ dpc = "pump"
      BY <2>3, <1>6 DEF PumpRequest
    <3>2. UNCHANGED <<named, run, rate, restartFailures, pluginVars, budget>>
      BY <1>6 DEF PumpRequest
    <3> QED BY <2>2, <3>1, <3>2, RestartBegins
  <2>4. CASE ~(want \in Rates /\ want # rate)
    <3>1. UNCHANGED <<ring, wire, target, dpc>>
      BY <2>4, <1>6 DEF PumpRequest
    <3>2. TypeOK'
      BY <3>1, <2>2, <1>6, <1>t DEF PumpRequest, TypeOK
    <3>3. MappedInv'
      BY <1>6, <1>t DEF PumpRequest, MappedInv
    <3>4. RateInv'
      BY <3>1, <1>6, <1>t DEF PumpRequest, RateInv
    <3> QED BY <3>2, <3>3, <3>4
  <2> QED BY <2>3, <2>4
<1>7. CASE WedgeRestart
  <2>1. BeginRestart(rate) /\ rate \in Rates
    BY <1>7, <1>t DEF WedgeRestart, TypeOK
  <2>2. dpc = "pump" /\ seenRequest' \in Nat
    BY <1>7, <1>t DEF WedgeRestart, TypeOK
  <2>3. UNCHANGED <<named, run, rate, restartFailures, pluginVars, budget>>
    BY <1>7 DEF WedgeRestart
  <2> QED BY <2>1, <2>2, <2>3, RestartBegins
<1>8. CASE RestartUp
  <2>1. TypeOK'
    BY <1>8, <1>t DEF RestartUp, TypeOK, RateInv
  <2>2. MappedInv'
    BY <1>8, <1>t DEF RestartUp, MappedInv
  <2>3. RateInv'
    BY <1>8, <1>t DEF RestartUp, TypeOK, RateInv
  <2> QED BY <2>1, <2>2, <2>3
<1>9. CASE Republish
  <2>n. run \in 1..MaxRuns /\ run \in 0..MaxRuns
    BY <1>9, RunningHasRing DEF Republish
  <2>r. /\ ring' \in [1..MaxRuns -> RingFields]
        /\ \A x \in 1..MaxRuns :
             ring'[x].deviceRate = IF x = run THEN rate ELSE ring[x].deviceRate
    <3>1. ring \in [1..MaxRuns -> RingFields] /\ rate \in Rates \cup {0}
      BY <1>t DEF TypeOK
    <3>2. ring' = [ring EXCEPT ![run].deviceRate = rate]
      BY <1>9 DEF Republish
    <3>3. ring' \in [1..MaxRuns -> RingFields]
      BY <2>n, <3>1, <3>2 DEF RingFields
    <3>4. \A x \in 1..MaxRuns :
            ring'[x].deviceRate = IF x = run THEN rate ELSE ring[x].deviceRate
      BY <2>n, <3>1, <3>2 DEF RingFields
    <3> QED BY <3>3, <3>4
  <2>1. TypeOK'
    BY <2>r, <1>9, <1>t DEF Republish, TypeOK
  <2>2. MappedInv'
    BY <1>9, <1>t DEF Republish, MappedInv
  <2>3. RateInv'
    BY <2>n, <2>r, <1>9, <1>t DEF Republish, RateInv, TypeOK
  <2> QED BY <2>1, <2>2, <2>3
<1> QED BY <1>1, <1>2, <1>3, <1>4, <1>5, <1>6, <1>7, <1>8, <1>9 DEF Daemon

-----------------------------------------------------------------------------
\* A step of the plugin that publishes no rate keeps the daemon's facts.
LEMMA RateKept ==
  ASSUME NegotiationInv, UNCHANGED daemonVars,
         \A x \in 1..MaxRuns : ring'[x].deviceRate = ring[x].deviceRate
  PROVE  RateInv'
<1>1. CASE dpc = "down"
  BY <1>1 DEF NegotiationInv, TypeOK, RateInv, daemonVars
<1>2. CASE dpc # "down"
  <2>1. run \in 1..MaxRuns
    BY <1>2, RunningHasRing
  <2> QED BY <2>1, <1>2 DEF NegotiationInv, TypeOK, RateInv, daemonVars
<1> QED BY <1>1, <1>2

\* Every step of the plugin's threads keeps the invariant.
LEMMA PluginStep == NegotiationInv /\ Plugin => NegotiationInv'
<1> SUFFICES ASSUME NegotiationInv, Plugin PROVE NegotiationInv'
  OBVIOUS
<1> USE RatesAssumption, BoundsAssumption DEF NegotiationInv
<1>t. TypeOK /\ MappedInv /\ RateInv
  OBVIOUS
<1>1. CASE Refresh
  <2>1. TypeOK'
    BY <1>1, <1>t DEF Refresh, TypeOK, daemonVars
  <2>2. MappedInv'
    BY <1>1, <1>t DEF Refresh, MappedInv
  <2>3. RateInv'
    BY <1>1, RateKept DEF Refresh
  <2> QED BY <2>1, <2>2, <2>3
<1>2. CASE AttachStore
  <2>1. attached \in 1..MaxRuns
    <3>1. attached \in 0..MaxRuns
      BY <1>t DEF TypeOK
    <3>2. attached # 0
      BY <1>2, <1>t DEF AttachStore, MappedInv
    <3> QED BY <3>1, <3>2
  <2>2. ring \in [1..MaxRuns -> RingFields] /\ nominal \in Rates
    BY <1>t DEF TypeOK
  <2>3. ring' = [ring EXCEPT ![attached].requestedRate = nominal]
    BY <1>2 DEF AttachStore
  <2>4. ring' \in [1..MaxRuns -> RingFields]
    BY <2>1, <2>2, <2>3 DEF RingFields
  <2>5. \A x \in 1..MaxRuns : ring'[x].deviceRate = ring[x].deviceRate
    BY <2>1, <2>2, <2>3 DEF RingFields
  <2>6. TypeOK'
    BY <2>4, <1>2, <1>t DEF AttachStore, TypeOK, daemonVars
  <2>7. MappedInv'
    BY <1>2, <1>t DEF AttachStore, TypeOK, MappedInv
  <2>8. RateInv'
    BY <2>5, <1>2, RateKept DEF AttachStore
  <2> QED BY <2>6, <2>7, <2>8
<1>3. CASE AttachBump
  <2>1. attached \in 1..MaxRuns
    <3>1. attached \in 0..MaxRuns
      BY <1>t DEF TypeOK
    <3>2. attached # 0
      BY <1>3, <1>t DEF AttachBump, MappedInv
    <3> QED BY <3>1, <3>2
  <2>2. ring \in [1..MaxRuns -> RingFields]
    BY <1>t DEF TypeOK
  <2>3. ring' = [ring EXCEPT ![attached].requestSeq = @ + 1]
    BY <1>3 DEF AttachBump
  <2>4. ring' \in [1..MaxRuns -> RingFields]
    BY <2>1, <2>2, <2>3, SMTT(40) DEF RingFields
  <2>5. \A x \in 1..MaxRuns : ring'[x].deviceRate = ring[x].deviceRate
    BY <2>1, <2>2, <2>3 DEF RingFields
  <2>6. TypeOK'
    BY <2>4, <1>3, <1>t DEF AttachBump, TypeOK, daemonVars
  <2>7. MappedInv'
    BY <1>3, <1>t DEF AttachBump, TypeOK, MappedInv
  <2>8. RateInv'
    BY <2>5, <1>3, RateKept DEF AttachBump
  <2> QED BY <2>6, <2>7, <2>8
<1>4. CASE SetRateBump
  <2>1. PICK c \in 1..MaxRuns : c = hal.cap
    <3>1. hal.cap \in 0..MaxRuns
      BY <1>t DEF TypeOK
    <3>2. hal.cap # 0
      BY <1>4, <1>t DEF SetRateBump, MappedInv
    <3> QED BY <3>1, <3>2
  <2>2. ring \in [1..MaxRuns -> RingFields]
    BY <1>t DEF TypeOK
  <2>3. ring' = [ring EXCEPT ![c].requestSeq = @ + 1]
    BY <2>1, <1>4 DEF SetRateBump
  <2>4. ring' \in [1..MaxRuns -> RingFields]
    <3>1. c \in 1..MaxRuns
      BY <2>1
    <3> QED BY <3>1, <2>2, <2>3, RatesAssumption, RequestStored, Zenon
  <2>5. \A x \in 1..MaxRuns : ring'[x].deviceRate = ring[x].deviceRate
    BY <2>1, <2>2, <2>3 DEF RingFields
  <2>6. TypeOK'
    BY <2>4, <1>4, <1>t DEF SetRateBump, TypeOK, daemonVars
  <2>7. MappedInv'
    BY <1>4, <1>t DEF SetRateBump, TypeOK, MappedInv
  <2>8. RateInv'
    BY <2>5, <1>4, RateKept DEF SetRateBump
  <2> QED BY <2>6, <2>7, <2>8
<1>5. CASE SetRateNominal
  <2>1. TypeOK'
    BY <1>5, <1>t DEF SetRateNominal, TypeOK, daemonVars
  <2>2. MappedInv'
    BY <1>5, <1>t DEF SetRateNominal, TypeOK, MappedInv
  <2>3. RateInv'
    BY <1>5, RateKept DEF SetRateNominal
  <2> QED BY <2>1, <2>2, <2>3
<1> QED BY <1>1, <1>2, <1>3, <1>4, <1>5 DEF Plugin

\* Failures, crashes, restarts and CoreAudio's rate changes keep it too.
LEMMA EnvironmentStep == NegotiationInv /\ Environment => NegotiationInv'
<1> SUFFICES ASSUME NegotiationInv, Environment PROVE NegotiationInv'
  OBVIOUS
<1> USE RatesAssumption, BoundsAssumption DEF NegotiationInv
<1>t. TypeOK /\ MappedInv /\ RateInv
  OBVIOUS
<1>b. budget \in [{"plugin", "set", "wedge", "fail", "crash"} -> Nat]
  BY <1>t DEF TypeOK
<1>1. CASE RestartFail
  <2>b. budget' \in [{"plugin", "set", "wedge", "fail", "crash"} -> Nat]
    BY <1>b, <1>1, SpendBudget DEF RestartFail
  <2>1. TypeOK'
    BY <2>b, <1>1, <1>t DEF RestartFail, TypeOK, pluginVars
  <2>2. MappedInv'
    BY <1>1, <1>t DEF RestartFail, MappedInv, pluginVars
  <2>3. RateInv'
    BY <1>1, <1>t DEF RestartFail, TypeOK, RateInv
  <2> QED BY <2>1, <2>2, <2>3
<1>2. CASE DaemonStop
  <2>b. budget' \in [{"plugin", "set", "wedge", "fail", "crash"} -> Nat]
    BY <1>b, <1>2, SpendBudget DEF DaemonStop
  <2>n. run \in 1..MaxRuns
    BY <1>2, RunningHasRing DEF DaemonStop
  <2>r. ring' \in [1..MaxRuns -> RingFields]
    BY <2>n, <1>2, <1>t, ZenonT(60) DEF DaemonStop, TypeOK, RingFields
  <2>d. \A x \in 1..MaxRuns :
          ring'[x].deviceRate = IF x = run THEN 0 ELSE ring[x].deviceRate
    BY <2>n, <1>2, <1>t DEF DaemonStop, TypeOK, RingFields
  <2>1. TypeOK'
    BY <2>r, <2>b, <1>2, <1>t DEF DaemonStop, TypeOK, pluginVars
  <2>2. MappedInv'
    BY <1>2, <1>t DEF DaemonStop, MappedInv, pluginVars
  <2>3. RateInv'
    BY <2>n, <2>d, <1>2, <1>t DEF DaemonStop, TypeOK, RateInv
  <2> QED BY <2>1, <2>2, <2>3
<1>3. CASE DaemonCrash
  <2>b. budget' \in [{"plugin", "set", "wedge", "fail", "crash"} -> Nat]
    BY <1>b, <1>3, SpendBudget DEF DaemonCrash
  <2>1. TypeOK'
    BY <2>b, <1>3, <1>t DEF DaemonCrash, TypeOK, pluginVars
  <2>2. MappedInv'
    BY <1>3, <1>t DEF DaemonCrash, MappedInv, pluginVars
  <2>3. RateInv'
    BY <1>3, <1>t DEF DaemonCrash, TypeOK, RateInv
  <2> QED BY <2>1, <2>2, <2>3
<1>4. CASE DeviceWedge
  <2>b. budget' \in [{"plugin", "set", "wedge", "fail", "crash"} -> Nat]
    BY <1>b, <1>4, SpendBudget DEF DeviceWedge
  <2>1. TypeOK'
    BY <2>b, <1>4, <1>t DEF DeviceWedge, TypeOK, pluginVars
  <2>2. MappedInv'
    BY <1>4, <1>t DEF DeviceWedge, MappedInv, pluginVars
  <2>3. RateInv'
    BY <1>4, <1>t DEF DeviceWedge, TypeOK, RateInv
  <2> QED BY <2>1, <2>2, <2>3
<1>5. CASE PluginStart
  <2>b. budget' \in [{"plugin", "set", "wedge", "fail", "crash"} -> Nat]
    BY <1>b, <1>5, SpendBudget DEF PluginStart
  <2>h. hal' \in [at: {"idle", "bump", "nominal"}, rate: Rates, cap: 0..MaxRuns]
    BY <1>5 DEF PluginStart
  <2>m. nominal' \in Rates
    <3>1. CASE named # 0 /\ ring[named].deviceRate # 0
      <4>1. named \in 1..MaxRuns
        BY <3>1, <1>t DEF TypeOK
      <4>2. ring[named].deviceRate \in Rates \cup {0}
        BY <4>1, <1>t DEF TypeOK, RingFields
      <4> QED BY <3>1, <4>2, <1>5 DEF PluginStart
    <3>2. CASE ~(named # 0 /\ ring[named].deviceRate # 0)
      BY <3>2, <1>5 DEF PluginStart
    <3> QED BY <3>1, <3>2
  <2>1. TypeOK'
    BY <2>b, <2>h, <2>m, <1>5, <1>t DEF PluginStart, TypeOK, daemonVars
  <2>2. MappedInv'
    BY <1>5, <1>t DEF PluginStart, MappedInv
  <2>3. RateInv'
    BY <1>5, RateKept DEF PluginStart
  <2> QED BY <2>1, <2>2, <2>3
<1>6. CASE PluginExit
  <2>1. TypeOK'
    <3>1. attached' \in 0..MaxRuns
      BY <1>6 DEF PluginExit
    <3> QED BY <3>1, <1>6, <1>t, Zenon DEF PluginExit, TypeOK, daemonVars
  <2>2. MappedInv'
    BY <1>6, <1>t DEF PluginExit, MappedInv
  <2>3. RateInv'
    BY <1>6, RateKept DEF PluginExit
  <2> QED BY <2>1, <2>2, <2>3
<1>7. ASSUME NEW r \in Rates, SetRateStore(r) PROVE NegotiationInv'
  <2>b. budget' \in [{"plugin", "set", "wedge", "fail", "crash"} -> Nat]
    BY <1>b, <1>7, SpendBudget DEF SetRateStore
  <2>a. attached \in 0..MaxRuns /\ ring \in [1..MaxRuns -> RingFields]
    BY <1>t DEF TypeOK
  <2>h. hal' \in [at: {"idle", "bump", "nominal"}, rate: Rates, cap: 0..MaxRuns]
    BY <2>a, <1>7 DEF SetRateStore
  <2>r. ring' \in [1..MaxRuns -> RingFields]
    <3>1. CASE attached = 0
      BY <3>1, <2>a, <1>7 DEF SetRateStore
    <3>2. CASE attached # 0
      <4>1. attached \in 1..MaxRuns
        BY <3>2, <2>a
      <4>2. ring' = [ring EXCEPT ![attached].requestedRate = r]
        BY <3>2, <1>7 DEF SetRateStore
      <4>3. r \in Rates /\ ring \in [1..MaxRuns -> RingFields]
        BY <2>a
      <4> QED BY <4>1, <4>2, <4>3, RequestStored, Zenon
    <3> QED BY <3>1, <3>2
  <2>d. \A x \in 1..MaxRuns : ring'[x].deviceRate = ring[x].deviceRate
    <3>1. CASE attached = 0
      BY <3>1, <1>7 DEF SetRateStore
    <3>2. CASE attached # 0
      <4>1. attached \in 1..MaxRuns
        BY <3>2, <2>a
      <4>2. ring' = [ring EXCEPT ![attached].requestedRate = r]
        BY <3>2, <1>7 DEF SetRateStore
      <4>3. r \in Rates /\ ring \in [1..MaxRuns -> RingFields]
        BY <2>a
      <4> QED BY <4>1, <4>2, <4>3 DEF RingFields
    <3> QED BY <3>1, <3>2
  <2>1. TypeOK'
    BY <2>b, <2>h, <2>r, <1>7, <1>t DEF SetRateStore, TypeOK, daemonVars
  <2>2. MappedInv'
    BY <1>7, <1>t DEF SetRateStore, MappedInv
  <2>3. RateInv'
    BY <2>d, <1>7, RateKept DEF SetRateStore
  <2> QED BY <2>1, <2>2, <2>3
<1> QED BY <1>1, <1>2, <1>3, <1>4, <1>5, <1>6, <1>7 DEF Environment

\* The negotiation between plugin and daemon keeps its inductive invariant.
THEOREM NegotiationInvariant == Spec => []NegotiationInv
<1>1. NegotiationInv /\ [Next]_vars => NegotiationInv'
  <2> SUFFICES ASSUME NegotiationInv, [Next]_vars PROVE NegotiationInv'
    OBVIOUS
  <2>1. CASE UNCHANGED vars
    BY <2>1 DEF vars, daemonVars, pluginVars, NegotiationInv, TypeOK, MappedInv,
                RateInv
  <2> QED BY <2>1, DaemonStep, PluginStep, EnvironmentStep DEF Next, Quiet
<1> QED BY <1>1, NegotiationInit, PTL DEF Spec

\* Every variable of the negotiation keeps its type.
THEOREM NegotiationTypeCorrect == Spec => []TypeOK
BY NegotiationInvariant, PTL DEF NegotiationInv

\* GetZeroTimeStamp follows the running daemon's anchors only while the device
\* is at the nominal rate, through any interleaving of rate changes, wedges,
\* failed rebuilds, crashes and restarts on either side.
THEOREM NegotiationFollowsTrueRate == Spec => []FollowsTrueRate
<1>1. NegotiationInv => FollowsTrueRate
  <2> SUFFICES ASSUME NegotiationInv, Follows, attached = run, wire # 0
               PROVE  wire = nominal
    BY DEF FollowsTrueRate
  <2>1. dpc \in {"setup", "pump"} /\ wire = rate /\ ring[run].deviceRate = rate
    BY DEF NegotiationInv, TypeOK, RateInv, Follows
  <2> QED BY <2>1 DEF Follows
<1> QED BY <1>1, NegotiationInvariant, PTL
=============================================================================
