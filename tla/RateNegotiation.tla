-------------------------- MODULE RateNegotiation ---------------------------
(***************************************************************************)
(* How the CoreAudio plugin and the daemon agree on a sample rate across   *)
(* rate changes, device wedges and restarts of either process.             *)
(*                                                                         *)
(* Three threads meet in the capture ring's header (uf_shm_ring.hpp): the  *)
(* HAL thread (UFDevice::SetNominalSampleRateImpl) and the ShmMapper       *)
(* thread (re-attach after a daemon restart) write requestedRate and bump  *)
(* requestSeq; the daemon's pump acts on a new requestSeq and publishes    *)
(* deviceRate.  Every daemon run makes a ring of its own: the old one      *)
(* stays mapped by the plugin until the mapper notices the new one.        *)
(*                                                                         *)
(* Time is abstracted away: a 500 ms poll, a wedge time-out and a session  *)
(* start are steps that happen eventually.                                 *)
(***************************************************************************)
EXTENDS Naturals

CONSTANTS
  Rates,               \* the supported sample rates
  StartRate,           \* the daemon's start rate: UF_RATE, or 48000
  kSampleRate,         \* the plugin's nominal rate when no daemon tells it one
  kMaxRestartFailures, \* consecutive failed rebuilds after which it exits
  MaxRuns,             \* bound on daemon runs (and so on rings)
  MaxPluginRuns,       \* bound on plugin runs (coreaudiod restarts)
  MaxSets,             \* bound on rate changes made by CoreAudio
  MaxWedges,           \* bound on device wedges
  MaxFails,            \* bound on failing session rebuilds
  MaxCrashes           \* bound on daemon crashes and stops

ASSUME RatesAssumption ==
  Rates \subseteq Nat \ {0} /\ StartRate \in Rates /\ kSampleRate \in Rates
ASSUME BoundsAssumption ==
  /\ kMaxRestartFailures \in Nat \ {0} /\ MaxRuns \in Nat \ {0}
  /\ MaxPluginRuns \in Nat /\ MaxSets \in Nat /\ MaxWedges \in Nat
  /\ MaxFails \in Nat /\ MaxCrashes \in Nat

VARIABLES
  ring,            \* run -> the rate fields of the capture ring it made
  named,           \* run whose ring the shm name leads to (0: no such object)
  run,             \* the current (or last) daemon run; its ring's instance
  dpc,             \* where the daemon is
  rate,            \* the daemon's rate: what it believes the session runs at
  wire,            \* rate the device streams at (0: not streaming)
  target,          \* newRate of the restart in progress
  seenRequest,     \* last requestSeq the pump acted on
  restartFailures, \* consecutive failed rebuilds
  attached,        \* run whose capture ring the plugin has mapped (0: none)
  nominal,         \* the plugin device's nominal rate
  mapper,          \* the ShmMapper thread
  hal,             \* the HAL thread inside SetNominalSampleRateImpl
  pluginUp,        \* the plugin is loaded
  budget           \* how many environment events are left, per kind

daemonVars == <<run, dpc, rate, wire, target, seenRequest, restartFailures>>
pluginVars == <<attached, nominal, mapper, hal, pluginUp>>
vars == <<ring, named, daemonVars, pluginVars, budget>>

Fresh == [deviceRate |-> 0, requestedRate |-> 0, requestSeq |-> 0]

\* One more event of this kind may happen.
Spend(kind) == budget[kind] > 0 /\ budget' = [budget EXCEPT ![kind] = @ - 1]

Init ==
  /\ ring = [r \in 1..MaxRuns |-> Fresh]
  /\ named = 0
  /\ run = 0
  /\ dpc = "down"
  /\ rate = StartRate
  /\ wire = 0
  /\ target = StartRate
  /\ seenRequest = 0
  /\ restartFailures = 0
  /\ attached = 0
  /\ nominal = kSampleRate
  /\ mapper = "poll"
  /\ hal = [at |-> "idle", rate |-> kSampleRate, cap |-> 0]
  /\ pluginUp = FALSE
  /\ budget = [plugin |-> MaxPluginRuns, set |-> MaxSets, wedge |-> MaxWedges,
               fail |-> MaxFails, crash |-> MaxCrashes]

-----------------------------------------------------------------------------
(* The daemon *)

\* launchd (KeepAlive) starts the daemon.
DaemonStart ==
  /\ dpc = "down" /\ run < MaxRuns
  /\ run' = run + 1
  /\ dpc' = "session"
  /\ UNCHANGED <<ring, named, rate, wire, target, seenRequest, restartFailures,
                 pluginVars, budget>>

\* session_start at startRate, retried for as long as it takes.
StartSession ==
  /\ dpc = "session"
  /\ rate' = StartRate
  /\ wire' = StartRate
  /\ dpc' = "make_ring"
  /\ UNCHANGED <<ring, named, run, target, seenRequest, restartFailures,
                 pluginVars, budget>>

\* make_ring: a new object under the name; magic and instance, which are all
\* the mapper looks at, are the first fields init() writes.
MakeRing ==
  /\ dpc = "make_ring"
  /\ named' = run
  /\ dpc' = "init_ring"
  /\ UNCHANGED <<ring, run, rate, wire, target, seenRequest, restartFailures,
                 pluginVars, budget>>

\* The rest of init() zeroes the request fields; then deviceRate is published.
InitRing ==
  /\ dpc = "init_ring"
  /\ ring' = [ring EXCEPT ![run] = [Fresh EXCEPT !.deviceRate = rate]]
  /\ dpc' = "setup"
  /\ UNCHANGED <<named, run, rate, wire, target, seenRequest, restartFailures,
                 pluginVars, budget>>

\* MIDI, buffers and pump state are set up; the last thing before the pump
\* loop is to take the current requestSeq as already seen.
EnterPump ==
  /\ dpc = "setup"
  /\ seenRequest' = ring[run].requestSeq
  /\ restartFailures' = 0
  /\ dpc' = "pump"
  /\ UNCHANGED <<ring, named, run, rate, wire, target, pluginVars, budget>>

\* Mutation: the old rate stays published during a restart.
BeginRestart_KeepsRate(newRate) ==
  /\ wire' = 0
  /\ target' = newRate
  /\ dpc' = "restart"
  /\ UNCHANGED ring

\* restart_session up to its call of session_start: the old session is down
\* and the ring says that nothing is on the wire.
BeginRestart(newRate) ==
  /\ ring' = [ring EXCEPT ![run].deviceRate = 0]
  /\ wire' = 0
  /\ target' = newRate
  /\ dpc' = "restart"

\* The pump sees a new request and switches to it unless it is already there.
PumpRequest ==
  /\ dpc = "pump"
  /\ ring[run].requestSeq # seenRequest
  /\ seenRequest' = ring[run].requestSeq
  /\ LET want == ring[run].requestedRate
     IN IF want \in Rates /\ want # rate
          THEN BeginRestart(want)
          ELSE UNCHANGED <<ring, wire, target, dpc>>
  /\ UNCHANGED <<named, run, rate, restartFailures, pluginVars, budget>>

\* Mutation: a stall counts only while a rate is published.
WedgeRestart_OnlyPublished ==
  /\ dpc = "pump" /\ wire = 0 /\ ring[run].deviceRate # 0
  /\ BeginRestart(rate)
  /\ UNCHANGED <<named, run, rate, seenRequest, restartFailures, pluginVars,
                 budget>>

\* Capture has stalled for longer than the wedge limit.
WedgeRestart ==
  /\ dpc = "pump" /\ wire = 0
  /\ BeginRestart(rate)
  /\ UNCHANGED <<named, run, rate, seenRequest, restartFailures, pluginVars,
                 budget>>

\* session_start succeeded: the device streams at the new rate.
RestartUp ==
  /\ dpc = "restart"
  /\ rate' = target
  /\ wire' = target
  /\ restartFailures' = 0
  /\ dpc' = "republish"
  /\ UNCHANGED <<ring, named, run, target, seenRequest, pluginVars, budget>>

\* Mutation: the new rate is not published.
Republish_Forgotten ==
  /\ dpc = "republish"
  /\ dpc' = "pump"
  /\ UNCHANGED <<ring, named, run, rate, wire, target, seenRequest,
                 restartFailures, pluginVars, budget>>

\* ... and the tail of restart_session tells the plugin.
Republish ==
  /\ dpc = "republish"
  /\ ring' = [ring EXCEPT ![run].deviceRate = rate]
  /\ dpc' = "pump"
  /\ UNCHANGED <<named, run, rate, wire, target, seenRequest, restartFailures,
                 pluginVars, budget>>

\* session_start failed: back to the pump at the old rate, or exit(1) after
\* too many failures in a row (the ring's name is left behind).
RestartFail ==
  /\ dpc = "restart"
  /\ Spend("fail")
  /\ restartFailures' = restartFailures + 1
  /\ dpc' = IF restartFailures + 1 >= kMaxRestartFailures THEN "down" ELSE "pump"
  /\ UNCHANGED <<ring, named, run, rate, wire, target, seenRequest, pluginVars>>

\* SIGTERM in the pump: deviceRate 0, session_stop, the name unlinked.
DaemonStop ==
  /\ dpc = "pump"
  /\ Spend("crash")
  /\ ring' = [ring EXCEPT ![run].deviceRate = 0]
  /\ wire' = 0
  /\ named' = 0
  /\ dpc' = "down"
  /\ UNCHANGED <<run, rate, target, seenRequest, restartFailures, pluginVars>>

\* The process dies: its ring and the last deviceRate stay behind.
DaemonCrash ==
  /\ dpc # "down"
  /\ Spend("crash")
  /\ wire' = 0
  /\ dpc' = "down"
  /\ UNCHANGED <<ring, named, run, rate, target, seenRequest, restartFailures,
                 pluginVars>>

\* The device drops off the bus while streaming (environment).
DeviceWedge ==
  /\ dpc = "pump" /\ wire # 0
  /\ Spend("wedge")
  /\ wire' = 0
  /\ UNCHANGED <<ring, named, run, dpc, rate, target, seenRequest,
                 restartFailures, pluginVars>>

-----------------------------------------------------------------------------
(* The plugin *)

\* Mutation: the published rate is taken even when it is "nothing on the wire".
PluginStart_AnyRate ==
  /\ ~pluginUp
  /\ Spend("plugin")
  /\ pluginUp' = TRUE
  /\ attached' = named
  /\ nominal' = IF named # 0 THEN ring[named].deviceRate ELSE kSampleRate
  /\ mapper' = "poll"
  /\ hal' = [at |-> "idle", rate |-> kSampleRate, cap |-> 0]
  /\ UNCHANGED <<ring, named, daemonVars>>

\* CreateDriver: the mapper's constructor attaches before the attach hook is
\* set, and the device starts at the ring's deviceRate if it has one.
PluginStart ==
  /\ ~pluginUp
  /\ Spend("plugin")
  /\ pluginUp' = TRUE
  /\ attached' = named
  /\ nominal' = IF named # 0 /\ ring[named].deviceRate # 0
                  THEN ring[named].deviceRate ELSE kSampleRate
  /\ mapper' = "poll"
  /\ hal' = [at |-> "idle", rate |-> kSampleRate, cap |-> 0]
  /\ UNCHANGED <<ring, named, daemonVars>>

\* coreaudiod goes away (environment).
PluginExit ==
  /\ pluginUp /\ budget["plugin"] > 0
  /\ pluginUp' = FALSE
  /\ attached' = 0
  /\ UNCHANGED <<ring, named, daemonVars, nominal, mapper, hal, budget>>

\* ShmMapper::refresh: another instance under the name replaces the mapping.
Refresh ==
  /\ pluginUp /\ mapper = "poll"
  /\ named # 0 /\ named # attached
  /\ attached' = named
  /\ mapper' = "store"
  /\ UNCHANGED <<ring, named, daemonVars, nominal, hal, pluginUp, budget>>

\* The attach hook re-sends the nominal rate ...
AttachStore ==
  /\ pluginUp /\ mapper = "store"
  /\ ring' = [ring EXCEPT ![attached].requestedRate = nominal]
  /\ mapper' = "bump"
  /\ UNCHANGED <<named, daemonVars, attached, nominal, hal, pluginUp, budget>>

\* ... and then bumps the sequence number.
AttachBump ==
  /\ pluginUp /\ mapper = "bump"
  /\ ring' = [ring EXCEPT ![attached].requestSeq = @ + 1]
  /\ mapper' = "poll"
  /\ UNCHANGED <<named, daemonVars, attached, nominal, hal, pluginUp, budget>>

\* SetNominalSampleRateImpl: store the request in the ring mapped now ...
SetRateStore(r) ==
  /\ pluginUp /\ hal.at = "idle" /\ r # nominal
  /\ Spend("set")
  /\ hal' = [at |-> IF attached = 0 THEN "nominal" ELSE "bump",
             rate |-> r, cap |-> attached]
  /\ IF attached = 0
       THEN UNCHANGED ring
       ELSE ring' = [ring EXCEPT ![attached].requestedRate = r]
  /\ UNCHANGED <<named, daemonVars, attached, nominal, mapper, pluginUp>>

\* ... bump that ring's sequence number ...
SetRateBump ==
  /\ pluginUp /\ hal.at = "bump"
  /\ ring' = [ring EXCEPT ![hal.cap].requestSeq = @ + 1]
  /\ hal' = [hal EXCEPT !.at = "nominal"]
  /\ UNCHANGED <<named, daemonVars, attached, nominal, mapper, pluginUp, budget>>

\* ... and let the base class set the nominal rate.
SetRateNominal ==
  /\ pluginUp /\ hal.at = "nominal"
  /\ nominal' = hal.rate
  /\ hal' = [hal EXCEPT !.at = "idle"]
  /\ UNCHANGED <<ring, named, daemonVars, attached, mapper, pluginUp, budget>>

\* GetZeroTimeStamp lets the clock follow the device's anchors only at the
\* nominal rate.
Follows ==
  /\ pluginUp /\ attached # 0
  /\ ring[attached].deviceRate # 0
  /\ ring[attached].deviceRate = nominal

-----------------------------------------------------------------------------
Daemon ==
  \/ DaemonStart \/ StartSession \/ MakeRing \/ InitRing \/ EnterPump
  \/ PumpRequest \/ WedgeRestart \/ RestartUp \/ Republish

Plugin == Refresh \/ AttachStore \/ AttachBump \/ SetRateBump \/ SetRateNominal

Environment ==
  \/ RestartFail \/ DaemonStop \/ DaemonCrash \/ DeviceWedge
  \/ PluginStart \/ PluginExit
  \/ \E r \in Rates : SetRateStore(r)

\* Everyone idles: the pump and the mapper poll and find nothing to do.
Quiet == dpc \in {"down", "pump"} /\ UNCHANGED vars

Next == Daemon \/ Plugin \/ Environment \/ Quiet

(***************************************************************************)
(* The pump, the mapper thread and the HAL call each run on; launchd       *)
(* restarts the daemon.  CoreAudio, the device and crashes owe nothing.    *)
(***************************************************************************)
Fairness ==
  /\ WF_vars(DaemonStart \/ StartSession \/ MakeRing \/ InitRing \/ EnterPump)
  /\ WF_vars(PumpRequest) /\ WF_vars(WedgeRestart)
  /\ WF_vars(RestartUp \/ RestartFail) /\ WF_vars(Republish)
  /\ WF_vars(Refresh \/ AttachStore \/ AttachBump)
  /\ WF_vars(SetRateBump \/ SetRateNominal)

Spec == Init /\ [][Next]_vars /\ Fairness

-----------------------------------------------------------------------------
RingFields == [deviceRate: Rates \cup {0}, requestedRate: Rates \cup {0},
               requestSeq: Nat]

TypeOK ==
  /\ ring \in [1..MaxRuns -> RingFields]
  /\ named \in 0..MaxRuns /\ run \in 0..MaxRuns /\ attached \in 0..MaxRuns
  /\ dpc \in {"down", "session", "make_ring", "init_ring", "setup", "pump",
              "restart", "republish"}
  /\ rate \in Rates /\ target \in Rates /\ wire \in Rates \cup {0}
  /\ seenRequest \in Nat /\ restartFailures \in Nat
  /\ nominal \in Rates /\ pluginUp \in BOOLEAN
  /\ mapper \in {"poll", "store", "bump"}
  /\ hal \in [at: {"idle", "bump", "nominal"}, rate: Rates, cap: 0..MaxRuns]
  /\ budget \in [{"plugin", "set", "wedge", "fail", "crash"} -> Nat]

\* While the plugin follows the anchors of the running daemon's ring, whatever
\* the device streams it streams at the plugin's nominal rate: GetZeroTimeStamp
\* never reads frames in the wrong unit, in the middle of a switch included.
FollowsTrueRate == Follows /\ attached = run /\ wire # 0 => wire = nominal

\* A device that stopped streaming under a running daemon streams again, or
\* the daemon exits and is started again, until launchd starts no more: a
\* failed rebuild is retried and never leaves the pump spinning on a dead
\* session (wedge path and restart_session).
StreamRecovers ==
  (dpc = "pump" /\ wire = 0) ~> (wire # 0 \/ (dpc = "down" /\ run = MaxRuns))

\* A request for rate q that the pump has not seen yet, and what becomes of it:
\* the ring says that the device is at q, the daemon goes down, or another
\* request overtakes it.
Unseen(q) ==
  /\ dpc = "pump"
  /\ ring[run].requestSeq # seenRequest /\ ring[run].requestedRate = q

Settled(q) ==
  \/ dpc = "down"
  \/ ring[run].deviceRate = q \/ ring[run].requestedRate # q

\* A request the pump has not seen yet is honoured, wedges and restarts of
\* either process notwithstanding, as long as no session rebuild fails.
RequestHonoured ==
  \A q \in Rates : Unseen(q) ~> (Settled(q) \/ budget["fail"] < MaxFails)

\* The same with rebuilds that fail, as uf-daemon.cpp says of the switch: "must
\* be retried, not treated as the end of the daemon".
RequestRetried == \A q \in Rates : Unseen(q) ~> Settled(q)

\* The plugin and a running daemon never disagree about the rate for good:
\* sooner or later the plugin can follow the device again, or one of the two
\* goes down.
Agreement == []<>(Follows \/ ~pluginUp \/ dpc = "down")
=============================================================================
