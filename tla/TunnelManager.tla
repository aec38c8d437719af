--------------------------- MODULE TunnelManager ----------------------------
(***************************************************************************)
(* TunnelManager.java: one instance of the VPN service, from its first     *)
(* start command to onDestroy.                                             *)
(*                                                                         *)
(* Three parties.  The main thread runs the looper queue mainQ in order:   *)
(* start, stop and restart commands, the runnables that tunnel-core's      *)
(* callbacks post, and the observer of the connection state.  The tunnel   *)
(* thread runs runTunnel.  tunnel-core (external) connects, reconnects and *)
(* posts callbacks.                                                        *)
(*                                                                         *)
(* The observer of combineLatest(state relay, routing relay) runs on the   *)
(* main thread behind observeOn: every accept() on a relay that has its    *)
(* counterpart appends a pair to pairs, the first of them schedules a      *)
(* "drain" task, and that task goes on until pairs is empty.  The relays   *)
(* keep nothing, and an io thread subscribes to them: a value accepted     *)
(* before that is lost.                                                    *)
(*                                                                         *)
(* Both threads are split at each call that the other can see; the         *)
(* variable main says where the main thread is inside a handler.           *)
(*                                                                         *)
(* VpnManager's monitor and the native instances are the VpnManager        *)
(* module; here a call of it is one step on what it holds.                 *)
(***************************************************************************)
EXTENDS Naturals, Sequences, FiniteSets

CONSTANTS
  Configs,       \* the settings the service may find when it reads them
  MaxCommands,   \* bound on commands after the first start
  MaxCore,       \* bound on tunnel-core's callbacks
  MaxInputs,     \* bound on commands and callbacks together
  MaxFaults      \* bound on failures of dup() and of tun2socks itself

\* port: the SOCKS port asked for.
ASSUME SettingsAssumption ==
  /\ Configs \subseteq [port : Nat \ {0}, proxyOnly : BOOLEAN]
  /\ MaxCommands \in Nat
  /\ MaxCore \in Nat
  /\ MaxInputs \in Nat
  /\ MaxFaults \in Nat

Ports == {c.port : c \in Configs}

NoPort == 0

States == {"CONNECTING", "WAITING_FOR_NETWORK", "CONNECTED"}

\* "unset": nothing accepted by the relay since its subscription.
Unset == "unset"

\* What users, activities and the system ask of the service.
Commands == {"start", "stop", "stopMessage", "restart", "register", "unregister",
             "revoke"}

\* Tasks of the main looper; a state stands for the callback that reports it.
Tasks == Commands \cup States \cup {"restartPsiphon", "destroy", "drain"}

VARIABLES
  service,     \* "created" or "destroyed"
  firstStart,  \* m_firstStart
  latch,       \* m_tunnelThreadStopSignal: "null", 1 or 0
  registered,  \* the sender of the messages is in mClients
  config,      \* m_tunnelConfig
  thread,      \* the tunnel thread's place in runTunnel
  mainQ,       \* tasks of the main looper
  main,        \* the main thread's place in a handler, or "idle"
  subscribed,  \* the relays combineLatest has subscribed to
  net,         \* its latest value of the state relay
  routing,     \* its latest value of the routing relay
  pairs,       \* pairs waiting for the observer
  lastPair,    \* memory of the observer's distinctUntilChanged
  awaiting,    \* the observer waits for an activity to bind
  shown,       \* m_tunnelState.networkConnectionState
  iface,       \* the VPN interface: "down" or "up"
  vpnMode,     \* VpnManager's mProxyOnlyMode
  isRouting,   \* VpnManager's isRoutingThroughTunnel
  pump,        \* SOCKS port the running tun2socks was given, or NoPort
  routed,      \* history: the circumstances in which routing was started
  faults,      \* failures so far
  core,        \* tunnel-core: "stopped", "connecting" or "connected"
  corePort,    \* getLocalSocksProxyPort()
  startPort,   \* the port in the configuration core was last started with
  commands,    \* commands so far
  coreEvents   \* core callbacks so far

relayVars == <<subscribed, net, routing, pairs>>
viewVars  == <<lastPair, awaiting, shown>>
vpnVars   == <<iface, vpnMode, isRouting, pump, routed, faults>>
coreVars  == <<core, corePort, startPort>>
counters  == <<commands, coreEvents>>
lifeVars  == <<service, firstStart, latch, registered>>
vars == <<lifeVars, main, config, thread, mainQ, relayVars, viewVars, vpnVars, coreVars,
          counters>>

\* The places of the tunnel thread: not created; before the two accepts, the
\* try block and vpnEstablish; interface established; waiting on the latch;
\* and the steps of the finally block.
Before == {"none", "created", "resetRouting", "try", "establish"}

Places == Before \cup {"established", "await", "finally", "finallyRouting", "teardown",
                      "stopCore", "stopSelf", "ended"}

\* The main thread waits in m_tunnelThread.join(), has routed and not reported
\* it (the observer, or a binding), or is inside the RESTART_TUNNEL handler.
Handlers == {"idle", "revoke", "destroy", "observing", "binding", "unroute", "unreport",
             "adopt"}

\* How routing was started: not at all, before vpnEstablish, to a core that
\* is being replaced, with tun2socks not running, or as the code intends.
Circumstances == {"no", "early", "stale", "failed", "sound"}

TypeOK ==
  /\ service \in {"created", "destroyed"}
  /\ firstStart \in BOOLEAN
  /\ latch \in {"null", "1", "0"}
  /\ registered \in BOOLEAN
  /\ config \in Configs
  /\ thread \in Places
  /\ mainQ \in Seq(Tasks)
  /\ main \in Handlers
  /\ subscribed \in {"none", "state", "both"}
  /\ net \in States \cup {Unset}
  /\ routing \in {Unset, "TRUE", "FALSE"}
  /\ pairs \in Seq(States \X {"TRUE", "FALSE"})
  /\ awaiting \in BOOLEAN
  /\ shown \in States
  /\ iface \in {"down", "up"}
  /\ vpnMode \in BOOLEAN
  /\ isRouting \in BOOLEAN
  /\ pump \in Ports \cup {NoPort}
  /\ routed \in Circumstances
  /\ faults \in 0..MaxFaults
  /\ core \in {"stopped", "connecting", "connected"}
  /\ corePort \in Ports \cup {NoPort}
  /\ startPort \in Ports \cup {NoPort}
  /\ commands \in 0..MaxCommands
  /\ coreEvents \in 0..MaxCore

Init ==
  /\ service = "created"
  /\ firstStart = TRUE
  /\ latch = "null"
  /\ registered = TRUE
  /\ config \in Configs
  /\ thread = "none"
  /\ mainQ = <<"start">>
  /\ main = "idle"
  /\ subscribed = "none" /\ net = Unset /\ routing = Unset /\ pairs = <<>>
  /\ lastPair = <<>> /\ awaiting = FALSE /\ shown = "CONNECTING"
  /\ iface = "down" /\ vpnMode = FALSE /\ isRouting = FALSE /\ pump = NoPort
  /\ routed = "no" /\ faults = 0
  /\ core = "stopped" /\ corePort = NoPort /\ startPort = NoPort
  /\ commands = 0 /\ coreEvents = 0
-----------------------------------------------------------------------------
(* The relays and the looper. *)

\* The main thread can run the task t.
MainRuns(t) ==
  /\ service = "created"
  /\ main = "idle"
  /\ mainQ # <<>> /\ Head(mainQ) = t

\* The queue of tasks q once new pairs have reached the observer: the first
\* pair schedules the drain task.
Scheduled(q, new) ==
  IF pairs = <<>> /\ new # <<>> THEN Append(q, "drain") ELSE q

\* What combineLatest makes of its latest values n and r.
Combined(n, r) == IF n = Unset \/ r = Unset THEN <<>> ELSE << <<n, r>> >>

\* accept(n) on the state relay, from the task or thread that leaves q queued.
AcceptState(q, n) ==
  LET heard == IF subscribed = "none" THEN Unset ELSE n
      new   == Combined(heard, routing)
  IN  /\ net' = heard
      /\ pairs' = pairs \o new
      /\ mainQ' = Scheduled(q, new)
      /\ UNCHANGED <<routing, subscribed>>

\* accept(r) on the routing relay.
AcceptRouting(q, r) ==
  LET heard == IF subscribed = "both" THEN r ELSE Unset
      new   == Combined(net, heard)
  IN  /\ routing' = heard
      /\ pairs' = pairs \o new
      /\ mainQ' = Scheduled(q, new)
      /\ UNCHANGED <<net, subscribed>>

\* subscribeOn(Schedulers.io()): combineLatest subscribes to its sources in
\* order.
Subscribe ==
  /\ service = "created"
  /\ \/ subscribed = "none" /\ subscribed' = "state"
     \/ subscribed = "state" /\ subscribed' = "both"
  /\ UNCHANGED <<lifeVars, main, config, thread, mainQ, net, routing, pairs, viewVars,
                 vpnVars, coreVars, counters>>
-----------------------------------------------------------------------------
(* VpnManager, as TunnelManager calls it. *)

\* The restarts that are posted and have not run.
PostedRestarts == {i \in DOMAIN mainQ : mainQ[i] = "restartPsiphon"}

\* The circumstances of a call of routeThroughTunnel that sets the flag.
Circumstance ==
  CASE thread \in Before -> "early"
    [] thread \notin Before /\ (core # "connected" \/ PostedRestarts # {}) -> "stale"
    [] OTHER -> "sound"

\* tun2socks is started: not in proxy-only mode, nor if the flag is set, nor
\* without an interface or a port.
Starts(port) == ~vpnMode /\ ~isRouting /\ iface = "up" /\ port # NoPort

\* The flag is not set.
RouteThroughTunnelMutant(port) ==
  /\ IF Starts(port) THEN pump' = port /\ routed' = Circumstance ELSE UNCHANGED <<pump, routed>>
  /\ UNCHANGED <<iface, vpnMode, isRouting, faults>>

\* routeThroughTunnel: the flag is set on every path, that of a dup() which
\* throws included.
RouteThroughTunnel(port) ==
  /\ isRouting' = TRUE
  /\ \/ /\ Starts(port)
        /\ pump' = port /\ routed' = Circumstance
        /\ UNCHANGED faults
     \/ /\ Starts(port)
        /\ faults < MaxFaults
        /\ faults' = faults + 1
        /\ routed' = "failed"
        /\ UNCHANGED pump
     \/ /\ ~Starts(port)
        /\ routed' = IF isRouting THEN routed ELSE Circumstance
        /\ UNCHANGED <<pump, faults>>
  /\ UNCHANGED <<iface, vpnMode>>

\* stopRouteThroughTunnel: tun2socks is stopped if the flag was set.
StopRouteThroughTunnel ==
  /\ isRouting' = FALSE
  /\ pump' = IF isRouting THEN NoPort ELSE pump
  /\ routed' = "no"
  /\ UNCHANGED <<iface, vpnMode, faults>>

\* The flag is cleared before stopRouteThroughTunnel looks at it.
VpnTeardownMutant ==
  /\ iface' = "down"
  /\ isRouting' = FALSE
  /\ UNCHANGED <<pump, vpnMode, routed, faults>>

\* vpnTeardown: stopRouteThroughTunnel, then the interface is closed.
VpnTeardown ==
  /\ iface' = "down"
  /\ isRouting' = FALSE
  /\ pump' = IF isRouting THEN NoPort ELSE pump
  /\ routed' = "no"
  /\ UNCHANGED <<vpnMode, faults>>

\* tun2socks fails to initialise or quits: Java does not hear of it.
PumpEnds ==
  /\ pump # NoPort
  /\ faults < MaxFaults
  /\ faults' = faults + 1
  /\ pump' = NoPort /\ routed' = "failed"
  /\ UNCHANGED <<lifeVars, main, config, thread, mainQ, relayVars, viewVars, iface, vpnMode,
                 isRouting, coreVars, counters>>
-----------------------------------------------------------------------------
(* Commands, on the main thread. *)

\* onStartCommand: only the first one starts a tunnel thread.
OnStartCommand ==
  /\ MainRuns("start")
  /\ mainQ' = Tail(mainQ)
  /\ IF firstStart
     THEN firstStart' = FALSE /\ latch' = "1" /\ thread' = "created"
     ELSE UNCHANGED <<firstStart, latch, thread>>
  /\ UNCHANGED <<service, main, registered, config, relayVars, viewVars, vpnVars,
                 coreVars, counters>>

\* INTENT_ACTION_STOP_TUNNEL: signalStopService, or stopSelf when there is
\* nothing to signal.
OnStopIntent ==
  /\ MainRuns("stop")
  /\ IF latch = "1"
     THEN latch' = "0" /\ mainQ' = Tail(mainQ)
     ELSE mainQ' = Append(Tail(mainQ), "destroy") /\ UNCHANGED latch
  /\ UNCHANGED <<service, firstStart, main, registered, config, thread, relayVars,
                 viewVars, vpnVars, coreVars, counters>>

\* STOP_SERVICE: the clients are forgotten and the latch counted down.
OnStopMessage ==
  /\ MainRuns("stopMessage")
  /\ mainQ' = Tail(mainQ)
  /\ registered' = FALSE
  /\ latch' = IF latch = "null" THEN latch ELSE "0"
  /\ UNCHANGED <<service, firstStart, main, config, thread, relayVars, viewVars,
                 vpnVars, coreVars, counters>>

\* portChanged in the RESTART_TUNNEL handler.
NeedsReroute(new) == new # config

\* RESTART_TUNNEL of a registered client: the settings are read again; those
\* that stay are adopted and the restart is posted.
OnRestart ==
  /\ MainRuns("restart")
  /\ registered
  /\ mainQ' = Append(Tail(mainQ), "restartPsiphon")
  /\ UNCHANGED <<lifeVars, main, config, thread, relayVars, viewVars, vpnVars, coreVars,
                 counters>>

\* A changed port or mode is reported to the state relay first ...
OnRestartChanged ==
  /\ MainRuns("restart")
  /\ registered
  /\ \E new \in Configs : NeedsReroute(new)
  /\ AcceptState(Tail(mainQ), "CONNECTING")
  /\ main' = "unroute"
  /\ UNCHANGED <<lifeVars, config, thread, viewVars, vpnVars, coreVars, counters>>

\* ... then routing is stopped ...
RestartUnroute ==
  /\ main = "unroute"
  /\ StopRouteThroughTunnel
  /\ main' = "unreport"
  /\ UNCHANGED <<lifeVars, config, thread, mainQ, relayVars, viewVars, coreVars, counters>>

\* ... and reported ...
RestartUnreport ==
  /\ main = "unreport"
  /\ AcceptRouting(mainQ, "FALSE")
  /\ main' = "adopt"
  /\ UNCHANGED <<lifeVars, config, thread, viewVars, vpnVars, coreVars, counters>>

\* ... before the settings are adopted and the restart is posted.
RestartAdopt(new) ==
  /\ main = "adopt"
  /\ NeedsReroute(new)
  /\ config' = new
  /\ mainQ' = Append(mainQ, "restartPsiphon")
  /\ main' = "idle"
  /\ UNCHANGED <<lifeVars, thread, relayVars, viewVars, vpnVars, coreVars, counters>>

\* RESTART_TUNNEL of a client that is not registered is ignored.
OnRestartIgnored ==
  /\ MainRuns("restart")
  /\ ~registered
  /\ mainQ' = Tail(mainQ)
  /\ UNCHANGED <<lifeVars, main, config, thread, relayVars, viewVars, vpnVars, coreVars,
                 counters>>

\* onRestartTunnel's runnable: stop the core and start it with the current
\* configuration; a failure to start is only logged.  It still runs when the
\* service has been destroyed.
RestartPsiphon ==
  /\ main = "idle"
  /\ mainQ # <<>> /\ Head(mainQ) = "restartPsiphon"
  /\ mainQ' = Tail(mainQ)
  /\ core' \in {"connecting", "stopped"}
  /\ startPort' = config.port
  /\ UNCHANGED <<lifeVars, main, config, thread, relayVars, viewVars, vpnVars, corePort,
                 counters>>

\* REGISTER: an observer that waits for an activity (live says whether it
\* answers the ping) routes now.
OnRegister(live) ==
  /\ MainRuns("register")
  /\ registered' = TRUE
  /\ mainQ' = Tail(mainQ)
  /\ IF awaiting /\ live
     THEN RouteThroughTunnel(corePort) /\ awaiting' = FALSE /\ main' = "binding"
     ELSE UNCHANGED <<awaiting, vpnVars, main>>
  /\ UNCHANGED <<service, firstStart, latch, config, thread, relayVars, lastPair,
                 shown, coreVars, counters>>

\* The binding is reported to the routing relay.
ReportBinding ==
  /\ main = "binding"
  /\ AcceptRouting(mainQ, "TRUE")
  /\ main' = "idle"
  /\ UNCHANGED <<lifeVars, config, thread, viewVars, vpnVars, coreVars, counters>>

\* UNREGISTER.
OnUnregister ==
  /\ MainRuns("unregister")
  /\ mainQ' = Tail(mainQ)
  /\ registered' = FALSE
  /\ UNCHANGED <<service, firstStart, latch, main, config, thread, relayVars,
                 viewVars, vpnVars, coreVars, counters>>

\* onRevoke and onDestroy: stopAndWaitForTunnel counts the latch down and
\* waits for the tunnel thread.
BeginStopAndWait(t) ==
  /\ MainRuns(t)
  /\ mainQ' = Tail(mainQ)
  /\ main' = t
  /\ latch' = IF latch = "null" \/ thread = "none" THEN latch ELSE "0"
  /\ UNCHANGED <<service, firstStart, registered, config, thread, relayVars, viewVars,
                 vpnVars, coreVars, counters>>

\* The join returns; onDestroy also disposes of the observer, and of the tasks
\* still queued only a posted restart has an effect.
EndStopAndWait ==
  /\ main \in {"revoke", "destroy"}
  /\ thread \in {"none", "ended"}
  /\ main' = "idle"
  /\ latch' = IF thread = "none" THEN latch ELSE "null"
  /\ IF main = "destroy"
     THEN /\ service' = "destroyed"
          /\ pairs' = <<>> /\ awaiting' = FALSE
          /\ mainQ' = [i \in 1..Cardinality(PostedRestarts) |-> "restartPsiphon"]
     ELSE UNCHANGED <<service, pairs, awaiting, mainQ>>
  /\ UNCHANGED <<firstStart, registered, config, thread, subscribed, net, routing, lastPair, shown,
                 vpnVars, coreVars, counters>>
-----------------------------------------------------------------------------
(* tunnel-core's callbacks and the observer, on the main thread. *)

\* A connection made while waiting for a network is not reported.
OnCoreStateMutant(n) ==
  /\ MainRuns(n)
  /\ IF n = "CONNECTED" /\ net = "WAITING_FOR_NETWORK"
     THEN mainQ' = Tail(mainQ) /\ UNCHANGED relayVars
     ELSE AcceptState(Tail(mainQ), n)
  /\ UNCHANGED <<lifeVars, main, config, thread, viewVars, vpnVars, coreVars, counters>>

\* onConnecting, onConnected, onStarted- and onStoppedWaitingForNetwork-
\* Connectivity report to the state relay.
OnCoreState(n) ==
  /\ MainRuns(n)
  /\ AcceptState(Tail(mainQ), n)
  /\ UNCHANGED <<lifeVars, main, config, thread, viewVars, vpnVars, coreVars, counters>>

\* Routing is started by the first connection only.
MustRouteMutant(pair) ==
  pair = <<"CONNECTED", "FALSE">> /\ lastPair = <<"CONNECTING", "FALSE">>

\* Routing has to be started for this pair.
MustRoute(pair) == pair = <<"CONNECTED", "FALSE">>

\* The queue of tasks once the observer is done with a pair and left ps.
Drained(ps) == IF ps = <<>> THEN Tail(mainQ) ELSE mainQ

\* A pair that asks for no routing, or repeats the last one, is only shown.
ObservePair ==
  /\ MainRuns("drain")
  /\ LET pair == Head(pairs)
     IN  /\ pair = lastPair \/ ~MustRoute(pair)
         /\ lastPair' = pair
         /\ shown' = IF pair = lastPair THEN shown ELSE pair[1]
         /\ awaiting' = IF pair = lastPair THEN awaiting ELSE FALSE
         /\ pairs' = Tail(pairs)
         /\ mainQ' = Drained(Tail(pairs))
  /\ UNCHANGED <<lifeVars, main, config, thread, subscribed, net, routing, vpnVars, coreVars,
                 counters>>

\* CONNECTED and not routing: route (in proxy-only mode there is nothing to
\* route) and show CONNECTED.
ObserveAndRoute ==
  /\ MainRuns("drain")
  /\ Head(pairs) # lastPair /\ MustRoute(Head(pairs))
  /\ IF config.proxyOnly THEN UNCHANGED vpnVars ELSE RouteThroughTunnel(corePort)
  /\ lastPair' = Head(pairs)
  /\ shown' = "CONNECTED"
  /\ awaiting' = FALSE
  /\ main' = "observing"
  /\ UNCHANGED <<lifeVars, config, thread, mainQ, relayVars, coreVars, counters>>

\* The observer reports it to the routing relay and is done with the pair.
ReportRouting ==
  /\ main = "observing"
  /\ main' = "idle"
  /\ routing' = "TRUE"
  /\ pairs' = Tail(pairs) \o << <<net, "TRUE">> >>
  /\ UNCHANGED <<mainQ, subscribed, net>>
  /\ UNCHANGED <<lifeVars, config, thread, viewVars, vpnVars, coreVars, counters>>

\* CONNECTED and not routing, with a home page to open and no activity to open
\* it: show CONNECTING and wait for one.
ObserveAndAwait ==
  /\ MainRuns("drain")
  /\ ~config.proxyOnly
  /\ LET pair == Head(pairs)
     IN  /\ pair # lastPair /\ MustRoute(pair)
         /\ lastPair' = pair
         /\ shown' = "CONNECTING"
         /\ awaiting' = TRUE
         /\ pairs' = Tail(pairs)
         /\ mainQ' = Drained(Tail(pairs))
  /\ UNCHANGED <<lifeVars, main, config, thread, subscribed, net, routing, vpnVars, coreVars,
                 counters>>
-----------------------------------------------------------------------------
(* runTunnel, on the tunnel thread. *)

\* The relays are reset ...
RunResetState ==
  /\ thread = "created"
  /\ AcceptState(mainQ, "CONNECTING")
  /\ thread' = "resetRouting"
  /\ UNCHANGED <<lifeVars, main, config, viewVars, vpnVars, coreVars, counters>>

RunResetRouting ==
  /\ thread = "resetRouting"
  /\ AcceptRouting(mainQ, "FALSE")
  /\ thread' = "try"
  /\ UNCHANGED <<lifeVars, main, config, viewVars, vpnVars, coreVars, counters>>

\* ... and VpnManager is given its mode; proxy-only mode without Wi-Fi fails.
RunSetMode ==
  /\ thread = "try"
  /\ \/ thread' = "establish" /\ vpnMode' = config.proxyOnly
     \/ thread' = "finally" /\ config.proxyOnly /\ UNCHANGED vpnMode
  /\ UNCHANGED <<lifeVars, main, config, mainQ, relayVars, viewVars, iface, isRouting, pump,
                 routed, faults, coreVars, counters>>

\* vpnEstablish, which clears the flag; in VPN mode it may throw.
RunEstablish ==
  /\ thread = "establish"
  /\ \/ /\ thread' = "established"
        /\ iface' = IF vpnMode THEN iface ELSE "up"
        /\ isRouting' = FALSE
     \/ /\ thread' = "finally"
        /\ ~vpnMode
        /\ UNCHANGED <<iface, isRouting>>
  /\ UNCHANGED <<lifeVars, main, config, mainQ, relayVars, viewVars, vpnMode, pump, routed,
                 faults, coreVars, counters>>

\* startTunneling, unless it throws.
RunStartTunneling ==
  /\ thread = "established"
  /\ \/ /\ thread' = "await"
        /\ core' = "connecting" /\ startPort' = config.port
        /\ UNCHANGED corePort
     \/ /\ thread' = "finally"
        /\ UNCHANGED coreVars
  /\ UNCHANGED <<lifeVars, main, config, mainQ, relayVars, viewVars, vpnVars, counters>>

\* m_tunnelThreadStopSignal.await() returns.
RunAwait ==
  /\ thread = "await"
  /\ latch = "0"
  /\ thread' = "finally"
  /\ UNCHANGED <<lifeVars, main, config, mainQ, relayVars, viewVars, vpnVars, coreVars,
                 counters>>

\* The finally block: the relays are reset.
RunFinally ==
  /\ thread = "finally"
  /\ AcceptState(mainQ, "CONNECTING")
  /\ thread' = "finallyRouting"
  /\ UNCHANGED <<lifeVars, main, config, viewVars, vpnVars, coreVars, counters>>

RunFinallyRouting ==
  /\ thread = "finallyRouting"
  /\ AcceptRouting(mainQ, "FALSE")
  /\ thread' = "teardown"
  /\ UNCHANGED <<lifeVars, main, config, viewVars, vpnVars, coreVars, counters>>

RunTeardown ==
  /\ thread = "teardown"
  /\ thread' = "stopCore"
  /\ VpnTeardown
  /\ UNCHANGED <<lifeVars, main, config, mainQ, relayVars, viewVars, coreVars, counters>>

\* m_tunnel.stop().
RunStopCore ==
  /\ thread = "stopCore"
  /\ thread' = "stopSelf"
  /\ core' = "stopped" /\ corePort' = NoPort
  /\ UNCHANGED <<lifeVars, main, config, mainQ, relayVars, viewVars, vpnVars, startPort,
                 counters>>

\* The service does not stop itself.
RunStopSelfMutant ==
  /\ thread = "stopSelf"
  /\ thread' = "ended"
  /\ UNCHANGED <<lifeVars, main, config, mainQ, relayVars, viewVars, vpnVars, coreVars, counters>>

\* stopSelf: the system will call onDestroy.
RunStopSelf ==
  /\ thread = "stopSelf"
  /\ thread' = "ended"
  /\ mainQ' = Append(mainQ, "destroy")
  /\ UNCHANGED <<lifeVars, main, config, relayVars, viewVars, vpnVars, coreVars, counters>>

RunTunnel ==
  \/ RunResetState \/ RunResetRouting \/ RunSetMode \/ RunEstablish \/ RunStartTunneling
  \/ RunAwait \/ RunFinally \/ RunFinallyRouting \/ RunTeardown \/ RunStopCore \/ RunStopSelf
-----------------------------------------------------------------------------
(* The environment. *)

\* A command reaches the looper of a service that exists.
Command(t) ==
  /\ service = "created"
  /\ commands < MaxCommands /\ commands + coreEvents < MaxInputs
  /\ commands' = commands + 1
  /\ mainQ' = Append(mainQ, t)
  /\ UNCHANGED <<lifeVars, main, config, thread, relayVars, viewVars, vpnVars, coreVars,
                 coreEvents>>

\* tunnel-core listens on its port and connects.
CoreConnects ==
  /\ core = "connecting"
  /\ coreEvents < MaxCore /\ commands + coreEvents < MaxInputs
  /\ coreEvents' = coreEvents + 1
  /\ core' = "connected" /\ corePort' = startPort
  /\ mainQ' = Append(mainQ, "CONNECTED")
  /\ UNCHANGED <<lifeVars, main, config, thread, relayVars, viewVars, vpnVars, startPort,
                 commands>>

\* tunnel-core loses its connection, or waits for a network.
CoreReports(n) ==
  /\ core # "stopped"
  /\ n # "CONNECTED"
  /\ coreEvents < MaxCore /\ commands + coreEvents < MaxInputs
  /\ coreEvents' = coreEvents + 1
  /\ core' = "connecting"
  /\ mainQ' = Append(mainQ, n)
  /\ UNCHANGED <<lifeVars, main, config, thread, relayVars, viewVars, vpnVars, corePort,
                 startPort, commands>>

Main ==
  \/ OnStartCommand \/ OnStopIntent \/ OnStopMessage \/ OnUnregister
  \/ OnRestart \/ OnRestartIgnored \/ OnRestartChanged \/ RestartUnroute \/ RestartUnreport
  \/ \E new \in Configs : RestartAdopt(new)
  \/ \E live \in BOOLEAN : OnRegister(live)
  \/ ReportBinding
  \/ BeginStopAndWait("revoke") \/ BeginStopAndWait("destroy") \/ EndStopAndWait
  \/ RestartPsiphon
  \/ \E n \in States : OnCoreState(n)
  \/ ObservePair \/ ObserveAndRoute \/ ReportRouting \/ ObserveAndAwait

Next ==
  \/ Main
  \/ RunTunnel
  \/ Subscribe
  \/ PumpEnds
  \/ \E t \in Commands : Command(t)
  \/ CoreConnects
  \/ \E n \in States : CoreReports(n)

\* The looper runs its tasks, the tunnel thread its steps and the io thread the
\* subscription; commands, the core and failures are the environment.
Fairness == WF_vars(Main) /\ WF_vars(RunTunnel) /\ WF_vars(Subscribe)

Spec == Init /\ [][Next]_vars /\ Fairness
-----------------------------------------------------------------------------
(* Properties. *)

\* The main thread has nothing left to do.
Quiet == mainQ = <<>> /\ main = "idle"

\* "Boolean representing whether we are routing the traffic via tunnel":
\* when everything has been processed, a session shown as CONNECTED in VPN
\* mode has the interface up and tun2socks running towards the port the core
\* listens on.
RoutingIsReal ==
  (Quiet /\ thread = "await" /\ latch = "1" /\ core = "connected"
     /\ shown = "CONNECTED" /\ ~config.proxyOnly)
  => iface = "up" /\ pump = corePort

\* That holds unless routing was started before vpnEstablish or towards a core
\* that is being replaced, tun2socks is gone without being stopped, or the
\* mode was changed in the session: the observer routes for every connection
\* that was not routed, and a routing that was sound stays so.
SoundRoutingIsReal ==
  (routed \in {"no", "sound"} /\ vpnMode = config.proxyOnly) => RoutingIsReal

\* The routing relay and VpnManager's flag agree in a VPN session once
\* everything has been processed, whatever the order of state changes,
\* restarts and activities binding.
RelayAgreesWithVpnManager ==
  (Quiet /\ thread = "await" /\ ~config.proxyOnly)
  => (routing = "TRUE" <=> isRouting)

\* They do unless routing was started before vpnEstablish, which clears the
\* flag alone: whatever the settings change to, whichever accepts the observer
\* missed, and whatever comes between the accepts of one thread.
RelayAgreesUnlessEarly == routed # "early" => RelayAgreesWithVpnManager

\* Nothing a late task does after the session reopens or keeps the VPN: once
\* torn down there is no interface and no tun2socks, ever.
TornDownForGood ==
  thread \in {"stopCore", "stopSelf", "ended"} => iface = "down" /\ pump = NoPort

\* Why late tasks cannot: tun2socks runs only on an interface that is up and
\* under the routing flag that vpnTeardown looks at, and the interface exists
\* only between vpnEstablish and vpnTeardown of the one tunnel thread, which
\* only the first start command creates.
PumpIsGuarded ==
  /\ firstStart => thread = "none"
  /\ pump # NoPort => iface = "up" /\ isRouting
  /\ thread \notin {"established", "await", "finally", "finallyRouting", "teardown"} =>
       iface = "down"

\* A stop that was signalled ends with the service destroyed.
StopCompletes == (latch = "0") ~> (service = "destroyed")

\* Once everything has been processed, a connection the core has established is
\* shown, or waits for an activity: if the observer was subscribed in time for
\* some accept of the routing relay, whatever was lost before, and also after
\* waits that a change of state has dropped.
HeardConnectionIsShown ==
  (Quiet /\ thread = "await" /\ core = "connected" /\ routing # Unset)
  => shown = "CONNECTED" \/ awaiting
=============================================================================
