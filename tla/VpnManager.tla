----------------------------- MODULE VpnManager -----------------------------
(***************************************************************************)
(* VpnManager.java and the life of the native tun2socks instances it       *)
(* starts (tun2socks.c, runTun2SocksNative .. run .. terminate).           *)
(*                                                                         *)
(* The public methods of VpnManager are synchronized, so a method that     *)
(* does not block is one action.  The only blocking call under the monitor *)
(* is mTun2SocksThread.join(): stopper names the method that waits there,  *)
(* holding the monitor, and JoinReturns is the rest of that method.        *)
(*                                                                         *)
(* Callers: the tunnel thread runs sessions (TunnelManager.runTunnel:      *)
(* setProxyOnlyMode, vpnEstablish, ..., finally vpnTeardown); the main     *)
(* thread calls routeThroughTunnel and stopRouteThroughTunnel whenever a   *)
(* connection update or a restart command reaches it, before, during or    *)
(* after a session.                                                        *)
(***************************************************************************)
EXTENDS Naturals, FiniteSets

CONSTANTS
  MaxStarts,    \* bound on the tun2socks instances of one behaviour
  MaxSessions   \* bound on the sessions of one behaviour

ASSUME ConstantsAssumption ==
  /\ MaxStarts \in Nat
  /\ MaxSessions \in Nat

Instances == 1..MaxStarts

NoThread == 0

VARIABLES
  proxyOnly,   \* mProxyOnlyMode
  tunFd,       \* "open" while this.tunFd holds the VPN interface, else "none"
  isRouting,   \* isRoutingThroughTunnel
  thread,      \* mTun2SocksThread: an instance, or NoThread for null
  phase,       \* where each tun2socks instance is (see Phases)
  dupFd,       \* the dup of tunFd given to each instance: "open" or "closed"
  gTerminate,  \* tun2socks.c's g_terminate
  stopper,     \* the method blocked in join() under the monitor, or "none"
  session,     \* the tunnel thread: "down", "configured" or "up"
  started,     \* number of instances started
  sessions     \* number of sessions started

vpnVars == <<proxyOnly, tunFd, isRouting, thread, stopper>>
nativeVars == <<phase, dupFd, gTerminate>>
vars == <<vpnVars, nativeVars, session, started, sessions>>

(***************************************************************************)
(* unborn: not started.  spawned: Thread.start() was called, the native    *)
(* function has not reset g_terminate yet.  init: in run(), before the     *)
(* event loop.  loop: BReactor_Exec.  quitting: terminate() was called,    *)
(* clients, listener and device are being freed.  exited: the thread ended *)
(* and the descriptor it was given is closed.  aborted: run() returned     *)
(* before it owned the descriptor.                                         *)
(***************************************************************************)
Phases == {"unborn", "spawned", "init", "loop", "quitting", "exited", "aborted"}
Live == {"spawned", "init", "loop", "quitting"}

TypeOK ==
  /\ proxyOnly \in BOOLEAN
  /\ tunFd \in {"none", "open"}
  /\ isRouting \in BOOLEAN
  /\ thread \in Instances \cup {NoThread}
  /\ phase \in [Instances -> Phases]
  /\ dupFd \in [Instances -> {"open", "closed"}]
  /\ gTerminate \in {0, 1}
  /\ stopper \in {"none", "stopRouteThroughTunnel", "vpnTeardown"}
  /\ session \in {"down", "configured", "up"}
  /\ started \in 0..MaxStarts
  /\ sessions \in 0..MaxSessions

Init ==
  /\ proxyOnly = FALSE
  /\ tunFd = "none"
  /\ isRouting = FALSE
  /\ thread = NoThread
  /\ phase = [i \in Instances |-> "unborn"]
  /\ dupFd = [i \in Instances |-> "closed"]
  /\ gTerminate = 0
  /\ stopper = "none"
  /\ session = "down"
  /\ started = 0
  /\ sessions = 0

\* No method holds the VpnManager monitor.
MonitorFree == stopper = "none"
-----------------------------------------------------------------------------
(* The tunnel thread's session. *)

\* setProxyOnlyMode takes no lock: the field is volatile.
SetProxyOnlyMode(p) ==
  /\ session = "down"
  /\ sessions < MaxSessions
  /\ sessions' = sessions + 1
  /\ session' = "configured"
  /\ proxyOnly' = p
  /\ UNCHANGED <<tunFd, isRouting, thread, stopper, nativeVars, started>>

\* Proxy-only mode without Wi-Fi: runTunnel throws before it configures
\* VpnManager, and its finally block still tears down.
ProxyOnlyBlocked ==
  /\ session = "down"
  /\ sessions < MaxSessions
  /\ sessions' = sessions + 1
  /\ session' = "up"
  /\ UNCHANGED <<vpnVars, nativeVars, started>>

\* The interface is established (or not needed, in proxy-only mode).
VpnEstablish ==
  /\ session = "configured"
  /\ MonitorFree
  /\ tunFd' = IF proxyOnly THEN tunFd ELSE "open"
  /\ isRouting' = FALSE
  /\ session' = "up"
  /\ UNCHANGED <<proxyOnly, thread, stopper, nativeVars, started, sessions>>

\* selectPrivateAddress, the host service or establish() fails: the
\* IllegalStateException leaves vpnEstablish before any field is written.
VpnEstablishFails ==
  /\ session = "configured"
  /\ ~proxyOnly
  /\ MonitorFree
  /\ session' = "up"
  /\ UNCHANGED <<vpnVars, nativeVars, started, sessions>>
-----------------------------------------------------------------------------
(* Stopping: terminateTun2Socks then join. *)

\* An increment in place of the compare-and-swap.
TerminateTun2SocksMutant == gTerminate' = gTerminate + 1

\* terminateTun2SocksNative: compare-and-swap g_terminate from 0 to 1.
TerminateTun2Socks == gTerminate' = 1

\* The flag is left set while the stop waits.
BeginStopMutant(method) ==
  /\ isRouting /\ thread # NoThread
  /\ TerminateTun2Socks
  /\ stopper' = method
  /\ UNCHANGED <<proxyOnly, tunFd, isRouting, thread, phase, dupFd, session>>

\* stopRouteThroughTunnel and the stopTun2Socks it calls, up to join().  The
\* monitor is kept while waiting.
BeginStop(method) ==
  /\ isRouting /\ thread # NoThread
  /\ isRouting' = FALSE
  /\ TerminateTun2Socks
  /\ stopper' = method
  /\ UNCHANGED <<proxyOnly, tunFd, thread, phase, dupFd, session>>

StopRouteThroughTunnel ==
  /\ MonitorFree
  /\ UNCHANGED <<started, sessions>>
  /\ \/ BeginStop("stopRouteThroughTunnel")
     \/ /\ thread = NoThread \/ ~isRouting
        /\ isRouting' = FALSE
        /\ UNCHANGED <<proxyOnly, tunFd, thread, stopper, nativeVars, session>>

\* The descriptor is kept.
CloseTunMutant ==
  /\ isRouting' = FALSE
  /\ session' = "down"
  /\ UNCHANGED tunFd

\* What vpnTeardown does after stopRouteThroughTunnel has returned.
CloseTun ==
  /\ tunFd' = "none"
  /\ isRouting' = FALSE
  /\ session' = "down"

\* The interface is closed whether or not tun2socks runs.
VpnTeardownMutant ==
  /\ session = "up"
  /\ MonitorFree
  /\ CloseTun
  /\ UNCHANGED <<proxyOnly, thread, stopper, nativeVars, started, sessions>>

\* vpnTeardown, in runTunnel's finally block.
VpnTeardown ==
  /\ session = "up"
  /\ MonitorFree
  /\ UNCHANGED <<started, sessions>>
  /\ \/ BeginStop("vpnTeardown")
     \/ /\ thread = NoThread \/ ~isRouting
        /\ CloseTun
        /\ UNCHANGED <<proxyOnly, thread, stopper, nativeVars>>

\* stopTun2Socks that does not wait for the thread to end.
JoinedMutant == TRUE

\* mTun2SocksThread.join() can return.
Joined == phase[thread] \in {"exited", "aborted"}

\* The rest of stopTun2Socks, and of vpnTeardown when it is the caller.  Nothing
\* in the application interrupts the threads that call it.
JoinReturns ==
  /\ ~MonitorFree
  /\ Joined
  /\ thread' = NoThread
  /\ stopper' = "none"
  /\ \/ stopper = "vpnTeardown" /\ CloseTun
     \/ stopper = "stopRouteThroughTunnel" /\ UNCHANGED <<tunFd, isRouting, session>>
  /\ UNCHANGED <<proxyOnly, nativeVars, started, sessions>>
-----------------------------------------------------------------------------
(* Starting. *)

\* startTun2Socks with a freshly dup'ed descriptor: the thread is created
\* unless there is one already, in which case the dup is left to the
\* finalizer.
StartTun2Socks ==
  \/ /\ thread = NoThread
     /\ started < MaxStarts
     /\ started' = started + 1
     /\ thread' = started + 1
     /\ phase' = [phase EXCEPT ![started + 1] = "spawned"]
     /\ dupFd' = [dupFd EXCEPT ![started + 1] = "open"]
  \/ /\ thread # NoThread
     /\ UNCHANGED <<thread, phase, dupFd, started>>

\* routeThroughTunnel: portSet is socksProxyPort > 0, dupOk whether dup()
\* succeeds.  The flag is set first and stays set on every early return.
RouteThroughTunnel(portSet, dupOk) ==
  /\ MonitorFree
  /\ isRouting' = TRUE
  /\ IF ~proxyOnly /\ ~isRouting /\ tunFd = "open" /\ portSet /\ dupOk
     THEN StartTun2Socks
     ELSE UNCHANGED <<thread, phase, dupFd, started>>
  /\ UNCHANGED <<proxyOnly, tunFd, gTerminate, stopper, session, sessions>>
-----------------------------------------------------------------------------
(* The native thread of instance i. *)

\* runTun2SocksNative: the arguments are read, then g_terminate is
\* compare-and-swapped from 1 to 0.
ResetTerminate(i) ==
  /\ phase[i] = "spawned"
  /\ phase' = [phase EXCEPT ![i] = "init"]
  /\ gTerminate' = 0
  /\ UNCHANGED <<vpnVars, dupFd, session, started, sessions>>

\* run() up to the event loop.
RunInit(i) ==
  /\ phase[i] = "init"
  /\ phase' = [phase EXCEPT ![i] = "loop"]
  /\ UNCHANGED <<vpnVars, dupFd, gTerminate, session, started, sessions>>

\* run() fails before BTap_InitWithFD has taken the descriptor (fail1,
\* fail2): nothing closes it.
RunInitFailsEarly(i) ==
  /\ phase[i] = "init"
  /\ phase' = [phase EXCEPT ![i] = "aborted"]
  /\ UNCHANGED <<vpnVars, dupFd, gTerminate, session, started, sessions>>

\* run() fails in BTap_InitWithFD or later (fail3 .. fail5): the unwinding
\* code closes the descriptor.
RunInitFailsLate(i) ==
  /\ phase[i] = "init"
  /\ phase' = [phase EXCEPT ![i] = "exited"]
  /\ dupFd' = [dupFd EXCEPT ![i] = "closed"]
  /\ UNCHANGED <<vpnVars, gTerminate, session, started, sessions>>

\* A timer that never looks at g_terminate.
TcpTimerHandlerMutant(i) == FALSE /\ UNCHANGED vars

\* tcp_timer_handler polls g_terminate and calls terminate().
TcpTimerHandler(i) ==
  /\ phase[i] = "loop"
  /\ gTerminate = 1
  /\ phase' = [phase EXCEPT ![i] = "quitting"]
  /\ UNCHANGED <<vpnVars, dupFd, gTerminate, session, started, sessions>>

\* lwip_init_job_hadler, the first job of the loop, fails to set up lwIP's
\* network interface or listener and calls terminate().
LwipInitJobFails(i) ==
  /\ phase[i] = "loop"
  /\ phase' = [phase EXCEPT ![i] = "quitting"]
  /\ UNCHANGED <<vpnVars, dupFd, gTerminate, session, started, sessions>>

\* device_error_handler: terminate() without any request from Java.
DeviceErrorHandler(i) ==
  /\ phase[i] = "loop"
  /\ phase' = [phase EXCEPT ![i] = "quitting"]
  /\ UNCHANGED <<vpnVars, dupFd, gTerminate, session, started, sessions>>

\* run() after the event loop: every client and pcb is freed, BTap_Free
\* closes the descriptor, the thread ends.
RunCleanup(i) ==
  /\ phase[i] = "quitting"
  /\ phase' = [phase EXCEPT ![i] = "exited"]
  /\ dupFd' = [dupFd EXCEPT ![i] = "closed"]
  /\ UNCHANGED <<vpnVars, gTerminate, session, started, sessions>>

Native(i) ==
  \/ ResetTerminate(i) \/ RunInit(i) \/ RunInitFailsEarly(i)
  \/ RunInitFailsLate(i) \/ TcpTimerHandler(i)
  \/ LwipInitJobFails(i) \/ DeviceErrorHandler(i) \/ RunCleanup(i)

Next ==
  \/ \E p \in BOOLEAN : SetProxyOnlyMode(p)
  \/ ProxyOnlyBlocked \/ VpnEstablish \/ VpnEstablishFails \/ VpnTeardown
  \/ \E portSet, dupOk \in BOOLEAN : RouteThroughTunnel(portSet, dupOk)
  \/ StopRouteThroughTunnel
  \/ JoinReturns
  \/ \E i \in Instances : Native(i)

\* The native thread is scheduled and its timer fires every TCP_TMR_INTERVAL;
\* a thread whose join() can return is scheduled too.  Callers and device
\* errors are the environment.
Fairness ==
  /\ WF_vars(JoinReturns)
  /\ \A i \in Instances :
       /\ WF_vars(ResetTerminate(i))
       /\ WF_vars(RunInit(i) \/ RunInitFailsEarly(i) \/ RunInitFailsLate(i))
       /\ WF_vars(TcpTimerHandler(i))
       /\ WF_vars(RunCleanup(i))

Spec == Init /\ [][Next]_vars /\ Fairness
-----------------------------------------------------------------------------
(* Properties. *)

\* tun2socks.c keeps its reactor, device and lwip lists in globals: two live
\* instances would corrupt them.  VpnManager never lets two exist, whatever
\* the interleaving of route, stop, teardown and native exit, and the live
\* one is always the one mTun2SocksThread names.
SingleInstance ==
  \A i \in Instances : phase[i] \in Live => i = thread

\* A tun2socks instance lives only on an interface VpnManager still holds:
\* vpnTeardown never closes the tun descriptor under a running instance, and
\* none is started after it.
NoPumpWithoutInterface ==
  thread # NoThread => tunFd = "open" /\ session = "up"

\* Once the session is over, tunFd and every dup handed to an instance that
\* got as far as BTap_InitWithFD are closed: Android keeps the VPN up as long
\* as one descriptor of it is open.
InterfaceReleased ==
  session = "down" =>
    /\ tunFd = "none"
    /\ \A i \in Instances : dupFd[i] = "open" => phase[i] = "aborted"

\* VpnManager.java, routeThroughTunnel: "stopTun2Socks() closes the FD passed
\* to startTun2Socks()", so no descriptor outlives its stopped instance.
StopClosesFd ==
  \A i \in Instances : i # thread => dupFd[i] = "closed"

\* The routing flag and the thread reference agree, except while a stop waits
\* in join(): this is what makes stopRouteThroughTunnel's early return safe.
FlagGuardsThread ==
  thread # NoThread => (isRouting <=> stopper = "none")

\* The inductive strengthening of the invariants above: instances are numbered
\* in the order they start, only the current one is alive and only while a
\* session holds the interface, and a method waits in join() only on it.
IInv ==
  /\ TypeOK
  /\ SingleInstance /\ NoPumpWithoutInterface /\ FlagGuardsThread
  /\ thread <= started
  /\ \A i \in Instances : i > started => phase[i] = "unborn"
  /\ \A i \in Instances : dupFd[i] = "open" => phase[i] \in Live \cup {"aborted"}
  /\ stopper # "none" => thread # NoThread
  /\ session # "up" => tunFd = "none"

\* A termination request that reached an instance past its reset of
\* g_terminate ends the wait in stopTun2Socks.
SeenStopCompletes ==
  (stopper # "none" /\ gTerminate = 1 /\ phase[thread] # "spawned")
     ~> stopper = "none"

\* VpnManager.java: "Stop routing traffic via tunnel by stopping tun2socks":
\* every call that stops tun2socks returns.
StopCompletes == (stopper # "none") ~> (stopper = "none")

\* VpnManager implements the single-pump specification.
Pump == INSTANCE PacketPump WITH
          Pump <- Instances,
          iface <- IF tunFd = "open" THEN "up" ELSE "down",
          pumps <- {i \in Instances : phase[i] \in Live}

ImplementsPump == Pump!PumpSpec
=============================================================================
