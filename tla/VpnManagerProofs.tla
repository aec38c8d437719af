-------------------------- MODULE VpnManagerProofs --------------------------
(***************************************************************************)
(* Proofs about VpnManager, for any number of sessions and instances.      *)
(***************************************************************************)
EXTENDS VpnManager, TLAPS

\* Initially no interface, no thread and no instance: the invariant holds.
LEMMA InitIInv == Init => IInv
<1> SUFFICES ASSUME Init PROVE IInv
  OBVIOUS
<1>1. TypeOK
  <2>1. proxyOnly \in BOOLEAN /\ isRouting \in BOOLEAN
    BY DEF Init
  <2>2. started \in 0..MaxStarts /\ sessions \in 0..MaxSessions
    BY ConstantsAssumption DEF Init
  <2>3. phase \in [Instances -> Phases] /\ dupFd \in [Instances -> {"open", "closed"}]
    BY DEF Init, Phases
  <2> QED BY <2>1, <2>2, <2>3 DEF Init, TypeOK, NoThread
<1>2. SingleInstance /\ NoPumpWithoutInterface /\ FlagGuardsThread
  BY DEF Init, SingleInstance, NoPumpWithoutInterface, FlagGuardsThread, Live
<1>3. thread <= started
  BY DEF Init, NoThread
<1>4. /\ \A i \in Instances : i > started => phase[i] = "unborn"
      /\ \A i \in Instances : dupFd[i] = "open" => phase[i] \in Live \cup {"aborted"}
      /\ stopper # "none" => thread # NoThread
      /\ session # "up" => tunFd = "none"
  BY DEF Init
<1> QED BY <1>1, <1>2, <1>3, <1>4 DEF IInv

\* Every action of VpnManager and of a native instance preserves IInv.
LEMMA NextIInv == IInv /\ [Next]_vars => IInv'
<1> SUFFICES ASSUME IInv, [Next]_vars PROVE IInv'
  OBVIOUS
<1> USE ConstantsAssumption
    DEF IInv, TypeOK, SingleInstance, NoPumpWithoutInterface, FlagGuardsThread,
        Instances, NoThread, Phases, Live, vpnVars, nativeVars
<1>1. ASSUME NEW p \in BOOLEAN, SetProxyOnlyMode(p) PROVE IInv'
  BY <1>1 DEF SetProxyOnlyMode
<1>2. CASE ProxyOnlyBlocked
  BY <1>2 DEF ProxyOnlyBlocked
<1>3. CASE VpnEstablish
  BY <1>3 DEF VpnEstablish, MonitorFree
<1>4. CASE VpnEstablishFails
  BY <1>4 DEF VpnEstablishFails
<1>5. CASE VpnTeardown
  BY <1>5 DEF VpnTeardown, MonitorFree, BeginStop, TerminateTun2Socks, CloseTun
<1>6. ASSUME NEW portSet \in BOOLEAN, NEW dupOk \in BOOLEAN,
             RouteThroughTunnel(portSet, dupOk)
      PROVE  IInv'
  <2>1. CASE /\ ~proxyOnly /\ ~isRouting /\ tunFd = "open" /\ portSet /\ dupOk
             /\ thread = NoThread
    BY <1>6, <2>1 DEF RouteThroughTunnel, StartTun2Socks, MonitorFree
  <2>2. CASE ~(/\ ~proxyOnly /\ ~isRouting /\ tunFd = "open" /\ portSet /\ dupOk
               /\ thread = NoThread)
    BY <1>6, <2>2 DEF RouteThroughTunnel, StartTun2Socks, MonitorFree
  <2> QED BY <2>1, <2>2
<1>7. CASE StopRouteThroughTunnel
  BY <1>7 DEF StopRouteThroughTunnel, MonitorFree, BeginStop, TerminateTun2Socks
<1>8. CASE JoinReturns
  <2>1. thread \in Instances /\ phase[thread] \notin Live
    BY <1>8 DEF JoinReturns, MonitorFree, Joined
  <2>2. \A i \in Instances : phase[i] \notin Live
    BY <2>1
  <2>3. CASE stopper = "vpnTeardown"
    <3>1. isRouting' \in BOOLEAN
      BY <1>8, <2>3 DEF JoinReturns, CloseTun
    <3>2. /\ thread' = NoThread /\ stopper' = "none"
          /\ tunFd' = "none" /\ session' = "down"
          /\ UNCHANGED <<proxyOnly, nativeVars, started, sessions>>
      BY <1>8, <2>3 DEF JoinReturns, CloseTun
    <3> QED BY <2>2, <3>1, <3>2
  <2>4. CASE stopper = "stopRouteThroughTunnel"
    BY <1>8, <2>2, <2>4 DEF JoinReturns, MonitorFree
  <2> QED BY <1>8, <2>3, <2>4 DEF JoinReturns
<1>9. ASSUME NEW i \in Instances, Native(i) PROVE IInv'
  <2>1. CASE ResetTerminate(i)
    BY <2>1 DEF ResetTerminate
  <2>2. CASE RunInit(i)
    BY <2>2 DEF RunInit
  <2>3. CASE RunInitFailsEarly(i)
    BY <2>3 DEF RunInitFailsEarly
  <2>4. CASE RunInitFailsLate(i)
    BY <2>4 DEF RunInitFailsLate
  <2>5. CASE TcpTimerHandler(i)
    BY <2>5 DEF TcpTimerHandler
  <2>6. CASE LwipInitJobFails(i) \/ DeviceErrorHandler(i)
    BY <2>6 DEF LwipInitJobFails, DeviceErrorHandler
  <2>7. CASE RunCleanup(i)
    BY <2>7 DEF RunCleanup
  <2> QED BY <1>9, <2>1, <2>2, <2>3, <2>4, <2>5, <2>6, <2>7 DEF Native
<1>10. CASE UNCHANGED vars
  BY <1>10 DEF vars
<1> QED BY <1>1, <1>2, <1>3, <1>4, <1>5, <1>6, <1>7, <1>8, <1>9, <1>10 DEF Next

\* The inductive invariant holds in every reachable state.
THEOREM Invariance == Spec => []IInv
<1>1. Init => IInv BY InitIInv
<1>2. IInv /\ [Next]_vars => IInv' BY NextIInv
<1> QED BY <1>1, <1>2, PTL DEF Spec

\* Every variable keeps its type (VpnManager's fields, g_terminate, phases).
THEOREM TypeCorrect == Spec => []TypeOK
<1>1. IInv => TypeOK BY DEF IInv
<1> QED BY <1>1, Invariance, PTL

\* At most one tun2socks instance is alive, the one mTun2SocksThread names.
THEOREM SingleInstanceAlways == Spec => []SingleInstance
<1>1. IInv => SingleInstance BY DEF IInv
<1> QED BY <1>1, Invariance, PTL

\* A tun2socks thread exists only while a session holds the interface.
THEOREM PumpNeedsInterface == Spec => []NoPumpWithoutInterface
<1>1. IInv => NoPumpWithoutInterface BY DEF IInv
<1> QED BY <1>1, Invariance, PTL

\* After vpnTeardown every descriptor a tun2socks device owned is closed.
THEOREM InterfaceReleasedAlways == Spec => []InterfaceReleased
<1>1. IInv => InterfaceReleased
  BY DEF IInv, TypeOK, SingleInstance, NoPumpWithoutInterface,
         InterfaceReleased, Instances, NoThread, Live
<1> QED BY <1>1, Invariance, PTL

\* The instances that are alive, as PacketPump sees them.
LiveSet == {i \in Instances : phase[i] \in Live}

\* When nothing waits in join() and routing is off, or there is no thread, no
\* instance is alive.
LEMMA NoneAlive == ASSUME IInv, thread = NoThread PROVE LiveSet = {}
  BY DEF IInv, SingleInstance, LiveSet, NoThread, Instances

\* A step that changes neither the interface nor any instance is a stutter of
\* PacketPump.
LEMMA QuietStep ==
  ASSUME UNCHANGED <<tunFd, phase>> PROVE UNCHANGED Pump!pumpVars
  BY DEF Pump!pumpVars

\* Every step of VpnManager is a step of PacketPump or leaves it unchanged.
LEMMA PumpStep == IInv /\ [Next]_vars => [Pump!PumpNext]_(Pump!pumpVars)
<1> SUFFICES ASSUME IInv, [Next]_vars PROVE [Pump!PumpNext]_(Pump!pumpVars)
  OBVIOUS
<1> USE DEF vpnVars, nativeVars
<1>a. /\ tunFd \in {"none", "open"} /\ phase \in [Instances -> Phases]
      /\ started \in 0..MaxStarts /\ thread \in Instances \cup {NoThread}
  BY DEF IInv, TypeOK
<1>1. ASSUME NEW p \in BOOLEAN, SetProxyOnlyMode(p) PROVE UNCHANGED <<tunFd, phase>>
  BY <1>1 DEF SetProxyOnlyMode
<1>2. CASE ProxyOnlyBlocked
  BY <1>2, QuietStep DEF ProxyOnlyBlocked
<1>3. CASE VpnEstablish
  <2>1. tunFd = "none" /\ thread = NoThread /\ phase' = phase
    BY <1>3 DEF VpnEstablish, IInv, NoPumpWithoutInterface
  <2>2. LiveSet = {}
    BY <2>1, NoneAlive
  <2>3. CASE proxyOnly
    BY <1>3, <2>3, QuietStep DEF VpnEstablish
  <2>4. CASE ~proxyOnly
    <3>1. tunFd' = "open"
      BY <1>3, <2>4 DEF VpnEstablish
    <3>2. Pump!BringUp
      BY <2>1, <2>2, <3>1 DEF Pump!BringUp, LiveSet
    <3> QED BY <3>2 DEF Pump!PumpNext
  <2> QED BY <2>3, <2>4
<1>4. CASE VpnEstablishFails
  BY <1>4, QuietStep DEF VpnEstablishFails
<1>5. ASSUME thread = NoThread, tunFd' = "none", phase' = phase
      PROVE  [Pump!PumpNext]_(Pump!pumpVars)
  <2>1. LiveSet = {}
    BY <1>5, NoneAlive
  <2>2. CASE tunFd = "none"
    BY <1>5, <2>2, QuietStep
  <2>3. CASE tunFd = "open"
    <3>1. Pump!TakeDown
      BY <1>5, <2>1, <2>3 DEF Pump!TakeDown, LiveSet
    <3> QED BY <3>1 DEF Pump!PumpNext
  <2> QED BY <1>a, <2>2, <2>3
<1>6. CASE VpnTeardown
  <2>1. CASE BeginStop("vpnTeardown")
    BY <2>1, QuietStep DEF BeginStop
  <2>2. CASE ~BeginStop("vpnTeardown")
    <3>1. /\ thread = NoThread \/ ~isRouting
          /\ stopper = "none" /\ tunFd' = "none" /\ phase' = phase
      BY <1>6, <2>2 DEF VpnTeardown, MonitorFree, CloseTun
    <3>2. thread = NoThread
      BY <3>1 DEF IInv, FlagGuardsThread
    <3> QED BY <1>5, <3>1, <3>2
  <2> QED BY <2>1, <2>2
<1>7. CASE StopRouteThroughTunnel
  BY <1>7, QuietStep DEF StopRouteThroughTunnel, BeginStop
<1>8. CASE JoinReturns
  <2>1. phase[thread] \notin Live /\ thread # NoThread /\ phase' = phase
    BY <1>8 DEF JoinReturns, MonitorFree, Joined, Live, IInv
  <2>2. LiveSet = {}
    BY <2>1 DEF IInv, SingleInstance, LiveSet
  <2>3. CASE tunFd' = tunFd
    BY <2>1, <2>3, QuietStep
  <2>4. CASE tunFd' # tunFd
    <3>1. tunFd = "open" /\ tunFd' = "none"
      BY <1>8, <1>a, <2>4 DEF JoinReturns, CloseTun
    <3>2. Pump!TakeDown
      BY <2>1, <2>2, <3>1 DEF Pump!TakeDown, LiveSet
    <3> QED BY <3>2 DEF Pump!PumpNext
  <2> QED BY <2>3, <2>4
<1>9. ASSUME NEW portSet \in BOOLEAN, NEW dupOk \in BOOLEAN,
             RouteThroughTunnel(portSet, dupOk)
      PROVE  [Pump!PumpNext]_(Pump!pumpVars)
  <2>0. tunFd' = tunFd
    BY <1>9 DEF RouteThroughTunnel
  <2>1. CASE phase' = phase
    BY <2>0, <2>1, QuietStep
  <2>2. CASE phase' # phase
    <3>1. /\ tunFd = "open" /\ thread = NoThread /\ started < MaxStarts
          /\ phase' = [phase EXCEPT ![started + 1] = "spawned"]
      BY <1>9, <2>2 DEF RouteThroughTunnel, StartTun2Socks
    <3>2. started + 1 \in Instances
      BY <1>a, <3>1, ConstantsAssumption DEF Instances
    <3>3. LiveSet = {}
      BY <3>1, NoneAlive
    <3>4. {i \in Instances : phase'[i] \in Live} = {started + 1}
      BY <1>a, <3>1, <3>2, <3>3 DEF LiveSet, Live
    <3>5. Pump!StartPump
      BY <2>0, <3>1, <3>2, <3>3, <3>4 DEF Pump!StartPump, LiveSet
    <3> QED BY <3>5 DEF Pump!PumpNext
  <2> QED BY <2>1, <2>2
<1>10. ASSUME NEW i \in Instances, Native(i)
       PROVE  [Pump!PumpNext]_(Pump!pumpVars)
  <2>0. tunFd' = tunFd
    BY <1>10 DEF Native, ResetTerminate, RunInit, RunInitFailsEarly,
                 RunInitFailsLate, TcpTimerHandler, LwipInitJobFails,
                 DeviceErrorHandler, RunCleanup
  <2>1. /\ phase[i] \in Live
        /\ \E q \in Live \cup {"exited", "aborted"} : phase' = [phase EXCEPT ![i] = q]
    BY <1>10 DEF Native, ResetTerminate, RunInit, RunInitFailsEarly, Live,
                 RunInitFailsLate, TcpTimerHandler, LwipInitJobFails,
                 DeviceErrorHandler, RunCleanup
  <2>2. PICK q \in Live \cup {"exited", "aborted"} : phase' = [phase EXCEPT ![i] = q]
    BY <2>1
  <2>3. LiveSet = {i}
    BY <2>1 DEF IInv, SingleInstance, LiveSet
  <2>4. CASE q \in Live
    <3>1. {j \in Instances : phase'[j] \in Live} = LiveSet
      BY <1>a, <2>1, <2>2, <2>3, <2>4 DEF LiveSet
    <3> QED BY <2>0, <3>1 DEF Pump!pumpVars, LiveSet
  <2>5. CASE q \notin Live
    <3>1. {j \in Instances : phase'[j] \in Live} = {}
      BY <1>a, <2>2, <2>3, <2>5 DEF LiveSet
    <3>2. Pump!StopPump
      BY <2>0, <2>3, <3>1 DEF Pump!StopPump, LiveSet
    <3> QED BY <3>2 DEF Pump!PumpNext
  <2> QED BY <2>4, <2>5
<1>11. CASE UNCHANGED vars
  BY <1>11, QuietStep DEF vars
<1> QED
  BY <1>1, <1>2, <1>3, <1>4, <1>6, <1>7, <1>8, <1>9, <1>10, <1>11, QuietStep DEF Next

\* VpnManager implements the single-pump specification: the interface is never
\* closed under a running tun2socks, and none starts beside another.
THEOREM Refinement == Spec => ImplementsPump
<1>1. Init => Pump!PumpInit
  BY DEF Init, Pump!PumpInit, Live
<1>2. IInv /\ [Next]_vars => [Pump!PumpNext]_(Pump!pumpVars)
  BY PumpStep
<1> QED BY <1>1, <1>2, Invariance, PTL DEF Spec, ImplementsPump, Pump!PumpSpec
=============================================================================
