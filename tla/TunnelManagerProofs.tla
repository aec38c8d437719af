------------------------ MODULE TunnelManagerProofs -------------------------
(***************************************************************************)
(* The service never keeps or reopens the VPN after the tunnel thread has  *)
(* torn it down, the looper queue and the relays keep their shape, the     *)
(* routing relay agrees with VpnManager and a session that is shown as     *)
(* connected is routed, but for the circumstances that are named: for any  *)
(* ports, settings, and numbers of commands, callbacks and failures.       *)
(***************************************************************************)
EXTENDS TunnelManager, SequencesExt, SequenceTheorems, FiniteSetTheorems, TLAPS

-----------------------------------------------------------------------------
(* The interface. *)

\* Initially there is no interface and no tun2socks.
LEMMA InitGuarded == Init => PumpIsGuarded
  BY DEF Init, PumpIsGuarded

\* The guard survives a task that touches neither VpnManager nor the tunnel
\* thread's place nor the first-start flag.
LEMMA FrameGuarded ==
  PumpIsGuarded /\ UNCHANGED <<vpnVars, thread, firstStart>> => PumpIsGuarded'
  BY DEF PumpIsGuarded, vpnVars

\* routeThroughTunnel starts tun2socks on an interface that is up, and sets
\* the flag.
LEMMA RouteGuarded ==
  ASSUME PumpIsGuarded, NEW port, RouteThroughTunnel(port), UNCHANGED <<thread, firstStart>>
  PROVE  PumpIsGuarded'
  BY DEF PumpIsGuarded, RouteThroughTunnel, Starts

\* The commands and the observer on the main thread preserve the guard.
LEMMA MainGuarded == PumpIsGuarded /\ Main => PumpIsGuarded'
<1> SUFFICES ASSUME PumpIsGuarded, Main PROVE PumpIsGuarded'
  OBVIOUS
<1> USE DEF lifeVars
<1>1. CASE OnStartCommand
  BY <1>1 DEF OnStartCommand, PumpIsGuarded, vpnVars
<1>2. CASE OnStopIntent \/ OnStopMessage \/ OnRestartIgnored \/ OnUnregister
  BY <1>2, FrameGuarded DEF OnStopIntent, OnStopMessage, OnRestartIgnored, OnUnregister
<1>3. CASE OnRestart \/ OnRestartChanged \/ RestartUnreport
  BY <1>3, FrameGuarded DEF OnRestart, OnRestartChanged, RestartUnreport
<1>4. CASE RestartUnroute
  BY <1>4 DEF RestartUnroute, StopRouteThroughTunnel, PumpIsGuarded
<1>5. ASSUME NEW new \in Configs, RestartAdopt(new) PROVE PumpIsGuarded'
  BY <1>5, FrameGuarded DEF RestartAdopt
<1>6. ASSUME NEW live \in BOOLEAN, OnRegister(live) PROVE PumpIsGuarded'
  <2>1. CASE awaiting /\ live
    BY <1>6, <2>1, RouteGuarded DEF OnRegister
  <2>2. CASE ~(awaiting /\ live)
    BY <1>6, <2>2, FrameGuarded DEF OnRegister
  <2> QED BY <2>1, <2>2
<1>7. CASE BeginStopAndWait("revoke") \/ BeginStopAndWait("destroy")
  BY <1>7, FrameGuarded DEF BeginStopAndWait
<1>8. CASE EndStopAndWait \/ RestartPsiphon
  BY <1>8, FrameGuarded DEF EndStopAndWait, RestartPsiphon
<1>9. ASSUME NEW n \in States, OnCoreState(n) PROVE PumpIsGuarded'
  BY <1>9, FrameGuarded DEF OnCoreState
<1>10. CASE ObservePair \/ ObserveAndAwait \/ ReportRouting \/ ReportBinding
  BY <1>10, FrameGuarded DEF ObservePair, ObserveAndAwait, ReportRouting, ReportBinding
<1>11. CASE ObserveAndRoute
  <2>1. CASE config.proxyOnly
    BY <1>11, <2>1, FrameGuarded DEF ObserveAndRoute
  <2>2. CASE ~config.proxyOnly
    BY <1>11, <2>2, RouteGuarded DEF ObserveAndRoute
  <2> QED BY <2>1, <2>2
<1> QED BY <1>1, <1>2, <1>3, <1>4, <1>5, <1>6, <1>7, <1>8, <1>9, <1>10, <1>11 DEF Main

\* Each step of runTunnel preserves it: vpnEstablish meets no tun2socks to
\* orphan when it clears the flag, and vpnTeardown finds the flag set when
\* there is one to stop.
LEMMA RunTunnelGuarded == PumpIsGuarded /\ RunTunnel => PumpIsGuarded'
<1> SUFFICES ASSUME PumpIsGuarded, RunTunnel PROVE PumpIsGuarded'
  OBVIOUS
<1> USE DEF PumpIsGuarded, vpnVars, lifeVars
<1>1. CASE RunResetState \/ RunResetRouting \/ RunSetMode \/ RunEstablish
  BY <1>1 DEF RunResetState, RunResetRouting, RunSetMode, RunEstablish
<1>2. CASE RunStartTunneling \/ RunAwait \/ RunFinally \/ RunFinallyRouting
  BY <1>2 DEF RunStartTunneling, RunAwait, RunFinally, RunFinallyRouting
<1>3. CASE RunTeardown
  BY <1>3 DEF RunTeardown, VpnTeardown
<1>4. CASE RunStopCore \/ RunStopSelf
  BY <1>4 DEF RunStopCore, RunStopSelf
<1> QED BY <1>1, <1>2, <1>3, <1>4 DEF RunTunnel

\* PumpIsGuarded, the inductive invariant, holds in every reachable state.
THEOREM Guarded == Spec => []PumpIsGuarded
<1>1. PumpIsGuarded /\ [Next]_vars => PumpIsGuarded'
  <2> SUFFICES ASSUME PumpIsGuarded, [Next]_vars PROVE PumpIsGuarded'
    OBVIOUS
  <2>1. CASE Main
    BY <2>1, MainGuarded
  <2>2. CASE RunTunnel
    BY <2>2, RunTunnelGuarded
  <2>3. ASSUME NEW t \in Commands, Command(t) PROVE PumpIsGuarded'
    BY <2>3, FrameGuarded DEF Command, lifeVars
  <2>4. CASE CoreConnects
    BY <2>4, FrameGuarded DEF CoreConnects, lifeVars
  <2>5. ASSUME NEW n \in States, CoreReports(n) PROVE PumpIsGuarded'
    BY <2>5, FrameGuarded DEF CoreReports, lifeVars
  <2>6. CASE Subscribe
    BY <2>6, FrameGuarded DEF Subscribe, lifeVars
  <2>7. CASE PumpEnds
    BY <2>7 DEF PumpEnds, PumpIsGuarded, lifeVars
  <2>8. CASE UNCHANGED vars
    BY <2>8, FrameGuarded DEF vars, lifeVars
  <2> QED BY <2>1, <2>2, <2>3, <2>4, <2>5, <2>6, <2>7, <2>8 DEF Next
<1> QED BY InitGuarded, <1>1, PTL DEF Spec

\* Once the tunnel thread has torn the VPN down, no late start, restart,
\* registration or connection update leaves an interface or a tun2socks
\* behind.
THEOREM TornDown == Spec => []TornDownForGood
<1>1. PumpIsGuarded => TornDownForGood
  BY DEF PumpIsGuarded, TornDownForGood
<1> QED BY Guarded, <1>1, PTL

-----------------------------------------------------------------------------
(* Queues. *)

\* The task x is queued at most once.
Once(q, x) == \A i, j \in 1..Len(q) : q[i] = x /\ q[j] = x => i = j

LEMMA AppendFacts ==
  ASSUME NEW S, NEW q \in Seq(S), NEW t \in S
  PROVE  /\ Append(q, t) \in Seq(S) /\ Append(q, t) # << >>
         /\ \A x : Contains(Append(q, t), x) <=> Contains(q, x) \/ x = t
         /\ \A x : Once(q, x) /\ (x # t \/ ~Contains(q, x)) => Once(Append(q, t), x)
<1> DEFINE new == Append(q, t)
<1>1. /\ new \in Seq(S) /\ new # << >> /\ Len(new) = Len(q) + 1 /\ Len(q) \in Nat
      /\ \A i \in 1..Len(q) : new[i] = q[i]
      /\ new[Len(q) + 1] = t
  BY AppendProperties, LenProperties
<1> HIDE DEF new
<1>2. \A x : Contains(new, x) <=> Contains(q, x) \/ x = t
  BY <1>1 DEF Contains
<1>3. ASSUME NEW x, Once(q, x), x # t \/ ~Contains(q, x) PROVE Once(new, x)
  BY <1>1, <1>3 DEF Once, Contains
<1> QED BY <1>1, <1>2, <1>3 DEF new

LEMMA TailFacts ==
  ASSUME NEW S, NEW q \in Seq(S), q # << >>
  PROVE  /\ Tail(q) \in Seq(S) /\ Head(q) \in S /\ Contains(q, Head(q))
         /\ \A x : Contains(Tail(q), x) => Contains(q, x)
         /\ \A x : Contains(q, x) /\ x # Head(q) => Contains(Tail(q), x)
         /\ \A x : Once(q, x) => Once(Tail(q), x)
         /\ \A x : Once(q, x) /\ x = Head(q) => ~Contains(Tail(q), x)
<1> DEFINE new == Tail(q)
<1>1. /\ new \in Seq(S) /\ Len(q) \in Nat \ {0} /\ Len(new) = Len(q) - 1
      /\ \A i \in 1..Len(new) : new[i] = q[i + 1]
      /\ Head(q) = q[1] /\ Head(q) \in S
  BY HeadTailProperties, LenProperties, EmptySeq
<1> HIDE DEF new
<1>2. \A x : Contains(new, x) => Contains(q, x)
  BY <1>1 DEF Contains
<1>3. ASSUME NEW x, Contains(q, x), x # Head(q) PROVE Contains(new, x)
  <2>1. PICK i \in 1..Len(q) : q[i] = x
    BY <1>3 DEF Contains
  <2>2. i - 1 \in 1..Len(new) /\ new[i - 1] = x
    BY <1>1, <1>3, <2>1
  <2> QED BY <2>2 DEF Contains
<1>4. ASSUME NEW x, Once(q, x) PROVE Once(new, x)
  BY <1>1, <1>4 DEF Once
<1>5. ASSUME NEW x, Once(q, x), x = Head(q) PROVE ~Contains(new, x)
  <2> SUFFICES ASSUME NEW i \in 1..Len(new), new[i] = x PROVE FALSE
    BY DEF Contains
  <2>1. 1 \in 1..Len(q) /\ i + 1 \in 1..Len(q) /\ q[1] = x /\ q[i + 1] = x
    BY <1>1, <1>5
  <2>2. 1 = i + 1
    BY <1>5, <2>1 DEF Once
  <2> QED BY <1>1, <2>2
<1>6. Contains(q, Head(q))
  BY <1>1 DEF Contains
<1> QED BY <1>1, <1>2, <1>3, <1>4, <1>5, <1>6 DEF new

LEMMA ConcatFacts ==
  ASSUME NEW S, NEW p \in Seq(S), NEW q \in Seq(S)
  PROVE  /\ p \o q \in Seq(S)
         /\ p \o q = << >> <=> p = << >> /\ q = << >>
         /\ \A x : Contains(p \o q, x) <=> Contains(p, x) \/ Contains(q, x)
<1> DEFINE new == p \o q
<1>1. /\ new \in Seq(S) /\ Len(new) = Len(p) + Len(q) /\ Len(p) \in Nat /\ Len(q) \in Nat
      /\ \A i \in 1..Len(new) : new[i] = IF i <= Len(p) THEN p[i] ELSE q[i - Len(p)]
  BY ConcatProperties, LenProperties
<1> HIDE DEF new
<1>2. new = << >> <=> p = << >> /\ q = << >>
  BY <1>1, EmptySeq
<1>3. \A x : Contains(new, x) => Contains(p, x) \/ Contains(q, x)
  BY <1>1 DEF Contains
<1>4. \A x : Contains(p, x) => Contains(new, x)
  BY <1>1 DEF Contains
<1>5. ASSUME NEW x, Contains(q, x) PROVE Contains(new, x)
  <2>1. PICK i \in 1..Len(q) : q[i] = x
    BY <1>5 DEF Contains
  <2>2. i + Len(p) \in 1..Len(new) /\ new[i + Len(p)] = x
    BY <1>1, <2>1
  <2> QED BY <2>2 DEF Contains
<1> QED BY <1>1, <1>2, <1>3, <1>4, <1>5 DEF new

LEMMA SingletonFacts ==
  ASSUME NEW S, NEW x \in S
  PROVE  /\ <<x>> \in Seq(S) /\ <<x>> # << >>
         /\ \A y : Contains(<<x>>, y) <=> y = x
         /\ \A y : ~Contains(<< >>, y)
         /\ << >> \in Seq(S)
  BY DEF Contains

-----------------------------------------------------------------------------
(* The looper queue and the relays. *)

Pairs == States \X {"TRUE", "FALSE"}

\* The observer's task is queued once while pairs wait, and never without one.
DrainState(q, ps) == Once(q, "drain") /\ (ps # << >> <=> Contains(q, "drain"))

OneDrain == DrainState(mainQ, pairs)

\* combineLatest has a value only of a relay it has subscribed to, and the
\* observer works only on what both relays gave it.
RelaysHeard ==
  /\ subscribed # "both" => routing = Unset
  /\ subscribed = "none" => net = Unset
  /\ (pairs # << >> \/ awaiting \/ main = "binding") => net # Unset /\ routing # Unset
  /\ main = "observing" => pairs # << >>

QueueInv == TypeOK /\ OneDrain /\ RelaysHeard

\* What a step does to the queues.
QueueStep == mainQ' \in Seq(Tasks) /\ pairs' \in Seq(Pairs) /\ OneDrain'

\* New pairs schedule the observer's task if it is not there.
LEMMA ScheduledFacts ==
  ASSUME NEW q \in Seq(Tasks), DrainState(q, pairs), pairs \in Seq(Pairs), NEW new \in Seq(Pairs)
  PROVE  /\ Scheduled(q, new) \in Seq(Tasks) /\ pairs \o new \in Seq(Pairs)
         /\ DrainState(Scheduled(q, new), pairs \o new)
         /\ \A x : x # "drain" => (Contains(Scheduled(q, new), x) <=> Contains(q, x))
<1>1. pairs \o new \in Seq(Pairs) /\ (pairs \o new = << >> <=> pairs = << >> /\ new = << >>)
  BY ConcatFacts
<1>2. "drain" \in Tasks
  BY DEF Tasks
<1>3. CASE pairs = << >> /\ new # << >>
  BY <1>1, <1>2, <1>3, AppendFacts DEF Scheduled, DrainState
<1>4. CASE ~(pairs = << >> /\ new # << >>)
  BY <1>1, <1>4 DEF Scheduled, DrainState
<1> QED BY <1>3, <1>4

\* A task that is posted, and one that is taken from the queue.
LEMMA PostFacts ==
  ASSUME NEW q \in Seq(Tasks), NEW ps, DrainState(q, ps), NEW t \in Tasks, t # "drain"
  PROVE  /\ Append(q, t) \in Seq(Tasks) /\ DrainState(Append(q, t), ps)
         /\ \A x : Contains(Append(q, t), x) <=> Contains(q, x) \/ x = t
  BY AppendFacts DEF DrainState

LEMMA DropFacts ==
  ASSUME NEW q \in Seq(Tasks), NEW ps, DrainState(q, ps), q # << >>, Head(q) # "drain"
  PROVE  /\ Tail(q) \in Seq(Tasks) /\ DrainState(Tail(q), ps)
         /\ \A x : Contains(Tail(q), x) => Contains(q, x)
  BY TailFacts DEF DrainState

\* The observer's task ends with the last pair.
LEMMA DrainedFacts ==
  ASSUME QueueInv, MainRuns("drain"), NEW rest \in Seq(Pairs)
  PROVE  /\ pairs # << >>
         /\ Drained(rest) \in Seq(Tasks) /\ DrainState(Drained(rest), rest)
         /\ \A x : Contains(Drained(rest), x) => Contains(mainQ, x)
<1>1. mainQ \in Seq(Tasks) /\ mainQ # << >> /\ Head(mainQ) = "drain" /\ DrainState(mainQ, pairs)
  BY DEF QueueInv, TypeOK, MainRuns, OneDrain
<1>2. /\ Tail(mainQ) \in Seq(Tasks) /\ Contains(mainQ, "drain")
      /\ Once(Tail(mainQ), "drain") /\ ~Contains(Tail(mainQ), "drain")
      /\ \A x : Contains(Tail(mainQ), x) => Contains(mainQ, x)
  BY <1>1, TailFacts DEF DrainState
<1> QED BY <1>1, <1>2 DEF DrainState, Drained


\* What combineLatest emits: the pair of its values when it has both.
LEMMA CombinedFacts ==
  ASSUME NEW n \in States \cup {Unset}, NEW r \in {Unset, "TRUE", "FALSE"}
  PROVE  /\ Combined(n, r) \in Seq(Pairs)
         /\ n # Unset /\ r # Unset => <<n, r>> \in Pairs /\ Combined(n, r) = << <<n, r>> >>
         /\ n = Unset \/ r = Unset => Combined(n, r) = << >>
<1>1. CASE n = Unset \/ r = Unset
  BY <1>1 DEF Combined
<1>2. CASE ~(n = Unset \/ r = Unset)
  <2>1. <<n, r>> \in Pairs
    BY <1>2 DEF Pairs
  <2>2. << <<n, r>> >> \in Seq(Pairs)
    BY <2>1, SingletonFacts
  <2> QED BY <1>2, <2>1, <2>2 DEF Combined
<1> QED BY <1>1, <1>2

\* accept on the state relay and on the routing relay, by a step that leaves q
\* queued.
LEMMA AcceptStateFacts ==
  ASSUME TypeOK, NEW q \in Seq(Tasks), DrainState(q, pairs), NEW n \in States, AcceptState(q, n)
  PROVE  /\ QueueStep /\ net' \in States \cup {Unset} /\ routing' = routing
         /\ pairs' = pairs \o Combined(net', routing')
         /\ net' = IF subscribed = "none" THEN Unset ELSE n
         /\ subscribed' = subscribed
<1> DEFINE heard == IF subscribed = "none" THEN Unset ELSE n
           new == Combined(heard, routing)
<1>1. /\ net' = heard /\ pairs' = pairs \o new /\ mainQ' = Scheduled(q, new)
      /\ routing' = routing /\ subscribed' = subscribed
  BY DEF AcceptState
<1>2. heard \in States \cup {Unset} /\ pairs \in Seq(Pairs) /\ routing \in {Unset, "TRUE", "FALSE"}
  BY DEF TypeOK, Pairs
<1>3. new \in Seq(Pairs)
  <2> HIDE DEF heard
  <2> QED BY <1>2, CombinedFacts
<1> HIDE DEF new
<1>4. QueueStep
  BY <1>1, <1>2, <1>3, ScheduledFacts DEF QueueStep, OneDrain
<1> QED BY <1>1, <1>2, <1>4 DEF new

LEMMA AcceptRoutingFacts ==
  ASSUME TypeOK, NEW q \in Seq(Tasks), DrainState(q, pairs), NEW r \in {"TRUE", "FALSE"},
         AcceptRouting(q, r)
  PROVE  /\ QueueStep /\ routing' \in {Unset, "TRUE", "FALSE"} /\ net' = net
         /\ pairs' = pairs \o Combined(net', routing')
         /\ routing' = IF subscribed = "both" THEN r ELSE Unset
         /\ subscribed' = subscribed
<1> DEFINE heard == IF subscribed = "both" THEN r ELSE Unset
           new == Combined(net, heard)
<1>1. /\ routing' = heard /\ pairs' = pairs \o new /\ mainQ' = Scheduled(q, new)
      /\ net' = net /\ subscribed' = subscribed
  BY DEF AcceptRouting
<1>2. heard \in {Unset, "TRUE", "FALSE"} /\ pairs \in Seq(Pairs) /\ net \in States \cup {Unset}
  BY DEF TypeOK, Pairs
<1>3. new \in Seq(Pairs)
  <2> HIDE DEF heard
  <2> QED BY <1>2, CombinedFacts
<1> HIDE DEF new
<1>4. QueueStep
  BY <1>1, <1>2, <1>3, ScheduledFacts DEF QueueStep, OneDrain
<1> QED BY <1>1, <1>2, <1>4 DEF new

\* A task other than the observer's is at the head.
LEMMA RunsFacts ==
  ASSUME QueueInv, NEW t, t # "drain", mainQ # << >>, Head(mainQ) = t
  PROVE  Tail(mainQ) \in Seq(Tasks) /\ DrainState(Tail(mainQ), pairs)
<1>1. mainQ \in Seq(Tasks) /\ DrainState(mainQ, pairs)
  BY DEF QueueInv, TypeOK, OneDrain
<1> QED BY <1>1, DropFacts

\* The accepts of the main thread and those of the tunnel thread.
Accepting ==
  \/ OnRestartChanged \/ RestartUnreport \/ ReportBinding
  \/ \E n \in States : OnCoreState(n)
  \/ RunResetState \/ RunResetRouting \/ RunFinally \/ RunFinallyRouting

LEMMA AcceptingFacts ==
  ASSUME QueueInv, Accepting
  PROVE  /\ QueueStep /\ subscribed' = subscribed
         /\ net' \in States \cup {Unset} /\ routing' \in {Unset, "TRUE", "FALSE"}
         /\ pairs' = pairs \o Combined(net', routing')
         /\ (subscribed # "none" => net' # Unset \/ net' = net)
         /\ (subscribed = "none" => net' = Unset \/ net' = net)
         /\ (subscribed = "both" => routing' # Unset \/ routing' = routing)
         /\ (subscribed # "both" => routing' = Unset \/ routing' = routing)
         /\ routing' = "TRUE" => routing = "TRUE" \/ ReportBinding
<1>0. /\ mainQ \in Seq(Tasks) /\ DrainState(mainQ, pairs) /\ TypeOK
      /\ "CONNECTING" \in States /\ Unset \notin States
      /\ net \in States \cup {Unset} /\ routing \in {Unset, "TRUE", "FALSE"}
  BY DEF QueueInv, TypeOK, OneDrain, States, Unset
<1>1. ASSUME NEW n \in States, MainRuns(n) \/ MainRuns("restart")
      PROVE  Tail(mainQ) \in Seq(Tasks) /\ DrainState(Tail(mainQ), pairs)
  BY <1>1, RunsFacts DEF MainRuns, States
<1>2. CASE OnRestartChanged
  BY <1>0, <1>1, <1>2, AcceptStateFacts DEF OnRestartChanged
<1>3. ASSUME NEW n \in States, OnCoreState(n)
      PROVE  Tail(mainQ) \in Seq(Tasks) /\ DrainState(Tail(mainQ), pairs) /\ AcceptState(Tail(mainQ), n)
  BY <1>1, <1>3 DEF OnCoreState
<1>4. CASE \E n \in States : OnCoreState(n)
  BY <1>0, <1>3, <1>4, AcceptStateFacts
<1>5. CASE RunResetState \/ RunFinally
  BY <1>0, <1>5, AcceptStateFacts DEF RunResetState, RunFinally
<1>6. CASE RunResetRouting \/ RunFinallyRouting \/ RestartUnreport
  <2>1. AcceptRouting(mainQ, "FALSE")
    BY <1>6 DEF RunResetRouting, RunFinallyRouting, RestartUnreport
  <2> QED BY <1>0, <2>1, AcceptRoutingFacts DEF Unset
<1>7. CASE ReportBinding
  BY <1>0, <1>7, AcceptRoutingFacts DEF ReportBinding, Unset
<1> QED BY <1>2, <1>4, <1>5, <1>6, <1>7 DEF Accepting

\* The observer takes a pair and is done with it.
Taking == ObservePair \/ ObserveAndAwait

\* The steps that leave the pairs alone.
Posting ==
  \/ OnStartCommand \/ OnStopIntent \/ OnStopMessage \/ OnUnregister
  \/ OnRestart \/ OnRestartIgnored \/ RestartUnroute
  \/ (\E new \in Configs : RestartAdopt(new))
  \/ (\E live \in BOOLEAN : OnRegister(live))
  \/ BeginStopAndWait("revoke") \/ BeginStopAndWait("destroy") \/ RestartPsiphon
  \/ ObserveAndRoute
  \/ RunSetMode \/ RunEstablish \/ RunStartTunneling \/ RunAwait \/ RunTeardown
  \/ RunStopCore \/ RunStopSelf
  \/ (\E t \in Commands : Command(t))
  \/ CoreConnects
  \/ (\E n \in States : CoreReports(n))
  \/ Subscribe \/ PumpEnds \/ UNCHANGED vars

\* The kinds of steps there are.
LEMMA StepKinds ==
  [Next]_vars => Accepting \/ Taking \/ Posting \/ ReportRouting \/ EndStopAndWait
  BY DEF Next, Main, RunTunnel, Accepting, Taking, Posting

LEMMA PostingFacts ==
  ASSUME QueueInv, Posting
  PROVE  QueueStep /\ pairs' = pairs /\ net' = net /\ routing' = routing
<1> USE DEF relayVars
<1>0. /\ mainQ \in Seq(Tasks) /\ pairs \in Seq(Pairs) /\ DrainState(mainQ, pairs)
      /\ Commands \cup States \cup {"destroy", "restartPsiphon"} \subseteq Tasks
  BY DEF QueueInv, TypeOK, Pairs, OneDrain, Tasks
<1>1. ASSUME UNCHANGED <<mainQ, pairs>> PROVE QueueStep
  BY <1>0, <1>1 DEF QueueStep, OneDrain
<1>2. ASSUME NEW t, t # "drain", mainQ # << >>, Head(mainQ) = t, pairs' = pairs,
             \/ mainQ' = Tail(mainQ)
             \/ mainQ' = Append(Tail(mainQ), "restartPsiphon")
             \/ mainQ' = Append(Tail(mainQ), "destroy")
      PROVE  QueueStep
  <2>1. Tail(mainQ) \in Seq(Tasks) /\ DrainState(Tail(mainQ), pairs)
    BY <1>2, RunsFacts
  <2>2. ASSUME NEW x \in {"restartPsiphon", "destroy"}, mainQ' = Append(Tail(mainQ), x)
        PROVE  QueueStep
    <3>1. x \in Tasks /\ x # "drain"
      BY <1>0
    <3>2. Append(Tail(mainQ), x) \in Seq(Tasks) /\ DrainState(Append(Tail(mainQ), x), pairs)
      BY <2>1, <3>1, PostFacts
    <3> QED BY <1>0, <1>2, <2>2, <3>2 DEF QueueStep, OneDrain
  <2>3. CASE mainQ' = Tail(mainQ)
    BY <1>0, <1>2, <2>1, <2>3 DEF QueueStep, OneDrain
  <2> QED BY <1>2, <2>2, <2>3
<1>3. ASSUME NEW t \in Commands \cup States \cup {"destroy", "restartPsiphon"},
             mainQ' = Append(mainQ, t), pairs' = pairs
      PROVE  QueueStep
  <2>1. t \in Tasks /\ t # "drain"
    BY <1>0 DEF Commands, States
  <2> QED BY <1>0, <1>3, <2>1, PostFacts DEF QueueStep, OneDrain
<1>4. CASE OnStartCommand \/ OnStopMessage \/ OnUnregister \/ OnRestart \/ OnRestartIgnored
           \/ RestartPsiphon
  BY <1>2, <1>4 DEF OnStartCommand, OnStopMessage, OnUnregister, OnRestart, OnRestartIgnored,
     RestartPsiphon, MainRuns
<1>5. CASE OnStopIntent
  BY <1>2, <1>5 DEF OnStopIntent, MainRuns
<1>6. CASE BeginStopAndWait("revoke") \/ BeginStopAndWait("destroy")
  BY <1>2, <1>6 DEF BeginStopAndWait, MainRuns
<1>7. ASSUME NEW live \in BOOLEAN, OnRegister(live) PROVE QueueStep /\ UNCHANGED relayVars
  BY <1>2, <1>7 DEF OnRegister, MainRuns
<1>8. ASSUME NEW new \in Configs, RestartAdopt(new) PROVE QueueStep /\ UNCHANGED relayVars
  BY <1>3, <1>8 DEF RestartAdopt
<1>9. CASE RestartUnroute \/ ObserveAndRoute \/ RunSetMode \/ RunEstablish \/ RunStartTunneling
           \/ RunAwait \/ RunTeardown \/ RunStopCore
  BY <1>1, <1>9 DEF RestartUnroute, ObserveAndRoute, RunSetMode, RunEstablish, RunStartTunneling,
     RunAwait, RunTeardown, RunStopCore
<1>10. CASE RunStopSelf
  BY <1>3, <1>10 DEF RunStopSelf
<1>11. ASSUME NEW t \in Commands, Command(t) PROVE QueueStep /\ UNCHANGED relayVars
  BY <1>3, <1>11 DEF Command
<1>12. CASE CoreConnects
  BY <1>3, <1>12 DEF CoreConnects, States
<1>13. ASSUME NEW n \in States, CoreReports(n) PROVE QueueStep /\ UNCHANGED relayVars
  BY <1>3, <1>13 DEF CoreReports
<1>14. CASE Subscribe \/ PumpEnds \/ UNCHANGED vars
  BY <1>1, <1>14 DEF Subscribe, PumpEnds, vars
<1> QED BY <1>4, <1>5, <1>6, <1>7, <1>8, <1>9, <1>10, <1>11, <1>12, <1>13, <1>14 DEF Posting

\* The observer's own steps.
LEMMA ObservedFacts ==
  ASSUME QueueInv, MainRuns("drain") \/ main = "observing"
  PROVE  /\ pairs \in Seq(Pairs) /\ pairs # << >> /\ net \in States /\ routing # Unset
         /\ Head(pairs) \in Pairs /\ Head(pairs)[1] \in States /\ Contains(pairs, Head(pairs))
         /\ Tail(pairs) \in Seq(Pairs)
<1>1. << >> \in Seq(Pairs) /\ pairs \in Seq(Pairs)
  BY DEF QueueInv, TypeOK, Pairs
<1>2. pairs # << >>
  BY <1>1, DrainedFacts DEF QueueInv, RelaysHeard
<1>3. net \in States /\ routing # Unset
  BY <1>2 DEF QueueInv, TypeOK, RelaysHeard
<1>4. Head(pairs) \in Pairs /\ Tail(pairs) \in Seq(Pairs) /\ Contains(pairs, Head(pairs))
  BY <1>1, <1>2, TailFacts
<1> QED BY <1>1, <1>2, <1>3, <1>4 DEF Pairs

LEMMA TakingFacts ==
  ASSUME QueueInv, Taking
  PROVE  QueueStep /\ MainRuns("drain") /\ pairs' = Tail(pairs)
<1>1. MainRuns("drain") /\ pairs' = Tail(pairs) /\ mainQ' = Drained(Tail(pairs))
  BY DEF Taking, ObservePair, ObserveAndAwait
<1>2. Tail(pairs) \in Seq(Pairs)
  BY <1>1, ObservedFacts
<1> QED BY <1>1, <1>2, DrainedFacts DEF QueueStep, OneDrain

LEMMA ReportRoutingFacts ==
  ASSUME QueueInv, ReportRouting
  PROVE  /\ QueueStep /\ main = "observing" /\ net' = net /\ net \in States /\ routing' = "TRUE"
         /\ <<net, "TRUE">> \in Pairs /\ << <<net, "TRUE">> >> \in Seq(Pairs)
         /\ pairs' = Tail(pairs) \o << <<net, "TRUE">> >> /\ pairs' # << >>
<1> DEFINE new == << <<net, "TRUE">> >>
<1>1. /\ main = "observing" /\ net' = net /\ routing' = "TRUE" /\ mainQ' = mainQ
      /\ pairs' = Tail(pairs) \o new
  BY DEF ReportRouting
<1>2. net \in States /\ Tail(pairs) \in Seq(Pairs) /\ pairs # << >>
  BY <1>1, ObservedFacts
<1>3. <<net, "TRUE">> \in Pairs
  BY <1>2 DEF Pairs
<1>4. new \in Seq(Pairs) /\ new # << >>
  BY <1>3, SingletonFacts
<1>5. pairs' \in Seq(Pairs) /\ pairs' # << >>
  <2> HIDE DEF new
  <2> QED BY <1>1, <1>2, <1>4, ConcatFacts
<1>6. QueueStep
  BY <1>1, <1>2, <1>5 DEF QueueStep, OneDrain, DrainState, QueueInv, TypeOK
<1> QED BY <1>1, <1>2, <1>3, <1>4, <1>5, <1>6

\* onDestroy leaves only the restarts that were posted.
LEMMA EndQueue == QueueInv /\ EndStopAndWait => QueueStep
<1> SUFFICES ASSUME QueueInv, EndStopAndWait PROVE QueueStep
  OBVIOUS
<1>0. mainQ \in Seq(Tasks) /\ pairs \in Seq(Pairs) /\ DrainState(mainQ, pairs)
  BY DEF QueueInv, TypeOK, Pairs, OneDrain
<1>1. CASE main = "destroy"
  <2> DEFINE n == Cardinality(PostedRestarts)
             q == [i \in 1..n |-> "restartPsiphon"]
  <2>1. mainQ' = q /\ pairs' = << >>
    BY <1>1 DEF EndStopAndWait
  <2>2. n \in Nat
    <3>1. IsFiniteSet(DOMAIN mainQ)
      BY <1>0, LenProperties, FS_Interval
    <3> QED BY <3>1, FS_Subset, FS_CardinalityType DEF PostedRestarts
  <2> HIDE DEF n
  <2>3. q \in Seq(Tasks) /\ Len(q) = n
    BY <2>2 DEF Tasks
  <2>4. ~Contains(q, "drain") /\ Once(q, "drain")
    BY <2>2, <2>3 DEF Contains, Once
  <2> HIDE DEF q
  <2>5. << >> \in Seq(Pairs)
    OBVIOUS
  <2> QED BY <2>1, <2>3, <2>4, <2>5 DEF DrainState, QueueStep, OneDrain
<1>2. CASE main # "destroy"
  BY <1>0, <1>2 DEF EndStopAndWait, QueueStep, OneDrain
<1> QED BY <1>1, <1>2

\* Every step treats the queues well.
LEMMA NextQueue == QueueInv /\ [Next]_vars => QueueStep
  BY StepKinds, AcceptingFacts, TakingFacts, PostingFacts, ReportRoutingFacts, EndQueue

\* The types of what is not a queue.
TypeFlags ==
  /\ firstStart \in BOOLEAN /\ registered \in BOOLEAN /\ awaiting \in BOOLEAN
  /\ vpnMode \in BOOLEAN /\ isRouting \in BOOLEAN

TypeRelays ==
  /\ subscribed \in {"none", "state", "both"}
  /\ net \in States \cup {Unset} /\ routing \in {Unset, "TRUE", "FALSE"}

TypeRest ==
  /\ service \in {"created", "destroyed"} /\ latch \in {"null", "1", "0"}
  /\ config \in Configs /\ thread \in Places /\ main \in Handlers
  /\ shown \in States
  /\ iface \in {"down", "up"}
  /\ pump \in Ports \cup {NoPort}
  /\ routed \in Circumstances /\ faults \in 0..MaxFaults
  /\ core \in {"stopped", "connecting", "connected"}
  /\ corePort \in Ports \cup {NoPort} /\ startPort \in Ports \cup {NoPort}
  /\ commands \in 0..MaxCommands /\ coreEvents \in 0..MaxCore

LEMMA NextTypeFlags == QueueInv /\ [Next]_vars => TypeFlags'
<1> SUFFICES ASSUME QueueInv, [Next]_vars PROVE TypeFlags'
  OBVIOUS
<1>0. TypeFlags /\ config.proxyOnly \in BOOLEAN
  BY SettingsAssumption DEF QueueInv, TypeOK, TypeFlags
<1> USE DEF TypeFlags, viewVars, vpnVars, lifeVars
<1>1. CASE OnStartCommand \/ OnStopIntent \/ OnStopMessage \/ OnRestartIgnored \/ OnUnregister
  BY <1>0, <1>1, Zenon DEF OnStartCommand, OnStopIntent, OnStopMessage, OnRestartIgnored, OnUnregister
<1>2. CASE OnRestart \/ OnRestartChanged \/ RestartUnroute \/ RestartUnreport
  BY <1>0, <1>2, Zenon DEF OnRestart, OnRestartChanged, RestartUnroute, RestartUnreport,
     StopRouteThroughTunnel
<1>3. ASSUME NEW new \in Configs, RestartAdopt(new) PROVE TypeFlags'
  BY <1>0, <1>3, Zenon DEF RestartAdopt
<1>4. ASSUME NEW live \in BOOLEAN, OnRegister(live) PROVE TypeFlags'
  BY <1>0, <1>4, Zenon DEF OnRegister, RouteThroughTunnel
<1>5. CASE BeginStopAndWait("revoke") \/ BeginStopAndWait("destroy")
  BY <1>0, <1>5, Zenon DEF BeginStopAndWait
<1>6. CASE EndStopAndWait \/ RestartPsiphon
  BY <1>0, <1>6, Zenon DEF EndStopAndWait, RestartPsiphon
<1>7. ASSUME NEW n \in States, OnCoreState(n) PROVE TypeFlags'
  BY <1>0, <1>7, Zenon DEF OnCoreState
<1>8. CASE ObservePair
  <2>1. awaiting' = awaiting \/ awaiting' = FALSE
    BY <1>8 DEF ObservePair
  <2> QED BY <1>0, <1>8, <2>1, Zenon DEF ObservePair
<1>9. CASE ObserveAndAwait \/ ObserveAndRoute \/ ReportRouting \/ ReportBinding
  BY <1>0, <1>9, Zenon DEF ObserveAndAwait, ObserveAndRoute, RouteThroughTunnel, ReportRouting,
     ReportBinding
<1>10. CASE RunResetState \/ RunResetRouting \/ RunSetMode \/ RunEstablish
  BY <1>0, <1>10, Zenon DEF RunResetState, RunResetRouting, RunSetMode, RunEstablish
<1>11. CASE RunStartTunneling \/ RunAwait \/ RunFinally \/ RunFinallyRouting \/ RunTeardown
            \/ RunStopCore \/ RunStopSelf
  BY <1>0, <1>11, Zenon DEF RunStartTunneling, RunAwait, RunFinally, RunFinallyRouting,
     RunTeardown, VpnTeardown, RunStopCore, RunStopSelf
<1>12. ASSUME NEW t \in Commands, Command(t) PROVE TypeFlags'
  BY <1>0, <1>12, Zenon DEF Command
<1>13. CASE CoreConnects \/ Subscribe \/ PumpEnds
  BY <1>0, <1>13, Zenon DEF CoreConnects, Subscribe, PumpEnds
<1>14. ASSUME NEW n \in States, CoreReports(n) PROVE TypeFlags'
  BY <1>0, <1>14, Zenon DEF CoreReports
<1>15. CASE UNCHANGED vars
  BY <1>0, <1>15, Zenon DEF vars
<1> QED BY <1>1, <1>2, <1>3, <1>4, <1>5, <1>6, <1>7, <1>8, <1>9, <1>10, <1>11, <1>12, <1>13,
           <1>14, <1>15 DEF Next, Main, RunTunnel

\* The relays' values, in the steps by kind.
LEMMA NextRelays == QueueInv /\ [Next]_vars => TypeRelays' /\ RelaysHeard'
<1> SUFFICES ASSUME QueueInv, [Next]_vars PROVE TypeRelays' /\ RelaysHeard'
  OBVIOUS
<1>0. TypeRelays /\ RelaysHeard /\ Unset \notin States /\ Unset # "TRUE" /\ pairs \in Seq(Pairs)
  BY DEF QueueInv, TypeOK, TypeRelays, Unset, States, Pairs
<1> USE DEF TypeRelays, RelaysHeard
<1>1. CASE Accepting
  <2>1. /\ subscribed' = subscribed /\ net' \in States \cup {Unset}
        /\ routing' \in {Unset, "TRUE", "FALSE"}
        /\ pairs' = pairs \o Combined(net', routing')
        /\ (subscribed # "none" => net' # Unset \/ net' = net)
        /\ (subscribed = "none" => net' = Unset \/ net' = net)
        /\ (subscribed = "both" => routing' # Unset \/ routing' = routing)
        /\ (subscribed # "both" => routing' = Unset \/ routing' = routing)
    BY <1>1, AcceptingFacts
  <2>2. pairs' # << >> <=> pairs # << >> \/ (net' # Unset /\ routing' # Unset)
    <3> DEFINE new == Combined(net', routing')
    <3>1. new \in Seq(Pairs) /\ (new = << >> <=> net' = Unset \/ routing' = Unset)
      <4> DEFINE n == net'
                 r == routing'
      <4>1. n \in States \cup {Unset} /\ r \in {Unset, "TRUE", "FALSE"}
        BY <2>1
      <4> HIDE DEF n, r
      <4>2. \A x : << x >> # << >>
        OBVIOUS
      <4>3. Combined(n, r) \in Seq(Pairs) /\ (Combined(n, r) = << >> <=> n = Unset \/ r = Unset)
        BY <4>1, <4>2, CombinedFacts
      <4> QED BY <4>3 DEF n, r
    <3> HIDE DEF new
    <3>2. pairs \o new = << >> <=> pairs = << >> /\ new = << >>
      BY <1>0, <3>1, ConcatFacts
    <3> QED BY <2>1, <3>1, <3>2 DEF new
  <2>3. awaiting' = awaiting
    BY <1>1 DEF Accepting, OnRestartChanged, RestartUnreport, ReportBinding, OnCoreState,
       RunResetState, RunResetRouting, RunFinally, RunFinallyRouting, viewVars
  <2>4. main' = main \/ main' \in {"unroute", "adopt", "idle"}
    BY <1>1 DEF Accepting, OnRestartChanged, RestartUnreport, ReportBinding, OnCoreState,
       RunResetState, RunResetRouting, RunFinally, RunFinallyRouting
  <2> QED BY <1>0, <2>1, <2>2, <2>3, <2>4
<1>2. CASE Taking
  <2>1. /\ MainRuns("drain") /\ main' = main /\ main = "idle" /\ pairs' = Tail(pairs)
        /\ UNCHANGED <<subscribed, net, routing>>
    BY <1>2 DEF Taking, ObservePair, ObserveAndAwait, MainRuns
  <2> QED BY <1>0, <2>1, ObservedFacts
<1>3. CASE ReportRouting
  <2>1. /\ main = "observing" /\ net' = net /\ routing' = "TRUE" /\ subscribed' = subscribed
        /\ main' = "idle" /\ awaiting' = awaiting
    BY <1>3 DEF ReportRouting, viewVars
  <2>2. net # Unset /\ routing # Unset
    BY <1>0, <2>1
  <2> QED BY <1>0, <2>1, <2>2
<1>4. CASE EndStopAndWait
  BY <1>0, <1>4 DEF EndStopAndWait
<1>5. CASE Subscribe
  BY <1>0, <1>5 DEF Subscribe, viewVars
<1>6. CASE ObserveAndRoute
  <2>1. pairs # << >>
    BY <1>6, ObservedFacts DEF ObserveAndRoute
  <2> QED BY <1>0, <1>6, <2>1 DEF ObserveAndRoute, relayVars
<1>7. ASSUME NEW live \in BOOLEAN, OnRegister(live) PROVE TypeRelays' /\ RelaysHeard'
  <2>1. main = "idle" /\ UNCHANGED relayVars
    BY <1>7 DEF OnRegister, MainRuns
  <2>2. (main' = "binding" /\ awaiting /\ awaiting' = FALSE) \/ UNCHANGED <<main, awaiting>>
    BY <1>7 DEF OnRegister
  <2> QED BY <1>0, <2>1, <2>2 DEF relayVars
<1>8. CASE OnStartCommand \/ OnStopIntent \/ OnStopMessage \/ OnUnregister \/ OnRestart
           \/ OnRestartIgnored \/ RestartUnroute \/ RestartPsiphon
  BY <1>0, <1>8 DEF OnStartCommand, OnStopIntent, OnStopMessage, OnUnregister, OnRestart,
     OnRestartIgnored, RestartUnroute, RestartPsiphon, relayVars, viewVars
<1>9. ASSUME NEW new \in Configs, RestartAdopt(new) PROVE TypeRelays' /\ RelaysHeard'
  BY <1>0, <1>9 DEF RestartAdopt, relayVars, viewVars
<1>10. CASE BeginStopAndWait("revoke") \/ BeginStopAndWait("destroy")
  BY <1>0, <1>10 DEF BeginStopAndWait, relayVars, viewVars
<1>11. CASE RunSetMode \/ RunEstablish \/ RunStartTunneling \/ RunAwait \/ RunTeardown
            \/ RunStopCore \/ RunStopSelf
  BY <1>0, <1>11 DEF RunSetMode, RunEstablish, RunStartTunneling, RunAwait, RunTeardown,
     RunStopCore, RunStopSelf, relayVars, viewVars
<1>12. ASSUME NEW t \in Commands, Command(t) PROVE TypeRelays' /\ RelaysHeard'
  BY <1>0, <1>12 DEF Command, relayVars, viewVars
<1>13. CASE CoreConnects \/ PumpEnds \/ UNCHANGED vars
  BY <1>0, <1>13 DEF CoreConnects, PumpEnds, vars, relayVars, viewVars
<1>14. ASSUME NEW n \in States, CoreReports(n) PROVE TypeRelays' /\ RelaysHeard'
  BY <1>0, <1>14 DEF CoreReports, relayVars, viewVars
<1> QED BY StepKinds, <1>1, <1>2, <1>3, <1>4, <1>5, <1>6, <1>7, <1>8, <1>9, <1>10, <1>11, <1>12,
           <1>13, <1>14 DEF Posting

LEMMA NextTypeRest == QueueInv /\ [Next]_vars => TypeRest'
<1> SUFFICES ASSUME QueueInv, [Next]_vars PROVE TypeRest'
  OBVIOUS
<1>0. /\ TypeRest
      /\ \A c \in Configs : c.port \in Ports
      /\ "CONNECTING" \in States /\ "CONNECTED" \in States
  BY SettingsAssumption DEF QueueInv, TypeOK, TypeRest, Ports, States
<1> USE DEF TypeRest, viewVars, vpnVars, coreVars, counters, lifeVars
<1>1. CASE OnStartCommand
  BY <1>0, <1>1 DEF OnStartCommand, Places, Before
<1>2. CASE OnStopIntent \/ OnStopMessage \/ OnRestart \/ OnRestartIgnored \/ OnUnregister
  BY <1>0, <1>2 DEF OnStopIntent, OnStopMessage, OnRestart, OnRestartIgnored, OnUnregister
<1>3. CASE OnRestartChanged \/ RestartUnreport \/ ReportBinding \/ ReportRouting
  BY <1>0, <1>3 DEF OnRestartChanged, RestartUnreport, ReportBinding, ReportRouting, Handlers
<1>4. CASE RestartUnroute
  BY <1>0, <1>4 DEF RestartUnroute, StopRouteThroughTunnel, Handlers, Circumstances
<1>5. ASSUME NEW new \in Configs, RestartAdopt(new) PROVE TypeRest'
  BY <1>0, <1>5 DEF RestartAdopt, Handlers
<1>6. ASSUME NEW port \in Ports \cup {NoPort}, RouteThroughTunnel(port)
      PROVE  /\ pump' \in Ports \cup {NoPort} /\ iface' = iface
             /\ routed' \in Circumstances /\ faults' \in 0..MaxFaults
  <2>1. Circumstance \in Circumstances
    BY DEF Circumstance, Circumstances
  <2>2. faults' \in 0..MaxFaults
    BY <1>0, <1>6, SettingsAssumption DEF RouteThroughTunnel
  <2> QED BY <1>0, <1>6, <2>1, <2>2 DEF RouteThroughTunnel, Circumstances
<1>7. ASSUME NEW live \in BOOLEAN, OnRegister(live) PROVE TypeRest'
  BY <1>0, <1>6, <1>7 DEF OnRegister, Handlers
<1>8. CASE BeginStopAndWait("revoke") \/ BeginStopAndWait("destroy")
  BY <1>0, <1>8 DEF BeginStopAndWait, Handlers
<1>9. CASE EndStopAndWait
  BY <1>0, <1>9 DEF EndStopAndWait, Handlers
<1>10. CASE RestartPsiphon
  BY <1>0, <1>10 DEF RestartPsiphon
<1>11. ASSUME NEW n \in States, OnCoreState(n) PROVE TypeRest'
  BY <1>0, <1>11 DEF OnCoreState
<1>12. CASE ObservePair
  <2>1. shown' \in States
    BY <1>0, <1>12, ObservedFacts DEF ObservePair
  <2> QED BY <1>0, <1>12, <2>1 DEF ObservePair
<1>13. CASE ObserveAndAwait
  BY <1>0, <1>13 DEF ObserveAndAwait
<1>14. CASE ObserveAndRoute
  <2>1. /\ pump' \in Ports \cup {NoPort} /\ iface' = iface
        /\ routed' \in Circumstances /\ faults' \in 0..MaxFaults
    BY <1>0, <1>6, <1>14 DEF ObserveAndRoute
  <2> QED BY <1>0, <1>14, <2>1 DEF ObserveAndRoute, Handlers
<1>15. CASE RunResetState \/ RunResetRouting \/ RunFinally \/ RunFinallyRouting
  BY <1>0, <1>15 DEF RunResetState, RunResetRouting, RunFinally, RunFinallyRouting, Places, Before
<1>16. CASE RunSetMode \/ RunEstablish
  BY <1>0, <1>16 DEF RunSetMode, RunEstablish, Places, Before
<1>17. CASE RunStartTunneling \/ RunAwait
  BY <1>0, <1>17 DEF RunStartTunneling, RunAwait, Places
<1>18. CASE RunTeardown
  BY <1>0, <1>18 DEF RunTeardown, VpnTeardown, Places, Circumstances
<1>19. CASE RunStopCore \/ RunStopSelf
  BY <1>0, <1>19 DEF RunStopCore, RunStopSelf, Places
<1>20. ASSUME NEW t \in Commands, Command(t) PROVE TypeRest'
  BY <1>0, <1>20, SettingsAssumption DEF Command
<1>21. CASE CoreConnects
  BY <1>0, <1>21, SettingsAssumption DEF CoreConnects
<1>22. ASSUME NEW n \in States, CoreReports(n) PROVE TypeRest'
  BY <1>0, <1>22, SettingsAssumption DEF CoreReports
<1>23. CASE PumpEnds
  BY <1>0, <1>23, SettingsAssumption DEF PumpEnds, Circumstances
<1>24. CASE Subscribe \/ UNCHANGED vars
  BY <1>0, <1>24 DEF Subscribe, vars
<1> QED BY <1>1, <1>2, <1>3, <1>4, <1>5, <1>7, <1>8, <1>9, <1>10, <1>11, <1>12, <1>13, <1>14,
           <1>15, <1>16, <1>17, <1>18, <1>19, <1>20, <1>21, <1>22, <1>23, <1>24
        DEF Next, Main, RunTunnel

LEMMA InitQueueInv == Init => QueueInv
<1> SUFFICES ASSUME Init PROVE QueueInv
  OBVIOUS
<1>1. <<"start">> \in Seq(Tasks) /\ mainQ = <<"start">> /\ pairs = << >>
  BY DEF Init, Tasks, Commands
<1>2. Once(mainQ, "drain") /\ ~Contains(mainQ, "drain")
  BY <1>1 DEF Once, Contains
<1>3. OneDrain /\ RelaysHeard
  BY <1>1, <1>2 DEF Init, OneDrain, DrainState, RelaysHeard, Unset
<1>4. /\ 0 \in 0..MaxCommands /\ 0 \in 0..MaxCore /\ 0 \in 0..MaxFaults
      /\ << >> \in Seq(States \X {"TRUE", "FALSE"})
  BY SettingsAssumption
<1>5. TypeOK
  <2>1. /\ firstStart \in BOOLEAN /\ registered \in BOOLEAN /\ awaiting \in BOOLEAN
        /\ vpnMode \in BOOLEAN /\ isRouting \in BOOLEAN
    BY DEF Init
  <2> QED BY <1>1, <1>4, <2>1 DEF Init, TypeOK, Places, Before, States, NoPort, Handlers,
          Circumstances
<1> QED BY <1>3, <1>5 DEF QueueInv

LEMMA NextQueueInv == QueueInv /\ [Next]_vars => QueueInv'
<1> SUFFICES ASSUME QueueInv, [Next]_vars PROVE QueueInv'
  OBVIOUS
<1>1. QueueStep /\ TypeFlags' /\ TypeRelays' /\ TypeRest' /\ RelaysHeard'
  BY NextQueue, NextTypeFlags, NextTypeRest, NextRelays
<1>2. TypeOK'
  BY <1>1 DEF QueueStep, Pairs, TypeFlags, TypeRelays, TypeRest, TypeOK
<1> QED BY <1>1, <1>2 DEF QueueInv, QueueStep

\* The looper queue holds the observer's task exactly while pairs wait for it,
\* and every variable has its type.
THEOREM QueueInvariance == Spec => []QueueInv
BY InitQueueInv, NextQueueInv, PTL DEF Spec

\* Every variable of the service keeps its type: the observer never takes a
\* pair that is not there, nor reports a state that was never accepted.
THEOREM TypeCorrect == Spec => []TypeOK
<1>1. QueueInv => TypeOK
  BY DEF QueueInv
<1> QED BY <1>1, QueueInvariance, PTL

-----------------------------------------------------------------------------
(* The routing relay and VpnManager's flag. *)

\* The tunnel thread between vpnEstablish and the finally block.
InSession == thread \in {"established", "await"}

\* In a session the main thread, between its handlers, leaves the relay as the
\* flag is; inside one it has set the flag and owes the report.
FlagFollowsRelay ==
  InSession /\ ~config.proxyOnly /\ routed # "early" =>
    /\ main \notin {"observing", "binding", "unreport"} => (routing = "TRUE" <=> isRouting)
    /\ main \in {"observing", "binding"} => isRouting

\* The RESTART_TUNNEL handler has cleared the flag, then the relay.
RestartClears ==
  /\ main \in {"unreport", "adopt"} => ~isRouting
  /\ main = "adopt" => routing # "TRUE"

\* What is routed, or reported as routed, before vpnEstablish is marked.
EarlyIsMarked ==
  thread \in Before =>
    /\ isRouting => routed = "early"
    /\ ~config.proxyOnly /\ main # "unreport" /\ routing = "TRUE" => routed = "early"
    /\ ~config.proxyOnly /\ main \in {"observing", "binding"} => routed = "early"

\* A flag that is set has a circumstance, in a session not an early one.
RoutingIsMarked ==
  isRouting => routed # "no" /\ (InSession => routed # "early")

RelayInv == FlagFollowsRelay /\ RestartClears /\ EarlyIsMarked /\ RoutingIsMarked

\* routeThroughTunnel sets the flag and marks it.
LEMMA RouteMarked ==
  ASSUME TypeOK, PumpIsGuarded, RelayInv, NEW port, RouteThroughTunnel(port)
  PROVE  /\ isRouting' /\ routed' # "no"
         /\ thread \in Before => routed' = "early"
         /\ InSession => routed' # "early"
<1>1. isRouting \in BOOLEAN /\ isRouting' = TRUE
  BY DEF TypeOK, RouteThroughTunnel
<1>2. thread \in Before => ~Starts(port)
  BY DEF PumpIsGuarded, Before, Starts
<1>3. /\ Circumstance # "no"
      /\ thread \in Before => Circumstance = "early"
      /\ thread \notin Before => Circumstance # "early"
  BY DEF Circumstance
<1>4. \/ routed' = Circumstance
      \/ Starts(port) /\ routed' = "failed"
      \/ isRouting /\ routed' = routed
  BY <1>1 DEF RouteThroughTunnel
<1>5. InSession => thread \notin Before
  BY DEF InSession, Before
<1> QED BY <1>1, <1>2, <1>3, <1>4, <1>5 DEF RelayInv, EarlyIsMarked, RoutingIsMarked

LEMMA RouteRelayInv ==
  ASSUME TypeOK, PumpIsGuarded, RelayInv, NEW port, RouteThroughTunnel(port),
         main' \in {"observing", "binding"}, UNCHANGED <<thread, config, routing>>
  PROVE  RelayInv'
<1>1. /\ isRouting' /\ routed' # "no"
      /\ thread \in Before => routed' = "early"
      /\ InSession => routed' # "early"
  BY RouteMarked
<1> QED BY <1>1 DEF RelayInv, FlagFollowsRelay, RestartClears, EarlyIsMarked, RoutingIsMarked,
        InSession

\* The tunnel thread's steps.
LEMMA RunTunnelRelayInv ==
  ASSUME QueueInv, PumpIsGuarded, RelayInv, RunTunnel
  PROVE  RelayInv'
<1>0. isRouting \in BOOLEAN /\ main' = main /\ config' = config
  BY DEF QueueInv, TypeOK, RunTunnel, RunResetState, RunResetRouting, RunSetMode, RunEstablish,
     RunStartTunneling, RunAwait, RunFinally, RunFinallyRouting, RunTeardown, RunStopCore,
     RunStopSelf
<1> USE DEF RelayInv, FlagFollowsRelay, RestartClears, EarlyIsMarked, RoutingIsMarked, InSession,
        Before, relayVars, vpnVars
<1>1. CASE RunResetState
  BY <1>0, <1>1 DEF RunResetState, AcceptState
<1>2. CASE RunResetRouting
  BY <1>0, <1>2 DEF RunResetRouting, AcceptRouting, Unset
<1>3. CASE RunSetMode
  BY <1>0, <1>3 DEF RunSetMode
<1>4. CASE RunEstablish
  BY <1>0, <1>4 DEF RunEstablish
<1>5. CASE RunStartTunneling \/ RunAwait \/ RunStopCore \/ RunStopSelf
  BY <1>0, <1>5 DEF RunStartTunneling, RunAwait, RunStopCore, RunStopSelf
<1>6. CASE RunFinally
  BY <1>0, <1>6 DEF RunFinally, AcceptState
<1>7. CASE RunFinallyRouting
  BY <1>0, <1>7 DEF RunFinallyRouting, AcceptRouting, Unset
<1>8. CASE RunTeardown
  BY <1>0, <1>8 DEF RunTeardown, VpnTeardown
<1> QED BY <1>1, <1>2, <1>3, <1>4, <1>5, <1>6, <1>7, <1>8 DEF RunTunnel

\* The handlers of the main thread.
LEMMA MainRelayInv ==
  ASSUME QueueInv, PumpIsGuarded, RelayInv, Main
  PROVE  RelayInv'
<1>0. isRouting \in BOOLEAN /\ TypeOK
  BY DEF QueueInv, TypeOK
<1> USE DEF relayVars, vpnVars, lifeVars
<1>1. ASSUME UNCHANGED <<thread, config, routing, isRouting, routed>>,
             \/ main' = main
             \/ main = "idle" /\ main' \in {"unroute", "revoke", "destroy"}
             \/ main \in {"revoke", "destroy"} /\ main' = "idle"
      PROVE  RelayInv'
  BY <1>1 DEF RelayInv, FlagFollowsRelay, RestartClears, EarlyIsMarked, RoutingIsMarked, InSession
<1>2. CASE OnStartCommand
  <2>1. firstStart => thread = "none"
    BY DEF PumpIsGuarded
  <2>2. /\ UNCHANGED <<main, config, routing, isRouting, routed>>
        /\ thread' = thread \/ (thread = "none" /\ thread' = "created")
    BY <1>2, <2>1 DEF OnStartCommand
  <2> QED BY <2>2 DEF RelayInv, FlagFollowsRelay, RestartClears, EarlyIsMarked, RoutingIsMarked,
          InSession, Before
<1>3. CASE OnStopIntent \/ OnStopMessage \/ OnRestart \/ OnRestartIgnored \/ OnUnregister
           \/ RestartPsiphon \/ ObservePair \/ ObserveAndAwait
  BY <1>1, <1>3 DEF OnStopIntent, OnStopMessage, OnRestart, OnRestartIgnored, OnUnregister,
     RestartPsiphon, ObservePair, ObserveAndAwait
<1>4. CASE OnRestartChanged
  BY <1>1, <1>4 DEF OnRestartChanged, AcceptState, MainRuns
<1>5. CASE RestartUnroute
  BY <1>5 DEF RestartUnroute, StopRouteThroughTunnel, RelayInv, FlagFollowsRelay, RestartClears,
     EarlyIsMarked, RoutingIsMarked
<1>6. CASE RestartUnreport
  <2>1. /\ routing' # "TRUE" /\ main = "unreport" /\ main' = "adopt"
        /\ UNCHANGED <<thread, config, isRouting, routed>>
    BY <1>6 DEF RestartUnreport, AcceptRouting, Unset
  <2> QED BY <1>0, <2>1 DEF RelayInv, FlagFollowsRelay, RestartClears, EarlyIsMarked,
          RoutingIsMarked, InSession
<1>7. ASSUME NEW new \in Configs, RestartAdopt(new) PROVE RelayInv'
  BY <1>0, <1>7 DEF RestartAdopt, RelayInv, FlagFollowsRelay, RestartClears, EarlyIsMarked,
     RoutingIsMarked, InSession
<1>8. ASSUME NEW live \in BOOLEAN, OnRegister(live) PROVE RelayInv'
  <2>1. CASE awaiting /\ live
    BY <1>0, <1>8, <2>1, RouteRelayInv DEF OnRegister
  <2>2. CASE ~(awaiting /\ live)
    BY <1>1, <1>8, <2>2 DEF OnRegister
  <2> QED BY <2>1, <2>2
<1>9. ASSUME routing' = "TRUE", main \in {"observing", "binding"}, main' = "idle",
             UNCHANGED <<thread, config, isRouting, routed>>
      PROVE  RelayInv'
  BY <1>0, <1>9 DEF RelayInv, FlagFollowsRelay, RestartClears, EarlyIsMarked, RoutingIsMarked,
     InSession
<1>10. CASE ReportBinding
  <2>1. subscribed = "both"
    BY <1>10 DEF ReportBinding, QueueInv, RelaysHeard
  <2> QED BY <1>9, <1>10, <2>1 DEF ReportBinding, AcceptRouting
<1>11. CASE ReportRouting
  BY <1>9, <1>11 DEF ReportRouting
<1>12. CASE BeginStopAndWait("revoke") \/ BeginStopAndWait("destroy")
  BY <1>1, <1>12 DEF BeginStopAndWait, MainRuns
<1>13. CASE EndStopAndWait
  BY <1>1, <1>13 DEF EndStopAndWait
<1>14. ASSUME NEW n \in States, OnCoreState(n) PROVE RelayInv'
  BY <1>1, <1>14 DEF OnCoreState, AcceptState
<1>15. CASE ObserveAndRoute
  <2>1. CASE config.proxyOnly
    <3>1. /\ main' = "observing" /\ config'.proxyOnly
          /\ UNCHANGED <<thread, routing, isRouting, routed>>
      BY <1>15, <2>1 DEF ObserveAndRoute
    <3> QED BY <3>1 DEF RelayInv, FlagFollowsRelay, RestartClears, EarlyIsMarked, RoutingIsMarked,
            InSession
  <2>2. CASE ~config.proxyOnly
    BY <1>0, <1>15, <2>2, RouteRelayInv DEF ObserveAndRoute
  <2> QED BY <2>1, <2>2
<1> QED BY <1>2, <1>3, <1>4, <1>5, <1>6, <1>7, <1>8, <1>10, <1>11, <1>12, <1>13, <1>14, <1>15
        DEF Main

LEMMA NextRelayInv == QueueInv /\ PumpIsGuarded /\ RelayInv /\ [Next]_vars => RelayInv'
<1> SUFFICES ASSUME QueueInv, PumpIsGuarded, RelayInv, [Next]_vars PROVE RelayInv'
  OBVIOUS
<1> USE DEF relayVars, vpnVars
<1>1. ASSUME UNCHANGED <<thread, config, main, routing, isRouting, routed>> PROVE RelayInv'
  BY <1>1 DEF RelayInv, FlagFollowsRelay, RestartClears, EarlyIsMarked, RoutingIsMarked, InSession
<1>2. CASE PumpEnds
  <2>1. /\ UNCHANGED <<thread, config, main, routing, isRouting>> /\ routed' = "failed"
        /\ pump # NoPort
    BY <1>2 DEF PumpEnds
  <2>2. isRouting /\ thread \notin Before
    BY <2>1 DEF PumpIsGuarded, Before
  <2> QED BY <2>1, <2>2 DEF RelayInv, FlagFollowsRelay, RestartClears, EarlyIsMarked,
          RoutingIsMarked, InSession
<1>3. CASE Subscribe \/ CoreConnects \/ UNCHANGED vars
  BY <1>1, <1>3 DEF Subscribe, CoreConnects, vars
<1>4. ASSUME NEW t \in Commands, Command(t) PROVE RelayInv'
  BY <1>1, <1>4 DEF Command
<1>5. ASSUME NEW n \in States, CoreReports(n) PROVE RelayInv'
  BY <1>1, <1>5 DEF CoreReports
<1> QED BY MainRelayInv, RunTunnelRelayInv, <1>2, <1>3, <1>4, <1>5 DEF Next

THEOREM RelayInvariance == Spec => []RelayInv
<1>1. Init => RelayInv
  BY DEF Init, RelayInv, FlagFollowsRelay, RestartClears, EarlyIsMarked, RoutingIsMarked,
     InSession, Unset
<1> QED BY <1>1, NextRelayInv, QueueInvariance, Guarded, PTL DEF Spec

\* In a VPN session the routing relay and isRoutingThroughTunnel agree once the
\* main thread is idle, unless vpnEstablish has cleared a flag that was set
\* before it: with the accepts, the establishment and the handlers interleaved
\* at every call, failures of dup() and of tun2socks, and a late observer.
THEOREM RelayAgrees == Spec => []RelayAgreesUnlessEarly
<1>1. RelayInv => RelayAgreesUnlessEarly
  BY DEF RelayInv, FlagFollowsRelay, InSession, RelayAgreesUnlessEarly, RelayAgreesWithVpnManager,
     Quiet
<1> QED BY <1>1, RelayInvariance, PTL

-----------------------------------------------------------------------------
(* A session that is shown as connected. *)

\* The last pair of a queue, when one is appended and when one is taken.
LEMMA LastConcat ==
  ASSUME NEW S, NEW q \in Seq(S), NEW x \in S
  PROVE  q \o <<x>> # << >> /\ Last(q \o <<x>>) = x
<1> DEFINE new == q \o <<x>>
<1>1. /\ <<x>> \in Seq(S) /\ Len(<<x>>) = 1 /\ <<x>>[1] = x
  OBVIOUS
<1>2. /\ new \in Seq(S) /\ Len(new) = Len(q) + 1 /\ Len(q) \in Nat
      /\ new[Len(q) + 1] = <<x>>[1]
  BY <1>1, ConcatProperties, LenProperties
<1> HIDE DEF new
<1>3. new # << >> /\ new[Len(new)] = x
  BY <1>1, <1>2, EmptySeq
<1> QED BY <1>3 DEF new, Last

LEMMA LastTail ==
  ASSUME NEW S, NEW q \in Seq(S), q # << >>
  PROVE  /\ Tail(q) = << >> => Last(q) = Head(q)
         /\ Tail(q) # << >> => Last(Tail(q)) = Last(q)
<1> DEFINE new == Tail(q)
<1>1. /\ new \in Seq(S) /\ Len(q) \in Nat \ {0} /\ Len(new) = Len(q) - 1
      /\ \A i \in 1..Len(new) : new[i] = q[i + 1]
      /\ Head(q) = q[1]
  BY HeadTailProperties, LenProperties, EmptySeq
<1> HIDE DEF new
<1>2. /\ new = << >> => q[Len(q)] = Head(q)
      /\ new # << >> => new[Len(new)] = q[Len(q)]
  BY <1>1, EmptySeq
<1> QED BY <1>2 DEF new, Last

\* What the relays hold is the last thing the observer gets.
LastIsHeard ==
  service = "created" /\ net # Unset /\ routing # Unset =>
    IF pairs = << >> THEN lastPair = <<net, routing>> ELSE Last(pairs) = <<net, routing>>

\* CONNECTED is shown for a pair that says it is routed, or that has been.
ShownIsRouted ==
  service = "created" /\ shown = "CONNECTED" =>
    \/ main = "observing"
    \/ \E n \in States : lastPair = <<n, "TRUE">>
    \/ \E n \in States : Contains(pairs, <<n, "TRUE">>)

\* A relay the observer has heard of stays heard.
HeardStays == lastPair # << >> => net # Unset /\ routing # Unset

ObserverInv == LastIsHeard /\ ShownIsRouted /\ HeardStays

LEMMA AcceptingObserver == ASSUME QueueInv, ObserverInv, Accepting PROVE ObserverInv'
<1>1. /\ net' \in States \cup {Unset} /\ routing' \in {Unset, "TRUE", "FALSE"}
      /\ pairs' = pairs \o Combined(net', routing') /\ pairs \in Seq(Pairs)
  BY AcceptingFacts DEF QueueInv, TypeOK, Pairs
<1>2. /\ UNCHANGED <<service, lastPair, shown>>
      /\ main = "observing" => main' = "observing"
  BY DEF Accepting, OnRestartChanged, RestartUnreport, ReportBinding, OnCoreState, MainRuns,
     RunResetState, RunResetRouting, RunFinally, RunFinallyRouting, viewVars, lifeVars
<1>3. LastIsHeard'
  <2> SUFFICES ASSUME net' # Unset, routing' # Unset
               PROVE  pairs' # << >> /\ Last(pairs') = <<net', routing'>>
    BY DEF LastIsHeard
  <2>1. <<net', routing'>> \in Pairs
    BY <1>1 DEF Pairs
  <2>2. pairs' = pairs \o << <<net', routing'>> >>
    BY <1>1 DEF Combined
  <2> QED BY <1>1, <2>1, <2>2, LastConcat
<1>4. \A x : Contains(pairs, x) => Contains(pairs', x)
  <2> DEFINE n == net'
             r == routing'
  <2>1. n \in States \cup {Unset} /\ r \in {Unset, "TRUE", "FALSE"}
    BY <1>1
  <2> HIDE DEF n, r
  <2>2. Combined(n, r) \in Seq(Pairs)
    BY <2>1, CombinedFacts
  <2>3. \A x : Contains(pairs, x) => Contains(pairs \o Combined(n, r), x)
    BY <1>1, <2>2, ConcatFacts
  <2> QED BY <1>1, <2>3 DEF n, r
<1>5. ASSUME net # Unset, routing # Unset PROVE net' # Unset /\ routing' # Unset
  <2>1. subscribed = "both"
    BY <1>5 DEF QueueInv, RelaysHeard
  <2> QED BY <1>5, <2>1, AcceptingFacts
<1> QED BY <1>2, <1>3, <1>4, <1>5 DEF ObserverInv, ShownIsRouted, HeardStays

LEMMA TakingObserver == ASSUME QueueInv, ObserverInv, Taking PROVE ObserverInv'
<1>1. /\ MainRuns("drain") /\ main = "idle" /\ pairs' = Tail(pairs) /\ lastPair' = Head(pairs)
      /\ UNCHANGED <<service, net, routing>>
  BY DEF Taking, ObservePair, ObserveAndAwait, MainRuns, lifeVars
<1>2. /\ pairs \in Seq(Pairs) /\ pairs # << >> /\ Head(pairs) \in Pairs
      /\ \A x : Contains(pairs, x) /\ x # Head(pairs) => Contains(Tail(pairs), x)
  BY <1>1, ObservedFacts, TailFacts
<1>3. LastIsHeard'
  <2>1. /\ Tail(pairs) = << >> => Last(pairs) = Head(pairs)
        /\ Tail(pairs) # << >> => Last(Tail(pairs)) = Last(pairs)
    BY <1>2, LastTail
  <2>2. service = "created" /\ net # Unset /\ routing # Unset => Last(pairs) = <<net, routing>>
    BY <1>2 DEF ObserverInv, LastIsHeard
  <2> QED BY <1>1, <2>1, <2>2 DEF LastIsHeard
<1>4. ShownIsRouted'
  <2>1. CASE ObserveAndAwait
    BY <2>1 DEF ObserveAndAwait, ShownIsRouted
  <2>2. CASE ObservePair /\ Head(pairs) = lastPair
    <3>1. shown' = shown /\ lastPair' = lastPair
      BY <1>1, <2>2 DEF ObservePair
    <3> QED BY <1>1, <1>2, <2>2, <3>1 DEF ObserverInv, ShownIsRouted
  <2>3. CASE ObservePair /\ Head(pairs) # lastPair
    <3>1. shown' = Head(pairs)[1] /\ Head(pairs) # <<"CONNECTED", "FALSE">>
      BY <2>3 DEF ObservePair, MustRoute
    <3>2. shown' = "CONNECTED" => Head(pairs) = <<"CONNECTED", "TRUE">>
      BY <1>2, <3>1 DEF Pairs
    <3> QED BY <1>1, <3>2 DEF ShownIsRouted, States
  <2> QED BY <2>1, <2>2, <2>3 DEF Taking
<1>5. HeardStays'
  BY <1>1, <1>2 DEF QueueInv, RelaysHeard, HeardStays
<1> QED BY <1>3, <1>4, <1>5 DEF ObserverInv

LEMMA PostingObserver == ASSUME QueueInv, ObserverInv, Posting PROVE ObserverInv'
<1>1. pairs' = pairs /\ net' = net /\ routing' = routing
  BY PostingFacts
<1>2. CASE ObserveAndRoute
  <2>1. pairs # << >> /\ main' = "observing" /\ service' = service
    BY <1>2, ObservedFacts DEF ObserveAndRoute, lifeVars
  <2> QED BY <1>1, <2>1 DEF ObserverInv, LastIsHeard, ShownIsRouted, HeardStays, QueueInv,
          RelaysHeard
<1>3. ASSUME UNCHANGED <<service, lastPair, shown>>, main = "observing" => main' = "observing"
      PROVE  ObserverInv'
  BY <1>1, <1>3 DEF ObserverInv, LastIsHeard, ShownIsRouted, HeardStays
<1> USE DEF lifeVars, viewVars
<1>4. CASE OnStartCommand \/ OnStopIntent \/ OnStopMessage \/ OnUnregister \/ OnRestart
           \/ OnRestartIgnored \/ RestartUnroute \/ RestartPsiphon
  BY <1>3, <1>4 DEF OnStartCommand, OnStopIntent, OnStopMessage, OnUnregister, OnRestart,
     OnRestartIgnored, RestartUnroute, RestartPsiphon
<1>5. ASSUME NEW new \in Configs, RestartAdopt(new) PROVE ObserverInv'
  BY <1>3, <1>5 DEF RestartAdopt
<1>6. ASSUME NEW live \in BOOLEAN, OnRegister(live) PROVE ObserverInv'
  BY <1>3, <1>6 DEF OnRegister, MainRuns
<1>7. CASE BeginStopAndWait("revoke") \/ BeginStopAndWait("destroy")
  BY <1>3, <1>7 DEF BeginStopAndWait, MainRuns
<1>8. CASE RunSetMode \/ RunEstablish \/ RunStartTunneling \/ RunAwait \/ RunTeardown
           \/ RunStopCore \/ RunStopSelf
  BY <1>3, <1>8 DEF RunSetMode, RunEstablish, RunStartTunneling, RunAwait, RunTeardown,
     RunStopCore, RunStopSelf
<1>9. ASSUME NEW t \in Commands, Command(t) PROVE ObserverInv'
  BY <1>3, <1>9 DEF Command
<1>10. CASE CoreConnects \/ Subscribe \/ PumpEnds \/ UNCHANGED vars
  BY <1>3, <1>10 DEF CoreConnects, Subscribe, PumpEnds, vars
<1>11. ASSUME NEW n \in States, CoreReports(n) PROVE ObserverInv'
  BY <1>3, <1>11 DEF CoreReports
<1> QED BY <1>2, <1>4, <1>5, <1>6, <1>7, <1>8, <1>9, <1>10, <1>11 DEF Posting

LEMMA NextObserver == QueueInv /\ ObserverInv /\ [Next]_vars => ObserverInv'
<1> SUFFICES ASSUME QueueInv, ObserverInv, [Next]_vars PROVE ObserverInv'
  OBVIOUS
<1>1. CASE ReportRouting
  <2>1. /\ net' = net /\ net \in States /\ routing' = "TRUE" /\ <<net, "TRUE">> \in Pairs
        /\ pairs' = Tail(pairs) \o << <<net, "TRUE">> >> /\ << <<net, "TRUE">> >> \in Seq(Pairs)
        /\ main = "observing"
    BY <1>1, ReportRoutingFacts
  <2>2. Tail(pairs) \in Seq(Pairs)
    BY <2>1, ObservedFacts
  <2>3. pairs' # << >> /\ Last(pairs') = <<net, "TRUE">> /\ Contains(pairs', <<net, "TRUE">>)
    <3>1. Contains(<< <<net, "TRUE">> >>, <<net, "TRUE">>)
      BY <2>1, SingletonFacts
    <3>2. Contains(Tail(pairs) \o << <<net, "TRUE">> >>, <<net, "TRUE">>)
      BY <2>1, <2>2, <3>1, ConcatFacts
    <3> QED BY <2>1, <2>2, <3>2, LastConcat
  <2>4. net # Unset
    BY <2>1 DEF States, Unset
  <2> QED BY <2>1, <2>3, <2>4 DEF ObserverInv, LastIsHeard, ShownIsRouted, HeardStays, Unset
<1>2. CASE EndStopAndWait
  <2>1. CASE main = "destroy"
    BY <1>2, <2>1 DEF EndStopAndWait, ObserverInv, LastIsHeard, ShownIsRouted, HeardStays
  <2>2. CASE main # "destroy"
    <3>1. main = "revoke" /\ UNCHANGED <<service, pairs, net, routing, lastPair, shown>>
      BY <1>2, <2>2 DEF EndStopAndWait
    <3> QED BY <3>1 DEF ObserverInv, LastIsHeard, ShownIsRouted, HeardStays
  <2> QED BY <2>1, <2>2
<1> QED BY StepKinds, AcceptingObserver, TakingObserver, PostingObserver, <1>1, <1>2

\* The session: the interface is up in VPN mode, the service outlives it, the
\* core listens on the configured port unless a restart is posted, and sound
\* routing leads there.
SessionInv ==
  /\ InSession /\ ~vpnMode => iface = "up"
  /\ service = "destroyed" => thread \in {"none", "ended"}
  /\ core = "connected" => corePort = startPort
  /\ (service = "created" /\ core # "stopped" /\ ~Contains(mainQ, "restartPsiphon"))
       => startPort = config.port
  /\ isRouting /\ routed = "sound" /\ ~vpnMode /\ InSession => pump = config.port

\* A posted restart stays queued until it runs or the service is destroyed.
LEMMA RestartsStay ==
  ASSUME QueueInv, [Next]_vars, ~RestartPsiphon, ~EndStopAndWait, Contains(mainQ, "restartPsiphon")
  PROVE  Contains(mainQ', "restartPsiphon")
<1> DEFINE Has(q) == Contains(q, "restartPsiphon")
<1>0. /\ mainQ \in Seq(Tasks) /\ Has(mainQ)
      /\ Commands \cup States \cup {"destroy", "restartPsiphon", "drain"} \subseteq Tasks
  BY DEF QueueInv, TypeOK, Tasks
<1>1. ASSUME mainQ # << >>, Head(mainQ) # "restartPsiphon"
      PROVE  Tail(mainQ) \in Seq(Tasks) /\ Has(Tail(mainQ))
  BY <1>0, <1>1, TailFacts
<1>2. ASSUME NEW q \in Seq(Tasks), Has(q), NEW t \in Tasks PROVE Has(Append(q, t))
  BY <1>2, AppendFacts
<1>3. ASSUME NEW q \in Seq(Tasks), Has(q), NEW new PROVE Has(Scheduled(q, new))
  BY <1>0, <1>2, <1>3 DEF Scheduled
<1>4. ASSUME NEW t, t # "restartPsiphon", MainRuns(t) PROVE Tail(mainQ) \in Seq(Tasks) /\ Has(Tail(mainQ))
  BY <1>1, <1>4 DEF MainRuns
<1>5. ASSUME NEW q \in Seq(Tasks), Has(q), NEW n, AcceptState(q, n) \/ AcceptRouting(q, n) PROVE Has(mainQ')
  BY <1>3, <1>5 DEF AcceptState, AcceptRouting
<1>6. CASE OnRestartChanged
  BY <1>4, <1>5, <1>6 DEF OnRestartChanged
<1>7. ASSUME NEW n \in States, OnCoreState(n) PROVE Has(mainQ')
  BY <1>4, <1>5, <1>7 DEF OnCoreState, States
<1>8. CASE RestartUnreport \/ ReportBinding \/ RunResetState \/ RunResetRouting \/ RunFinally
           \/ RunFinallyRouting
  BY <1>0, <1>5, <1>8 DEF RestartUnreport, ReportBinding, RunResetState, RunResetRouting,
     RunFinally, RunFinallyRouting
<1>9. CASE Taking
  BY <1>0, <1>4, <1>9 DEF Taking, ObservePair, ObserveAndAwait, Drained
<1>10. CASE OnStartCommand \/ OnStopMessage \/ OnUnregister \/ OnRestartIgnored
  BY <1>4, <1>10 DEF OnStartCommand, OnStopMessage, OnUnregister, OnRestartIgnored
<1>11. CASE OnStopIntent \/ OnRestart
  <2>1. Tail(mainQ) \in Seq(Tasks) /\ Has(Tail(mainQ))
    BY <1>4, <1>11 DEF OnStopIntent, OnRestart
  <2>2. mainQ' \in {Tail(mainQ), Append(Tail(mainQ), "destroy"), Append(Tail(mainQ), "restartPsiphon")}
    BY <1>11 DEF OnStopIntent, OnRestart
  <2> QED BY <1>0, <1>2, <2>1, <2>2
<1>12. CASE BeginStopAndWait("revoke") \/ BeginStopAndWait("destroy")
  BY <1>4, <1>12 DEF BeginStopAndWait
<1>13. ASSUME NEW live \in BOOLEAN, OnRegister(live) PROVE Has(mainQ')
  BY <1>4, <1>13 DEF OnRegister
<1>14. ASSUME NEW new \in Configs, RestartAdopt(new) PROVE Has(mainQ')
  BY <1>0, <1>2, <1>14 DEF RestartAdopt
<1>15. CASE RestartUnroute \/ ObserveAndRoute \/ ReportRouting \/ RunSetMode \/ RunEstablish
            \/ RunStartTunneling \/ RunAwait \/ RunTeardown \/ RunStopCore \/ Subscribe \/ PumpEnds
            \/ UNCHANGED vars
  BY <1>0, <1>15 DEF RestartUnroute, ObserveAndRoute, ReportRouting, RunSetMode, RunEstablish,
     RunStartTunneling, RunAwait, RunTeardown, RunStopCore, Subscribe, PumpEnds, vars
<1>16. CASE RunStopSelf
  BY <1>0, <1>2, <1>16 DEF RunStopSelf
<1>17. ASSUME NEW t \in Commands, Command(t) PROVE Has(mainQ')
  BY <1>0, <1>2, <1>17 DEF Command
<1>18. CASE CoreConnects
  BY <1>0, <1>2, <1>18 DEF CoreConnects, States
<1>19. ASSUME NEW n \in States, CoreReports(n) PROVE Has(mainQ')
  BY <1>0, <1>2, <1>19 DEF CoreReports
<1> QED BY <1>6, <1>7, <1>8, <1>9, <1>10, <1>11, <1>12, <1>13, <1>14, <1>15, <1>16, <1>17, <1>18,
           <1>19 DEF Next, Main, RunTunnel, Taking

\* Routing that is sound leads to the configured port.
LEMMA RouteSound ==
  ASSUME QueueInv, SessionInv, service = "created", RouteThroughTunnel(corePort)
  PROVE  routed' = "sound" /\ ~vpnMode /\ InSession => pump' = config.port
<1>0. config.port # NoPort /\ isRouting \in BOOLEAN
  BY SettingsAssumption DEF QueueInv, TypeOK, Ports, NoPort
<1>1. ASSUME Circumstance = "sound" PROVE corePort = config.port
  <2>1. core = "connected" /\ PostedRestarts = {}
    BY <1>1 DEF Circumstance
  <2>2. ~Contains(mainQ, "restartPsiphon")
    <3>1. DOMAIN mainQ = 1..Len(mainQ)
      BY LenProperties DEF QueueInv, TypeOK
    <3> QED BY <2>1, <3>1 DEF PostedRestarts, Contains
  <2> QED BY <2>1, <2>2 DEF SessionInv
<1>2. CASE Starts(corePort)
  BY <1>1, <1>2 DEF RouteThroughTunnel
<1>3. CASE ~Starts(corePort) /\ isRouting
  BY <1>3 DEF RouteThroughTunnel, SessionInv
<1>4. CASE ~Starts(corePort) /\ ~isRouting
  BY <1>0, <1>1, <1>4 DEF RouteThroughTunnel, Starts, SessionInv
<1> QED BY <1>0, <1>2, <1>3, <1>4

\* routeThroughTunnel, called by a handler of the service.
LEMMA RouteSession ==
  ASSUME QueueInv, SessionInv, service = "created", RouteThroughTunnel(corePort),
         Contains(mainQ, "restartPsiphon") => Contains(mainQ', "restartPsiphon"),
         UNCHANGED <<service, thread, config, coreVars>>
  PROVE  SessionInv'
<1>1. routed' = "sound" /\ ~vpnMode /\ InSession => pump' = config.port
  BY RouteSound
<1>2. UNCHANGED <<iface, vpnMode>>
  BY DEF RouteThroughTunnel
<1> QED BY <1>1, <1>2 DEF SessionInv, InSession, coreVars

LEMMA MainSession ==
  ASSUME QueueInv, PumpIsGuarded, RelayInv, SessionInv, Main
  PROVE  SessionInv'
<1>0. /\ RestartPsiphon \/ EndStopAndWait
         \/ (Contains(mainQ, "restartPsiphon") => Contains(mainQ', "restartPsiphon"))
      /\ \A q : q \in Seq(Tasks) => Contains(Append(q, "restartPsiphon"), "restartPsiphon")
      /\ mainQ \in Seq(Tasks)
  <2>1. "restartPsiphon" \in Tasks
    BY DEF Tasks
  <2> QED BY <2>1, RestartsStay, AppendFacts DEF Next, QueueInv, TypeOK
<1> USE DEF coreVars, vpnVars, lifeVars
<1>1. ASSUME UNCHANGED <<service, thread, config, vpnVars, coreVars>>,
             Contains(mainQ, "restartPsiphon") => Contains(mainQ', "restartPsiphon")
      PROVE  SessionInv'
  BY <1>1 DEF SessionInv, InSession
<1>2. CASE OnStartCommand
  <2>1. firstStart => thread = "none"
    BY DEF PumpIsGuarded
  <2>2. /\ UNCHANGED <<service, config, vpnVars, coreVars>> /\ service = "created"
        /\ thread' = thread \/ (thread = "none" /\ thread' = "created")
        /\ ~RestartPsiphon /\ ~EndStopAndWait
    BY <1>2, <2>1 DEF OnStartCommand, MainRuns, RestartPsiphon, EndStopAndWait
  <2> QED BY <1>0, <2>2 DEF SessionInv, InSession
<1>3. CASE OnStopIntent \/ OnStopMessage \/ OnRestart \/ OnRestartIgnored \/ OnUnregister
           \/ ObservePair \/ ObserveAndAwait \/ OnRestartChanged
  <2>1. ~RestartPsiphon /\ ~EndStopAndWait
    BY <1>3 DEF OnStopIntent, OnStopMessage, OnRestart, OnRestartIgnored, OnUnregister,
       ObservePair, ObserveAndAwait, OnRestartChanged, MainRuns, RestartPsiphon, EndStopAndWait
  <2>2. UNCHANGED <<service, thread, config, vpnVars, coreVars>>
    BY <1>3 DEF OnStopIntent, OnStopMessage, OnRestart, OnRestartIgnored, OnUnregister,
       ObservePair, ObserveAndAwait, OnRestartChanged
  <2> QED BY <1>0, <1>1, <2>1, <2>2
<1>4. CASE RestartUnroute
  <2>1. /\ UNCHANGED <<service, thread, config, coreVars, mainQ, iface, vpnMode>>
        /\ isRouting' = FALSE
    BY <1>4 DEF RestartUnroute, StopRouteThroughTunnel
  <2> QED BY <2>1 DEF SessionInv, InSession
<1>5. CASE RestartUnreport \/ ReportBinding \/ ReportRouting
  <2>1. ~RestartPsiphon /\ ~EndStopAndWait
    BY <1>5 DEF RestartUnreport, ReportBinding, ReportRouting, RestartPsiphon, EndStopAndWait
  <2>2. UNCHANGED <<service, thread, config, vpnVars, coreVars>>
    BY <1>5 DEF RestartUnreport, ReportBinding, ReportRouting
  <2> QED BY <1>0, <1>1, <2>1, <2>2
<1>6. ASSUME NEW new \in Configs, RestartAdopt(new) PROVE SessionInv'
  <2>1. ~isRouting
    BY <1>6 DEF RelayInv, RestartClears, RestartAdopt
  <2>2. Contains(mainQ', "restartPsiphon") /\ UNCHANGED <<service, thread, vpnVars, coreVars>>
    BY <1>0, <1>6 DEF RestartAdopt
  <2> QED BY <2>1, <2>2 DEF SessionInv, InSession
<1>7. ASSUME NEW live \in BOOLEAN, OnRegister(live) PROVE SessionInv'
  <2>1. /\ ~RestartPsiphon /\ ~EndStopAndWait /\ service = "created"
        /\ UNCHANGED <<service, thread, config, coreVars>>
    BY <1>7 DEF OnRegister, MainRuns, RestartPsiphon, EndStopAndWait
  <2>2. RouteThroughTunnel(corePort) \/ UNCHANGED vpnVars
    BY <1>7 DEF OnRegister
  <2> QED BY <1>0, <1>1, <2>1, <2>2, RouteSession
<1>8. CASE BeginStopAndWait("revoke") \/ BeginStopAndWait("destroy")
  <2>1. ~RestartPsiphon /\ ~EndStopAndWait /\ UNCHANGED <<service, thread, config, vpnVars, coreVars>>
    BY <1>8 DEF BeginStopAndWait, MainRuns, RestartPsiphon, EndStopAndWait
  <2> QED BY <1>0, <1>1, <2>1
<1>9. CASE EndStopAndWait
  <2>1. /\ thread \in {"none", "ended"} /\ UNCHANGED <<thread, config, vpnVars, coreVars>>
        /\ service' = "destroyed" \/ UNCHANGED <<service, mainQ>>
    BY <1>9 DEF EndStopAndWait
  <2> QED BY <2>1 DEF SessionInv, InSession
<1>10. CASE RestartPsiphon
  BY <1>10 DEF RestartPsiphon, SessionInv, InSession
<1>11. ASSUME NEW n \in States, OnCoreState(n) PROVE SessionInv'
  <2>1. ~RestartPsiphon /\ ~EndStopAndWait /\ UNCHANGED <<service, thread, config, vpnVars, coreVars>>
    BY <1>11 DEF OnCoreState, MainRuns, RestartPsiphon, EndStopAndWait, States
  <2> QED BY <1>0, <1>1, <2>1
<1>12. CASE ObserveAndRoute
  <2>1. /\ ~RestartPsiphon /\ ~EndStopAndWait /\ service = "created"
        /\ UNCHANGED <<service, thread, config, coreVars>>
    BY <1>12 DEF ObserveAndRoute, MainRuns, RestartPsiphon, EndStopAndWait
  <2>2. RouteThroughTunnel(corePort) \/ UNCHANGED vpnVars
    BY <1>12 DEF ObserveAndRoute
  <2> QED BY <1>0, <1>1, <2>1, <2>2, RouteSession
<1> QED BY <1>2, <1>3, <1>4, <1>5, <1>6, <1>7, <1>8, <1>9, <1>10, <1>11, <1>12 DEF Main

LEMMA RunTunnelSession ==
  ASSUME QueueInv, SessionInv, RunTunnel
  PROVE  SessionInv'
<1>0. /\ service' = service /\ service = "created" /\ config' = config
      /\ Contains(mainQ, "restartPsiphon") => Contains(mainQ', "restartPsiphon")
  <2>1. thread \notin {"none", "ended"} /\ service' = service /\ config' = config /\ main' = main
    BY DEF RunTunnel, RunResetState, RunResetRouting, RunSetMode, RunEstablish, RunStartTunneling,
       RunAwait, RunFinally, RunFinallyRouting, RunTeardown, RunStopCore, RunStopSelf, lifeVars
  <2>2. thread' # thread
    BY DEF RunTunnel, RunResetState, RunResetRouting, RunSetMode, RunEstablish, RunStartTunneling,
       RunAwait, RunFinally, RunFinallyRouting, RunTeardown, RunStopCore, RunStopSelf
  <2>3. ~RestartPsiphon /\ ~EndStopAndWait
    BY <2>2 DEF RestartPsiphon, EndStopAndWait
  <2> QED BY <2>1, <2>3, RestartsStay DEF SessionInv, Next, QueueInv, TypeOK
<1> USE DEF SessionInv, InSession, coreVars, vpnVars
<1>1. CASE RunResetState \/ RunResetRouting \/ RunFinally \/ RunFinallyRouting
  BY <1>0, <1>1 DEF RunResetState, RunResetRouting, RunFinally, RunFinallyRouting
<1>2. CASE RunSetMode
  BY <1>0, <1>2 DEF RunSetMode
<1>3. CASE RunEstablish
  BY <1>0, <1>3 DEF RunEstablish
<1>4. CASE RunStartTunneling
  BY <1>0, <1>4 DEF RunStartTunneling
<1>5. CASE RunAwait \/ RunStopCore \/ RunStopSelf
  BY <1>0, <1>5 DEF RunAwait, RunStopCore, RunStopSelf
<1>6. CASE RunTeardown
  BY <1>0, <1>6 DEF RunTeardown, VpnTeardown
<1> QED BY <1>1, <1>2, <1>3, <1>4, <1>5, <1>6 DEF RunTunnel

LEMMA NextSession ==
  QueueInv /\ PumpIsGuarded /\ RelayInv /\ SessionInv /\ [Next]_vars => SessionInv'
<1> SUFFICES ASSUME QueueInv, PumpIsGuarded, RelayInv, SessionInv, [Next]_vars PROVE SessionInv'
  OBVIOUS
<1> USE DEF coreVars, vpnVars, lifeVars
<1>1. ASSUME UNCHANGED <<service, thread, config, iface, vpnMode, isRouting, pump, routed, startPort>>,
             core' # "stopped" => core # "stopped",
             core' = "connected" => corePort' = startPort,
             Contains(mainQ, "restartPsiphon") => Contains(mainQ', "restartPsiphon")
      PROVE  SessionInv'
  BY <1>1 DEF SessionInv, InSession
<1>3. CASE PumpEnds
  BY <1>3 DEF PumpEnds, SessionInv, InSession
<1>4. CASE Subscribe \/ UNCHANGED vars
  BY <1>1, <1>4 DEF Subscribe, vars, SessionInv
<1>5. ASSUME NEW t \in Tasks, mainQ' = Append(mainQ, t)
      PROVE  Contains(mainQ, "restartPsiphon") => Contains(mainQ', "restartPsiphon")
  BY <1>5, AppendFacts DEF QueueInv, TypeOK
<1>6. ASSUME NEW t \in Commands, Command(t) PROVE SessionInv'
  BY <1>1, <1>5, <1>6 DEF Command, Tasks, SessionInv
<1>7. CASE CoreConnects
  BY <1>1, <1>5, <1>7 DEF CoreConnects, Tasks, States
<1>8. ASSUME NEW n \in States, CoreReports(n) PROVE SessionInv'
  BY <1>1, <1>5, <1>8 DEF CoreReports, Tasks
<1> QED BY MainSession, RunTunnelSession, <1>3, <1>4, <1>6, <1>7, <1>8 DEF Next

THEOREM SessionInvariance == Spec => [](ObserverInv /\ SessionInv)
<1>1. Init => ObserverInv /\ SessionInv
  BY DEF Init, ObserverInv, LastIsHeard, ShownIsRouted, HeardStays, SessionInv, InSession
<1> QED BY <1>1, NextObserver, NextSession, QueueInvariance, Guarded, RelayInvariance, PTL DEF Spec

\* A VPN session that is shown as CONNECTED when everything has been processed
\* is routed to the port of the core, unless routing was started early or
\* towards a core on its way out, tun2socks has failed, or the mode was
\* changed: for any ports and numbers of commands, callbacks and failures.
THEOREM RoutingReal == Spec => []SoundRoutingIsReal
<1>1. QueueInv /\ RelayInv /\ ObserverInv /\ SessionInv => SoundRoutingIsReal
  <2> SUFFICES ASSUME QueueInv, RelayInv, ObserverInv, SessionInv,
                      routed \in {"no", "sound"}, vpnMode = config.proxyOnly,
                      Quiet, thread = "await", core = "connected", shown = "CONNECTED",
                      ~config.proxyOnly
               PROVE  iface = "up" /\ pump = corePort
    BY DEF SoundRoutingIsReal, RoutingIsReal
  <2>1. service = "created" /\ iface = "up"
    BY DEF SessionInv, InSession, QueueInv, TypeOK
  <2>2. ~Contains(mainQ, "restartPsiphon") /\ ~Contains(mainQ, "drain")
    BY DEF Quiet, Contains
  <2>3. corePort = config.port
    BY <2>1, <2>2 DEF SessionInv
  <2>4. pairs = << >> /\ main = "idle"
    BY <2>2 DEF QueueInv, OneDrain, DrainState, Quiet
  <2>5. PICK n \in States : lastPair = <<n, "TRUE">>
    BY <2>1, <2>4 DEF ObserverInv, ShownIsRouted, Contains
  <2>6. routing = "TRUE"
    BY <2>1, <2>4, <2>5 DEF ObserverInv, LastIsHeard, HeardStays
  <2>7. isRouting /\ routed = "sound"
    BY <2>4, <2>6 DEF RelayInv, FlagFollowsRelay, RoutingIsMarked, InSession
  <2> QED BY <2>1, <2>3, <2>7 DEF SessionInv, InSession
<1> QED BY <1>1, QueueInvariance, RelayInvariance, SessionInvariance, PTL
=============================================================================
