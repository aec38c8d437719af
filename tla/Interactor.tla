----------------------------- MODULE Interactor -----------------------------
(***************************************************************************)
(* TunnelServiceInteractor.java: how an activity follows, starts, stops    *)
(* and restarts the VPN service, which lives in a process of its own.      *)
(*                                                                         *)
(* The client's main thread takes events in order: a binding's             *)
(* onServiceConnected and onServiceDisconnected, state messages of the     *)
(* service, and the broadcast that announces a start (sendBroadcast posts  *)
(* it).  The service's main thread takes commands and messages in order.   *)
(* In between the system (external) creates an instance for the first      *)
(* start, delivers later ones to it, and on stopSelf() or a crash takes it *)
(* down and tells the bindings that were connected.                        *)
(*                                                                         *)
(* A binding is an Rx2ServiceBindingFactory: its observable emits the      *)
(* messenger once, keeps it for late subscribers (replay(1)) and completes *)
(* on onServiceDisconnected.  Bindings are made without BIND_AUTO_CREATE:  *)
(* one made while no instance runs waits for the next.                     *)
(***************************************************************************)
EXTENDS Naturals, Sequences, SequencesExt

CONSTANTS
  MaxCommands,  \* bound on what the user and the activity's life cycle ask
  MaxUpdates,   \* bound on state messages the service sends by itself
  MaxFaults     \* bound on service crashes and tunnels that end by themselves

ASSUME BoundsAssumption ==
  MaxCommands \in Nat /\ MaxUpdates \in Nat /\ MaxFaults \in Nat

Messages == {"REGISTER", "UNREGISTER", "STOP_SERVICE"}

VARIABLES
  isStopped,    \* isStopped: between onStop and onStart
  published,    \* latest value of tunnelStateRelay
  bindings,     \* every factory made so far, in order
  current,      \* serviceBindingFactory: an index of bindings, 0 for null
  restart,      \* the binding restartServiceDisposable observes, 0 when disposed
  clientQ,      \* the client's main looper
  instance,     \* how many service instances the system has created
  process,      \* the first instance of the service process that runs now
  phase,        \* the last instance: creating, fresh, running, stopping or dead
  registered,   \* instances that have the client in mClients and send updates
  serviceQ,     \* the main looper of the service process
  followed,     \* history: the instance whose state was published last, when
                \* a binding to it was held then, else 0
  commands, updates, faults

clientVars  == <<isStopped, published, bindings, current, restart>>
serviceVars == <<instance, process, phase, registered>>
counters    == <<commands, updates, faults>>
vars == <<clientVars, clientQ, serviceVars, serviceQ, followed, counters>>

\* What a factory keeps: bound while the system knows the connection, the
\* instance its messenger leads to (0 before onServiceConnected), completed,
\* and the messages that wait for the messenger (firstOrError).
Binding == [bound : BOOLEAN, to : Nat, completed : BOOLEAN, waiting : Seq(Messages)]

Event(kind, b, i) == [kind |-> kind, binding |-> b, instance |-> i]

Task(what, i) == [what |-> what, instance |-> i]

TypeOK ==
  /\ isStopped \in BOOLEAN
  /\ published \in {"unknown", "stopped", "running"}
  /\ bindings \in Seq(Binding)
  /\ current \in 0..Len(bindings)
  /\ restart \in 0..Len(bindings)
  /\ clientQ \in Seq([kind : {"connected", "disconnected", "state", "starting"},
                      binding : 0..Len(bindings), instance : 0..instance])
  /\ instance \in Nat
  /\ process \in 1..(instance + 1)
  /\ phase \in {"creating", "fresh", "running", "stopping", "dead"}
  /\ registered \subseteq 1..instance
  /\ serviceQ \in Seq([what : Messages \cup {"create", "start", "stop", "destroy"},
                       instance : 1..instance])
  /\ followed \in 0..instance
  /\ commands \in 0..MaxCommands
  /\ updates \in 0..MaxUpdates
  /\ faults \in 0..MaxFaults

\* The activity is opened while the service runs or does not.
Init ==
  /\ isStopped = TRUE
  /\ published = "unknown"
  /\ bindings = << >>
  /\ current = 0
  /\ restart = 0
  /\ clientQ = << >>
  /\ \/ instance = 0 /\ phase = "dead"
     \/ instance = 1 /\ phase = "running"
  /\ process = 1
  /\ registered = {}
  /\ serviceQ = << >>
  /\ followed = 0
  /\ commands = 0
  /\ updates = 0
  /\ faults = 0

(***************************************************************************)
(* The system.                                                             *)
(***************************************************************************)
\* A start command, behind the tasks of queue: it creates an instance when
\* none runs, else it is one more onStartCommand of the running one.
Request(what, queue) ==
  IF phase = "dead"
  THEN /\ instance' = instance + 1
       /\ phase' = "creating"
       /\ serviceQ' = queue \o <<Task("create", instance'), Task(what, instance')>>
       /\ UNCHANGED <<process, registered>>
  ELSE /\ serviceQ' = Append(queue, Task(what, instance))
       /\ UNCHANGED serviceVars

\* Bindings that wait for an instance, the ones whose onServiceConnected is
\* on its way, and the ones the running instance is connected to.
Waiting == {b \in DOMAIN bindings : bindings[b].bound /\ bindings[b].to = 0}

Announced ==
  {b \in Waiting :
     \E n \in DOMAIN clientQ : clientQ[n] = Event("connected", b, instance)}

Connected == {b \in DOMAIN bindings : bindings[b].bound /\ bindings[b].to = instance}

Events(kind, B) ==
  LET inOrder == SetToSortSeq(B, <)
  IN  [n \in DOMAIN inOrder |-> Event(kind, inOrder[n], instance)]

Disconnections == Events("disconnected", Connected \cup Announced)

\* stopSelf(): the instance is taken down whatever was asked of it since, and
\* its onDestroy is posted.
StopSelf(queue) ==
  /\ phase' = "dead"
  /\ clientQ' = clientQ \o Disconnections
  /\ serviceQ' = Append(queue, Task("destroy", instance))

(***************************************************************************)
(* What the client's methods are made of.                                  *)
(***************************************************************************)
\* sendServiceMessageCompletable: a message is dropped once the binding has
\* completed, waits in it for the messenger, or goes out at once.
Live == current # 0 /\ ~bindings[current].completed

Holding(what) ==
  IF Live /\ bindings[current].to = 0
  THEN [bindings EXCEPT ![current].waiting = Append(@, what)] ELSE bindings

Sent(what) ==
  IF Live /\ bindings[current].to # 0
  THEN Append(serviceQ, Task(what, bindings[current].to)) ELSE serviceQ

Unbound(bs, b) == [bs EXCEPT ![b].bound = FALSE]

\* startTunnelService, behind the events of queue.
Start(queue) ==
  /\ published' = "unknown"
  /\ Request("start", serviceQ)
  /\ clientQ' = Append(queue, Event("starting", 0, 0))

\* In the background the system may refuse it (IllegalStateException).
StartRefused(queue) ==
  /\ isStopped
  /\ published' = "stopped"
  /\ clientQ' = queue
  /\ UNCHANGED <<serviceVars, serviceQ>>

\* A bindService call: reported at once when the instance is there.
Bound(queue, b) ==
  IF phase \in {"creating", "dead"} THEN queue
  ELSE Append(queue, Event("connected", b, instance))

BindTunnelServiceMutant(queue) ==
  /\ bindings' = Append(bindings, [bound |-> TRUE, to |-> 0, completed |-> FALSE,
                                   waiting |-> << >>])
  /\ current' = Len(bindings')
  /\ clientQ' = Bound(queue, current')

\* bindTunnelService: a new factory takes the place of the last, REGISTER waits.
BindTunnelService(queue) ==
  /\ bindings' = Append(bindings, [bound |-> TRUE, to |-> 0, completed |-> FALSE,
                                   waiting |-> <<"REGISTER">>])
  /\ current' = Len(bindings')
  /\ clientQ' = Bound(queue, current')

\* isServiceRunning: a binding that waits leaves a record of the service with
\* the system, which may list it.
MayBeRunning == phase # "dead" \/ Waiting # {}

Command == commands < MaxCommands /\ commands' = commands + 1

(***************************************************************************)
(* The client's operations.                                                *)
(***************************************************************************)
OnStart ==
  /\ isStopped
  /\ Command
  /\ isStopped' = FALSE
  /\ \/ MayBeRunning /\ BindTunnelService(clientQ) /\ UNCHANGED published
     \/ /\ phase = "dead"
        /\ published' = "stopped"
        /\ UNCHANGED <<bindings, current, clientQ>>
  /\ UNCHANGED <<restart, serviceVars, serviceQ, followed, updates, faults>>

\* UNREGISTER, and then unbind; without a messenger both wait for it.
OnStop ==
  /\ ~isStopped
  /\ Command
  /\ isStopped' = TRUE
  /\ published' = "unknown"
  /\ serviceQ' = Sent("UNREGISTER")
  /\ bindings' = IF Live /\ bindings[current].to # 0 THEN Unbound(bindings, current)
                 ELSE Holding("UNREGISTER")
  /\ UNCHANGED <<current, restart, clientQ, serviceVars, followed, updates, faults>>

StartTunnelService ==
  /\ ~isStopped
  /\ Command
  /\ Start(clientQ)
  /\ UNCHANGED <<isStopped, bindings, current, restart, followed, updates, faults>>

\* stopTunnelService: the message and, given a context, a start command that
\* says stop.
StopTunnelService(byIntent) ==
  /\ ~isStopped
  /\ Command
  /\ published' = "stopped"
  /\ bindings' = Holding("STOP_SERVICE")
  /\ IF byIntent THEN Request("stop", Sent("STOP_SERVICE"))
     ELSE serviceQ' = Sent("STOP_SERVICE") /\ UNCHANGED serviceVars
  /\ UNCHANGED <<isStopped, current, restart, clientQ, followed, updates, faults>>

\* scheduleVpnServiceRestart: observe the end of the current binding, then
\* stopTunnelService().  Observing one that completed binds it again, but its
\* messages stay dropped.
ScheduleVpnServiceRestart ==
  /\ ~isStopped
  /\ Command
  /\ MayBeRunning
  /\ restart = 0
  /\ current # 0
  /\ restart' = current
  /\ published' = "stopped"
  /\ serviceQ' = Sent("STOP_SERVICE")
  /\ IF Live THEN bindings' = Holding("STOP_SERVICE") /\ UNCHANGED clientQ
     ELSE /\ bindings' = [bindings EXCEPT ![current].bound = TRUE, ![current].to = 0]
          /\ clientQ' = Bound(clientQ, current)
  /\ UNCHANGED <<isStopped, current, serviceVars, followed, updates, faults>>

(***************************************************************************)
(* The client's main looper.                                               *)
(***************************************************************************)
\* onServiceConnected: what waited for the messenger goes out in order; the
\* unbind behind UNREGISTER is of the factory that is current now.  The system
\* reports nothing to a connection that was unbound.
OnServiceConnected(b, i) ==
  /\ IF bindings[b].bound
     THEN LET waiting == bindings[b].waiting
              emitted == [bindings EXCEPT ![b].to = i, ![b].waiting = << >>]
          IN  /\ serviceQ' = serviceQ \o [n \in DOMAIN waiting |-> Task(waiting[n], i)]
              /\ bindings' = IF Contains(waiting, "UNREGISTER")
                             THEN Unbound(emitted, current) ELSE emitted
     ELSE UNCHANGED <<bindings, serviceQ>>
  /\ clientQ' = Tail(clientQ)
  /\ UNCHANGED <<published, current, restart, serviceVars>>

OnServiceDisconnectedMutant(b) ==
  /\ bindings' = [bindings EXCEPT ![b].bound = FALSE, ![b].completed = TRUE]
  /\ restart' = IF restart = b THEN 0 ELSE restart
  /\ clientQ' = Tail(clientQ)
  /\ UNCHANGED <<published, current, serviceVars, serviceQ>>

\* onServiceDisconnected: the observable unbinds and completes; its first
\* subscriber publishes the stop, the restart comes after it.
OnServiceDisconnected(b) ==
  IF ~bindings[b].bound
  THEN /\ clientQ' = Tail(clientQ)
       /\ UNCHANGED <<published, bindings, current, restart, serviceVars, serviceQ>>
  ELSE /\ bindings' = [bindings EXCEPT ![b].bound = FALSE, ![b].completed = TRUE]
       /\ IF restart = b
          THEN restart' = 0 /\ (Start(Tail(clientQ)) \/ StartRefused(Tail(clientQ)))
          ELSE /\ published' = IF bindings[b].completed THEN published ELSE "stopped"
               /\ clientQ' = Tail(clientQ)
               /\ UNCHANGED <<restart, serviceVars, serviceQ>>
       /\ UNCHANGED current

\* A state message: m_tunnelState.isRunning is TRUE from onCreate on.
OnState(i) ==
  /\ published' = "running"
  /\ followed' = IF \E b \in DOMAIN bindings : bindings[b].bound /\ bindings[b].to = i
                 THEN i ELSE 0
  /\ clientQ' = Tail(clientQ)
  /\ UNCHANGED <<bindings, current, restart, serviceVars, serviceQ>>

\* The broadcast of startTunnelService.
OnStarting ==
  /\ IF isStopped THEN clientQ' = Tail(clientQ) /\ UNCHANGED <<bindings, current>>
     ELSE BindTunnelService(Tail(clientQ))
  /\ UNCHANGED <<published, restart, serviceVars, serviceQ>>

ClientStep ==
  /\ clientQ # << >>
  /\ LET e == Head(clientQ)
     IN  \/ /\ \/ e.kind = "connected" /\ OnServiceConnected(e.binding, e.instance)
               \/ e.kind = "disconnected" /\ OnServiceDisconnected(e.binding)
               \/ e.kind = "starting" /\ OnStarting
            /\ UNCHANGED followed
         \/ e.kind = "state" /\ OnState(e.instance)
  /\ UNCHANGED <<isStopped, counters>>

(***************************************************************************)
(* The service process.                                                    *)
(***************************************************************************)
Runs(i) == i = instance /\ phase # "dead"

Destroyed(i) == ~Runs(i) /\ ~Contains(serviceQ, Task("destroy", i))

\* onCreate and onBind; bindings that waited are connected.
Create(i) ==
  /\ phase' = "fresh"
  /\ clientQ' = clientQ \o Events("connected", Waiting \ Announced)
  /\ serviceQ' = Tail(serviceQ)
  /\ UNCHANGED <<instance, process, registered>>

\* onStartCommand without an action: only the first start has an effect.
OnStartCommand(i) ==
  /\ phase' = IF Runs(i) /\ phase = "fresh" THEN "running" ELSE phase
  /\ serviceQ' = Tail(serviceQ)
  /\ UNCHANGED <<instance, process, registered, clientQ>>

\* onStartCommand with INTENT_ACTION_STOP_TUNNEL: signalStopService, or
\* stopSelf() when there is no tunnel or it has its signal.
OnStopCommand(i) ==
  /\ IF Runs(i) /\ phase # "running" THEN StopSelf(Tail(serviceQ))
     ELSE /\ phase' = IF Runs(i) THEN "stopping" ELSE phase
          /\ serviceQ' = Tail(serviceQ)
          /\ UNCHANGED clientQ
  /\ UNCHANGED <<instance, process, registered>>

\* REGISTER is answered with the state, by an instance that was destroyed too
\* unless it was collected or its process is gone.
Register(i) ==
  /\ \/ /\ i >= process
        /\ clientQ' = Append(clientQ, Event("state", 0, i))
     \/ ~Runs(i) /\ UNCHANGED clientQ
  /\ registered' = IF Destroyed(i) THEN registered ELSE registered \cup {i}
  /\ serviceQ' = Tail(serviceQ)
  /\ UNCHANGED <<instance, process, phase>>

Unregister(i) ==
  /\ registered' = registered \ {i}
  /\ serviceQ' = Tail(serviceQ)
  /\ UNCHANGED <<instance, process, phase, clientQ>>

\* STOP_SERVICE: mClients is cleared, signalStopService.
StopService(i) ==
  /\ registered' = registered \ {i}
  /\ phase' = IF Runs(i) /\ phase = "running" THEN "stopping" ELSE phase
  /\ serviceQ' = Tail(serviceQ)
  /\ UNCHANGED <<instance, process, clientQ>>

\* onDestroy disposes the sender of updates.
OnDestroy(i) ==
  /\ registered' = registered \ {i}
  /\ serviceQ' = Tail(serviceQ)
  /\ UNCHANGED <<instance, process, phase, clientQ>>

ServiceStep ==
  /\ serviceQ # << >>
  /\ LET t == Head(serviceQ)
         i == t.instance
     IN  \/ t.what = "create" /\ Create(i)
         \/ t.what = "start" /\ OnStartCommand(i)
         \/ t.what = "stop" /\ OnStopCommand(i)
         \/ t.what = "REGISTER" /\ Register(i)
         \/ t.what = "UNREGISTER" /\ Unregister(i)
         \/ t.what = "STOP_SERVICE" /\ StopService(i)
         \/ t.what = "destroy" /\ OnDestroy(i)
  /\ UNCHANGED <<clientVars, followed, counters>>

\* The end of runTunnel's finally block, on the tunnel thread.
TunnelThreadStopSelf ==
  /\ phase = "stopping"
  /\ StopSelf(serviceQ)
  /\ UNCHANGED <<clientVars, instance, process, registered, followed, counters>>

\* The observer of the connection state reports to registered clients.
Update ==
  /\ updates < MaxUpdates
  /\ updates' = updates + 1
  /\ \E i \in registered : clientQ' = Append(clientQ, Event("state", 0, i))
  /\ UNCHANGED <<clientVars, serviceVars, serviceQ, followed, commands, faults>>

\* The tunnel cannot be started or the VPN is revoked.
TunnelEnds ==
  /\ faults < MaxFaults
  /\ faults' = faults + 1
  /\ phase = "running"
  /\ phase' = "stopping"
  /\ UNCHANGED <<clientVars, clientQ, instance, process, registered, serviceQ,
                 followed, commands, updates>>

\* The service process dies; START_REDELIVER_INTENT makes the system start
\* the service again, without the broadcast.
Crash ==
  /\ faults < MaxFaults
  /\ faults' = faults + 1
  /\ phase \in {"running", "stopping"}
  /\ instance' = instance + 1
  /\ process' = instance'
  /\ phase' = "creating"
  /\ registered' = {}
  /\ clientQ' = clientQ \o Disconnections
  /\ serviceQ' = <<Task("create", instance'), Task("start", instance')>>
  /\ UNCHANGED <<clientVars, followed, commands, updates>>

Next ==
  \/ OnStart \/ OnStop \/ StartTunnelService
  \/ \E byIntent \in BOOLEAN : StopTunnelService(byIntent)
  \/ ScheduleVpnServiceRestart
  \/ ClientStep \/ ServiceStep \/ TunnelThreadStopSelf
  \/ Update \/ TunnelEnds \/ Crash

\* Both loopers run, and a tunnel thread that was signalled ends
\* (TunnelManager!StopCompletes).
Fairness == WF_vars(ClientStep) /\ WF_vars(ServiceStep) /\ WF_vars(TunnelThreadStopSelf)

Spec == Init /\ [][Next]_vars /\ Fairness

(***************************************************************************)
(* Properties.                                                             *)
(***************************************************************************)
\* Binding b is connected to an instance and was not taken back.
Held(b) == b # 0 /\ bindings[b].bound /\ bindings[b].to # 0

\* A restart comes back: when scheduleVpnServiceRestart observes a binding to
\* the instance and the instance is on its way down, a new one is created after
\* it, unless the activity is paused first.  The start command must not reach
\* the instance that still stops, where m_firstStart makes it a no-op.
RestartCompletes ==
  (phase = "stopping" /\ Held(restart) /\ Runs(bindings[restart].to))
    ~> (phase = "creating" \/ isStopped)

\* The client is still to hear, from a binding it holds, that i has ended.
EndUnderWay(i) ==
  \E n \in DOMAIN clientQ :
    /\ clientQ[n].kind = "disconnected"
    /\ clientQ[n].instance = i
    /\ bindings[clientQ[n].binding].bound

\* The end of an instance is seen: a client that published the state of an
\* instance while it held a binding to it (doOnComplete of bindTunnelService)
\* shows it as running only while it runs or its onServiceDisconnected is on
\* its way, over restarts, crashes and several bindings.  Not covered is a
\* state message that comes when no binding to its sender is held, such as the
\* answer to a REGISTER that the instance took after its end: what it says is
\* shown until the activity is stopped or its user acts.
StopIsSeen ==
  (published = "running" /\ followed # 0) => (Runs(followed) \/ EndUnderWay(followed))

\* A start shows its outcome: a client in the foreground whose start has led to
\* a connected binding (its broadcast is not still on the way) does not stay in
\* the unknown state, whatever becomes of the service.
StartResolves ==
  (/\ Held(current) /\ published = "unknown" /\ ~isStopped
   /\ ~Contains(clientQ, Event("starting", 0, 0)))
    ~> (published # "unknown" \/ isStopped)
=============================================================================
