# Verification of the Azadi Tunnel Android client

TLA+ models of the parts of this repository that carry its own concurrency:
the VPN service and the activity that binds to it, the VPN interface and its
native packet pump, the TCP relay and the UDP multiplexer inside the pump, the
controllers that try one connection after another, the storage shared by two
processes, and the route computation. TLC checks the models on small
instances; TLAPS proves the main safety properties for every value of the
constants.

## The system

The application is a fork of Psiphon for Android. A separate process runs the
VPN service. Its parts, the state they keep and how they interact:

| Part | State | Operations | Interacts with |
|---|---|---|---|
| `TunnelManager.java` (VPN service) | first-start flag, stop latch, tunnel thread, settings, two Rx relays, shown tunnel state, registered clients | start/stop commands, client messages, `runTunnel`, tunnel-core callbacks, connection observer, revoke, destroy | calls VpnManager and tunnel-core; receives callbacks on its looper |
| `VpnManager.java` | tun descriptor, routing flag, native thread, proxy-only mode, excluded routes | `vpnEstablish`, `routeThroughTunnel`, `stopRouteThroughTunnel`, `vpnTeardown` (all synchronized) | starts, terminates and joins tun2socks |
| `tun2socks.c`, life cycle | C globals: `g_terminate`, reactor, device, client list | `runTun2SocksNative`, `run`, `tcp_timer_handler`, `terminate` | owns the dup'ed descriptor |
| `tun2socks.c`, TCP clients | per client: lwIP pcb, SOCKS connection, two buffers and their counters | lwIP accept/recv/sent/err, SOCKS up/error/closed, send and receive done | lwIP below, `BSocksClient` above |
| `SocksUdpGwClient.c`, `UdpGwClient.c` | table of flows by connection number, a buffer each, a packet in the connector, reconnect timer | submit a packet, receive a reply, connect, lose the server, free | SOCKS client; the udpgw server |
| `BSocksClient.c` | handshake state and what it has allocated | init, handlers, free | owner's callback |
| `PacketPassFairQueue.c` | flows ordered by virtual time | send, done, schedule, init and free a flow | UdpGwClient, udpgw |
| `VpnManager.applyVpnRoutes` | list of CIDR blocks | `subtractCidr`, `splitExcluding` | `VpnService.Builder.addRoute` |
| conduit fallback (in `TunnelManager`) | runnable, fallback flag | arm, cancel, fire | restarts tunnel-core |
| `TunnelServiceInteractor.java` | published tunnel state, bindings, a restart under way | start, stop, restart, bind, pause, resume | messages to and from TunnelManager, the system's service records |
| `ConnectionCoordinator.kt`, `FallbackChainController.kt`, `FindBestConnectionController.kt` | settings under trial, progress | connect with verification, fallback chain, scan | settings store, interactor |
| `DataTransferStats.java`, `TunnelStatisticsStore.kt` | counters, buckets | add, shift, load-modify-save | callbacks of tunnel-core |
| `SafeFileStorage.java` | files and locks | save, load | several processes |
| `VpnRulesHelper.java`, `PackageHelper.java` | runtime rule sets | replace, read | tunnel thread |
| UI, upgrade, feedback, tray, lwIP | | | platform and third-party code |

What is hard here: the main thread, the tunnel thread, the native thread and
tunnel-core's callbacks interleave freely; the routing decision is taken from
queued pairs of values that may be stale; the two ends of a relayed TCP
connection close independently with data in flight; native initialisation can
fail at any step; and a stop must end every one of them. `PROJECT.json` lists
each of these hazards at its line.

What makes each part correct: one pump at most, on an open interface, released
at the end (VpnManager); bytes relayed in order, nothing freed early, late or
twice (TCP clients); what is shown as CONNECTED is really routed, nothing
survives teardown and a stop completes (TunnelManager); the routes are exactly
the addresses that are not excluded (routes); a reused number is understood by
the server, and packets survive the loss of the server (UDP); nobody starves
(fair queue); the end of a service is seen and a restart comes back
(interactor); the user's selection outlives the trials and comes first
(controllers); a load finds what was saved (storage).

## Modules

**`PacketPump`** is the abstract specification of the pump: an interface that
goes up and down, and a set of pumps that holds at most one, only while the
interface is up.

**`ByteStream`** is the abstract specification of one direction of a relayed
connection: bytes that were taken are delivered in order and once, and the
stream ends drained, with everything delivered, or broken, because the side
that takes the bytes is gone. `TcpClient` implements it twice (`Up`, `Down`).

**`VpnManager`** models `VpnManager.java` and the life of each native
instance. Synchronized methods that do not block are single actions;
`stopTun2Socks` blocks in `join()` holding the monitor, so it is split there
(`BeginStop`, `JoinReturns`, with `stopper` naming the waiting method). An
instance goes through `spawned`, `init`, `loop`, `quitting`, `exited`; the
failure exits of `run()` are separate actions, according to whether they close
the descriptor. `g_terminate` is set by the stop, cleared by the new native
thread and polled by `tcp_timer_handler`. The tunnel thread contributes the
session (`setProxyOnlyMode`, `vpnEstablish`, `vpnTeardown`); route and stop
calls come from the main thread at any time.

**`TcpClient`** models one `struct tcp_client`. Clients share only the list
they are on, so one stands for all. The byte streams are numbered (the n-th
byte from a side is the number n), so that loss, duplication and reordering
are visible. `rcvWnd` is lwIP's window; `sending` and `receiving` are the
operations outstanding on the SOCKS connection; `cbs` the lwIP callbacks
registered. `tcp_write` may take what fits, nothing, or fail. Fields that the
code leaves uninitialised until SOCKS is up start with arbitrary values.
Freeing a client is modelled as `entry = "freed"` and the callbacks keep their
own guards, so that a callback on a freed client would be a reachable step.

**`TunnelManager`** models one instance of the service. `mainQ` is the looper's
queue. The observer of `combineLatest(state relay, routing relay)` runs behind
`observeOn`: pairs queue up in `pairs` and one `drain` task works them off. An
io thread subscribes to the relays, one after the other (`subscribed`); what is
accepted before that is lost. `runTunnel` and the handlers of the main thread
are split at each `accept` and each call of VpnManager, so that the other
thread may come between any two of them; `thread` and `main` say where they
are. VpnManager's calls are single steps here; their inner life is the
`VpnManager` module, but a `dup()` that throws and a tun2socks that fails or
quits are steps here too, bounded by `MaxFaults`. tunnel-core is external: it
connects, reconnects, waits for a network and reports it by posting tasks.
`routed` is history: the circumstances in which the present routing was
started (before `vpnEstablish`, towards a core that is being replaced, failed,
or none of these). `m_isSoftRestarting` is never set in the code and is
therefore not a variable.

**`VpnRoutes`** models the CIDR subtraction on a `Width`-bit address space. A
call of `subtractCidr` is a round; one step looks at one route, or at one child
in `splitExcluding`. The recursion is depth-first and in address order, so the
calls under way are the list `pending` of the children they have left. The
reference is subtraction of sets of addresses (`excluded`).

**`FairQueue`** models `PacketPassFairQueue`. `MaxTime` is
`FAIRQUEUE_MAX_TIME`, which the header suggests to reduce for testing the
overflow: here it is the width of the word. Ties are broken by address in the
code and by choice in the model. Owners of flows send, close (a busy handler
frees the flow when its packet is out) and free them, and tear the queue down.

**`BSocksClient`** models the handshake as states, the set of resources that
are `held`, and the callback to the owner as `event`: a handler that reports
returns at once, and the owner's step is the next one. A refused message, a
short read, an allocation that fails and a connection that breaks are choices.

**`UdpGw`** extends `BSocksClient` with its owner `SocksUdpGwClient`, the
`UdpGwClient` behind it and the server it talks to. `jobs` is the reactor's
list of pending jobs, last set first. A connection's buffer counts full-size
packets; a packet stays in it until the stream has taken it, so `sendCon` only
says whose packet the connector holds. The server (`udpgw.c`, default options)
closes a socket for REBIND, for another address and when it runs out, and loses
all of them with the stream. `lostRebind` is history.

**`Interactor`** composes `TunnelServiceInteractor` with instances of the
service. `bindings` holds every `Rx2ServiceBindingFactory` ever made, since an
old one may still be observed; messages wait in it until the messenger is
there. `clientQ` and `serviceQ` are the two main loopers. The system is what
the code relies on: `startService` creates an instance only when none runs,
`stopSelf()` takes it down at once (bindings are made without
`BIND_AUTO_CREATE` and do not keep it), a binding waits for the next instance,
and a process that died is started again for START_REDELIVER_INTENT. The
service's side is `TunnelManager` reduced to what the client can tell:
creating, fresh, running, stopping, dead. `followed` is history: the instance
whose state the client has published, if it held a binding to it at the time.
Statistics, locale and NFC messages are left out.

**`Controllers`** models the coroutines of `ConnectionCoordinator` and
`FindBestConnectionController` with the settings store they share, and the VPN
permission dialog of `LocalizedActivities` with its single listener. A
coroutine runs from one suspension point to the next. `startTunnel` may throw,
which is only logged. The user changes the region, saves the settings screen,
and the reconnect effect or the end of the activity cancels. Three histories:
`selection` is the transport the user chose or last connected with, `mixed`
whether settings were loaded or chosen while another coroutine had its trials
stored, or a chain was cancelled, and `forsaken` the coroutines whose listener
was replaced or whose `startTunnel` threw.

**`SafeFileStorage`** models `save` and `load` step by step. A file is two
halves, each with the version that wrote it, and whether it is synced.
`channel.lock()` is two locks: the table of the Java VM, where an overlapping
call fails, and the lock of the operating system, which belongs to the process
and is given up when any of its channels on the file is closed. Writes and
reads may throw; a `load` whose read throws answers with the default.

**`MCTunnelManager`, `MCControllers`, `MCSafeFileStorage`** give these three
their constants.

**`VpnManagerProofs`, `TcpClientProofs`, `TunnelManagerProofs`,
`FairQueueProofs`, `UdpGwProofs`, `SafeFileStorageProofs`,
`ControllersProofs`, `VpnRoutesProofs`** hold the theorems. An inductive
invariant that only the proofs use is defined there.

Operators named `...Mutant` are plausible mistakes in the definition that
follows them; each shows that some property can fail.

## Runs

| Run | Bounds | Result |
|---|---|---|
| `VpnManager` | 4 sessions, 4 instances | passes |
| `VpnStopLost` | 2 sessions, 2 instances | `StopCompletes` violated |
| `VpnFdLeak` | 2 sessions, 2 instances | `StopClosesFd` violated |
| `TcpClient` | window and receive buffer of 3 bytes, send buffer of 2, 5 bytes each way | passes |
| `TunnelManager` | 2 commands and 1 core callback, or 1 command and 2 callbacks, after the first start; 1 failure; VPN mode on 2 ports and proxy-only mode | passes |
| `TunnelModeToggle` | 1 command, 1 callback, the settings may change | `RoutingIsReal` violated |
| `VpnRoutes` | 4-bit addresses, 4 exclusions | passes |
| `FairQueue` | 3 slots, 4 flows created, clock 0..4, packets of 0 and 1 at weight 1 | passes |
| `UdpGw` | 2 numbers for 4 flows, buffers and streams of 1 packet, 1 server socket, 4 packets, 1 reply, 1 failure | passes |
| `Interactor` | 4 commands, 1 update, 1 fault | passes |
| `SafeFileStorage` | 4 threads in 2 processes, 4 calls, 2 faults | passes |
| `Controllers` | 2 coroutines, 2 users, 1 change by the user | passes |

`VpnManager`: four starts let an instance fail, one be stopped, one be stopped
late and one start after them; the proofs remove the bound. `SeenStopCompletes`
says that a stop completes when the instance has already passed its reset of
`g_terminate`; without that condition it does not (`VpnStopLost`): a stop
between `Thread.start()` and the reset is erased and `join()` waits for ever
under the monitor. `InterfaceReleased` exempts instances that failed before
`BTap_InitWithFD`; for those the descriptor stays open, which `VpnFdLeak`
shows.

`TcpClient`: the stream bound exceeds every buffer, so that buffers fill,
drain and wrap; the send buffer is smaller than the receive buffer, so that
partial writes happen. `ImplementsStreams` is the refinement of `ByteStream`
for both directions at once: a half that closes neither ends nor shortens the
other. Deadlock is off because a freed client is the end.

`TunnelManager`: two commands around a connection give every pair of them (stop
and stop, restart and stop, revoke and register, ...); two callbacks around a
command give a connection that is lost and made again, and the old and the new
core of a restart. What a user would want, that CONNECTED means routed
(`RoutingIsReal`), is not true of the code. It fails in four ways, and what is
shown in a fifth:

* Leaving proxy-only mode by a restart ends in CONNECTED with no VPN interface,
  because only `runTunnel` tells VpnManager the mode (`TunnelModeToggle`).
* A CONNECTED of the old core that is observed between the command of a restart
  with another port and the restart itself routes to the old port, and stays
  (`TunnelManager.java:403`, `928`-`933`).
* The flag is set before tun2socks is started, and a `dup()` that throws, or a
  native instance that fails or quits, changes nothing else
  (`VpnManager.java:448`, `478`).
* A restart handled between the accepts of `runTunnel` and `vpnEstablish` may
  connect and be routed without an interface; `vpnEstablish` then clears the
  flag and not the relay (`TunnelManager.java:1209`-`1235`,
  `VpnManager.java:252`).
* When the io thread subscribes after the accept at the start of `runTunnel`,
  the routing relay has no value and a connection is not shown
  (`TunnelManager.java:2198`).

All five are behaviours of the model; the last four are found by TLC in the
same way as the first when `routed` or `routing # Unset` is taken out of the
property that exempts them. The passing run says that there is no other way.
`SoundRoutingIsReal`: unless the present routing was started in one of these
circumstances, or the mode was changed, a session that shows CONNECTED is
routed to the port of its core; the part that takes work is that the observer
routes for every connection and nothing turns a sound routing into another.
`RelayAgreesUnlessEarly` exempts only the early restart, and
`HeardConnectionIsShown` only an observer that has heard no value of the
routing relay. `StopCompletes` covers every stop by intent, message, revocation
and destruction. Deadlock is off because a destroyed service stops.

`VpnRoutes`: with four bits there are blocks of five sizes, and four
exclusions nest, overlap, touch and repeat, also at both ends of the space.
The algorithm compares and halves; the proofs remove both bounds. Deadlock is
off because nothing follows the last exclusion.

`FairQueue`: a packet costs 1 or 2 and the clock overflows above 4, so every
run of a few packets overflows it, with other flows before, at and behind the
subtracted time. Three flows give one that is sent, one that waits and one that
comes back. Time has no bound other than the word, so starvation is checked
over unbounded sequences of sends. Deadlock is off because a freed queue is the
end. `Cost` adds `packet_weight`; without it zero-size packets
starve the others (the mutant).

`UdpGw`: four packets make a flow, a second one, the reuse of the first number
and a packet on top of it, with a full buffer in between; one failure makes the
server disappear at any point of that or of the handshake. Replies in flight
meet a number that was given away; the client drops them unless they come from
the new flow's own peer, in which case nobody can tell. `RebindIsFollowed`
says that the server opens no such ambiguity once the packets of the new flow
have arrived. It exempts a connection
whose REBIND was dropped by a full buffer: `connection_send` returns without a
trace of it. Deadlock is off because a freed client is the end.

`Interactor`: the activity opens onto a dead or a running service. Four commands
are a resume followed by any three of start, stop (by message or by intent),
restart, pause and resume; the fault is a tunnel that ends by itself or a
process that dies. `StopIsSeen` is an invariant: a client that took over the
state of an instance to which it held a binding shows running only while that
instance runs or its `onServiceDisconnected` is on the way. A state message
from an instance without a binding (a REGISTER that is answered late, an update
sent between the takedown and `onDestroy`) is not covered: it is shown until
the activity stops or the user acts. `StartResolves` is about bindings that were
connected and not undone; what happens to the others is in the hazards: an
`onStop` that waits for its messenger undoes the binding of a later resume, and
a service that dies between start and bind leaves the client in the unknown
state. Deadlock is off because nothing has to happen after the last command.

`SafeFileStorage`: the threads are the ones of the application. The service
process saves from a callback of tunnel-core and loads in `onCreate`; the main
process loads from the activity and from the list of apps. Four calls are two
saves and two loads, all of which may overlap; two faults let a save fail and
the power go afterwards, or a read throw. `LoadSeesLastSave` is about loads that
got the lock and whose read did not throw: the others answer with the default.
It holds although the process lock is lost
to an overlapping call, because only one thread saves and the final file only
changes by a rename.

`Controllers`: two coroutines are enough for one to disturb the other, and for
one to find what another has left. One user has the smart chain and one has
not; that a chain is complete for every other setting is proved. The scan has
one region, which leaves it two or three attempts. `CoroutinesEnd` exempts a
coroutine that waits in `startTunnel` for a listener nobody will call.
`SelectionFirstUnlessMixed` says that a chain begins with the transport the
user chose or last connected with. Trials are stored in place of the user's
settings, so this is not true in general: a connect that begins over another
coroutine takes its trial for the user's choice, what the settings screen saves
meanwhile is lost when the other puts back what it loaded, and a cancelled
chain, which catches nothing, leaves its trial behind. `mixed` remembers these
three, and without it TLC finds each of them in a few steps. Everything else is
included: launches over a coroutine that ends first, cancelled scans, chains
that fail or connect, dialogs that are refused. Deadlock is off because
coroutines end.

## Fairness

`VpnManager`: weak fairness of the native thread's steps, of the timer and of
a `join()` that can return: threads are scheduled and the TCP timer is rearmed
on every tick. Callers and device errors are not fair.

`TcpClient`: weak fairness of the client's acknowledgements (lwIP retransmits
until data is acknowledged or drops the connection), of the end of the SOCKS
handshake, and of the SOCKS server taking data that is offered to it: the
server is tunnel-core on the loopback interface, which reads or closes.
Arrivals, closes and errors are not fair.

`TunnelManager`: weak fairness of the main looper, of the tunnel thread and of
the io thread that subscribes: each runs what it has been given. Commands,
tunnel-core and failures are not fair. `StopCompletes` there takes
`vpnTeardown` as a step that returns; `VpnStopLost` says when it does not.
`stopSelf` leads to `onDestroy`: bindings are made with flags 0 and do not keep
the service alive.

`FairQueue`: weak fairness of the output, of the schedule job, and of an owner
that has begun to free the queue (the owners do it in one loop). Senders are
not fair.

`UdpGw`: weak fairness of timers, jobs, callbacks and both directions of the
stream. Failures are bounded, so `BufferedIsSent` reads: if SOCKS stops failing,
what is buffered is sent.

`Interactor`: weak fairness of the two loopers and of a tunnel thread that has
its stop signal (`StopCompletes` of `TunnelManager`).

`SafeFileStorage`: weak fairness of each step of a call; the kernel wakes a
waiter when the lock is free. Faults are not fair.

`Controllers`: weak fairness of each coroutine's steps and of the user's answer
to a permission dialog. Delays, `waitForConnected` and the checks have time
limits; `awaitTunnelState` has none, but it asks a relay that always has a
value; `startTunnelForConnect` has none either, and a coroutine in it goes on
only when its listener is called.

## Proofs

The theorems hold for every value of the constants that satisfies the
assumptions of its module. Most are naturals and positive sizes. The others
come from the code: in `FairQueue` the word holds the cost of one packet (the
`ASSERT` in `increment_sent_flow`); in `SafeFileStorage` the threads that save
belong to one process (saving is for two callbacks of tunnel-core, which runs
in the service process); in `Controllers` the regions of a scan are finitely
many.

* `VpnManagerProofs`: `Invariance` proves `IInv`. `SingleInstance` alone is
  not inductive: the proof needs that instances are numbered in order, that
  only the thread VpnManager names is alive (`thread <= started`, later ones
  unborn), that flag and thread agree (`FlagGuardsThread`: this is why the
  early return of `stopRouteThroughTunnel` leaves nothing running), and that
  outside a session there is no descriptor. From it follow type correctness,
  `SingleInstance`, `NoPumpWithoutInterface`, `InterfaceReleased`, and
  `Refinement`: every step is a step of `PacketPump` or a stutter.
* `TcpClientProofs`: `Invariance` proves `IInv`, with one lemma per callback.
  The strengthening ties what is registered and outstanding to the two
  closed-flags (`Registration`), the window to the buffer, and both streams to
  the buffers between them. Sequences of consecutive numbers have their own
  lemmas (`RunConcat`, `RunSubSeq`, ...). From it: no assertion of the SOCKS
  handlers (`SocksAssertsNeverFail`) or of the sent callback
  (`SentAssertsNeverFail`) fails, the buffer cannot be overrun, both streams
  are in order (`UplinkAlwaysInOrder`, `DownlinkAlwaysInOrder`), a client is
  freed with data pending only if the taker is gone, nothing can call back a
  freed client (`NothingCallsBack`), and no step is taken on one.
  `StreamRefinement` then shows that every callback is a step of `ByteStream`
  or a stutter in each direction; `GracefulClose` in the next state is what
  makes a close `Drain` and not a loss.
* `TunnelManagerProofs`: `PumpIsGuarded` is inductive: tun2socks runs only on
  an interface that is up, under the flag `vpnTeardown` tests, and the
  interface exists only between establish and teardown of the single tunnel
  thread. `TornDownForGood` follows, for settings that change as well.
  `QueueInvariance` is about the looper: its queue holds the observer's task
  once, exactly while pairs wait (`OneDrain`), and what is not subscribed has
  no value (`RelaysHeard`); without them the observer could take a pair that is
  not there. Type correctness follows. `RelayAgrees` proves
  `RelayAgreesUnlessEarly` from `RelayInv`: between two places of both threads
  whoever changes the flag changes the relay (`FlagFollowsRelay`,
  `RestartClears`), and routing that was started before `vpnEstablish` is
  marked as such (`EarlyIsMarked`, `RoutingIsMarked`). `RoutingReal` proves
  `SoundRoutingIsReal` for any ports, modes and failures. Its invariants say
  what the observer knows (`ObserverInv`: the pair it saw last is the latest
  one it was sent unless others wait, and a CONNECTED that is shown was routed
  or is about to be) and that a sound routing is towards the port of a core
  that will not be replaced unnoticed (`SessionInv`).
* `FairQueueProofs`: `EarliestServed` needs that waiting, sending and
  remembered flows are disjoint (`Exclusive`). Existence of the earliest time
  comes from the well-foundedness of the naturals. `OverflowExact` goes through
  the arithmetic of `increment_sent_flow`.
* `UdpGwProofs`: besides the handshake's resources (`HoldsWhatItsStateSays`,
  and `OwnerAgrees` between `SocksUdpGwClient` and its SOCKS client), the
  invariant follows the packets of each connection from its jobs through its
  buffer and the connector to the stream and the socket of the server: unless
  it was dropped, a REBIND is ahead of all else that its flow has under way.
  The job list needs its own order (the job that sends the first packet before
  those that make the buffer ready), which gives `FirstIsKept`.
* `SafeFileStorageProofs`: the final file and the one on disk are whole
  (`FinalIsWhole`), a save under way is newer than every file it may replace
  (`SavesNewer`), the temporary file is of the save that is past its write
  (`TempIsMine`), and a load never reads below the version it started from
  (`LoadsBehind`). Mutual exclusion of processes is not among them, since it
  does not hold: an overlapping call of the same process gives up its lock.
* `ControllersProofs`: the invariant says who the permission dialog answers
  (`ListenerIsAsking`) and that a chain's trials are those of what it loaded.
  `SelectionFirst` proves `SelectionFirstUnlessMixed` by `SelectionIsKept`: until
  they are mixed up, the user's selection is what is stored, or what the one
  coroutine that holds the settings will put back. `ChainComplete` is about `internetAwareAttemptsFor` for all settings,
  with lemmas on `Add`.
* `VpnRoutesProofs`: the invariant of a round (`RoundInv`) says that the blocks
  kept, pending and not looked at fit the address space without host bits, lie
  in this order, and together cover what is to be routed once the excluded
  range is taken away. A single address that overlaps the range is covered by
  it, so the recursion ends before `childPrefix > 32` drops anything.
  `LargestBlocks` is not inductive: two halves do occur in a round, and the
  invariant adds that one of them is pending and overlaps the range, so that it
  will not be kept whole. That the size of a block is twice that of its
  children is proved from the recursive function `Shl`, by the least
  counterexample (`LeastExists`) in place of induction, and the masks by
  lemmas on division.

`TypeOK` and the inductive invariants are proved in all eight and are
therefore not among the properties of the runs; in `Interactor` `TypeOK`
documents the ranges of the variables.

Model-checked only: liveness (`SeenStopCompletes`, `HalfClosedIsFreed`,
`StopCompletes`, `QueuedIsSent`, `BufferedIsSent`, `CallsReturn`,
`CoroutinesEnd`, `RestartCompletes`, `StartResolves`), which is outside the
prover's reach, `StopIsSeen` of `Interactor` and `HeardConnectionIsShown` of
`TunnelManager`. Every other safety
property of a passing run is a theorem.

## Not modelled

Most of the lines under `src/` are vendored: lwIP, and a copy of badvpn of which
the application builds only tun2socks and what that uses. lwIP, tunnel-core,
Android and RxJava are environment. The UI, upgrade, feedback, list download
and parsing are I/O and formatting.

* `VpnManager`: an interrupted `join()`; nothing interrupts the threads that
  wait in it.
* `TunnelManager`: notifications, home pages, statistics, NFC exchange, and the
  conduit fallback timer, whose effect is a restart inside tunnel-core.
* `TcpClient`: the pbuf that `client_recv_func` keeps when its client is killed,
  and time.
* `UdpGw`: keepalives, the DNS flag, the parsing of packets, the server's
  timers, and a server connection that closes while its packet is being sent.
* `Controllers`: what an attempt does in the tunnel, diagnostics after the
  connection, and code that nothing calls (`connectWithChain`, the `cancel` of a
  scan, `skipRecursiveFallback`).
* Traffic statistics and the runtime VPN rules: data structures without a
  protocol between their users.

## Plan

1. Proofs of `StopIsSeen` and `HeardConnectionIsShown`, and what the client
   shows after a state message from an instance to which it holds no binding.
2. A service life cycle that `TunnelManager` implements and `Interactor` uses,
   in place of the reduction by hand.
3. The conduit fallback timer against stop and restart.
