----------------------------- MODULE Controllers ----------------------------
(***************************************************************************)
(* The coroutines of MainActivity that try transports one after another:   *)
(* ConnectionCoordinator.connect and FindBestConnectionController.runScan. *)
(*                                                                         *)
(* Both work on the user's stored settings: they load them, save a trial   *)
(* in their place before each attempt (the service reads what is stored    *)
(* when it starts) and put the original back.  They run on the main        *)
(* thread, one step from one suspension to the next, so two of them, a     *)
(* change of the user's and the end of the activity interleave.            *)
(*                                                                         *)
(* What the tunnel does in an attempt is a choice: the start is refused,   *)
(* the wait for CONNECTED times out, the check that follows fails.         *)
(***************************************************************************)
EXTENDS Naturals, Sequences, FiniteSets, SequencesExt

CONSTANTS
  MaxCoroutines,  \* bound on launches
  Regions,        \* egress regions
  AnyRegion,      \* REGION_CODE_ANY
  ScanRegions,    \* the regions a scan goes through
  UserSettings,   \* what the user may have chosen before
  MaxChanges      \* bound on changes by the user

\* Numbered in the order of their launch.
Coroutines == 1..MaxCoroutines

Protocols == {"auto", "cdn_fronting", "direct", "conduit"}

Settings == [protocol : Protocols, beast : BOOLEAN, region : Regions, smart : BOOLEAN]

ASSUME ControllersAssumption ==
  /\ MaxCoroutines \in Nat
  /\ AnyRegion \in ScanRegions
  /\ ScanRegions \subseteq Regions /\ IsFiniteSet(ScanRegions)
  /\ UserSettings \subseteq Settings
  /\ MaxChanges \in Nat

(***************************************************************************)
(* FallbackChainController: which attempts a connect makes.  Every attempt *)
(* has the same timeout, which is left out.                                *)
(***************************************************************************)
Attempt(protocol, beast) == [protocol |-> protocol, beast |-> beast]

Transport(s) == Attempt(s.protocol, s.beast)

Cdn    == Attempt("cdn_fronting", TRUE)
Automatic == Attempt("auto", TRUE)
Direct == Attempt("direct", FALSE)

EscapeHatches == {Cdn, Automatic, Direct}

AddMutant(out, step) == Append(out, step)

\* A pair that was seen is not added again.
Add(out, step) == IF Contains(out, step) THEN out ELSE Append(out, step)

AddEscapeHatches(out) == Add(Add(Add(out, Cdn), Automatic), Direct)

\* The steps of stepsFor(protocol), added one after another.
AddStepsFor(out, protocol) ==
  CASE protocol = "cdn_fronting" -> Add(Add(Add(out, Cdn), Automatic), Direct)
    [] protocol = "auto"         -> Add(Add(out, Cdn), Direct)
    [] protocol = "direct"       -> Add(out, Direct)
    [] protocol = "conduit"      -> out

InternetAwareAttemptsFor(s) ==
  LET first == Add(<< >>, Transport(s))
  IN  AddEscapeHatches(IF s.smart THEN AddStepsFor(first, s.protocol) ELSE first)

(***************************************************************************)
(* The settings the attempts of each coroutine save.                       *)
(***************************************************************************)
ConnectTrials(s) ==
  LET attempts == InternetAwareAttemptsFor(s)
  IN  [n \in DOMAIN attempts |->
         [s EXCEPT !.protocol = attempts[n].protocol, !.beast = attempts[n].beast]]

\* The regions of a phase, the one that stands for any region first.
RegionList == <<AnyRegion>> \o SetToSeq(ScanRegions \ {AnyRegion})

ScanPhase(s, protocol, regions) ==
  [n \in DOMAIN regions |-> [s EXCEPT !.protocol = protocol, !.region = regions[n],
                                      !.beast = protocol # "direct"]]

ScanTrials(s, conduitAllowed) ==
  ScanPhase(s, "direct", RegionList)
    \o ScanPhase(s, "cdn_fronting", RegionList)
    \o (IF conduitAllowed THEN ScanPhase(s, "conduit", <<AnyRegion>>) ELSE << >>)

VARIABLES
  store,      \* AzadiSettingsStore, shared with the service process
  kind,       \* "connect" or "scan"
  pc,         \* each coroutine's suspension point
  original,   \* what it loaded
  trials,     \* the settings it will try
  next,       \* the index of the next trial
  outcome,    \* how it ended
  granted,    \* VpnService.prepare returns null
  listener,   \* startServiceListener: the coroutines it resumes, at most one
  dialogs,    \* permission dialogs that will bring an onActivityResult
  forsaken,   \* history: whose last startTunnel threw, or lost its listener
  selection,  \* history: the transport the user has chosen or connected with
  mixed,      \* history: trials may have been taken for the user's settings
  changes

taskVars == <<kind, pc, original, trials, next, outcome>>
permissionVars == <<granted, listener, dialogs, forsaken>>
historyVars == <<selection, mixed>>
vars == <<store, taskVars, permissionVars, historyVars, changes>>

Active == {c \in Coroutines : pc[c] \notin {"idle", "ended"}}

\* Those that have loaded the settings and save over them.
Holders == {c \in Active : pc[c] # "preparing"}

TypeOK ==
  /\ store \in Settings
  /\ kind \in [Coroutines -> {"connect", "scan"}]
  /\ pc \in [Coroutines -> {"idle", "preparing", "attempt", "startTunnel", "asking",
                            "waiting", "checking", "ended"}]
  /\ original \in [Coroutines -> Settings]
  /\ trials \in [Coroutines -> Seq(Settings)]
  /\ next \in [Coroutines -> Nat]
  /\ outcome \in [Coroutines -> {"none", "blocked", "connected", "exhausted",
                                "failed", "cancelled"}]
  /\ granted \in BOOLEAN
  /\ listener \subseteq Coroutines
  /\ dialogs \in Nat
  /\ forsaken \subseteq Coroutines
  /\ selection \in [protocol : Protocols, beast : BOOLEAN]
  /\ mixed \in BOOLEAN
  /\ changes \in 0..MaxChanges

Init ==
  /\ store \in UserSettings
  /\ kind = [c \in Coroutines |-> "connect"]
  /\ pc = [c \in Coroutines |-> "idle"]
  /\ original = [c \in Coroutines |-> store]
  /\ trials = [c \in Coroutines |-> << >>]
  /\ next = [c \in Coroutines |-> 0]
  /\ outcome = [c \in Coroutines |-> "none"]
  /\ granted \in BOOLEAN
  /\ listener = {}
  /\ dialogs = 0
  /\ forsaken = {}
  /\ selection = Transport(store)
  /\ mixed = FALSE
  /\ changes = 0

Goto(c, place) == pc' = [pc EXCEPT ![c] = place]

End(c, how) ==
  /\ Goto(c, "ended")
  /\ outcome' = [outcome EXCEPT ![c] = how]

Launchable(c) ==
  /\ pc[c] = "idle"
  /\ \A d \in Coroutines : d < c => pc[d] # "idle"

\* The settings are loaded or chosen, while another coroutine may hold them.
Mixes == mixed' = (mixed \/ Holders # {})

(***************************************************************************)
(* The user.                                                               *)
(***************************************************************************)
\* performConnect: the toggle, the retry button, a start of the app, or the
\* effect that reconnects.
LaunchConnect(c) ==
  /\ Launchable(c)
  /\ kind' = [kind EXCEPT ![c] = "connect"]
  /\ Goto(c, "preparing")
  /\ UNCHANGED <<store, original, trials, next, outcome, permissionVars, historyVars, changes>>

\* runScan loads the settings at once.  The button is off while a scan runs.
LaunchScan(c) ==
  /\ Launchable(c)
  /\ \A d \in Active : kind[d] # "scan"
  /\ kind' = [kind EXCEPT ![c] = "scan"]
  /\ original' = [original EXCEPT ![c] = store]
  /\ \E conduitAllowed \in BOOLEAN :
       trials' = [trials EXCEPT ![c] = ScanTrials(store, conduitAllowed)]
  /\ next' = [next EXCEPT ![c] = 1]
  /\ Goto(c, "attempt")
  /\ Mixes
  /\ UNCHANGED <<store, outcome, permissionVars, selection, changes>>

\* onConnectBestClick: applyBest puts a candidate of the last scan, one that
\* came to its end, into the settings; then performConnect.
ConnectBest(c) ==
  /\ Launchable(c)
  /\ \E d \in Coroutines :
       /\ kind[d] = "scan" /\ outcome[d] = "exhausted"
       /\ \A e \in (d + 1)..(c - 1) : kind[e] # "scan"
       /\ \E n \in DOMAIN trials[d] :
            store' = [store EXCEPT !.protocol = trials[d][n].protocol,
                                   !.region = trials[d][n].region,
                                   !.beast = trials[d][n].beast]
  /\ selection' = Transport(store')
  /\ Mixes
  /\ kind' = [kind EXCEPT ![c] = "connect"]
  /\ Goto(c, "preparing")
  /\ UNCHANGED <<original, trials, next, outcome, permissionVars, changes>>

\* onRegionSelected.
Change ==
  /\ changes < MaxChanges
  /\ changes' = changes + 1
  /\ \E r \in Regions \ {store.region} : store' = [store EXCEPT !.region = r]
  /\ UNCHANGED <<taskVars, permissionVars, historyVars>>

\* persist of the settings screen: the screen's copy is saved as a whole, with
\* what the user has chosen there.
Persist ==
  /\ changes < MaxChanges
  /\ changes' = changes + 1
  /\ store' \in UserSettings
  /\ selection' = Transport(store')
  /\ Mixes
  /\ UNCHANGED <<taskVars, permissionVars>>

(***************************************************************************)
(* Steps of a coroutine.                                                   *)
(***************************************************************************)
\* connect's early returns.
Blocked(c) ==
  /\ pc[c] = "preparing"
  /\ End(c, "blocked")
  /\ UNCHANGED <<store, kind, original, trials, next, permissionVars, historyVars, changes>>

\* The start of connectWithInternetVerification.
BeginChain(c) ==
  /\ pc[c] = "preparing"
  /\ original' = [original EXCEPT ![c] = store]
  /\ trials' = [trials EXCEPT ![c] = ConnectTrials(store)]
  /\ next' = [next EXCEPT ![c] = 1]
  /\ Goto(c, "attempt")
  /\ Mixes
  /\ UNCHANGED <<store, kind, outcome, permissionVars, selection, changes>>

\* The trial is saved; a running tunnel is stopped, a delay.
SaveTrial(c) ==
  /\ pc[c] = "attempt"
  /\ next[c] \in DOMAIN trials[c]
  /\ store' = trials[c][next[c]]
  /\ Goto(c, "startTunnel")
  /\ UNCHANGED <<kind, original, trials, next, outcome, permissionVars, historyVars, changes>>

RestoreMutant(c) == UNCHANGED store

\* save(original) at the end of a chain, restore(original) of a scan.
Restore(c) == store' = original[c]

\* No attempt is left.
Exhausted(c) ==
  /\ pc[c] = "attempt"
  /\ next[c] \notin DOMAIN trials[c]
  /\ Restore(c)
  /\ End(c, "exhausted")
  /\ UNCHANGED <<kind, original, trials, next, permissionVars, historyVars, changes>>

NextAttempt(c) ==
  /\ Goto(c, "attempt")
  /\ next' = [next EXCEPT ![c] = @ + 1]

\* startTunnel: the listener of an earlier call is replaced.  With the
\* permission the result is there at once, else a dialog asks for it.  An
\* exception on the way is only logged, and nobody calls the listener.
StartTunnel(c) ==
  /\ pc[c] = "startTunnel"
  /\ LET replaced == (forsaken \cup listener) \ {c}
     IN  \/ /\ granted
            /\ Goto(c, "waiting") /\ listener' = {} /\ UNCHANGED dialogs
            /\ forsaken' = replaced
         \/ /\ ~granted
            /\ Goto(c, "asking") /\ listener' = {c} /\ dialogs' = dialogs + 1
            /\ forsaken' = replaced
         \/ /\ Goto(c, "asking") /\ listener' = {c} /\ UNCHANGED dialogs
            /\ forsaken' = replaced \cup {c}
  /\ UNCHANGED <<store, kind, original, trials, next, outcome, granted, historyVars, changes>>

Resumed(c, ok) ==
  /\ pc' = [pc EXCEPT ![c] = IF ok THEN "waiting" ELSE "attempt"]
  /\ next' = IF ok THEN next ELSE [next EXCEPT ![c] = @ + 1]

OnActivityResultMutant(ok) ==
  /\ dialogs > 0
  /\ dialogs' = dialogs - 1
  /\ granted' = (granted \/ ok)
  /\ listener' = {}
  /\ IF ok /\ listener \cap Active # {}
     THEN \E c \in listener : Resumed(c, ok)
     ELSE UNCHANGED <<pc, next>>
  /\ UNCHANGED <<store, kind, original, trials, outcome, forsaken, historyVars, changes>>

\* The user answers a dialog; the listener resumes its coroutine if that is
\* still active.
OnActivityResult(ok) ==
  /\ dialogs > 0
  /\ dialogs' = dialogs - 1
  /\ granted' = (granted \/ ok)
  /\ listener' = {}
  /\ IF listener \cap Active # {} THEN \E c \in listener : Resumed(c, ok)
     ELSE UNCHANGED <<pc, next>>
  /\ UNCHANGED <<store, kind, original, trials, outcome, forsaken, historyVars, changes>>

\* waitForConnected sees CONNECTED, or its time is over.
Wait(c) ==
  /\ pc[c] = "waiting"
  /\ \/ Goto(c, "checking") /\ UNCHANGED next
     \/ NextAttempt(c)
  /\ UNCHANGED <<store, kind, original, trials, outcome, permissionVars, historyVars, changes>>

\* connect: the internet check passes, and the trial stays.
Verified(c) ==
  /\ pc[c] = "checking"
  /\ kind[c] = "connect"
  /\ selection' = Transport(store)
  /\ End(c, "connected")
  /\ UNCHANGED <<store, kind, original, trials, next, permissionVars, mixed, changes>>

\* connect: it fails.  scan: the speed is measured.  The tunnel is stopped.
Checked(c) ==
  /\ pc[c] = "checking"
  /\ NextAttempt(c)
  /\ UNCHANGED <<store, kind, original, trials, outcome, permissionVars, historyVars, changes>>

\* An exception ends a scan: restore.
ScanFails(c) ==
  /\ pc[c] = "checking"
  /\ kind[c] = "scan"
  /\ Restore(c)
  /\ End(c, "failed")
  /\ UNCHANGED <<kind, original, trials, next, permissionVars, historyVars, changes>>

\* The effect that reconnects is restarted and cancels its connect where it is
\* suspended, or the composition ends and cancels all.  Only a scan catches that.
Cancel(C) ==
  /\ C # {}
  /\ \/ C = Active
     \/ \E c \in Active : C = {c} /\ kind[c] = "connect"
  /\ \/ \E c \in C : kind[c] = "scan" /\ Restore(c)
     \/ (\A c \in C : kind[c] = "connect") /\ UNCHANGED store
  /\ pc' = [c \in Coroutines |-> IF c \in C THEN "ended" ELSE pc[c]]
  /\ outcome' = [c \in Coroutines |-> IF c \in C THEN "cancelled" ELSE outcome[c]]
  /\ mixed' = (mixed \/ \E c \in C \cap Holders : kind[c] = "connect")
  /\ UNCHANGED <<kind, original, trials, next, permissionVars, selection, changes>>

Step(c) ==
  \/ Blocked(c) \/ BeginChain(c) \/ SaveTrial(c) \/ Exhausted(c) \/ StartTunnel(c)
  \/ Wait(c) \/ Verified(c) \/ Checked(c) \/ ScanFails(c)

Next ==
  \/ \E c \in Coroutines : LaunchConnect(c) \/ LaunchScan(c) \/ ConnectBest(c)
                            \/ Step(c)
  \/ \E C \in SUBSET Coroutines : Cancel(C)
  \/ \E ok \in BOOLEAN : OnActivityResult(ok)
  \/ Change \/ Persist

\* The main thread resumes a coroutine whose call returned; delays, waits and
\* checks have time limits (startTunnel has none); the user answers a dialog.
Fairness ==
  /\ \A c \in Coroutines : WF_vars(Step(c))
  /\ WF_vars(\E ok \in BOOLEAN : OnActivityResult(ok))

Spec == Init /\ [][Next]_vars /\ Fairness

(***************************************************************************)
(* Properties.                                                             *)
(***************************************************************************)
\* "Ordered connection attempts: user selection first": the first attempt of a
\* connect is made with the transport the user chose or last connected with,
\* after any scans (cancelled ones too), failed chains, connections and changes
\* in the settings, unless settings were loaded or chosen while another
\* coroutine had its trials stored, or a chain was cancelled on its way.
SelectionFirstUnlessMixed ==
  [][\A c \in Coroutines :
       (pc[c] = "preparing" /\ pc'[c] = "attempt" /\ ~mixed')
         => Transport(trials'[c][1]) = selection]_vars

\* internetAwareAttemptsFor: a chain tries the settings it finds first, every
\* escape hatch, and nothing twice.
ChainIsComplete ==
  \A c \in Coroutines :
    (kind[c] = "connect" /\ trials[c] # << >>) =>
      LET tried == [n \in DOMAIN trials[c] |-> Transport(trials[c][n])]
      IN  /\ trials[c][1] = original[c]
          /\ \A hatch \in EscapeHatches : Contains(tried, hatch)
          /\ \A m, n \in DOMAIN tried : tried[m] = tried[n] => m = n

\* A coroutine ends, whatever the dialogs are answered and however coroutines
\* overlap, unless it is left waiting in startTunnel, which has no time limit:
\* another coroutine's call has replaced its listener, or its own call threw.
CoroutinesEnd ==
  \A c \in Coroutines :
    c \in Active ~> (pc[c] = "ended" \/ (pc[c] = "asking" /\ c \in forsaken))
=============================================================================
