------------------------- MODULE ControllersProofs --------------------------
(***************************************************************************)
(* A chain of attempts is complete, however coroutines interleave; and it  *)
(* begins with the user's selection unless coroutines have mixed up trials *)
(* and settings: for any settings, regions and number of coroutines.       *)
(***************************************************************************)
EXTENDS Controllers, SequenceTheorems, FiniteSetTheorems, TLAPS

\* The listener belongs to one coroutine, which waits for it unless it ended.
ListenerIsAsking ==
  /\ \A c, d \in listener : c = d
  /\ \A c \in listener : pc[c] \in {"asking", "ended"}

\* A chain goes through the attempts for the settings it found.
ChainFromOriginal ==
  \A c \in Coroutines :
    /\ pc[c] \in {"idle", "preparing"} => trials[c] = << >>
    /\ pc[c] = "preparing" => kind[c] = "connect"
    /\ kind[c] = "connect" /\ trials[c] # << >> => trials[c] = ConnectTrials(original[c])

IInv ==
  /\ TypeOK
  /\ ListenerIsAsking
  /\ ChainFromOriginal

-----------------------------------------------------------------------------
(* The attempts. *)

\* A function on 1..n is a sequence.
LEMMA FunctionIsSeq ==
  ASSUME NEW S, NEW n \in Nat, NEW f \in [1..n -> S]
  PROVE  f \in Seq(S) /\ Len(f) = n /\ DOMAIN f = 1..n
  OBVIOUS

Attempts == [protocol : Protocols, beast : BOOLEAN]

\* A list of attempts that begins with u and has none twice.
Chain(out, u) ==
  /\ out \in Seq(Attempts)
  /\ out # << >>
  /\ out[1] = u
  /\ \A m, n \in DOMAIN out : out[m] = out[n] => m = n

\* Adding an attempt keeps the list a chain with all it had, and has the new one.
LEMMA AddChain ==
  ASSUME NEW u, NEW out, Chain(out, u), NEW step \in Attempts
  PROVE  /\ Chain(Add(out, step), u)
         /\ Contains(Add(out, step), step)
         /\ \A x : Contains(out, x) => Contains(Add(out, step), x)
<1>1. CASE Contains(out, step)
  BY <1>1 DEF Add
<1>2. CASE ~Contains(out, step)
  <2> DEFINE new == Append(out, step)
  <2>1. /\ new \in Seq(Attempts) /\ new # << >>
        /\ DOMAIN new = 1..(Len(out) + 1) /\ Len(new) = Len(out) + 1
        /\ DOMAIN out = 1..Len(out) /\ Len(out) \in Nat \ {0}
        /\ \A i \in 1..Len(out) : new[i] = out[i]
        /\ new[Len(out) + 1] = step
    BY AppendProperties, LenProperties, EmptySeq DEF Chain
  <2>2. Add(out, step) = new
    BY <1>2 DEF Add
  <2> HIDE DEF new
  <2>3. \A i \in 1..Len(out) : out[i] # step
    BY <1>2 DEF Contains
  <2>4. \A m, n \in DOMAIN new : new[m] = new[n] => m = n
    BY <2>1, <2>3 DEF Chain
  <2>5. Chain(new, u)
    BY <2>1, <2>4 DEF Chain
  <2>6. Contains(new, step) /\ \A x : Contains(out, x) => Contains(new, x)
    BY <2>1 DEF Contains
  <2> QED BY <2>2, <2>5, <2>6
<1> QED BY <1>1, <1>2

\* internetAwareAttemptsFor: the user's selection first, every escape hatch,
\* nothing twice.
LEMMA AttemptsChain ==
  ASSUME NEW s \in Settings
  PROVE  /\ Chain(InternetAwareAttemptsFor(s), Transport(s))
         /\ \A hatch \in EscapeHatches : Contains(InternetAwareAttemptsFor(s), hatch)
<1> DEFINE u == Transport(s)
           first == Add(<< >>, u)
           smart == IF s.smart THEN AddStepsFor(first, s.protocol) ELSE first
<1>1. u \in Attempts /\ Cdn \in Attempts /\ Automatic \in Attempts /\ Direct \in Attempts
  BY DEF Settings, Attempts, Attempt, Transport, Cdn, Automatic, Direct, Protocols
<1> HIDE DEF u
<1>2. Chain(first, u)
  <2>1. first = <<u>>
    BY DEF Add, Contains
  <2>2. <<u>> \in Seq(Attempts) /\ <<u>> # << >> /\ <<u>>[1] = u /\ DOMAIN <<u>> = {1}
    BY <1>1
  <2> QED BY <2>1, <2>2 DEF Chain
<1> HIDE DEF first
<1>3. Chain(smart, u)
  <2>1. Chain(Add(first, Cdn), u) /\ Chain(Add(first, Direct), u)
    BY <1>1, <1>2, AddChain
  <2>2. Chain(Add(Add(first, Cdn), Direct), u) /\ Chain(Add(Add(first, Cdn), Automatic), u)
    BY <1>1, <2>1, AddChain
  <2>3. Chain(Add(Add(Add(first, Cdn), Automatic), Direct), u)
    BY <1>1, <2>2, AddChain
  <2>4. s.protocol \in Protocols
    BY DEF Settings
  <2>5. Chain(AddStepsFor(first, s.protocol), u)
    BY <1>2, <2>1, <2>2, <2>3, <2>4 DEF AddStepsFor, Protocols
  <2> QED BY <1>2, <2>5
<1> HIDE DEF smart
<1>4. Chain(Add(smart, Cdn), u) /\ Contains(Add(smart, Cdn), Cdn)
  BY <1>1, <1>3, AddChain
<1>5. /\ Chain(Add(Add(smart, Cdn), Automatic), u)
      /\ Contains(Add(Add(smart, Cdn), Automatic), Cdn) /\ Contains(Add(Add(smart, Cdn), Automatic), Automatic)
  BY <1>1, <1>4, AddChain
<1>6. /\ Chain(AddEscapeHatches(smart), u)
      /\ Contains(AddEscapeHatches(smart), Cdn) /\ Contains(AddEscapeHatches(smart), Automatic)
      /\ Contains(AddEscapeHatches(smart), Direct)
  BY <1>1, <1>5, AddChain DEF AddEscapeHatches
<1> QED BY <1>6 DEF InternetAwareAttemptsFor, EscapeHatches, smart, first, u

-----------------------------------------------------------------------------
(* The trials. *)

LEMMA ConnectTrialsChain ==
  ASSUME NEW s \in Settings
  PROVE  /\ ConnectTrials(s) \in Seq(Settings)
         /\ LET tried == [n \in DOMAIN ConnectTrials(s) |-> Transport(ConnectTrials(s)[n])]
            IN  /\ ConnectTrials(s)[1] = s
                /\ \A hatch \in EscapeHatches : Contains(tried, hatch)
                /\ \A m, n \in DOMAIN tried : tried[m] = tried[n] => m = n
<1> DEFINE attempts == InternetAwareAttemptsFor(s)
           tried == [n \in DOMAIN ConnectTrials(s) |-> Transport(ConnectTrials(s)[n])]
<1>1. /\ Chain(attempts, Transport(s))
      /\ \A hatch \in EscapeHatches : Contains(attempts, hatch)
  BY AttemptsChain
<1> HIDE DEF attempts
<1>2. attempts \in Seq(Attempts) /\ Len(attempts) \in Nat \ {0} /\ DOMAIN attempts = 1..Len(attempts)
  BY <1>1, LenProperties, EmptySeq DEF Chain
<1>3. \A n \in 1..Len(attempts) : attempts[n] \in Attempts
  BY <1>2, ElementOfSeq
<1>4. ConnectTrials(s) =
        [n \in 1..Len(attempts) |->
           [s EXCEPT !.protocol = attempts[n].protocol, !.beast = attempts[n].beast]]
  BY <1>2 DEF ConnectTrials, attempts
<1>5. ASSUME NEW n \in 1..Len(attempts)
      PROVE  /\ ConnectTrials(s)[n] \in Settings
             /\ ConnectTrials(s)[n].protocol = attempts[n].protocol
             /\ ConnectTrials(s)[n].beast = attempts[n].beast
             /\ ConnectTrials(s)[n].region = s.region
             /\ ConnectTrials(s)[n].smart = s.smart
             /\ tried[n] = attempts[n]
  BY <1>3, <1>4, <1>5 DEF Settings, Attempts, Attempt, Transport
<1>6. ConnectTrials(s) \in Seq(Settings)
  <2>1. \A n \in 1..Len(attempts) :
          [s EXCEPT !.protocol = attempts[n].protocol, !.beast = attempts[n].beast] \in Settings
    BY <1>3 DEF Settings, Attempts
  <2>2. ConnectTrials(s) \in [1..Len(attempts) -> Settings]
    BY <1>4, <2>1
  <2> QED BY <1>2, <2>2, FunctionIsSeq
<1>7. ConnectTrials(s)[1] = s
  <2>1. attempts[1] = Transport(s)
    BY <1>1 DEF Chain
  <2>2. ConnectTrials(s)[1] = [s EXCEPT !.protocol = s.protocol, !.beast = s.beast]
    <3>1. attempts[1].protocol = s.protocol /\ attempts[1].beast = s.beast
      BY <2>1 DEF Attempt, Transport
    <3>2. 1 \in 1..Len(attempts)
      BY <1>2
    <3>3. ConnectTrials(s)[1]
            = [s EXCEPT !.protocol = attempts[1].protocol, !.beast = attempts[1].beast]
      BY <1>4, <3>2, Zenon
    <3> QED BY <3>1, <3>3
  <2> QED BY <2>2 DEF Settings
<1>8. tried = attempts
  <2>1. DOMAIN ConnectTrials(s) = 1..Len(attempts)
    BY <1>4
  <2>2. \A n \in 1..Len(attempts) : tried[n] = attempts[n] /\ tried[n] \in Attempts
    BY <1>3, <1>5
  <2>3. tried = [n \in 1..Len(attempts) |-> tried[n]]
    BY <2>1
  <2> HIDE DEF tried
  <2>4. tried \in Seq(Attempts) /\ Len(tried) = Len(attempts)
    BY <1>2, <2>2, <2>3
  <2> QED BY <1>2, <2>2, <2>4, SeqEqual
<1> QED BY <1>1, <1>6, <1>7, <1>8 DEF Chain

LEMMA RegionListType == RegionList \in Seq(Regions)
<1> DEFINE S == ScanRegions \ {AnyRegion}
<1>1. IsFiniteSet(S) /\ S \subseteq Regions /\ AnyRegion \in Regions
  BY ControllersAssumption, FS_Difference
<1>2. \E f \in [1..Cardinality(S) -> S] : IsInjective(f)
  BY <1>1, FS_CardinalityType DEF ExistsBijection, Bijection, Injection, IsInjective
<1>3. SetToSeq(S) \in [1..Cardinality(S) -> S]
  BY <1>2 DEF SetToSeq
<1>4. Cardinality(S) \in Nat
  BY <1>1, FS_CardinalityType
<1>5. SetToSeq(S) \in Seq(Regions)
  <2>1. SetToSeq(S) \in [1..Cardinality(S) -> Regions]
    BY <1>1, <1>3
  <2> QED BY <1>4, <2>1, FunctionIsSeq
<1> QED BY <1>1, <1>5, ConcatProperties DEF RegionList

LEMMA ScanTrialsType ==
  ASSUME NEW s \in Settings, NEW conduitAllowed \in BOOLEAN
  PROVE  ScanTrials(s, conduitAllowed) \in Seq(Settings)
<1>1. ASSUME NEW p \in Protocols, NEW r \in Seq(Regions) PROVE ScanPhase(s, p, r) \in Seq(Settings)
  <2>1. DOMAIN r = 1..Len(r) /\ Len(r) \in Nat /\ \A n \in 1..Len(r) : r[n] \in Regions
    BY LenProperties, ElementOfSeq
  <2>2. \A n \in 1..Len(r) :
          [s EXCEPT !.protocol = p, !.region = r[n], !.beast = p # "direct"] \in Settings
    BY <2>1 DEF Settings
  <2>3. ScanPhase(s, p, r) \in [1..Len(r) -> Settings]
    BY <2>1, <2>2 DEF ScanPhase
  <2> QED BY <2>1, <2>3, FunctionIsSeq
<1>2. RegionList \in Seq(Regions) /\ <<AnyRegion>> \in Seq(Regions)
  BY RegionListType, ControllersAssumption
<1>3. /\ ScanPhase(s, "direct", RegionList) \in Seq(Settings)
      /\ ScanPhase(s, "cdn_fronting", RegionList) \in Seq(Settings)
      /\ ScanPhase(s, "conduit", <<AnyRegion>>) \in Seq(Settings)
  BY <1>1, <1>2 DEF Protocols
<1> QED BY <1>3, ConcatProperties, EmptySeq DEF ScanTrials

-----------------------------------------------------------------------------
(* Every step preserves the invariant. *)

LEMMA TransportType == \A s \in Settings : Transport(s) \in Attempts
BY DEF Transport, Attempt, Attempts, Settings

LEMMA InitIInv == Init => IInv
<1> SUFFICES ASSUME Init PROVE IInv
  OBVIOUS
<1> USE DEF Init
<1>1. TypeOK
  <2>1. store \in Settings /\ 0 \in 0..MaxChanges /\ << >> \in Seq(Settings)
    BY ControllersAssumption, EmptySeq
  <2> QED BY <2>1, TransportType DEF TypeOK, Attempts
<1>2. ListenerIsAsking /\ ChainFromOriginal
  BY DEF ListenerIsAsking, ChainFromOriginal
<1> QED BY <1>1, <1>2 DEF IInv

\* The history stays a truth value.
LEMMA MixedType ==
  ASSUME TypeOK, Mixes \/ UNCHANGED mixed \/ \E C \in SUBSET Coroutines : Cancel(C)
  PROVE  mixed' \in BOOLEAN
BY DEF TypeOK, Mixes, Cancel

LEMMA LaunchIInv ==
  ASSUME IInv, NEW c \in Coroutines, LaunchConnect(c) \/ LaunchScan(c) \/ ConnectBest(c)
  PROVE  IInv'
<1> USE DEF IInv
<1>1. /\ pc[c] = "idle" /\ c \notin listener /\ trials[c] = << >>
      /\ pc' \in {[pc EXCEPT ![c] = "preparing"], [pc EXCEPT ![c] = "attempt"]}
      /\ UNCHANGED <<outcome, permissionVars, changes>>
  BY DEF LaunchConnect, LaunchScan, ConnectBest, Launchable, Goto, ListenerIsAsking,
     ChainFromOriginal
<1>2. TypeOK'
  <2>0. mixed' \in BOOLEAN
    BY MixedType DEF LaunchConnect, LaunchScan, ConnectBest, historyVars
  <2>1. pc' \in [Coroutines -> {"idle", "preparing", "attempt", "startTunnel", "asking",
                                "waiting", "checking", "ended"}]
    BY <1>1 DEF TypeOK
  <2>2. CASE LaunchConnect(c)
    BY <1>1, <2>0, <2>1, <2>2 DEF LaunchConnect, TypeOK, permissionVars, historyVars
  <2>3. CASE LaunchScan(c)
    BY <1>1, <2>0, <2>1, <2>3, ScanTrialsType DEF LaunchScan, TypeOK, permissionVars
  <2>4. CASE ConnectBest(c)
    <3>0. PICK d \in Coroutines : \E n \in DOMAIN trials[d] :
            store' = [store EXCEPT !.protocol = trials[d][n].protocol,
                                   !.region = trials[d][n].region,
                                   !.beast = trials[d][n].beast]
      BY <2>4 DEF ConnectBest
    <3>1. PICK n \in DOMAIN trials[d] :
            store' = [store EXCEPT !.protocol = trials[d][n].protocol,
                                   !.region = trials[d][n].region,
                                   !.beast = trials[d][n].beast]
      BY <3>0
    <3>2. trials[d][n] \in Settings
      BY ElementOfSeq DEF TypeOK
    <3>3. store' \in Settings
      BY <3>1, <3>2 DEF TypeOK, Settings
    <3>4. selection' \in Attempts
      BY <2>4, <3>3, TransportType DEF ConnectBest
    <3> QED BY <1>1, <2>0, <2>1, <2>4, <3>3, <3>4 DEF ConnectBest, TypeOK, permissionVars, Attempts
  <2> QED BY <2>2, <2>3, <2>4
<1>3. ListenerIsAsking'
  BY <1>1 DEF TypeOK, ListenerIsAsking, permissionVars
<1>4. ChainFromOriginal'
  <2>1. CASE LaunchScan(c)
    BY <1>1, <2>1 DEF TypeOK, ChainFromOriginal, LaunchScan, Goto
  <2>2. CASE LaunchConnect(c) \/ ConnectBest(c)
    <3>1. /\ pc' = [pc EXCEPT ![c] = "preparing"] /\ kind' = [kind EXCEPT ![c] = "connect"]
          /\ UNCHANGED <<original, trials>>
      BY <2>2 DEF LaunchConnect, ConnectBest, Goto
    <3> QED BY <1>1, <3>1 DEF TypeOK, ChainFromOriginal
  <2> QED BY <2>1, <2>2
<1> QED BY <1>2, <1>3, <1>4

LEMMA ChangeIInv == IInv /\ Change => IInv'
<1> SUFFICES ASSUME IInv, Change PROVE IInv'
  OBVIOUS
<1> USE DEF IInv, Change, taskVars, permissionVars, historyVars
<1>1. changes' \in 0..MaxChanges
  BY ControllersAssumption DEF TypeOK
<1>2. PICK r \in Regions : store' = [store EXCEPT !.region = r]
  OBVIOUS
<1>3. store' \in Settings
  BY <1>2 DEF TypeOK, Settings
<1>4. TypeOK'
  BY <1>1, <1>3 DEF TypeOK
<1>5. ListenerIsAsking' /\ ChainFromOriginal'
  BY DEF ListenerIsAsking, ChainFromOriginal
<1> QED BY <1>4, <1>5

LEMMA PersistIInv == IInv /\ Persist => IInv'
<1> SUFFICES ASSUME IInv, Persist PROVE IInv'
  OBVIOUS
<1> USE DEF IInv, Persist, taskVars, permissionVars
<1>1. changes' \in 0..MaxChanges
  BY ControllersAssumption DEF TypeOK
<1>2. store' \in Settings /\ selection' \in Attempts
  BY ControllersAssumption, TransportType
<1>3. mixed' \in BOOLEAN
  BY MixedType
<1>4. TypeOK'
  BY <1>1, <1>2, <1>3 DEF TypeOK, Attempts
<1>5. ListenerIsAsking' /\ ChainFromOriginal'
  BY DEF ListenerIsAsking, ChainFromOriginal
<1> QED BY <1>4, <1>5

\* A coroutine goes from one suspension to the next without touching the
\* settings and its list.
LEMMA MoveIInv ==
  ASSUME IInv, NEW c \in Active, NEW place,
         place \in {"attempt", "startTunnel", "asking", "waiting", "checking"},
         Goto(c, place), next' \in {next, [next EXCEPT ![c] = @ + 1]},
         listener' \subseteq listener \cup {c}, \A d, e \in listener' : d = e,
         place # "asking" => c \notin listener',
         dialogs' \in Nat, granted' \in BOOLEAN, forsaken' \subseteq Coroutines,
         pc[c] # "preparing",
         UNCHANGED <<store, kind, original, trials, outcome, selection, mixed, changes>>
  PROVE  IInv'
<1> USE DEF IInv, Goto
<1>1. c \in Coroutines /\ pc[c] \notin {"idle", "ended"}
  BY DEF Active
<1>2. TypeOK'
  <2>1. /\ next \in [Coroutines -> Nat] /\ [next EXCEPT ![c] = @ + 1] \in [Coroutines -> Nat]
        /\ listener' \subseteq Coroutines
    BY <1>1 DEF TypeOK
  <2>2. pc' \in [Coroutines -> {"idle", "preparing", "attempt", "startTunnel", "asking",
                               "waiting", "checking", "ended"}]
    BY <1>1 DEF TypeOK
  <2> QED BY <2>1, <2>2 DEF TypeOK
<1>3. ListenerIsAsking'
  BY <1>1 DEF TypeOK, ListenerIsAsking
<1>4. ChainFromOriginal'
  BY <1>1 DEF TypeOK, ChainFromOriginal
<1> QED BY <1>2, <1>3, <1>4

\* Some coroutines end, and the settings stay or are put back.
LEMMA EndIInv ==
  ASSUME IInv, NEW C, C \subseteq Active,
         NEW how \in {"blocked", "connected", "exhausted", "failed", "cancelled"},
         pc' = [c \in Coroutines |-> IF c \in C THEN "ended" ELSE pc[c]],
         outcome' = [c \in Coroutines |-> IF c \in C THEN how ELSE outcome[c]],
         store' \in Settings, selection' \in Attempts, mixed' \in BOOLEAN,
         UNCHANGED <<kind, original, trials, next, permissionVars, changes>>
  PROVE  IInv'
<1> USE DEF IInv, permissionVars
<1>1. \A c \in C : c \in Coroutines /\ pc[c] \notin {"idle", "ended"}
  BY DEF Active
<1>2. TypeOK'
  BY <1>1 DEF TypeOK, Attempts
<1>3. ListenerIsAsking' /\ ChainFromOriginal'
  BY <1>1 DEF TypeOK, ListenerIsAsking, ChainFromOriginal
<1> QED BY <1>2, <1>3

LEMMA EndOneIInv ==
  ASSUME IInv, NEW c \in Active,
         NEW how \in {"blocked", "connected", "exhausted", "failed"},
         End(c, how), store' \in {store, original[c]}, selection' \in {selection, Transport(store)},
         UNCHANGED <<kind, original, trials, next, permissionVars, mixed, changes>>
  PROVE  IInv'
<1>1. c \in Coroutines /\ {c} \subseteq Active
  BY DEF Active
<1>2. /\ pc' = [d \in Coroutines |-> IF d \in {c} THEN "ended" ELSE pc[d]]
      /\ outcome' = [d \in Coroutines |-> IF d \in {c} THEN how ELSE outcome[d]]
  BY <1>1 DEF End, Goto, IInv, TypeOK
<1>3. store' \in Settings /\ selection' \in Attempts /\ mixed' \in BOOLEAN
  BY <1>1, TransportType DEF IInv, TypeOK, Attempts
<1> QED BY <1>1, <1>2, <1>3, EndIInv

LEMMA CancelIInv ==
  ASSUME IInv, NEW C \in SUBSET Coroutines, Cancel(C)
  PROVE  IInv'
<1>1. C \subseteq Active
  BY DEF Cancel
<1>2. store' \in Settings /\ selection' \in Attempts
  BY DEF Cancel, Restore, IInv, TypeOK, Attempts
<1>3. mixed' \in BOOLEAN
  BY MixedType DEF IInv
<1> QED BY <1>1, <1>2, <1>3, EndIInv DEF Cancel

\* The chain is made for the settings that are stored when it begins.
LEMMA BeginChainIInv ==
  ASSUME IInv, NEW c \in Coroutines, BeginChain(c)
  PROVE  IInv'
<1> USE DEF IInv, BeginChain, Goto, permissionVars
<1>1. ConnectTrials(store) \in Seq(Settings)
  BY ConnectTrialsChain DEF TypeOK
<1>2. mixed' \in BOOLEAN
  BY MixedType
<1>3. TypeOK'
  BY <1>1, <1>2 DEF TypeOK
<1>4. ListenerIsAsking'
  BY DEF TypeOK, ListenerIsAsking
<1>5. ChainFromOriginal'
  BY DEF TypeOK, ChainFromOriginal
<1> QED BY <1>3, <1>4, <1>5

LEMMA SaveTrialIInv ==
  ASSUME IInv, NEW c \in Coroutines, SaveTrial(c)
  PROVE  IInv'
<1> USE DEF IInv, SaveTrial, Goto, permissionVars, historyVars
<1>1. store' \in Settings
  BY ElementOfSeq DEF TypeOK
<1>2. TypeOK'
  BY <1>1 DEF TypeOK
<1>3. ListenerIsAsking' /\ ChainFromOriginal'
  BY DEF TypeOK, ListenerIsAsking, ChainFromOriginal
<1> QED BY <1>2, <1>3

LEMMA StepIInv ==
  ASSUME IInv, NEW c \in Coroutines, Step(c)
  PROVE  IInv'
<1> USE DEF permissionVars, historyVars
<1>0. ASSUME pc[c] \notin {"idle", "ended"} PROVE c \in Active
  BY <1>0 DEF Active
<1>1. CASE Blocked(c)
  BY <1>0, <1>1, EndOneIInv DEF Blocked
<1>2. CASE BeginChain(c)
  BY <1>2, BeginChainIInv
<1>3. CASE SaveTrial(c)
  BY <1>3, SaveTrialIInv
<1>4. CASE Exhausted(c)
  BY <1>0, <1>4, EndOneIInv DEF Exhausted, Restore
<1>5. CASE StartTunnel(c)
  <2>1. pc[c] = "startTunnel" /\ c \in Active
    BY <1>0, <1>5 DEF StartTunnel
  <2>2. /\ granted' \in BOOLEAN /\ dialogs' \in Nat /\ forsaken' \subseteq Coroutines
        /\ next' = next
        /\ UNCHANGED <<store, kind, original, trials, outcome, selection, mixed, changes>>
    BY <1>5 DEF StartTunnel, IInv, TypeOK
  <2>3. \/ Goto(c, "waiting") /\ listener' = {}
        \/ Goto(c, "asking") /\ listener' = {c}
    BY <1>5 DEF StartTunnel
  <2> QED BY <2>1, <2>2, <2>3, MoveIInv
<1>6. ASSUME pc[c] \in {"waiting", "checking"}, NEW place \in {"attempt", "checking"}, Goto(c, place),
             next' \in {next, [next EXCEPT ![c] = @ + 1]},
             UNCHANGED <<store, kind, original, trials, outcome, permissionVars, selection, mixed, changes>>
      PROVE  IInv'
  <2>1. c \notin listener /\ c \in Active
    BY <1>0, <1>6 DEF IInv, ListenerIsAsking
  <2>2. dialogs' \in Nat /\ granted' \in BOOLEAN /\ listener' = listener
        /\ forsaken' \subseteq Coroutines
        /\ \A d, e \in listener : d = e
    BY <1>6 DEF IInv, TypeOK, ListenerIsAsking
  <2> QED BY <1>6, <2>1, <2>2, MoveIInv
<1>7. CASE Wait(c)
  BY <1>6, <1>7 DEF Wait, NextAttempt
<1>8. CASE Verified(c)
  BY <1>0, <1>8, EndOneIInv DEF Verified
<1>9. CASE Checked(c)
  BY <1>6, <1>9 DEF Checked, NextAttempt
<1>10. CASE ScanFails(c)
  BY <1>0, <1>10, EndOneIInv DEF ScanFails, Restore
<1> QED BY <1>1, <1>2, <1>3, <1>4, <1>5, <1>7, <1>8, <1>9, <1>10 DEF Step

\* The answer goes to the coroutine of the last dialog, or to nobody.
LEMMA OnActivityResultIInv ==
  ASSUME IInv, NEW ok \in BOOLEAN, OnActivityResult(ok)
  PROVE  IInv'
<1>1. /\ dialogs' \in Nat /\ granted' \in BOOLEAN /\ listener' = {} /\ forsaken' \subseteq Coroutines
      /\ UNCHANGED <<store, kind, original, trials, outcome, selection, mixed, changes>>
  BY DEF IInv, TypeOK, OnActivityResult, historyVars
<1>2. CASE listener \cap Active # {}
  <2>1. PICK c \in listener : Resumed(c, ok)
    BY <1>2 DEF OnActivityResult
  <2>2. c \in Active /\ pc[c] = "asking"
    BY <1>2 DEF IInv, ListenerIsAsking, Active
  <2>3. /\ Goto(c, IF ok THEN "waiting" ELSE "attempt")
        /\ next' = IF ok THEN next ELSE [next EXCEPT ![c] = @ + 1]
    BY <2>1 DEF Resumed, Goto
  <2>4. CASE ok
    BY <1>1, <2>2, <2>3, <2>4, MoveIInv
  <2>5. CASE ~ok
    BY <1>1, <2>2, <2>3, <2>5, MoveIInv
  <2> QED BY <2>4, <2>5
<1>3. CASE listener \cap Active = {}
  <2>1. UNCHANGED <<pc, next>>
    BY <1>3 DEF OnActivityResult
  <2> USE DEF IInv
  <2>2. TypeOK' /\ ListenerIsAsking' /\ ChainFromOriginal'
    BY <1>1, <2>1 DEF TypeOK, ListenerIsAsking, ChainFromOriginal
  <2> QED BY <2>2
<1> QED BY <1>2, <1>3

LEMMA NextIInv == IInv /\ [Next]_vars => IInv'
<1> SUFFICES ASSUME IInv, [Next]_vars PROVE IInv'
  OBVIOUS
<1>1. ASSUME NEW c \in Coroutines, LaunchConnect(c) \/ LaunchScan(c) \/ ConnectBest(c)
      PROVE  IInv'
  BY <1>1, LaunchIInv
<1>2. ASSUME NEW c \in Coroutines, Step(c) PROVE IInv'
  BY <1>2, StepIInv
<1>3. ASSUME NEW C \in SUBSET Coroutines, Cancel(C) PROVE IInv'
  BY <1>3, CancelIInv
<1>4. ASSUME NEW ok \in BOOLEAN, OnActivityResult(ok) PROVE IInv'
  BY <1>4, OnActivityResultIInv
<1>5. CASE Change \/ Persist
  BY <1>5, ChangeIInv, PersistIInv
<1>6. CASE UNCHANGED vars
  BY <1>6 DEF vars, taskVars, permissionVars, historyVars, IInv, TypeOK, ListenerIsAsking, ChainFromOriginal
<1> QED BY <1>1, <1>2, <1>3, <1>4, <1>5, <1>6 DEF Next

-----------------------------------------------------------------------------
(* The user's selection. *)

\* The user's selection is what is stored, or what the one coroutine that has
\* saved its trials over it will put back, unless they have been mixed up.
SelectionIsKept ==
  ~mixed =>
    /\ \A c, d \in Holders : c = d
    /\ Holders = {} => Transport(store) = selection
    /\ \A c \in Holders : Transport(original[c]) = selection

LEMMA InitKept == Init => SelectionIsKept
BY DEF Init, SelectionIsKept, Holders, Active

\* Nothing that matters to the selection happens.
LEMMA SameKept ==
  ASSUME SelectionIsKept, Holders' = Holders, ~mixed' => ~mixed, UNCHANGED <<original, selection>>,
         Holders = {} => Transport(store') = Transport(store)
  PROVE  SelectionIsKept'
BY DEF SelectionIsKept

\* Somebody takes hold of the settings.
LEMMA TakeKept ==
  ASSUME SelectionIsKept, NEW c, Mixes, Holders' = Holders \cup {c},
         UNCHANGED <<store, selection>>, original'[c] = store
  PROVE  SelectionIsKept'
<1> SUFFICES ASSUME ~mixed' PROVE SelectionIsKept'
  BY DEF SelectionIsKept
<1>1. ~mixed /\ Holders = {}
  BY DEF Mixes
<1>2. Holders' = {c} /\ Transport(original'[c]) = selection'
  BY <1>1 DEF SelectionIsKept
<1> QED BY <1>2 DEF SelectionIsKept

\* The user chooses while nobody holds the settings.
LEMMA ChooseKept ==
  ASSUME SelectionIsKept, Mixes, Holders' = Holders, selection' = Transport(store')
  PROVE  SelectionIsKept'
BY DEF SelectionIsKept, Mixes

LEMMA LaunchKept ==
  ASSUME IInv, SelectionIsKept, NEW c \in Coroutines,
         LaunchConnect(c) \/ LaunchScan(c) \/ ConnectBest(c)
  PROVE  SelectionIsKept'
<1>1. pc[c] = "idle"
  BY DEF LaunchConnect, LaunchScan, ConnectBest, Launchable
<1>2. ASSUME Goto(c, "preparing") PROVE Holders' = Holders
  BY <1>1, <1>2 DEF Goto, Holders, Active, IInv, TypeOK
<1>3. CASE LaunchConnect(c)
  BY <1>2, <1>3, SameKept DEF LaunchConnect, historyVars
<1>4. CASE LaunchScan(c)
  <2>1. Holders' = Holders \cup {c} /\ original'[c] = store
    BY <1>1, <1>4 DEF LaunchScan, Goto, Holders, Active, IInv, TypeOK
  <2> QED BY <1>4, <2>1, TakeKept DEF LaunchScan
<1>5. CASE ConnectBest(c)
  BY <1>2, <1>5, ChooseKept DEF ConnectBest
<1> QED BY <1>3, <1>4, <1>5

\* A holder moves on: the selection stays where it was.
LEMMA MoveKept ==
  ASSUME IInv, SelectionIsKept, NEW c \in Holders,
         NEW place \in {"attempt", "startTunnel", "asking", "waiting", "checking"},
         Goto(c, place), UNCHANGED <<original, selection, mixed>>
  PROVE  SelectionIsKept'
<1>1. Holders' = Holders /\ Holders # {}
  BY DEF Holders, Active, Goto, IInv, TypeOK
<1> QED BY <1>1, SameKept

\* It ends: what is stored then is the selection.
LEMMA EndKept ==
  ASSUME IInv, SelectionIsKept, NEW c \in Holders, NEW how, End(c, how), UNCHANGED mixed,
         ~mixed => Transport(store') = selection'
  PROVE  SelectionIsKept'
<1> SUFFICES ASSUME ~mixed PROVE SelectionIsKept'
  BY DEF SelectionIsKept
<1>1. Holders' = {}
  BY DEF Holders, Active, SelectionIsKept, End, Goto, IInv, TypeOK
<1> QED BY <1>1 DEF SelectionIsKept

LEMMA StepKept ==
  ASSUME IInv, SelectionIsKept, NEW c \in Coroutines, Step(c)
  PROVE  SelectionIsKept'
<1> USE DEF historyVars
<1>0. ASSUME pc[c] \notin {"idle", "ended", "preparing"} PROVE c \in Holders
  BY <1>0 DEF Holders, Active
<1>1. c \in Holders /\ ~mixed => Transport(original[c]) = selection
  BY DEF SelectionIsKept
<1>2. CASE Blocked(c)
  <2>1. Holders' = Holders
    BY <1>2 DEF Blocked, End, Goto, Holders, Active, IInv, TypeOK
  <2> QED BY <1>2, <2>1, SameKept DEF Blocked
<1>3. CASE BeginChain(c)
  <2>1. Holders' = Holders \cup {c} /\ original'[c] = store
    BY <1>3 DEF BeginChain, Goto, Holders, Active, IInv, TypeOK
  <2> QED BY <1>3, <2>1, TakeKept DEF BeginChain
<1>4. CASE SaveTrial(c)
  BY <1>0, <1>4, MoveKept DEF SaveTrial
<1>5. CASE Exhausted(c)
  BY <1>0, <1>1, <1>5, EndKept DEF Exhausted, Restore
<1>6. CASE StartTunnel(c)
  BY <1>0, <1>6, MoveKept DEF StartTunnel
<1>7. CASE Wait(c)
  BY <1>0, <1>7, MoveKept DEF Wait, NextAttempt
<1>8. CASE Verified(c)
  BY <1>0, <1>8, EndKept DEF Verified
<1>9. CASE Checked(c)
  BY <1>0, <1>9, MoveKept DEF Checked, NextAttempt
<1>10. CASE ScanFails(c)
  BY <1>0, <1>1, <1>10, EndKept DEF ScanFails, Restore
<1> QED BY <1>2, <1>3, <1>4, <1>5, <1>6, <1>7, <1>8, <1>9, <1>10 DEF Step

\* A cancelled scan puts back what it found, which is the selection.
LEMMA CancelKept ==
  ASSUME IInv, SelectionIsKept, NEW C \in SUBSET Coroutines, Cancel(C)
  PROVE  SelectionIsKept'
<1> SUFFICES ASSUME ~mixed' PROVE SelectionIsKept'
  BY DEF SelectionIsKept
<1>1. ~mixed /\ \A c \in C \cap Holders : kind[c] # "connect"
  BY DEF Cancel
<1>2. Holders' = Holders \ C /\ UNCHANGED <<original, selection>>
  BY DEF Cancel, Holders, Active, IInv, TypeOK
<1>3. CASE \A c \in C : kind[c] = "connect"
  <2>1. UNCHANGED store /\ Holders' = Holders
    BY <1>1, <1>2, <1>3 DEF Cancel
  <2> QED BY <1>1, <1>2, <2>1, SameKept
<1>4. CASE \E c \in C : kind[c] # "connect"
  <2>1. PICK c \in C : kind[c] = "scan" /\ Restore(c)
    BY <1>4 DEF Cancel
  <2>2. C = Active
    BY <2>1 DEF Cancel
  <2>3. c \in Holders /\ Holders' = {}
    BY <1>2, <2>1, <2>2 DEF Holders, Active, IInv, ChainFromOriginal
  <2>4. Transport(store') = selection'
    BY <1>1, <1>2, <2>1, <2>3 DEF SelectionIsKept, Restore
  <2> QED BY <2>3, <2>4 DEF SelectionIsKept
<1> QED BY <1>3, <1>4

-----------------------------------------------------------------------------
(* Theorems. *)

\* The inductive invariant holds however coroutines, dialogs and the user's
\* changes interleave.
THEOREM Invariance == Spec => []IInv
BY InitIInv, NextIInv, PTL DEF Spec

\* Every variable of the controllers keeps its type.
THEOREM TypeCorrect == Spec => []TypeOK
<1>1. IInv => TypeOK
  BY DEF IInv
<1> QED BY <1>1, Invariance, PTL

\* "User selection first": a connect begins with the transport the user chose or
\* last connected with, after any scans (cancelled ones too), failed chains,
\* connections and changes in the settings, unless settings were loaded or chosen
\* while another coroutine had its trials stored, or a chain was cancelled.
THEOREM SelectionFirst == Spec => SelectionFirstUnlessMixed
<1>1. IInv /\ SelectionIsKept /\ [Next]_vars => SelectionIsKept'
  <2> SUFFICES ASSUME IInv, SelectionIsKept, [Next]_vars PROVE SelectionIsKept'
    OBVIOUS
  <2>1. ASSUME NEW c \in Coroutines, LaunchConnect(c) \/ LaunchScan(c) \/ ConnectBest(c)
        PROVE  SelectionIsKept'
    BY <2>1, LaunchKept
  <2>2. ASSUME NEW c \in Coroutines, Step(c) PROVE SelectionIsKept'
    BY <2>2, StepKept
  <2>3. ASSUME NEW C \in SUBSET Coroutines, Cancel(C) PROVE SelectionIsKept'
    BY <2>3, CancelKept
  <2>4. ASSUME NEW ok \in BOOLEAN, OnActivityResult(ok) PROVE SelectionIsKept'
    <3>1. UNCHANGED <<store, original, selection, mixed>>
      BY <2>4 DEF OnActivityResult, historyVars
    <3>2. CASE UNCHANGED pc
      BY <3>1, <3>2, SameKept DEF Holders, Active
    <3>3. CASE listener \cap Active # {}
      <4>1. PICK c \in listener : Resumed(c, ok)
        BY <2>4, <3>3 DEF OnActivityResult
      <4>2. c \in Holders
        BY <3>3 DEF IInv, ListenerIsAsking, Active, Holders
      <4>3. Goto(c, IF ok THEN "waiting" ELSE "attempt")
        BY <4>1 DEF Resumed, Goto
      <4> QED BY <3>1, <4>2, <4>3, MoveKept
    <3> QED BY <2>4, <3>2, <3>3 DEF OnActivityResult
  <2>5. CASE Change
    <3>1. PICK r \in Regions : store' = [store EXCEPT !.region = r]
      BY <2>5 DEF Change
    <3>2. Transport(store') = Transport(store)
      BY <3>1 DEF Transport, Attempt, IInv, TypeOK, Settings
    <3> QED BY <2>5, <3>2, SameKept DEF Change, taskVars, historyVars, Holders, Active
  <2>6. CASE Persist
    BY <2>6, ChooseKept DEF Persist, taskVars, Holders, Active
  <2>7. CASE UNCHANGED vars
    BY <2>7, SameKept DEF vars, taskVars, historyVars, Holders, Active
  <2> QED BY <2>1, <2>2, <2>3, <2>4, <2>5, <2>6, <2>7 DEF Next
<1>2. IInv /\ SelectionIsKept /\ [Next]_vars =>
        [\A c \in Coroutines : (pc[c] = "preparing" /\ pc'[c] = "attempt" /\ ~mixed')
                                 => Transport(trials'[c][1]) = selection]_vars
  <2> SUFFICES ASSUME IInv, SelectionIsKept, Next, NEW c \in Coroutines,
                      pc[c] = "preparing", pc'[c] = "attempt", ~mixed'
               PROVE  Transport(trials'[c][1]) = selection
    OBVIOUS
  <2>1. BeginChain(c)
    <3>1. ASSUME NEW d \in Coroutines, LaunchConnect(d) \/ LaunchScan(d) \/ ConnectBest(d)
          PROVE  FALSE
      BY <3>1 DEF LaunchConnect, LaunchScan, ConnectBest, Launchable, Goto, IInv, TypeOK
    <3>2. ASSUME NEW C \in SUBSET Coroutines, Cancel(C) PROVE FALSE
      BY <3>2 DEF Cancel
    <3>3. ASSUME NEW ok \in BOOLEAN, OnActivityResult(ok) PROVE FALSE
      BY <3>3 DEF OnActivityResult, Resumed, IInv, TypeOK, ListenerIsAsking, Active
    <3>4. ~Change /\ ~Persist
      BY DEF Change, Persist, taskVars
    <3>5. ASSUME NEW d \in Coroutines, Step(d) PROVE d = c /\ BeginChain(c)
      BY <3>5 DEF Step, Blocked, BeginChain, SaveTrial, Exhausted, StartTunnel, Wait, Verified,
         Checked, ScanFails, End, Goto, NextAttempt, IInv, TypeOK
    <3> QED BY <3>1, <3>2, <3>3, <3>4, <3>5 DEF Next
  <2>2. Transport(store) = selection
    BY <2>1 DEF BeginChain, Mixes, SelectionIsKept
  <2>3. trials'[c][1] = store
    BY <2>1, ConnectTrialsChain DEF BeginChain, IInv, TypeOK
  <2> QED BY <2>2, <2>3
<1> QED BY <1>1, <1>2, InitKept, Invariance, PTL DEF Spec, SelectionFirstUnlessMixed

\* internetAwareAttemptsFor: a chain begins with the user's selection, has every
\* escape hatch, and nothing twice, for every setting it may find.
THEOREM ChainComplete == Spec => []ChainIsComplete
<1>1. IInv => ChainIsComplete
  <2> SUFFICES ASSUME IInv, NEW c \in Coroutines, kind[c] = "connect", trials[c] # << >>
               PROVE  LET tried == [n \in DOMAIN trials[c] |-> Transport(trials[c][n])]
                      IN  /\ trials[c][1] = original[c]
                          /\ \A hatch \in EscapeHatches : Contains(tried, hatch)
                          /\ \A m, n \in DOMAIN tried : tried[m] = tried[n] => m = n
    BY DEF ChainIsComplete
  <2>1. trials[c] = ConnectTrials(original[c]) /\ original[c] \in Settings
    BY DEF IInv, TypeOK, ChainFromOriginal
  <2> QED BY <2>1, ConnectTrialsChain
<1> QED BY <1>1, Invariance, PTL
=============================================================================
