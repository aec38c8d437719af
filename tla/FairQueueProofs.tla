--------------------------- MODULE FairQueueProofs ---------------------------
(***************************************************************************)
(* The fair queue serves the earliest flow, and the overflow of its clock  *)
(* is exact, for every number of flows, word size, MTU and packet weight.  *)
(***************************************************************************)
EXTENDS FairQueue, WellFoundedInduction, TLAPS

-----------------------------------------------------------------------------
(* Minima.                                                                 *)

(* A set of naturals that is not empty has a minimum, which Min returns.   *)
LEMMA MinIsLeast ==
    ASSUME NEW S \in SUBSET Nat, S # {}
    PROVE  Min(S) \in S /\ \A n \in S : Min(S) <= n
<1>1. PICK m \in S : \A n \in S : <<n, m>> \notin OpToRel(<, Nat)
  BY WFMin, NatLessThanWellFounded
<1>2. \A n \in S : ~(n < m)
  BY <1>1 DEF OpToRel
<1>3. \A n \in S : m <= n
  BY <1>2
<1> QED BY <1>3 DEF Min

(* The earliest of the waiting times.                                      *)
LEMMA EarliestTime ==
    ASSUME NEW W \in SUBSET Flows, W # {}, time \in [Flows -> 0..MaxTime]
    PROVE  /\ Min(TimesOf(W)) \in 0..MaxTime
           /\ \E f \in W : time[f] = Min(TimesOf(W))
           /\ \A f \in W : Min(TimesOf(W)) <= time[f]
<1>1. TimesOf(W) \in SUBSET Nat /\ TimesOf(W) # {} /\ TimesOf(W) \subseteq 0..MaxTime
  BY FairQueueAssumption DEF TimesOf
<1>2. Min(TimesOf(W)) \in TimesOf(W) /\ \A n \in TimesOf(W) : Min(TimesOf(W)) <= n
  BY <1>1, MinIsLeast
<1> QED BY <1>1, <1>2 DEF TimesOf

-----------------------------------------------------------------------------
(* The inductive invariant.                                                *)

(* While a packet is out no job is pending and no flow is remembered; a    *)
(* flow is remembered for the job only; and somebody waits only for a      *)
(* packet that is out or for the job.                                      *)
Exclusive ==
    /\ sending \notin queued /\ previous \notin queued
    /\ sending # NoFlow => previous = NoFlow /\ ~scheduleJob
    /\ previous # NoFlow => scheduleJob
    /\ ~freeing /\ queued # {} => sending # NoFlow \/ scheduleJob

IInv == TypeOK /\ Exclusive /\ EarliestServed

-----------------------------------------------------------------------------
(* Virtual time.                                                           *)

(* The current time is a time, and no earlier than the flow being sent.    *)
LEMMA CurrentTimeType ==
    ASSUME TypeOK
    PROVE  /\ CurrentTime \in 0..MaxTime
           /\ sending # NoFlow => CurrentTime = time[sending]
<1> DEFINE W == queued \cup ({previous} \ {NoFlow})
<1>1. W \in SUBSET Flows
  BY DEF TypeOK
<1>2. W # {} => Min(TimesOf(W)) \in 0..MaxTime
  BY <1>1, EarliestTime DEF TypeOK
<1>3. W # {} <=> TimesOf(W) # {}
  BY DEF TimesOf
<1> HIDE DEF W
<1>4. CurrentTime = CASE sending # NoFlow -> time[sending]
                      [] sending = NoFlow /\ TimesOf(W) # {} -> Min(TimesOf(W))
                      [] OTHER -> 0
  BY DEF CurrentTime, W
<1> QED BY <1>2, <1>3, <1>4, FairQueueAssumption DEF TypeOK

(* A number that fits the word is not changed by it.                       *)
LEMMA Fits ==
    ASSUME NEW n \in 0..MaxTime
    PROVE  n % (MaxTime + 1) = n
  BY FairQueueAssumption

(* increment_sent_flow: the flow that was sent, which is earliest, moves   *)
(* by its cost and the others keep their times, all seen from a time that  *)
(* is no later than any flow that waits.                                   *)
LEMMA IncrementSentIsExact ==
    ASSUME IInv, sending # NoFlow,
           NEW amount \in 0..(Mtu + PacketWeight),
           NEW t, t = IncrementSent(sending, amount)
    PROVE  /\ t \in [Flows -> 0..MaxTime]
           /\ queued # {} =>
                \E base \in 0..MaxTime :
                    /\ t[sending] = time[sending] - base + amount
                    /\ \A g \in queued : t[g] = time[g] - base
<1> DEFINE overflows == amount > MaxTime - time[sending]
           earliest == Min(TimesOf(queued))
           subtract == CASE ~overflows -> 0
                         [] overflows /\ queued = {} -> time[sending]
                         [] OTHER -> earliest
<1>1. /\ sending \in alive /\ alive \subseteq Flows /\ queued \in SUBSET Flows
      /\ time \in [Flows -> 0..MaxTime] /\ sending \notin queued /\ queued \subseteq alive
  BY DEF IInv, TypeOK, Exclusive
<1>2. queued # {} =>
        /\ earliest \in 0..MaxTime
        /\ time[sending] <= earliest
        /\ \A g \in queued : earliest <= time[g]
  BY <1>1, EarliestTime DEF IInv, EarliestServed
<1> HIDE DEF earliest
<1>3. subtract \in 0..MaxTime /\ time[sending] - subtract + amount \in 0..MaxTime
  BY <1>1, <1>2, FairQueueAssumption
<1>4. queued # {} => \A g \in queued : subtract <= time[g]
  BY <1>1, <1>2, FairQueueAssumption
<1>5. t = [g \in Flows |->
            CASE g = sending -> (time[sending] - subtract + amount) % (MaxTime + 1)
              [] g \in alive \ {sending} /\ subtract <= time[g] -> time[g] - subtract
              [] OTHER -> 0]
  BY DEF IncrementSent, earliest
<1> HIDE DEF subtract
<1>6. t = [g \in Flows |->
            CASE g = sending -> time[sending] - subtract + amount
              [] g \in alive \ {sending} /\ subtract <= time[g] -> time[g] - subtract
              [] OTHER -> 0]
  BY <1>3, <1>5, Fits
<1>7. t \in [Flows -> 0..MaxTime]
  BY <1>1, <1>3, <1>6, FairQueueAssumption
<1>8. t[sending] = time[sending] - subtract + amount
  BY <1>1, <1>6
<1>9. \A g \in queued : t[g] = time[g] - subtract
  BY <1>1, <1>4, <1>6
<1> QED BY <1>3, <1>7, <1>8, <1>9

-----------------------------------------------------------------------------
(* Every step preserves the invariant.                                     *)

LEMMA InitIInv == Init => IInv
<1> SUFFICES ASSUME Init PROVE IInv
  OBVIOUS
<1>1. TypeOK
  <2>1. 0 \in 0..MaxTime /\ 0 \in 0..Mtu /\ 0 \in 0..MaxInits
    BY FairQueueAssumption
  <2> QED BY <2>1 DEF Init, TypeOK
<1>2. Exclusive /\ EarliestServed
  BY DEF Init, Exclusive, EarliestServed
<1> QED BY <1>1, <1>2 DEF IInv

(* A flow that comes back is raised to the time of the flow being sent,    *)
(* and with nobody sending the earliest flow is picked.                    *)
LEMMA InputSendIInv ==
    ASSUME IInv, NEW f \in Flows, NEW len \in 0..Mtu, InputSend(f, len)
    PROVE  IInv'
<1> USE FairQueueAssumption DEF IInv, InputSend
<1>1. /\ RaisedTime(f) \in 0..MaxTime
      /\ sending # NoFlow => time[sending] <= RaisedTime(f)
  BY CurrentTimeType DEF RaisedTime, TypeOK
<1>2. /\ time' \in [Flows -> 0..MaxTime]
      /\ \A g \in Flows \ {f} : time'[g] = time[g]
      /\ sending # NoFlow => time'[f] = RaisedTime(f)
  BY <1>1 DEF TypeOK, Exclusive
<1>3. CASE sending = NoFlow /\ ~scheduleJob
  <2>1. PICK g \in queued \cup {f} :
          /\ \A h \in queued \cup {f} : time'[g] <= time'[h]
          /\ sending' = g
          /\ queued' = (queued \cup {f}) \ {g}
    BY <1>3 DEF Schedule
  <2>2. TypeOK'
    BY <1>2, <2>1 DEF TypeOK
  <2>3. Exclusive' /\ EarliestServed'
    BY <1>3, <2>1 DEF TypeOK, Exclusive, EarliestServed
  <2> QED BY <2>2, <2>3
<1>4. CASE ~(sending = NoFlow /\ ~scheduleJob)
  <2>1. queued' = queued \cup {f} /\ sending' = sending
    BY <1>4
  <2>2. TypeOK'
    BY <1>2, <2>1 DEF TypeOK
  <2>3. Exclusive'
    BY <1>4, <2>1 DEF TypeOK, Exclusive
  <2>4. EarliestServed'
    BY <1>1, <1>2, <2>1 DEF TypeOK, EarliestServed
  <2> QED BY <2>2, <2>3, <2>4
<1> QED BY <1>3, <1>4

LEMMA OutputDoneIInv == IInv /\ OutputDone => IInv'
<1> SUFFICES ASSUME IInv, OutputDone PROVE IInv'
  OBVIOUS
<1> DEFINE t == IncrementSent(sending, Cost(dataLen[sending]))
<1>1. sending \in alive /\ Cost(dataLen[sending]) \in 0..(Mtu + PacketWeight)
  BY FairQueueAssumption DEF IInv, TypeOK, OutputDone, Cost
<1>2. t \in [Flows -> 0..MaxTime]
  BY <1>1, IncrementSentIsExact DEF OutputDone
<1>3. time' \in [Flows -> 0..MaxTime]
  BY <1>2, FairQueueAssumption DEF OutputDone, Forget
<1>4. TypeOK'
  BY <1>1, <1>3, FairQueueAssumption DEF IInv, TypeOK, Exclusive, OutputDone, Forget
<1>5. Exclusive' /\ EarliestServed'
  BY <1>1, FairQueueAssumption DEF IInv, TypeOK, Exclusive, EarliestServed, OutputDone
<1> QED BY <1>4, <1>5 DEF IInv

LEMMA ScheduleJobIInv == IInv /\ ScheduleJob => IInv'
  BY FairQueueAssumption
     DEF IInv, TypeOK, Exclusive, EarliestServed, ScheduleJob, Schedule

LEMMA FlowFreeIInv ==
    ASSUME IInv, NEW f \in Flows, FlowFree(f)
    PROVE  IInv'
<1> USE FairQueueAssumption DEF IInv, TypeOK, FlowFree, Forget
<1>1. TypeOK'
  OBVIOUS
<1>2. Exclusive'
  BY DEF Exclusive
<1>3. EarliestServed'
  BY DEF Exclusive, EarliestServed
<1> QED BY <1>1, <1>2, <1>3

LEMMA OwnersIInv ==
    ASSUME IInv, (\E f \in Flows : FlowInit(f)) \/ SetBusyHandler \/ PrepareFree
    PROVE  IInv'
<1>1. CASE \E f \in Flows : FlowInit(f)
  BY <1>1, FairQueueAssumption
     DEF IInv, TypeOK, Exclusive, EarliestServed, FlowInit
<1>2. CASE SetBusyHandler
  BY <1>2 DEF IInv, TypeOK, Exclusive, EarliestServed, SetBusyHandler
<1>3. CASE PrepareFree
  BY <1>3 DEF IInv, TypeOK, Exclusive, EarliestServed, PrepareFree
<1> QED BY <1>1, <1>2, <1>3

LEMMA NextIInv == IInv /\ [Next]_vars => IInv'
<1> SUFFICES ASSUME IInv, [Next]_vars PROVE IInv'
  OBVIOUS
<1>1. CASE \E f \in Flows, len \in 0..Mtu : InputSend(f, len)
  BY <1>1, InputSendIInv
<1>2. CASE OutputDone \/ ScheduleJob
  BY <1>2, OutputDoneIInv, ScheduleJobIInv
<1>3. CASE \E f \in Flows : FlowFree(f)
  BY <1>3, FlowFreeIInv
<1>4. CASE (\E f \in Flows : FlowInit(f)) \/ SetBusyHandler \/ PrepareFree
  BY <1>4, OwnersIInv
<1>5. CASE UNCHANGED vars
  BY <1>5 DEF vars, IInv, TypeOK, Exclusive, EarliestServed
<1> QED BY <1>1, <1>2, <1>3, <1>4, <1>5 DEF Next

(* The inductive invariant: waiting, sending and remembered flows are      *)
(* disjoint, and the flow being sent is earliest.                          *)
THEOREM Invariance == Spec => []IInv
  BY InitIInv, NextIInv, PTL DEF Spec

(* Every variable of PacketPassFairQueue.c's model keeps its type; times   *)
(* stay within the word although they are added to without end.            *)
THEOREM TypeCorrect == Spec => []TypeOK
<1>1. IInv => TypeOK
  BY DEF IInv
<1> QED BY <1>1, Invariance, PTL

(* PacketPassFairQueue never sends a flow while an earlier one waits.      *)
THEOREM Fair == Spec => []EarliestServed
<1>1. IInv => EarliestServed
  BY DEF IInv
<1> QED BY <1>1, Invariance, PTL

-----------------------------------------------------------------------------
(* The overflow.                                                           *)

(* OverflowIsExact, for one step.                                          *)
ExactStep ==
    /\ \A f, g \in queued \cap queued' : time'[f] - time'[g] = time[f] - time[g]
    /\ previous' # previous /\ previous' # NoFlow =>
        \A g \in queued :
            time'[previous'] - time'[g]
                = time[previous'] + Cost(dataLen[previous']) - time[g]

(* A step that changes no waiting flow's time and remembers no flow.       *)
LEMMA QuietStep ==
    ASSUME \A f \in queued \cap queued' : time'[f] = time[f],
           previous' \in {previous, NoFlow}
    PROVE  ExactStep
  BY DEF ExactStep

LEMMA OutputDoneExact == IInv /\ OutputDone => ExactStep
<1> SUFFICES ASSUME IInv, OutputDone PROVE ExactStep
  OBVIOUS
<1> DEFINE cost == Cost(dataLen[sending])
           t == IncrementSent(sending, cost)
<1>1. /\ sending \in alive /\ sending \notin queued /\ previous = NoFlow
      /\ queued \subseteq alive /\ alive \subseteq Flows
      /\ time \in [Flows -> 0..MaxTime] /\ cost \in 0..(Mtu + PacketWeight)
  BY FairQueueAssumption DEF IInv, TypeOK, Exclusive, OutputDone, Cost
<1>2. CASE queued = {}
  BY <1>2 DEF ExactStep
<1>3. CASE queued # {}
  <2>1. PICK base \in 0..MaxTime :
          /\ t[sending] = time[sending] - base + cost
          /\ \A g \in queued : t[g] = time[g] - base
    BY <1>1, <1>3, IncrementSentIsExact DEF OutputDone
  <2>2. t \in [Flows -> 0..MaxTime]
    BY <1>1, IncrementSentIsExact DEF OutputDone
  <2> HIDE DEF t
  <2>3. /\ queued' = queued
        /\ \A g \in queued : time'[g] = t[g]
        /\ previous' # NoFlow => previous' = sending /\ time'[sending] = t[sending]
    BY <1>1, <2>2 DEF OutputDone, Forget, t
  <2>4. \A f, g \in queued : time'[f] - time'[g] = time[f] - time[g]
    BY <1>1, <2>1, <2>2, <2>3, FairQueueAssumption
  <2>5. previous' # NoFlow =>
          \A g \in queued : time'[sending] - time'[g] = time[sending] + cost - time[g]
    BY <1>1, <2>1, <2>2, <2>3, FairQueueAssumption
  <2> QED BY <2>3, <2>4, <2>5 DEF ExactStep
<1> QED BY <1>2, <1>3

LEMMA NextExact == IInv /\ [Next]_vars => ExactStep \/ UNCHANGED vars
<1> SUFFICES ASSUME IInv, Next PROVE ExactStep
  OBVIOUS
<1>1. ASSUME NEW f \in Flows, NEW len \in 0..Mtu, InputSend(f, len) PROVE ExactStep
  BY <1>1, QuietStep DEF InputSend, IInv, TypeOK
<1>2. CASE OutputDone
  BY <1>2, OutputDoneExact
<1>3. ASSUME NEW f \in Flows, FlowFree(f) PROVE ExactStep
  BY <1>3, QuietStep DEF FlowFree, Forget, IInv, TypeOK
<1>4. CASE ScheduleJob \/ (\E f \in Flows : FlowInit(f)) \/ SetBusyHandler \/ PrepareFree
  BY <1>4, QuietStep DEF ScheduleJob, FlowInit, SetBusyHandler, PrepareFree
<1> QED BY <1>1, <1>2, <1>3, <1>4 DEF Next

(* increment_sent_flow keeps the distances of all waiting flows, and moves *)
(* the flow that was sent by its cost, when the clock overflows too: for   *)
(* every word size that holds one packet's cost.                           *)
THEOREM OverflowExact == Spec => OverflowIsExact
<1>1. IInv /\ [Next]_vars => [ExactStep]_vars
  BY NextExact
<1> QED BY <1>1, Invariance, PTL DEF Spec, OverflowIsExact, ExactStep
==============================================================================
