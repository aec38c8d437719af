------------------------------ MODULE FairQueue ------------------------------
(***************************************************************************)
(* PacketPassFairQueue (badvpn/flow): many flows share one output, and the *)
(* flow with the smallest virtual time is sent next.  Virtual time is a    *)
(* machine word that overflows; MaxTime stands for FAIRQUEUE_MAX_TIME,     *)
(* which the header asks to reduce in order to test the overflow.  udpgw   *)
(* and its client put one flow per UDP connection on such a queue.         *)
(*                                                                         *)
(* The flows' owners are the environment: they send, close and free flows  *)
(* in any order that the interface allows.                                 *)
(***************************************************************************)
EXTENDS Integers, FiniteSets, FiniteSetsExt

CONSTANTS
    Flows,        \* the memory slots a flow may occupy
    NoFlow,       \* the null pointer
    MaxTime,      \* FAIRQUEUE_MAX_TIME, the largest value of the word
    Mtu,          \* output MTU
    PacketWeight, \* packet_weight
    MaxInits      \* bound on the flows created

ASSUME FairQueueAssumption ==
    /\ NoFlow \notin Flows
    /\ MaxTime \in Nat /\ Mtu \in Nat
    /\ PacketWeight \in Nat \ {0}
    /\ Mtu + PacketWeight <= MaxTime
    /\ MaxInits \in Nat

VARIABLES
    alive,       \* flows_list
    time,        \* flow->time
    queued,      \* queued_tree, the flows with is_queued
    dataLen,     \* queued.data_len, and sending_len once the flow is sent
    sending,     \* sending_flow
    previous,    \* previous_flow
    scheduleJob, \* schedule_job is set
    closing,     \* flows with a busy handler
    freeing,     \* PrepareFree was called
    inits        \* flows created so far

vars == <<alive, time, queued, dataLen, sending, previous, scheduleJob,
          closing, freeing, inits>>

TypeOK ==
    /\ alive \subseteq Flows
    /\ time \in [Flows -> 0..MaxTime]
    /\ queued \subseteq alive
    /\ dataLen \in [Flows -> 0..Mtu]
    /\ sending \in alive \cup {NoFlow}
    /\ previous \in alive \cup {NoFlow}
    /\ scheduleJob \in BOOLEAN
    /\ closing \subseteq alive
    /\ freeing \in BOOLEAN
    /\ inits \in 0..MaxInits

Init ==
    /\ alive = {}
    /\ time = [f \in Flows |-> 0]
    /\ queued = {}
    /\ dataLen = [f \in Flows |-> 0]
    /\ sending = NoFlow
    /\ previous = NoFlow
    /\ scheduleJob = FALSE
    /\ closing = {}
    /\ freeing = FALSE
    /\ inits = 0

-----------------------------------------------------------------------------
(* Virtual time.                                                           *)

TimesOf(S) == {time[f] : f \in S}

(* With nobody waiting and nothing just sent, the clock reads zero.        *)
CurrentTime ==
    LET waiting == TimesOf(queued \cup ({previous} \ {NoFlow}))
    IN  CASE sending # NoFlow -> time[sending]
          [] sending = NoFlow /\ waiting # {} -> Min(waiting)
          [] OTHER -> 0

(* A flow that comes back keeps its own old time.                          *)
RaisedTimeMutant(f) == time[f]

RaisedTime(f) == IF time[f] > CurrentTime THEN time[f] ELSE CurrentTime

(* The word simply wraps around.                                           *)
IncrementSentMutant(f, amount) ==
    [time EXCEPT ![f] = (@ + amount) % (MaxTime + 1)]

(* The times after flow f has sent amount units.  When the sum would not   *)
(* fit, the earliest waiting time is subtracted from every flow; only the  *)
(* flow that was sent may go through zero, and comes back by the addition. *)
IncrementSent(f, amount) ==
    LET overflows == amount > MaxTime - time[f]
        subtract == CASE ~overflows -> 0
                      [] overflows /\ queued = {} -> time[f]
                      [] OTHER -> Min(TimesOf(queued))
    IN  [g \in Flows |->
            CASE g = f -> (time[f] - subtract + amount) % (MaxTime + 1)
              [] g \in alive \ {f} /\ subtract <= time[g] -> time[g] - subtract
              [] OTHER -> 0]

(* Packets without payload are free of charge.                             *)
CostMutant(len) == len

(* What a packet of the given length costs its flow.                       *)
Cost(len) == PacketWeight + len

-----------------------------------------------------------------------------
(* The queue.                                                              *)

(* schedule(): the earliest of the waiting flows W, at times t, is sent.   *)
(* Equal times are ordered by address, which may be any order.             *)
Schedule(W, t) ==
    \E f \in W :
        /\ \A g \in W : t[f] <= t[g]
        /\ sending' = f
        /\ queued' = W \ {f}

(* input_handler_send(): the flow's owner sends a packet.                  *)
InputSend(f, len) ==
    /\ f \in alive \ (queued \cup {sending})
    /\ ~freeing
    /\ f \notin closing
    /\ dataLen' = [dataLen EXCEPT ![f] = len]
    /\ time' = IF f = previous THEN time ELSE [time EXCEPT ![f] = RaisedTime(f)]
    /\ previous' = IF f = previous THEN NoFlow ELSE previous
    /\ IF sending = NoFlow /\ ~scheduleJob
       THEN Schedule(queued \cup {f}, time')
       ELSE queued' = queued \cup {f} /\ UNCHANGED sending
    /\ UNCHANGED <<alive, scheduleJob, closing, freeing, inits>>

(* The flow's memory is given up.  A free slot's fields are reset.         *)
Forget(f, t) ==
    /\ alive' = alive \ {f}
    /\ time' = [t EXCEPT ![f] = 0]
    /\ dataLen' = [dataLen EXCEPT ![f] = 0]
    /\ closing' = closing \ {f}

(* output_handler_done(): the packet is out; the flow is remembered until  *)
(* the schedule job, so that its owner can send again before.  A busy      *)
(* handler frees the flow at once.                                         *)
OutputDone ==
    /\ sending # NoFlow
    /\ ~freeing
    /\ LET t == IncrementSent(sending, Cost(dataLen[sending]))
       IN  IF sending \in closing
           THEN Forget(sending, t) /\ previous' = NoFlow
           ELSE /\ time' = t
                /\ previous' = sending
                /\ UNCHANGED <<alive, dataLen, closing>>
    /\ sending' = NoFlow
    /\ scheduleJob' = TRUE
    /\ UNCHANGED <<queued, freeing, inits>>

(* schedule_job_handler().                                                 *)
ScheduleJob ==
    /\ scheduleJob
    /\ ~freeing
    /\ scheduleJob' = FALSE
    /\ previous' = NoFlow
    /\ IF queued # {} THEN Schedule(queued, time) ELSE UNCHANGED <<sending, queued>>
    /\ UNCHANGED <<alive, time, dataLen, closing, freeing, inits>>

(* PacketPassFairQueueFlow_Init().                                         *)
FlowInit(f) ==
    /\ f \notin alive
    /\ ~freeing
    /\ inits < MaxInits
    /\ alive' = alive \cup {f}
    /\ inits' = inits + 1
    /\ UNCHANGED <<time, queued, dataLen, sending, previous, scheduleJob, closing, freeing>>

(* PacketPassFairQueueFlow_Free(): not while the flow is being sent,       *)
(* unless the whole queue is going away.                                   *)
FlowFree(f) ==
    /\ f \in alive
    /\ freeing \/ f # sending
    /\ Forget(f, time)
    /\ queued' = queued \ {f}
    /\ sending' = IF f = sending THEN NoFlow ELSE sending
    /\ previous' = IF f = previous THEN NoFlow ELSE previous
    /\ UNCHANGED <<scheduleJob, freeing, inits>>

(* connection_close() on a busy flow: it is freed when its packet is out.  *)
SetBusyHandler ==
    /\ sending # NoFlow
    /\ ~freeing
    /\ closing' = closing \cup {sending}
    /\ UNCHANGED <<alive, time, queued, dataLen, sending, previous,
                   scheduleJob, freeing, inits>>

(* PacketPassFairQueue_PrepareFree(): from now on flows are only freed.    *)
PrepareFree ==
    /\ ~freeing
    /\ freeing' = TRUE
    /\ UNCHANGED <<alive, time, queued, dataLen, sending, previous,
                   scheduleJob, closing, inits>>

Next ==
    \/ \E f \in Flows, len \in 0..Mtu : InputSend(f, len)
    \/ OutputDone
    \/ ScheduleJob
    \/ \E f \in Flows : FlowInit(f) \/ FlowFree(f)
    \/ SetBusyHandler
    \/ PrepareFree

(* The output takes what it is given, pending jobs run, and an owner that  *)
(* begins to free the queue frees all of it.                               *)
Fairness ==
    /\ WF_vars(OutputDone)
    /\ WF_vars(ScheduleJob)
    /\ WF_vars(freeing /\ \E f \in Flows : FlowFree(f))

Spec == Init /\ [][Next]_vars /\ Fairness

-----------------------------------------------------------------------------
(* The flow being sent is the earliest: whoever waits has its time or a    *)
(* later one, also after a flow came back from a pause (input_handler_send *)
(* raises it) and after the clock overflowed.                              *)
EarliestServed ==
    sending # NoFlow => \A f \in queued : time[sending] <= time[f]

(* The handling of an overflow in increment_sent_flow is exact for all     *)
(* flows that matter: those waiting keep their distances (the tree is not  *)
(* rebuilt, so their order must not change), and the flow that was sent    *)
(* moves by what it sent.                                                  *)
OverflowIsExact ==
    [][/\ \A f, g \in queued \cap queued' : time'[f] - time'[g] = time[f] - time[g]
       /\ previous' # previous /\ previous' # NoFlow =>
            \A g \in queued :
                time'[previous'] - time'[g]
                    = time[previous'] + Cost(dataLen[previous']) - time[g]]_vars

(* Nobody starves: a packet handed to the queue is sent, unless its owner  *)
(* frees the flow, however the others behave and the clock wraps.          *)
QueuedIsSent ==
    \A f \in Flows : f \in queued ~> (sending = f \/ f \notin alive)
=============================================================================
