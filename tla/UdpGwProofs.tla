----------------------------- MODULE UdpGwProofs -----------------------------
(***************************************************************************)
(* The numbers of the UDP connections mean the same to the client and the  *)
(* server, for every number of flows, connections, packets, replies and    *)
(* failures and every size of the buffers.                                 *)
(***************************************************************************)
EXTENDS UdpGw, SequenceTheorems, WellFoundedInduction, TLAPS

-----------------------------------------------------------------------------
(* The inductive invariant.                                                *)

(* The SOCKS client exists when its owner thinks so, never while the       *)
(* reconnect timer runs, and the connector has an output only while the    *)
(* client is up.                                                           *)
OwnerAgrees ==
    /\ haveSocks <=> state # "NONE"
    /\ timer => ~haveSocks
    /\ event # "NONE" => haveSocks
    /\ event = "UP" => state = "UP"
    /\ haveServer => haveSocks /\ socksUp /\ state = "UP"

InJob(c) == jobs # <<>> /\ Head(jobs)[2] = c

(* The jobs of one new connection: its buffer is not ready before the      *)
(* first has run, and is ready when the second runs.                       *)
JobsInOrder ==
    jobs # <<>> =>
        \E c \in Conids :
            /\ conaddr[c] # NoFlow
            /\ \/ jobs = << <<"recv", c>>, <<"first", c>> >>
               \/ jobs = << <<"first", c>> >> /\ c \in ready

(* A buffer that is not ready is full, once the connection's jobs have run. *)
ReadyHasRoom ==
    \A c \in Conids :
        /\ c \in ready => Len(buf[c]) < SendBuf
        /\ c \notin ready /\ conaddr[c] # NoFlow /\ ~InJob(c) => Len(buf[c]) = SendBuf

OwnPackets == \A c \in Conids : \A i \in DOMAIN buf[c] : buf[c][i].con = c

(* Nobody has heard of a connection before its first packet.               *)
Unheard(c) ==
    /\ ~UnderWay(c)
    /\ srv[c] = NoFlow
    /\ c \notin lostRebind

FreshIsUnheard == \A c \in Conids : conaddr[c] = NoFlow \/ InJob(c) => Unheard(c)

(* The connector's packet is still in its buffer.                          *)
ConnectorHolds ==
    /\ sendCon # NoCon => buf[sendCon] # <<>>
    /\ handed => sendCon # NoCon /\ haveServer

LruHasUsed == \A c \in Conids : conaddr[c] # NoFlow => lru # <<>>

(* The packets of connection c in s, from position k on, are of flow f.    *)
AllOf(s, c, f, k) == \A i \in DOMAIN s : i >= k /\ s[i].con = c => s[i].flow = f

(* From a REBIND in s on, the packets of c are of flow f.                  *)
Rebinds(s, c, f) ==
    \E k \in DOMAIN s : s[k].con = c /\ s[k].rebind /\ AllOf(s, c, f, k)

(* The REBIND of c's present flow is in its buffer, or on the stream, or   *)
(* the server has followed it; and nothing of another flow comes after it. *)
Follows(c, f) ==
    \/ Rebinds(buf[c], c, f)
    \/ AllOf(buf[c], c, f, 1) /\ Rebinds(up, c, f)
    \/ AllOf(buf[c], c, f, 1) /\ AllOf(up, c, f, 1) /\ srv[c] \in {NoFlow, f}

FollowedOrLost ==
    \A c \in Conids :
        conaddr[c] # NoFlow /\ ~InJob(c) /\ c \notin lostRebind => Follows(c, conaddr[c])

Connections ==
    /\ JobsInOrder /\ ReadyHasRoom /\ OwnPackets /\ LruHasUsed
    /\ FreshIsUnheard /\ FollowedOrLost

IInv ==
    /\ TypeOK
    /\ HoldsWhatItsStateSays /\ OwnerAgrees
    /\ ConnectorHolds
    /\ Connections

-----------------------------------------------------------------------------
(* Sequences.                                                              *)

LEMMA LeastExists ==
    ASSUME NEW S \in SUBSET Nat, S # {}
    PROVE  \E m \in S : \A n \in S : m <= n
<1>1. PICK m \in S : \A n \in S : <<n, m>> \notin OpToRel(<, Nat)
  BY WFMin, NatLessThanWellFounded
<1>2. \A n \in S : ~(n < m)
  BY <1>1 DEF OpToRel
<1> QED BY <1>2

(* Taking an element from a list leaves a list of the same kind.           *)
LEMMA RemoveFirstType ==
    ASSUME NEW S, NEW s \in Seq(S), NEW e
    PROVE  RemoveFirst(s, e) \in Seq(S)
<1>1. CASE \E i \in 1..Len(s) : s[i] = e
  <2> DEFINE I == {i \in 1..Len(s) : s[i] = e}
             n == Min(I)
  <2>1. I \in SUBSET Nat /\ I # {} /\ I \subseteq 1..Len(s)
    BY <1>1
  <2>2. n \in 1..Len(s)
    BY <2>1, LeastExists DEF Min
  <2>3. RemoveFirst(s, e) = SubSeq(s, 1, n - 1) \o SubSeq(s, n + 1, Len(s))
    BY <1>1, <2>1 DEF RemoveFirst, RemoveAt, SelectInSeq
  <2> HIDE DEF n
  <2>4. Len(s) \in Nat /\ n \in Nat
    BY <2>2
  <2>5. SubSeq(s, 1, n - 1) \in Seq(S)
    BY <2>2, <2>4, SubSeqProperties
  <2>6. SubSeq(s, n + 1, Len(s)) \in Seq(S)
    BY <2>2, <2>4, SubSeqProperties
  <2> QED BY <2>3, <2>5, <2>6, ConcatProperties
<1>2. CASE ~\E i \in 1..Len(s) : s[i] = e
  BY <1>2 DEF RemoveFirst
<1> QED BY <1>1, <1>2

LEMMA MoveToEndType ==
    ASSUME NEW S, NEW s \in Seq(S), NEW c \in S
    PROVE  MoveToEnd(s, c) \in Seq(S) /\ MoveToEnd(s, c) # <<>>
<1>1. RemoveFirst(s, c) \in Seq(S)
  BY RemoveFirstType
<1> QED BY <1>1, AppendProperties DEF MoveToEnd

(* What a packet at the end of a line of packets changes.                  *)
LEMMA AppendPacket ==
    ASSUME NEW s \in Seq(Packet), NEW p \in Packet, NEW c, NEW f
    PROVE  /\ Append(s, p) \in Seq(Packet)
           /\ Len(Append(s, p)) = Len(s) + 1
           /\ (p.con = c => p.flow = f) /\ AllOf(s, c, f, 1) => AllOf(Append(s, p), c, f, 1)
           /\ (p.con = c => p.flow = f) /\ Rebinds(s, c, f) => Rebinds(Append(s, p), c, f)
           /\ p.con = c /\ p.flow = f /\ p.rebind => Rebinds(Append(s, p), c, f)
<1> DEFINE t == Append(s, p)
<1>1. /\ t \in Seq(Packet)
      /\ Len(t) = Len(s) + 1 /\ Len(s) \in Nat
      /\ DOMAIN t = 1..(Len(s) + 1) /\ DOMAIN s = 1..Len(s)
      /\ \A i \in 1..Len(s) : t[i] = s[i]
      /\ t[Len(s) + 1] = p
  BY AppendProperties, LenProperties
<1> HIDE DEF t
<1>2. ASSUME NEW k \in Nat, p.con = c => p.flow = f, AllOf(s, c, f, k)
      PROVE  AllOf(t, c, f, k)
  BY <1>1, <1>2 DEF AllOf
<1>3. ASSUME p.con = c => p.flow = f, Rebinds(s, c, f) PROVE Rebinds(t, c, f)
  BY <1>1, <1>2, <1>3 DEF Rebinds
<1>4. ASSUME p.con = c, p.flow = f, p.rebind PROVE Rebinds(t, c, f)
  <2>1. AllOf(t, c, f, Len(s) + 1)
    BY <1>1, <1>4 DEF AllOf
  <2> QED BY <1>1, <1>4, <2>1 DEF Rebinds
<1> QED BY <1>1, <1>2, <1>3, <1>4 DEF t

(* What taking the first packet of a line changes.                         *)
LEMMA TailPacket ==
    ASSUME NEW s \in Seq(Packet), s # <<>>, NEW c, NEW f
    PROVE  /\ Tail(s) \in Seq(Packet) /\ Head(s) \in Packet
           /\ Len(Tail(s)) = Len(s) - 1
           /\ AllOf(s, c, f, 1) => AllOf(Tail(s), c, f, 1) /\ (Head(s).con = c => Head(s).flow = f)
           /\ Rebinds(s, c, f) =>
                \/ Rebinds(Tail(s), c, f)
                \/ /\ Head(s).con = c /\ Head(s).rebind /\ Head(s).flow = f
                   /\ AllOf(Tail(s), c, f, 1)
<1> DEFINE t == Tail(s)
<1>1. /\ t \in Seq(Packet) /\ Head(s) \in Packet
      /\ Len(t) = Len(s) - 1 /\ Len(s) \in Nat \ {0}
      /\ DOMAIN t = 1..(Len(s) - 1) /\ DOMAIN s = 1..Len(s)
      /\ \A i \in 1..(Len(s) - 1) : t[i] = s[i + 1]
      /\ Head(s) = s[1]
  BY HeadTailProperties, LenProperties, EmptySeq
<1> HIDE DEF t
<1>2. ASSUME NEW k \in 1..Len(s), AllOf(s, c, f, k), k > 1
      PROVE  AllOf(t, c, f, k - 1)
  <2> SUFFICES ASSUME NEW i \in DOMAIN t, i >= k - 1, t[i].con = c PROVE t[i].flow = f
    BY DEF AllOf
  <2>1. i + 1 \in DOMAIN s /\ i + 1 >= k /\ s[i + 1] = t[i]
    BY <1>1
  <2> QED BY <1>2, <2>1 DEF AllOf
<1>3. ASSUME AllOf(s, c, f, 1)
      PROVE  AllOf(t, c, f, 1) /\ (Head(s).con = c => Head(s).flow = f)
  BY <1>1, <1>3 DEF AllOf
<1>4. ASSUME Rebinds(s, c, f), ~Rebinds(t, c, f)
      PROVE  Head(s).con = c /\ Head(s).rebind /\ AllOf(s, c, f, 1)
  <2>1. PICK k \in 1..Len(s) : s[k].con = c /\ s[k].rebind /\ AllOf(s, c, f, k)
    BY <1>1, <1>4 DEF Rebinds
  <2>2. ~(k > 1)
    <3> SUFFICES ASSUME k > 1 PROVE FALSE
      OBVIOUS
    <3>1. k - 1 \in DOMAIN t /\ t[k - 1] = s[k]
      BY <1>1
    <3> QED BY <1>2, <1>4, <2>1, <3>1 DEF Rebinds
  <2>3. k = 1
    BY <2>2
  <2> QED BY <1>1, <2>1, <2>3
<1> QED BY <1>1, <1>3, <1>4 DEF t

-----------------------------------------------------------------------------
(* The SOCKS client.                                                       *)

LEMMA Pieces ==
    /\ 0 \in 0..MaxPieces /\ ~(0 > 0)
    /\ \A n \in 1..MaxPieces : n \in 0..MaxPieces /\ n > 0
  BY SocksAssumption

(* BSocksClient_Free of a client that holds what its state says releases   *)
(* all of it.                                                              *)
LEMMA FreeReleasesAll ==
    ASSUME SocksTypeOK, HoldsWhatItsStateSays, state # "NONE", BSocksClientFree
    PROVE  SocksTypeOK' /\ HoldsWhatItsStateSays'
<1>1. held \ Released = {}
  BY DEF SocksTypeOK, HoldsWhatItsStateSays, Released, SendingStates, WaitingStates
<1>2. SocksTypeOK'
  BY <1>1, Pieces, Zenon DEF SocksTypeOK, BSocksClientFree
<1>3. HoldsWhatItsStateSays'
  BY <1>1 DEF HoldsWhatItsStateSays, BSocksClientFree, SendingStates, WaitingStates
<1> QED BY <1>2, <1>3

(* The handlers keep to the table, the failing ones too, and a client that *)
(* is up stays so.                                                         *)
LEMMA HandlersHold ==
    ASSUME SocksTypeOK, HoldsWhatItsStateSays, SocksNext
    PROVE  /\ SocksTypeOK' /\ HoldsWhatItsStateSays'
           /\ state # "NONE" /\ state' # "NONE"
           /\ event' = "UP" => state' = "UP"
           /\ state = "UP" => state' = "UP"
<1> USE Pieces DEF SocksTypeOK, HoldsWhatItsStateSays, SendingStates, WaitingStates,
        Errors, ReportError, StartSend, StartReceive
<1>1. CASE ConnectorHandler
  <2>0. held = {"connector"} /\ sending = FALSE /\ recvLeft = 0 /\ event = "NONE"
    BY <1>1 DEF ConnectorHandler
  <2>1. CASE ReportError("ERROR") /\ held' = held
    BY <1>1, <2>0, <2>1 DEF ConnectorHandler
  <2>2. ASSUME held' = held \cup {"con", "control_io", "buffer"}, sending' = TRUE,
               state' = "SENDING_HELLO", UNCHANGED <<recvLeft, event>>
        PROVE  /\ SocksTypeOK' /\ HoldsWhatItsStateSays'
               /\ state' # "NONE" /\ event' # "UP"
    BY <2>0, <2>2 DEF Resources
  <2>3. (held \cup {"con", "control_io"}) \ {"control_io", "con"} = held
    BY <2>0
  <2> QED BY <1>1, <2>1, <2>2, <2>3 DEF ConnectorHandler
<1>2. CASE ConnectionHandler
  BY <1>2 DEF ConnectionHandler
<1>3. CASE SendHandlerDone
  <2>0. state \in SendingStates /\ event = "NONE"
    BY <1>3 DEF SendHandlerDone
  <2>1. CASE ReportError("ERROR") /\ held' = held
    BY <2>0, <2>1
  <2>2. ASSUME NEW s \in WaitingStates, NEW n \in 1..MaxPieces, StartReceive(s, n), held' = held
        PROVE  /\ SocksTypeOK' /\ HoldsWhatItsStateSays'
               /\ state' # "NONE" /\ event' # "UP"
    BY <2>0, <2>2
  <2> QED BY <1>3, <2>0, <2>1, <2>2 DEF SendHandlerDone
<1>4. CASE RecvHandlerDone
  <2>0. state \in WaitingStates /\ event = "NONE"
    BY <1>4 DEF RecvHandlerDone
  <2>1. ASSUME recvLeft > 1, NEW n \in 1..(recvLeft - 1), recvLeft' = recvLeft - n,
               UNCHANGED <<state, held, sending, event>>
        PROVE  /\ SocksTypeOK' /\ HoldsWhatItsStateSays'
               /\ state' # "NONE" /\ event' = "NONE"
    <3>1. recvLeft' \in 0..MaxPieces /\ recvLeft' > 0
      BY <2>1, SocksAssumption
    <3> QED BY <2>0, <2>1, <3>1
  <2>2. ASSUME ReportError("ERROR"), UNCHANGED held
        PROVE  /\ SocksTypeOK' /\ HoldsWhatItsStateSays'
               /\ state' # "NONE" /\ event' # "UP"
    BY <2>0, <2>2
  <2>3. ASSUME NEW s \in NextMessages, StartSend(s)
        PROVE  /\ SocksTypeOK' /\ HoldsWhatItsStateSays'
               /\ state' # "NONE" /\ event' # "UP"
    <3>1. s \in {"SENDING_REQUEST", "SENDING_PASSWORD"}
      BY <2>0, <2>3 DEF NextMessages
    <3> QED BY <2>0, <2>3, <3>1 DEF Resources
  <2>4. ASSUME NEW n \in 1..MaxPieces, StartReceive("RECEIVED_REPLY_HEADER", n), UNCHANGED held
        PROVE  /\ SocksTypeOK' /\ HoldsWhatItsStateSays'
               /\ state' # "NONE" /\ event' # "UP"
    BY <2>0, <2>4
  <2>5. ASSUME held' = (held \ {"buffer", "control_io"}) \cup {"up_io"},
               recvLeft' = 0, state' = "UP", event' = "UP", UNCHANGED sending
        PROVE  /\ SocksTypeOK' /\ HoldsWhatItsStateSays'
    BY <2>0, <2>5 DEF Resources
  <2> QED BY <1>4, <2>0, <2>1, <2>2, <2>3, <2>4, <2>5 DEF RecvHandlerDone
<1> QED BY <1>1, <1>2, <1>3, <1>4 DEF SocksNext

-----------------------------------------------------------------------------
(* Initially.                                                              *)

LEMMA InitIInv == Init => IInv
<1> SUFFICES ASSUME Init PROVE IInv
  OBVIOUS
<1> USE DEF Init, NoSocksClient
<1>1. SocksTypeOK
  BY Pieces DEF SocksTypeOK
<1>2. TypeOK
  <2>1. /\ 0 \in Conids /\ NoCon \in Conids \cup {NoCon}
        /\ 0 \in 0..MaxSubmits /\ 0 \in 0..MaxReplies /\ 0 \in 0..MaxFailures
    BY UdpGwAssumption DEF Conids
  <2>2. buf \in [Conids -> Seq(Packet)] /\ conaddr \in [Conids -> Flows \cup {NoFlow}]
    BY EmptySeq
  <2> QED BY <1>1, <2>1, <2>2, EmptySeq DEF TypeOK
<1>3. HoldsWhatItsStateSays
  BY DEF HoldsWhatItsStateSays, SendingStates, WaitingStates
<1>4. OwnerAgrees /\ JobsInOrder /\ ConnectorHolds /\ LruHasUsed
  BY DEF OwnerAgrees, JobsInOrder, ConnectorHolds, LruHasUsed
<1>5. ReadyHasRoom /\ OwnPackets /\ FollowedOrLost
  BY DEF ReadyHasRoom, OwnPackets, FollowedOrLost
<1>6. FreshIsUnheard
  BY DEF FreshIsUnheard, Unheard, UnderWay
<1> QED BY <1>2, <1>3, <1>4, <1>5, <1>6 DEF IInv, Connections

-----------------------------------------------------------------------------
(* Steps of the SOCKS connection.                                          *)

(* Steps that leave the table, the buffers, the stream to the server and   *)
(* the server alone.                                                       *)
LEMMA ConnectionsFrame ==
    ASSUME Connections, UNCHANGED <<conaddr, jobs, buf, ready, lostRebind, up, srv>>,
           lru' = lru \/ lru' # <<>>
    PROVE  Connections'
<1>1. JobsInOrder' /\ ReadyHasRoom' /\ OwnPackets' /\ LruHasUsed'
  BY DEF Connections, JobsInOrder, ReadyHasRoom, OwnPackets, LruHasUsed, InJob
<1>2. FreshIsUnheard'
  BY DEF Connections, FreshIsUnheard, Unheard, UnderWay, InJob
<1>3. FollowedOrLost'
  BY DEF Connections, FollowedOrLost, Follows, Rebinds, AllOf, InJob
<1> QED BY <1>1, <1>2, <1>3 DEF Connections

(* With the SOCKS connection all the server knew is gone; what is in the   *)
(* buffers stays.                                                          *)
LEMMA ConnectionsReset ==
    ASSUME TypeOK, Connections, UNCHANGED <<tableVars, bufVars>>,
           up' = <<>>, srv' = [c \in Conids |-> NoFlow]
    PROVE  Connections'
<1> USE DEF tableVars, bufVars
<1>1. JobsInOrder' /\ ReadyHasRoom' /\ OwnPackets' /\ LruHasUsed'
  BY DEF Connections, JobsInOrder, ReadyHasRoom, OwnPackets, LruHasUsed, InJob
<1>2. FreshIsUnheard'
  BY DEF Connections, FreshIsUnheard, Unheard, UnderWay, InJob
<1>3. FollowedOrLost'
  <2> SUFFICES ASSUME NEW c \in Conids, conaddr[c] # NoFlow, ~InJob(c), c \notin lostRebind
               PROVE  Follows(c, conaddr[c])'
    BY DEF FollowedOrLost, InJob
  <2>1. Follows(c, conaddr[c])
    BY DEF Connections, FollowedOrLost
  <2>2. AllOf(up, c, conaddr[c], 1)' /\ srv'[c] = NoFlow
    BY DEF AllOf
  <2> QED BY <2>1, <2>2 DEF Follows, Rebinds, AllOf
<1> QED BY <1>1, <1>2, <1>3 DEF Connections

(* free_socks(), with a client to free.                                    *)
LEMMA FreeSocksIInv ==
    ASSUME IInv, haveSocks, FreeSocks, UNCHANGED <<tableVars, bufVars>>,
           timer' \in BOOLEAN, freed' \in BOOLEAN,
           submits' = submits, replies' = replies, failures' \in 0..MaxFailures
    PROVE  IInv'
<1>1. state # "NONE" /\ (haveServer => socksUp)
  BY DEF IInv, OwnerAgrees
<1>2. SocksTypeOK' /\ HoldsWhatItsStateSays'
  BY <1>1, FreeReleasesAll DEF IInv, TypeOK, FreeSocks
<1>3. /\ haveServer' = FALSE /\ handed' = FALSE /\ sendCon' = sendCon
      /\ haveSocks' = FALSE /\ state' = "NONE" /\ event' = "NONE"
  BY <1>1 DEF FreeSocks, DisconnectServer, BSocksClientFree, sendVars, IInv, ConnectorHolds, TypeOK
<1>4. up' = <<>> /\ down' = <<>> /\ srv' = [c \in Conids |-> NoFlow] /\ srvLru' = <<>>
  BY DEF FreeSocks
<1>5. TypeOK'
  <2>1. up' \in Seq(Packet) /\ down' \in Seq(Reply) /\ srvLru' \in Seq(Conids)
    BY <1>4, EmptySeq
  <2>2. srv' \in [Conids -> Flows \cup {NoFlow}]
    BY <1>4
  <2> QED BY <1>2, <1>3, <2>1, <2>2
          DEF IInv, TypeOK, FreeSocks, tableVars, bufVars
<1>6. OwnerAgrees' /\ ConnectorHolds'
  BY <1>3 DEF IInv, OwnerAgrees, ConnectorHolds, bufVars
<1>7. Connections'
  BY <1>4, ConnectionsReset DEF IInv
<1> QED BY <1>2, <1>5, <1>6, <1>7 DEF IInv

LEMMA FailsType ==
    ASSUME failures \in 0..MaxFailures, Fails
    PROVE  failures' \in 0..MaxFailures
  BY UdpGwAssumption DEF Fails

LEMMA ReconnectTimerIInv == IInv /\ ReconnectTimer => IInv'
<1> SUFFICES ASSUME IInv, ReconnectTimer PROVE IInv'
  OBVIOUS
<1> USE DEF ReconnectTimer, tableVars, bufVars, sendVars, streamVars
<1>1. state = "NONE" /\ held = {} /\ haveSocks = FALSE /\ haveServer = FALSE /\ event = "NONE"
  BY DEF IInv, TypeOK, OwnerAgrees, HoldsWhatItsStateSays
<1>2. failures' \in 0..MaxFailures
  BY FailsType DEF IInv, TypeOK
<1>3. CASE BSocksClientInit /\ haveSocks' = TRUE /\ socksUp' = FALSE /\ timer' = FALSE
  <2>1. SocksTypeOK'
    BY <1>1, <1>3, Pieces, Zenon DEF SocksTypeOK, BSocksClientInit, Resources
  <2>2. HoldsWhatItsStateSays' /\ OwnerAgrees'
    BY <1>1, <1>3
       DEF HoldsWhatItsStateSays, OwnerAgrees, BSocksClientInit, SendingStates, WaitingStates
  <2> QED BY <1>2, <1>3, <2>1, <2>2, ConnectionsFrame
          DEF IInv, TypeOK, ConnectorHolds
<1>4. CASE UNCHANGED <<socksVars, haveSocks, socksUp, timer>>
  BY <1>2, <1>4, ConnectionsFrame
     DEF IInv, TypeOK, SocksTypeOK, ConnectorHolds, socksVars,
         HoldsWhatItsStateSays, OwnerAgrees
<1> QED BY <1>3, <1>4

LEMMA SocksStepIInv == IInv /\ SocksStep => IInv'
<1> SUFFICES ASSUME IInv, SocksStep PROVE IInv'
  OBVIOUS
<1> USE DEF SocksStep, ownerVars, tableVars, bufVars, sendVars, streamVars
<1>1. /\ SocksTypeOK' /\ HoldsWhatItsStateSays'
      /\ state # "NONE" /\ state' # "NONE"
      /\ event' = "UP" => state' = "UP"
      /\ state = "UP" => state' = "UP"
  BY HandlersHold DEF IInv, TypeOK
<1>2. failures' \in 0..MaxFailures
  BY FailsType DEF IInv, TypeOK
<1>3. OwnerAgrees'
  BY <1>1 DEF IInv, OwnerAgrees
<1> QED BY <1>1, <1>2, <1>3, ConnectionsFrame
        DEF IInv, TypeOK, ConnectorHolds

LEMMA SocksUpIInv == IInv /\ SocksUp => IInv'
<1> SUFFICES ASSUME IInv, SocksUp PROVE IInv'
  OBVIOUS
<1>0. haveSocks /\ state = "UP"
  BY DEF IInv, OwnerAgrees, SocksUp
<1>1. CASE Fails /\ FreeSocks /\ timer' = TRUE
  <2>1. failures' \in 0..MaxFailures
    BY <1>1, FailsType DEF IInv, TypeOK
  <2> QED BY <1>0, <1>1, <2>1, FreeSocksIInv DEF SocksUp, IInv, TypeOK
<1>2. CASE /\ ConnectServer /\ socksUp' = TRUE /\ event' = "NONE"
           /\ UNCHANGED <<state, held, sending, recvLeft, haveSocks, timer, streamVars, failures>>
  <2> USE DEF SocksUp, ConnectServer, tableVars, bufVars, streamVars
  <2>1. SocksTypeOK' /\ HoldsWhatItsStateSays'
    BY <1>2 DEF IInv, TypeOK, SocksTypeOK, HoldsWhatItsStateSays
  <2>2. OwnerAgrees' /\ ConnectorHolds'
    BY <1>0, <1>2 DEF IInv, OwnerAgrees, ConnectorHolds
  <2>3. TypeOK'
    BY <1>2, <2>1 DEF IInv, TypeOK
  <2> QED BY <1>2, <2>1, <2>2, <2>3, ConnectionsFrame DEF IInv
<1> QED BY <1>1, <1>2 DEF SocksUp

LEMMA SocksLostIInv ==
    ASSUME IInv, SocksError \/ ServerError \/ SocksUdpGwClientFree
    PROVE  IInv'
<1>1. CASE SocksError
  <2>1. haveSocks
    BY <1>1 DEF IInv, OwnerAgrees, SocksError, Errors
  <2> QED BY <1>1, <2>1, FreeSocksIInv DEF SocksError, IInv, TypeOK, historyVars
<1>2. CASE ServerError
  <2>1. haveSocks
    BY <1>2 DEF IInv, OwnerAgrees, ServerError
  <2>2. failures' \in 0..MaxFailures
    BY <1>2, FailsType DEF IInv, TypeOK, ServerError
  <2> QED BY <1>2, <2>1, <2>2, FreeSocksIInv DEF ServerError, IInv, TypeOK
<1>3. CASE SocksUdpGwClientFree
  <2>1. CASE haveSocks
    BY <1>3, <2>1, FreeSocksIInv DEF SocksUdpGwClientFree, IInv, TypeOK, historyVars
  <2>2. CASE ~haveSocks
    BY <1>3, <2>2, ConnectionsFrame
       DEF SocksUdpGwClientFree, IInv, TypeOK, SocksTypeOK, HoldsWhatItsStateSays, OwnerAgrees,
           ConnectorHolds, historyVars, tableVars, bufVars, sendVars,
           socksVars, streamVars
  <2> QED BY <2>1, <2>2
<1> QED BY <1>1, <1>2, <1>3

-----------------------------------------------------------------------------
(* Packets of the applications.                                            *)

(* find_unused_conid() finds one.                                          *)
LEMMA FindUnused ==
    ASSUME TypeOK, NEW u \in Conids, conaddr[u] = NoFlow
    PROVE  FindUnusedConid \in Conids /\ conaddr[FindUnusedConid] = NoFlow
<1> DEFINE unused == {c \in Conids : conaddr[c] = NoFlow}
           steps(c) == (c - nextConid + MaxConnections) % MaxConnections
           S == {steps(c) : c \in unused}
<1>1. MaxConnections \in Nat \ {0} /\ nextConid \in Conids
  BY UdpGwAssumption DEF TypeOK
<1>2. \A c \in unused : steps(c) \in Nat
  BY <1>1 DEF Conids
<1>3. PICK m \in S : \A n \in S : m <= n
  BY <1>2, LeastExists
<1>4. \E c \in unused : \A d \in unused : steps(c) <= steps(d)
  BY <1>3
<1> HIDE DEF steps
<1>5. FindUnusedConid = CHOOSE c \in unused : \A d \in unused : steps(c) <= steps(d)
  BY DEF FindUnusedConid, steps
<1>6. FindUnusedConid \in unused
  BY <1>4, <1>5
<1> QED BY <1>6

(* connection_send().                                                      *)
LEMMA Sends ==
    ASSUME TypeOK, NEW c \in Conids, NEW f \in Flows, NEW rebind \in BOOLEAN,
           ConnectionSend(c, f, rebind), OwnPackets, Len(buf[c]) < SendBuf \/ c \notin ready
    PROVE  /\ buf' \in [Conids -> Seq(Packet)]
           /\ ready' \subseteq Conids /\ lostRebind' \subseteq Conids
           /\ OwnPackets'
           /\ \A d \in Conids \ {c} : /\ buf'[d] = buf[d]
                                      /\ d \in ready' <=> d \in ready
                                      /\ d \in lostRebind' <=> d \in lostRebind
           /\ c \notin ready => buf' = buf /\ ready' = ready
           /\ c \in ready => /\ Len(buf'[c]) = Len(buf[c]) + 1
                             /\ c \in ready' <=> Len(buf'[c]) < SendBuf
                             /\ buf'[c] = Append(buf[c], [con |-> c, flow |-> f, rebind |-> rebind])
           /\ rebind => (c \in lostRebind' <=> c \notin ready)
           /\ ~rebind => lostRebind' = lostRebind
           /\ \A d \in Conids : buf'[d] = <<>> => buf[d] = <<>>
<1> DEFINE p == [con |-> c, flow |-> f, rebind |-> rebind]
<1>1. p \in Packet /\ p.con = c
  BY DEF Packet
<1>2. buf \in [Conids -> Seq(Packet)] /\ ready \subseteq Conids /\ lostRebind \subseteq Conids
  BY DEF TypeOK
<1>3. CASE c \notin ready
  BY <1>2, <1>3 DEF ConnectionSend, OwnPackets
<1>4. CASE c \in ready
  <2> HIDE DEF p
  <2>1. /\ buf' = [buf EXCEPT ![c] = Append(@, p)]
        /\ ready' = IF Len(buf'[c]) < SendBuf THEN ready ELSE ready \ {c}
        /\ lostRebind' = IF rebind THEN lostRebind \ {c} ELSE lostRebind
    BY <1>4 DEF ConnectionSend, p
  <2>2. /\ Append(buf[c], p) \in Seq(Packet)
        /\ Len(Append(buf[c], p)) = Len(buf[c]) + 1
        /\ DOMAIN Append(buf[c], p) = 1..(Len(buf[c]) + 1)
        /\ DOMAIN buf[c] = 1..Len(buf[c])
        /\ \A i \in 1..Len(buf[c]) : Append(buf[c], p)[i] = buf[c][i]
        /\ Append(buf[c], p)[Len(buf[c]) + 1] = p
        /\ Len(buf[c]) \in Nat
    BY <1>1, <1>2, AppendProperties, LenProperties
  <2>3. buf' \in [Conids -> Seq(Packet)] /\ buf'[c] = Append(buf[c], p)
        /\ \A d \in Conids \ {c} : buf'[d] = buf[d]
    BY <1>2, <2>1, <2>2
  <2>4. \A i \in DOMAIN buf'[c] : buf'[c][i].con = c
    BY <1>1, <2>2, <2>3 DEF OwnPackets
  <2>5. OwnPackets'
    BY <2>3, <2>4 DEF OwnPackets
  <2>6. buf'[c] # <<>>
    BY <2>2, <2>3, EmptySeq
  <2> QED BY <1>2, <1>4, <2>1, <2>2, <2>3, <2>5, <2>6 DEF p
<1> QED BY <1>3, <1>4

(* A packet of flow f on connection c, which is f's.                       *)
LEMMA SendFollows ==
    ASSUME TypeOK, NEW c \in Conids, c \in ready, NEW f \in Flows, NEW rebind \in BOOLEAN,
           buf'[c] = Append(buf[c], [con |-> c, flow |-> f, rebind |-> rebind]),
           UNCHANGED <<up, srv>>, rebind \/ Follows(c, f)
    PROVE  Follows(c, f)'
<1> DEFINE p == [con |-> c, flow |-> f, rebind |-> rebind]
<1>1. p \in Packet /\ p.con = c /\ p.flow = f /\ p.rebind = rebind
  BY DEF Packet
<1>2. buf[c] \in Seq(Packet)
  BY DEF TypeOK
<1> HIDE DEF p
<1>3. CASE rebind
  <2>1. Rebinds(Append(buf[c], p), c, f)
    BY <1>1, <1>2, <1>3, AppendPacket
  <2> QED BY <2>1 DEF Follows, Rebinds, AllOf, p
<1>4. CASE Follows(c, f)
  <2>1. \/ Rebinds(Append(buf[c], p), c, f)
        \/ AllOf(Append(buf[c], p), c, f, 1) /\ Rebinds(up, c, f)
        \/ AllOf(Append(buf[c], p), c, f, 1) /\ AllOf(up, c, f, 1) /\ srv[c] \in {NoFlow, f}
    BY <1>1, <1>2, <1>4, AppendPacket DEF Follows
  <2> QED BY <2>1 DEF Follows, Rebinds, AllOf, p
<1> QED BY <1>3, <1>4

(* A packet is sent on a connection in use: one more of its flow, or the   *)
(* REBIND of a flow that takes it over, or the first one, from its job.    *)
LEMMA SendConnections ==
    ASSUME TypeOK, Connections,
           NEW c \in Conids, NEW f \in Flows, NEW rebind \in BOOLEAN,
           ConnectionSend(c, f, rebind),
           conaddr[c] # NoFlow, conaddr' = [conaddr EXCEPT ![c] = f],
           rebind \/ (conaddr[c] = f /\ jobs = <<>>),
           jobs = <<>> \/ (jobs = << <<"first", c>> >> /\ c \in ready),
           jobs' = <<>>, lru' # <<>>, UNCHANGED <<up, srv>>
    PROVE  /\ Connections'
           /\ buf' \in [Conids -> Seq(Packet)]
           /\ ready' \subseteq Conids /\ lostRebind' \subseteq Conids
           /\ \A d \in Conids : buf'[d] = <<>> => buf[d] = <<>>
<1>0. /\ f # NoFlow /\ SendBuf \in Nat \ {0}
      /\ conaddr' \in [Conids -> Flows \cup {NoFlow}] /\ conaddr'[c] = f
      /\ \A d \in Conids \ {c} : conaddr'[d] = conaddr[d] /\ ~InJob(d)
      /\ \A d \in Conids : ~InJob(d)'
  <2>1. f # NoFlow /\ SendBuf \in Nat \ {0}
    BY UdpGwAssumption
  <2>2. /\ conaddr' \in [Conids -> Flows \cup {NoFlow}] /\ conaddr'[c] = f
        /\ \A d \in Conids \ {c} : conaddr'[d] = conaddr[d]
    BY DEF TypeOK
  <2>3. \A d \in Conids \ {c} : ~InJob(d)
    BY DEF InJob
  <2>4. \A d \in Conids : ~InJob(d)'
    BY DEF InJob
  <2> QED BY <2>1, <2>2, <2>3, <2>4
<1>1. c \in ready => Len(buf[c]) < SendBuf
  BY DEF Connections, ReadyHasRoom
<1>2. /\ buf' \in [Conids -> Seq(Packet)]
      /\ ready' \subseteq Conids /\ lostRebind' \subseteq Conids
      /\ OwnPackets'
      /\ \A d \in Conids \ {c} : /\ buf'[d] = buf[d]
                                 /\ d \in ready' <=> d \in ready
                                 /\ d \in lostRebind' <=> d \in lostRebind
      /\ c \notin ready => buf' = buf /\ ready' = ready
      /\ c \in ready => /\ Len(buf'[c]) = Len(buf[c]) + 1
                        /\ c \in ready' <=> Len(buf'[c]) < SendBuf
                        /\ buf'[c] = Append(buf[c], [con |-> c, flow |-> f, rebind |-> rebind])
      /\ rebind => (c \in lostRebind' <=> c \notin ready)
      /\ ~rebind => lostRebind' = lostRebind
      /\ \A d \in Conids : buf'[d] = <<>> => buf[d] = <<>>
  BY <1>1, Sends DEF Connections
<1>3. JobsInOrder' /\ LruHasUsed'
  BY DEF JobsInOrder, LruHasUsed
<1>4. ReadyHasRoom'
  <2>1. Len(buf[c]) \in Nat
    BY LenProperties DEF TypeOK
  <2>2. c \notin ready => Len(buf[c]) = SendBuf
    BY <1>0 DEF Connections, ReadyHasRoom, InJob
  <2> QED BY <1>0, <1>1, <1>2, <2>1, <2>2 DEF Connections, ReadyHasRoom
<1>5. FreshIsUnheard'
  <2> SUFFICES ASSUME NEW d \in Conids, conaddr'[d] = NoFlow PROVE Unheard(d)'
    BY <1>0 DEF FreshIsUnheard
  <2>1. d # c /\ conaddr[d] = NoFlow
    BY <1>0
  <2> QED BY <1>2, <2>1 DEF Connections, FreshIsUnheard, Unheard, UnderWay
<1>6. FollowedOrLost'
  <2> SUFFICES ASSUME NEW d \in Conids, conaddr'[d] # NoFlow, d \notin lostRebind'
               PROVE  Follows(d, conaddr[d])'
    BY <1>0 DEF FollowedOrLost
  <2>1. CASE d # c
    <3>1. Follows(d, conaddr[d])
      BY <1>0, <1>2, <2>1 DEF Connections, FollowedOrLost
    <3>2. buf'[d] = buf[d] /\ conaddr'[d] = conaddr[d]
      BY <1>0, <1>2, <2>1
    <3> QED BY <3>1, <3>2 DEF Follows, Rebinds, AllOf
  <2>2. CASE d = c /\ c \in ready
    <3>1. rebind \/ Follows(c, f)
      BY <1>2, <2>2 DEF Connections, FollowedOrLost, InJob
    <3> QED BY <1>0, <1>2, <2>2, <3>1, SendFollows
  <2>3. CASE d = c /\ c \notin ready
    <3>1. ~rebind /\ conaddr[c] = f /\ jobs = <<>> /\ c \notin lostRebind
      BY <1>2, <2>3
    <3>2. Follows(c, f)
      BY <1>0, <3>1 DEF Connections, FollowedOrLost, InJob
    <3> QED BY <1>0, <1>2, <2>3, <3>2 DEF Follows, Rebinds, AllOf
  <2> QED BY <2>1, <2>2, <2>3
<1> QED BY <1>2, <1>3, <1>4, <1>5, <1>6 DEF Connections

(* connection_init(): a fresh connection.                                  *)
LEMMA InitConnections ==
    ASSUME TypeOK, Connections, jobs = <<>>, NEW f \in Flows, ConnectionInit(f),
           NEW u \in Conids, conaddr[u] = NoFlow, UNCHANGED <<bufVars, up, srv>>
    PROVE  /\ Connections'
           /\ conaddr' \in [Conids -> Flows \cup {NoFlow}]
           /\ lru' \in Seq(Conids) /\ jobs' \in Seq(Job) /\ nextConid' \in Conids
<1> DEFINE c == FindUnusedConid
<1>1. c \in Conids /\ conaddr[c] = NoFlow
  BY FindUnused
<1> HIDE DEF c
<1>2. /\ conaddr' = [conaddr EXCEPT ![c] = f] /\ lru' = Append(lru, c) /\ nextConid' = c
      /\ jobs' = <<<<"recv", c>>>> \o (<<<<"first", c>>>> \o <<>>)
  BY DEF ConnectionInit, BPendingSet, c
<1>3. jobs' = << <<"recv", c>>, <<"first", c>> >>
  <2>1. ASSUME NEW a, NEW b PROVE <<a>> \o (<<b>> \o <<>>) = <<a, b>>
    <3>1. <<a>> \in Seq({a, b}) /\ <<b>> \in Seq({a, b}) /\ <<a, b>> \in Seq({a, b})
      OBVIOUS
    <3>2. <<b>> \o <<>> = <<b>>
      BY <3>1, ConcatEmptySeq
    <3>3. /\ <<a>> \o <<b>> \in Seq({a, b}) /\ Len(<<a>> \o <<b>>) = 2
          /\ \A i \in 1..2 : (<<a>> \o <<b>>)[i] = IF i <= 1 THEN <<a>>[i] ELSE <<b>>[i - 1]
      BY <3>1, ConcatProperties
    <3>4. \A i \in 1..2 : (<<a>> \o <<b>>)[i] = <<a, b>>[i]
      BY <3>3
    <3> QED BY <3>1, <3>2, <3>3, <3>4, SeqEqual
  <2> QED BY <1>2, <2>1
<1>4. jobs' \in Seq(Job) /\ Head(jobs') = <<"recv", c>> /\ jobs' # <<>>
  BY <1>1, <1>3 DEF Job
<1>5. /\ conaddr' \in [Conids -> Flows \cup {NoFlow}] /\ conaddr'[c] = f /\ f # NoFlow
      /\ \A d \in Conids \ {c} : conaddr'[d] = conaddr[d]
      /\ lru' \in Seq(Conids) /\ lru' # <<>>
  <2>1. lru \in Seq(Conids) /\ f # NoFlow
    BY UdpGwAssumption DEF TypeOK
  <2>2. lru' \in Seq(Conids) /\ lru' # <<>>
    BY <1>1, <1>2, <2>1, AppendProperties
  <2> QED BY <1>1, <1>2, <2>1, <2>2 DEF TypeOK
<1>6. \A d \in Conids : ~InJob(d) /\ (InJob(d)' <=> d = c)
  BY <1>4 DEF InJob
<1>7. JobsInOrder' /\ LruHasUsed'
  BY <1>1, <1>3, <1>5 DEF JobsInOrder, LruHasUsed
<1>8. ReadyHasRoom' /\ OwnPackets'
  BY <1>5, <1>6 DEF Connections, ReadyHasRoom, OwnPackets, bufVars
<1>9. FreshIsUnheard'
  BY <1>1, <1>5, <1>6 DEF Connections, FreshIsUnheard, Unheard, UnderWay, bufVars
<1>10. FollowedOrLost'
  <2> SUFFICES ASSUME NEW d \in Conids \ {c}, conaddr[d] # NoFlow, d \notin lostRebind
               PROVE  Follows(d, conaddr[d])'
    BY <1>5, <1>6 DEF FollowedOrLost, bufVars
  <2>1. Follows(d, conaddr[d])
    BY <1>6 DEF Connections, FollowedOrLost
  <2> QED BY <1>5, <2>1 DEF Follows, Rebinds, AllOf, bufVars
<1> QED BY <1>1, <1>2, <1>4, <1>5, <1>7, <1>8, <1>9, <1>10 DEF Connections

LEMMA SubmitPacketIInv ==
    ASSUME IInv, NEW f \in Flows, SubmitPacket(f)
    PROVE  IInv'
<1> DEFINE known == {c \in Conids : conaddr[c] = f}
           full == \A c \in Conids : conaddr[c] # NoFlow
<1>0. /\ TypeOK /\ Connections /\ jobs = <<>> /\ f # NoFlow
      /\ UNCHANGED <<socksVars, ownerVars, sendVars, streamVars, replies, failures>>
      /\ submits' \in 0..MaxSubmits
  <2>1. TypeOK /\ Connections /\ jobs = <<>>
    BY DEF IInv, SubmitPacket, Idle
  <2>2. f # NoFlow
    BY UdpGwAssumption
  <2>3. submits' \in 0..MaxSubmits
    BY <2>1, UdpGwAssumption DEF SubmitPacket, TypeOK
  <2> QED BY <2>1, <2>2, <2>3 DEF SubmitPacket
<1>1. SocksTypeOK' /\ HoldsWhatItsStateSays' /\ OwnerAgrees'
  BY <1>0 DEF IInv, TypeOK, SocksTypeOK, HoldsWhatItsStateSays, OwnerAgrees,
     socksVars, ownerVars, sendVars
(* The packet joins the buffer of a connection in use.                     *)
<1>2. ASSUME NEW c \in Conids, NEW rebind \in BOOLEAN, ConnectionSend(c, f, rebind),
             conaddr[c] # NoFlow, conaddr' = [conaddr EXCEPT ![c] = f],
             rebind \/ conaddr[c] = f, lru' = MoveToEnd(lru, c), UNCHANGED <<nextConid, jobs>>
      PROVE  IInv'
  <2>1. lru' \in Seq(Conids) /\ lru' # <<>>
    BY <1>0, <1>2, MoveToEndType DEF TypeOK
  <2>2. /\ Connections'
        /\ buf' \in [Conids -> Seq(Packet)]
        /\ ready' \subseteq Conids /\ lostRebind' \subseteq Conids
        /\ \A d \in Conids : buf'[d] = <<>> => buf[d] = <<>>
    BY <1>0, <1>2, <2>1, SendConnections DEF streamVars
  <2>3. conaddr' \in [Conids -> Flows \cup {NoFlow}]
    BY <1>0, <1>2 DEF TypeOK
  <2>4. TypeOK'
    BY <1>0, <1>1, <1>2, <2>1, <2>2, <2>3
       DEF TypeOK, ownerVars, sendVars, streamVars
  <2>5. ConnectorHolds'
    BY <1>0, <2>2 DEF IInv, TypeOK, ConnectorHolds, sendVars
  <2> QED BY <1>1, <2>2, <2>4, <2>5 DEF IInv
<1>3. ASSUME NEW c \in known, ConnectionSend(c, f, FALSE), lru' = MoveToEnd(lru, c),
             UNCHANGED <<conaddr, nextConid, jobs>>
      PROVE  IInv'
  <2>1. conaddr' = [conaddr EXCEPT ![c] = f]
    BY <1>0, <1>3 DEF TypeOK
  <2> QED BY <1>0, <1>2, <1>3, <2>1
<1>4. ASSUME full, conaddr' = [conaddr EXCEPT ![Head(lru)] = f],
             ConnectionSend(Head(lru), f, TRUE), lru' = MoveToEnd(lru, Head(lru)),
             UNCHANGED <<nextConid, jobs>>
      PROVE  IInv'
  <2>1. 0 \in Conids
    BY UdpGwAssumption DEF Conids
  <2>2. lru # <<>>
    BY <1>0, <1>4, <2>1 DEF Connections, LruHasUsed
  <2>3. Head(lru) \in Conids
    BY <1>0, <2>2, HeadTailProperties DEF TypeOK
  <2> QED BY <1>2, <1>4, <2>3
(* A new connection, or no memory for one.                                 *)
<1>5. ASSUME ~full, ConnectionInit(f), UNCHANGED bufVars PROVE IInv'
  <2>1. PICK u \in Conids : conaddr[u] = NoFlow
    BY <1>5
  <2>2. /\ Connections'
        /\ conaddr' \in [Conids -> Flows \cup {NoFlow}]
        /\ lru' \in Seq(Conids) /\ jobs' \in Seq(Job) /\ nextConid' \in Conids
    BY <1>0, <1>5, <2>1, InitConnections DEF streamVars
  <2>3. TypeOK'
    BY <1>0, <1>1, <1>5, <2>2 DEF TypeOK, ownerVars, sendVars, streamVars, bufVars
  <2>4. ConnectorHolds'
    BY <1>0, <1>5 DEF IInv, ConnectorHolds, sendVars, bufVars
  <2> QED BY <1>1, <2>2, <2>3, <2>4 DEF IInv
<1>6. ASSUME ~full, nextConid' = FindUnusedConid, UNCHANGED <<conaddr, lru, jobs, bufVars>>
      PROVE  IInv'
  <2>1. nextConid' \in Conids
    BY <1>0, <1>6, FindUnused
  <2>2. TypeOK'
    BY <1>0, <1>1, <1>6, <2>1 DEF TypeOK, ownerVars, sendVars, streamVars, bufVars
  <2>3. Connections'
    BY <1>0, <1>6, ConnectionsFrame DEF bufVars, streamVars
  <2>4. ConnectorHolds'
    BY <1>0, <1>6 DEF IInv, ConnectorHolds, sendVars, bufVars
  <2> QED BY <1>1, <2>2, <2>3, <2>4 DEF IInv
<1> QED BY <1>3, <1>4, <1>5, <1>6 DEF SubmitPacket

(* The first job makes the buffer ready; the second finds it so.           *)
LEMMA RunJobIInv == IInv /\ RunJob => IInv'
<1> SUFFICES ASSUME IInv, RunJob PROVE IInv'
  OBVIOUS
<1>0. /\ TypeOK /\ Connections /\ jobs # <<>>
      /\ UNCHANGED <<socksVars, ownerVars, conaddr, lru, nextConid, sendVars, streamVars, historyVars>>
  BY DEF IInv, RunJob
<1>1. SocksTypeOK' /\ HoldsWhatItsStateSays' /\ OwnerAgrees'
  BY <1>0 DEF IInv, TypeOK, SocksTypeOK, HoldsWhatItsStateSays, OwnerAgrees,
     socksVars, ownerVars, sendVars, historyVars
<1>2. PICK c \in Conids :
        /\ conaddr[c] # NoFlow
        /\ \/ jobs = << <<"recv", c>>, <<"first", c>> >>
           \/ jobs = << <<"first", c>> >> /\ c \in ready
  BY <1>0 DEF Connections, JobsInOrder
<1>3. InJob(c) /\ \A d \in Conids : InJob(d) => d = c
  BY <1>2 DEF InJob
<1>4. CASE jobs = << <<"recv", c>>, <<"first", c>> >>
  <2>1. /\ jobs' = << <<"first", c>> >>
        /\ ready' = ready \cup {c} /\ UNCHANGED <<buf, lostRebind>>
    BY <1>4 DEF RunJob
  <2>2. \A d \in Conids : InJob(d)' <=> d = c
    BY <2>1 DEF InJob
  <2>3. jobs' \in Seq(Job)
    BY <2>1 DEF Job
  <2>4. TypeOK'
    BY <1>0, <1>1, <2>1, <2>3 DEF TypeOK, ownerVars, sendVars, streamVars, historyVars
  <2>5. JobsInOrder' /\ LruHasUsed' /\ OwnPackets' /\ ConnectorHolds'
    BY <1>0, <1>2, <2>1 DEF IInv, Connections, JobsInOrder, LruHasUsed, OwnPackets,
       ConnectorHolds, sendVars, TypeOK
  <2>6. ReadyHasRoom'
    <3>1. buf[c] = <<>>
      BY <1>0, <1>3 DEF Connections, FreshIsUnheard, Unheard, UnderWay
    <3>2. Len(buf[c]) < SendBuf
      BY <3>1, UdpGwAssumption
    <3> QED BY <1>0, <1>3, <2>1, <2>2, <3>2 DEF Connections, ReadyHasRoom
  <2>7. FreshIsUnheard'
    BY <1>0, <1>3, <2>1, <2>2 DEF Connections, FreshIsUnheard, Unheard, UnderWay, streamVars
  <2>8. FollowedOrLost'
    BY <1>0, <1>3, <2>1, <2>2
       DEF Connections, FollowedOrLost, Follows, Rebinds, AllOf, streamVars
  <2> QED BY <1>1, <2>4, <2>5, <2>6, <2>7, <2>8 DEF IInv, Connections
<1>5. CASE jobs = << <<"first", c>> >> /\ c \in ready
  <2>1. jobs' = <<>> /\ ConnectionSend(c, conaddr[c], TRUE)
    <3>1. Head(jobs)[1] # "recv" /\ Head(jobs)[2] = c /\ Tail(jobs) = <<>>
      BY <1>5
    <3>2. jobs' = Tail(jobs) /\ ConnectionSend(Head(jobs)[2], conaddr[Head(jobs)[2]], TRUE)
      BY <3>1 DEF RunJob
    <3> QED BY <3>1, <3>2
  <2>2. conaddr[c] \in Flows /\ conaddr' = [conaddr EXCEPT ![c] = conaddr[c]] /\ lru' # <<>>
    BY <1>0, <1>2 DEF TypeOK, Connections, LruHasUsed
  <2>3. /\ Connections'
        /\ buf' \in [Conids -> Seq(Packet)]
        /\ ready' \subseteq Conids /\ lostRebind' \subseteq Conids
        /\ \A d \in Conids : buf'[d] = <<>> => buf[d] = <<>>
    BY <1>0, <1>2, <1>5, <2>1, <2>2, SendConnections DEF streamVars
  <2>4. jobs' \in Seq(Job)
    BY <2>1, EmptySeq
  <2>5. TypeOK'
    BY <1>0, <1>1, <2>3, <2>4 DEF TypeOK, ownerVars, sendVars, streamVars, historyVars
  <2>6. ConnectorHolds'
    BY <1>0, <2>3 DEF IInv, TypeOK, ConnectorHolds, sendVars
  <2> QED BY <1>1, <2>3, <2>5, <2>6 DEF IInv
<1> QED BY <1>2, <1>4, <1>5

-----------------------------------------------------------------------------
(* The way to the server and back.                                         *)

LEMMA ConnectorSendIInv ==
    ASSUME IInv, NEW c \in Conids, ConnectorSend(c)
    PROVE  IInv'
<1> USE DEF IInv, ConnectorSend, ownerVars, tableVars, bufVars, streamVars, historyVars
<1>1. SocksTypeOK' /\ HoldsWhatItsStateSays' /\ OwnerAgrees'
  BY DEF TypeOK, SocksTypeOK, HoldsWhatItsStateSays, OwnerAgrees, socksVars
<1>2. TypeOK'
  BY <1>1 DEF TypeOK
<1>3. ConnectorHolds'
  BY UdpGwAssumption DEF ConnectorHolds, Conids, NoCon
<1>4. Connections'
  BY ConnectionsFrame
<1> QED BY <1>1, <1>2, <1>3, <1>4

(* The first packet of a buffer goes to the end of the stream.             *)
LEMMA ConnectorDoneIInv == IInv /\ ConnectorDone => IInv'
<1> SUFFICES ASSUME IInv, ConnectorDone PROVE IInv'
  OBVIOUS
<1> DEFINE c == sendCon
           p == Head(buf[c])
<1>0. /\ TypeOK /\ Connections
      /\ UNCHANGED <<socksVars, ownerVars, tableVars, lostRebind, haveServer, down, srv, srvLru, historyVars>>
      /\ sendCon' = NoCon /\ handed' = FALSE /\ ready' = ready \cup {c}
      /\ up' = Append(up, p) /\ buf' = [buf EXCEPT ![c] = Tail(@)]
      /\ jobs = <<>>
  BY DEF IInv, ConnectorDone, Idle
<1>1. SocksTypeOK' /\ HoldsWhatItsStateSays' /\ OwnerAgrees' /\ ConnectorHolds'
  BY <1>0 DEF IInv, TypeOK, SocksTypeOK, HoldsWhatItsStateSays, OwnerAgrees,
     ConnectorHolds, socksVars, ownerVars, historyVars
<1>2. c \in Conids /\ buf[c] # <<>> /\ buf[c] \in Seq(Packet) /\ up \in Seq(Packet)
  BY <1>0 DEF IInv, ConnectorDone, ConnectorHolds, TypeOK
<1> HIDE DEF c
<1>3. /\ Tail(buf[c]) \in Seq(Packet) /\ p \in Packet /\ p.con = c
      /\ Len(Tail(buf[c])) = Len(buf[c]) - 1 /\ Len(buf[c]) \in Nat \ {0}
      /\ DOMAIN Tail(buf[c]) = 1..(Len(buf[c]) - 1) /\ DOMAIN buf[c] = 1..Len(buf[c])
      /\ \A i \in 1..(Len(buf[c]) - 1) : Tail(buf[c])[i] = buf[c][i + 1]
  <2>1. 1 \in DOMAIN buf[c] /\ p = buf[c][1]
    BY <1>2, HeadTailProperties, LenProperties, EmptySeq
  <2>2. p.con = c
    BY <1>0, <1>2, <2>1 DEF Connections, OwnPackets
  <2> QED BY <1>2, <2>2, HeadTailProperties, LenProperties, EmptySeq
<1> HIDE DEF p
<1>4. /\ buf' \in [Conids -> Seq(Packet)] /\ buf'[c] = Tail(buf[c])
      /\ \A d \in Conids \ {c} : buf'[d] = buf[d]
      /\ up' \in Seq(Packet)
  BY <1>0, <1>2, <1>3, AppendProperties DEF TypeOK
<1>5. TypeOK'
  BY <1>0, <1>1, <1>2, <1>4 DEF TypeOK, ownerVars, tableVars, historyVars
<1>6. \A d \in Conids : ~InJob(d) /\ ~InJob(d)'
  BY <1>0 DEF InJob, tableVars
<1>7. conaddr[c] # NoFlow
  BY <1>0, <1>2 DEF Connections, FreshIsUnheard, Unheard, UnderWay
<1>8. JobsInOrder' /\ LruHasUsed'
  BY <1>0 DEF Connections, JobsInOrder, LruHasUsed, tableVars
<1>9. ReadyHasRoom'
  <2>1. SendBuf \in Nat /\ Len(buf[c]) <= SendBuf
    BY <1>0, <1>2, <1>3, <1>6, <1>7, UdpGwAssumption DEF Connections, ReadyHasRoom
  <2>2. Len(buf'[c]) < SendBuf
    BY <1>3, <1>4, <2>1
  <2> QED BY <1>0, <1>4, <1>6, <2>2 DEF Connections, ReadyHasRoom, tableVars
<1>10. OwnPackets'
  <2>1. \A i \in DOMAIN buf'[c] : buf'[c][i].con = c
    <3> SUFFICES ASSUME NEW i \in 1..(Len(buf[c]) - 1) PROVE buf[c][i + 1].con = c
      BY <1>3, <1>4
    <3>1. i + 1 \in DOMAIN buf[c]
      BY <1>3
    <3> QED BY <1>0, <1>2, <3>1 DEF Connections, OwnPackets
  <2> QED BY <1>0, <1>4, <2>1 DEF Connections, OwnPackets
<1>11. FreshIsUnheard'
  <2> SUFFICES ASSUME NEW d \in Conids, conaddr[d] = NoFlow PROVE Unheard(d)'
    BY <1>0, <1>6 DEF FreshIsUnheard, tableVars
  <2>1. d # c /\ Unheard(d)
    BY <1>0, <1>7 DEF Connections, FreshIsUnheard
  <2>2. \A i \in DOMAIN up' : up'[i].con # d
    <3>1. /\ DOMAIN up' = 1..(Len(up) + 1) /\ DOMAIN up = 1..Len(up) /\ Len(up) \in Nat
          /\ \A i \in 1..Len(up) : up'[i] = up[i]
          /\ up'[Len(up) + 1] = p
      BY <1>0, <1>2, <1>3, AppendProperties, LenProperties
    <3> QED BY <1>3, <2>1, <3>1 DEF Unheard, UnderWay
  <2> QED BY <1>0, <1>4, <2>1, <2>2 DEF Unheard, UnderWay
<1>12. FollowedOrLost'
  <2> SUFFICES ASSUME NEW d \in Conids, conaddr[d] # NoFlow, d \notin lostRebind
               PROVE  Follows(d, conaddr[d])'
    BY <1>0 DEF FollowedOrLost, tableVars
  <2>1. PICK f : f = conaddr[d]
    OBVIOUS
  <2>2. Follows(d, f)
    BY <1>0, <1>6, <2>1 DEF Connections, FollowedOrLost
  <2>3. \/ Rebinds(buf'[d], d, f)
        \/ AllOf(buf'[d], d, f, 1) /\ Rebinds(up', d, f)
        \/ AllOf(buf'[d], d, f, 1) /\ AllOf(up', d, f, 1) /\ srv[d] \in {NoFlow, f}
    <3>1. CASE d # c
      BY <1>0, <1>2, <1>3, <1>4, <2>2, <3>1, AppendPacket DEF Follows
    <3>2. CASE d = c
      <4>1. CASE Rebinds(buf[c], c, f)
        <5>1. \/ Rebinds(Tail(buf[c]), c, f)
              \/ p.con = c /\ p.rebind /\ p.flow = f /\ AllOf(Tail(buf[c]), c, f, 1)
          BY <1>2, <4>1, TailPacket DEF p
        <5> QED BY <1>0, <1>2, <1>3, <1>4, <3>2, <5>1, AppendPacket
      <4>2. CASE AllOf(buf[c], c, f, 1)
        <5>1. AllOf(Tail(buf[c]), c, f, 1) /\ p.flow = f
          BY <1>2, <1>3, <4>2, TailPacket DEF p
        <5> QED BY <1>0, <1>2, <1>3, <1>4, <2>2, <3>2, <4>1, <5>1, AppendPacket DEF Follows
      <4> QED BY <2>2, <3>2, <4>1, <4>2 DEF Follows
    <3> QED BY <3>1, <3>2
  <2>4. conaddr'[d] = f /\ srv'[d] = srv[d]
    BY <1>0, <2>1 DEF tableVars
  <2> QED BY <2>3, <2>4 DEF Follows, Rebinds, AllOf
<1> QED BY <1>1, <1>5, <1>8, <1>9, <1>10, <1>11, <1>12 DEF IInv, Connections

(* A reply is delivered only when its connection has its remote address.   *)
LEMMA ClientReceiveIInv == IInv /\ ClientReceive => IInv'
<1> SUFFICES ASSUME IInv, ClientReceive PROVE IInv'
  OBVIOUS
<1> DEFINE r == Head(down)
<1>0. /\ TypeOK /\ Connections /\ down # <<>> /\ down' = Tail(down)
      /\ UNCHANGED <<socksVars, ownerVars, conaddr, nextConid, jobs, bufVars, sendVars, up, srv, srvLru,
                     submits, replies, failures>>
  BY DEF IInv, ClientReceive
<1>1. r \in Reply /\ down' \in Seq(Reply)
  BY <1>0, HeadTailProperties DEF TypeOK
<1>2. lru' \in Seq(Conids) /\ (lru' = lru \/ lru' # <<>>)
  <2>1. r.con \in Conids
    BY <1>1 DEF Reply
  <2>2. MoveToEnd(lru, r.con) \in Seq(Conids) /\ MoveToEnd(lru, r.con) # <<>>
    BY <1>0, <2>1, MoveToEndType DEF TypeOK
  <2> QED BY <1>0, <2>2 DEF TypeOK, ClientReceive
<1>3. /\ SocksTypeOK' /\ HoldsWhatItsStateSays' /\ OwnerAgrees' /\ ConnectorHolds'
  BY <1>0 DEF IInv, TypeOK, SocksTypeOK, HoldsWhatItsStateSays, OwnerAgrees, ConnectorHolds,
     socksVars, ownerVars, sendVars, bufVars
<1>4. TypeOK'
  BY <1>0, <1>1, <1>2, <1>3 DEF TypeOK, ownerVars, bufVars, sendVars
<1>5. Connections'
  BY <1>0, <1>2, ConnectionsFrame DEF bufVars
<1> QED BY <1>3, <1>4, <1>5 DEF IInv

(* The first packet of the stream: a REBIND replaces whatever socket its   *)
(* connection has, and a packet of the socket's own flow leaves it.        *)
LEMMA ServerReceiveIInv == IInv /\ ServerReceive => IInv'
<1> SUFFICES ASSUME IInv, ServerReceive PROVE IInv'
  OBVIOUS
<1> DEFINE p == Head(up)
           left == RemoveFirst(srvLru, p.con)
           full == Len(left) = SrvConnections
           kept == IF full THEN Tail(left) ELSE left
<1>0. /\ TypeOK /\ Connections /\ up # <<>> /\ up' = Tail(up) /\ up \in Seq(Packet)
      /\ UNCHANGED <<socksVars, ownerVars, tableVars, bufVars, sendVars, down, historyVars>>
  BY DEF IInv, ServerReceive, TypeOK
<1>1. /\ p \in Packet /\ p.con \in Conids /\ p.flow \in Flows /\ up' \in Seq(Packet)
      /\ DOMAIN up' = 1..(Len(up) - 1) /\ DOMAIN up = 1..Len(up) /\ Len(up) \in Nat \ {0}
      /\ \A i \in 1..(Len(up) - 1) : up'[i] = up[i + 1]
      /\ p = up[1]
  <2>1. p \in Packet
    BY <1>0, HeadTailProperties
  <2> QED BY <1>0, <2>1, HeadTailProperties, LenProperties, EmptySeq DEF Packet
<1> HIDE DEF p
<1>2. left \in Seq(Conids) /\ kept \in Seq(Conids)
  <2>1. left \in Seq(Conids)
    BY <1>0, <1>1, RemoveFirstType DEF TypeOK
  <2>2. full => left # <<>>
    BY UdpGwAssumption
  <2> HIDE DEF left
  <2>3. left # <<>> => Tail(left) \in Seq(Conids)
    BY <2>1, HeadTailProperties
  <2> QED BY <2>1, <2>2, <2>3
<1>3. /\ srvLru' \in Seq(Conids)
      /\ srv' \in [Conids -> Flows \cup {NoFlow}]
      /\ \A c \in Conids \ {p.con} : srv'[c] \in {NoFlow, srv[c]}
      /\ srv'[p.con] \in {NoFlow, srv[p.con], p.flow}
      /\ p.rebind => srv'[p.con] \in {NoFlow, p.flow}
  <2>1. CASE srv[p.con] # NoFlow /\ ~ClosesOld(p)
    <3>1. srvLru' = MoveToEnd(srvLru, p.con) /\ srv' = srv
      BY <2>1 DEF ServerReceive, p
    <3>2. ~p.rebind
      BY <2>1 DEF ClosesOld
    <3> QED BY <1>0, <1>1, <3>1, <3>2, MoveToEndType DEF TypeOK
  <2>2. CASE ~(srv[p.con] # NoFlow /\ ~ClosesOld(p))
    <3>1. PICK created \in BOOLEAN :
            /\ srv' = [c \in Conids |->
                         CASE c = p.con -> IF created THEN p.flow ELSE NoFlow
                           [] c # p.con /\ full /\ c = Head(left) -> NoFlow
                           [] OTHER -> srv[c]]
            /\ srvLru' = IF created THEN Append(kept, p.con) ELSE kept
      BY <2>2 DEF ServerReceive, p
    <3> HIDE DEF left, full, kept
    <3>2. srvLru' \in Seq(Conids)
      BY <1>1, <1>2, <3>1, AppendProperties
    <3>3. srv'[p.con] \in {NoFlow, p.flow} /\ \A c \in Conids \ {p.con} : srv'[c] \in {NoFlow, srv[c]}
      BY <1>1, <3>1
    <3>4. srv' \in [Conids -> Flows \cup {NoFlow}]
      BY <1>0, <1>1, <3>1 DEF TypeOK
    <3> QED BY <3>2, <3>3, <3>4
  <2> QED BY <2>1, <2>2
<1> HIDE DEF left, full, kept
<1>4. /\ SocksTypeOK' /\ HoldsWhatItsStateSays' /\ OwnerAgrees' /\ ConnectorHolds'
  BY <1>0 DEF IInv, TypeOK, SocksTypeOK, HoldsWhatItsStateSays, OwnerAgrees, ConnectorHolds,
     socksVars, ownerVars, sendVars, bufVars, historyVars
<1>5. TypeOK'
  BY <1>0, <1>1, <1>3, <1>4 DEF TypeOK, ownerVars, tableVars, bufVars, sendVars, historyVars
<1>6. JobsInOrder' /\ LruHasUsed' /\ ReadyHasRoom' /\ OwnPackets'
  BY <1>0 DEF Connections, JobsInOrder, LruHasUsed, ReadyHasRoom, OwnPackets, InJob, tableVars, bufVars
<1>7. FreshIsUnheard'
  <2> SUFFICES ASSUME NEW d \in Conids, conaddr[d] = NoFlow \/ InJob(d) PROVE Unheard(d)'
    BY <1>0 DEF FreshIsUnheard, InJob, tableVars
  <2>1. Unheard(d)
    BY <1>0 DEF Connections, FreshIsUnheard
  <2>2. d # p.con
    BY <1>1, <2>1 DEF Unheard, UnderWay
  <2>3. \A i \in DOMAIN up' : up'[i].con # d
    <3> SUFFICES ASSUME NEW i \in 1..(Len(up) - 1) PROVE up[i + 1].con # d
      BY <1>1
    <3>1. i + 1 \in DOMAIN up
      BY <1>1
    <3> QED BY <2>1, <3>1 DEF Unheard, UnderWay
  <2>4. srv'[d] = NoFlow
    BY <1>3, <2>1, <2>2 DEF Unheard
  <2> QED BY <1>0, <2>1, <2>3, <2>4 DEF Unheard, UnderWay, bufVars
<1>8. FollowedOrLost'
  <2> SUFFICES ASSUME NEW d \in Conids, conaddr[d] # NoFlow, ~InJob(d), d \notin lostRebind
               PROVE  Follows(d, conaddr[d])'
    BY <1>0 DEF FollowedOrLost, InJob, tableVars, bufVars
  <2>1. PICK f : f = conaddr[d]
    OBVIOUS
  <2>2. Follows(d, f)
    BY <1>0, <2>1 DEF Connections, FollowedOrLost
  <2>3. \/ Rebinds(buf[d], d, f)
        \/ AllOf(buf[d], d, f, 1) /\ Rebinds(up', d, f)
        \/ AllOf(buf[d], d, f, 1) /\ AllOf(up', d, f, 1) /\ srv'[d] \in {NoFlow, f}
    <3>1. CASE Rebinds(up, d, f) /\ AllOf(buf[d], d, f, 1)
      <4>1. \/ Rebinds(up', d, f)
            \/ p.con = d /\ p.rebind /\ p.flow = f /\ AllOf(up', d, f, 1)
        BY <1>0, <3>1, TailPacket DEF p
      <4> QED BY <1>3, <3>1, <4>1
    <3>2. CASE AllOf(buf[d], d, f, 1) /\ AllOf(up, d, f, 1) /\ srv[d] \in {NoFlow, f}
      <4>1. AllOf(up', d, f, 1) /\ (p.con = d => p.flow = f)
        BY <1>0, <3>2, TailPacket DEF p
      <4>2. srv'[d] \in {NoFlow, f}
        BY <1>3, <3>2, <4>1
      <4> QED BY <3>2, <4>1, <4>2
    <3> QED BY <2>2, <3>1, <3>2 DEF Follows
  <2>4. conaddr'[d] = f /\ buf'[d] = buf[d]
    BY <1>0, <2>1 DEF tableVars, bufVars
  <2> QED BY <2>3, <2>4 DEF Follows, Rebinds, AllOf
<1> QED BY <1>4, <1>5, <1>6, <1>7, <1>8 DEF IInv, Connections

LEMMA ServerReplyIInv ==
    ASSUME IInv, NEW c \in Conids, ServerReply(c)
    PROVE  IInv'
<1>0. /\ TypeOK /\ Connections /\ srv[c] \in Flows
      /\ UNCHANGED <<socksVars, ownerVars, tableVars, bufVars, sendVars, up, srv, submits,
                     failures>>
  BY DEF IInv, ServerReply, TypeOK
<1>1. srvLru' \in Seq(Conids)
  BY <1>0, MoveToEndType DEF ServerReply, TypeOK
<1>2. down' \in Seq(Reply)
  <2>1. [con |-> c, flow |-> srv[c]] \in Reply
    BY <1>0 DEF Reply
  <2>2. Append(down, [con |-> c, flow |-> srv[c]]) \in Seq(Reply)
    BY <1>0, <2>1, AppendProperties DEF TypeOK
  <2> QED BY <1>0, <2>2 DEF ServerReply, TypeOK
<1>3. replies' \in 0..MaxReplies
  BY <1>0, UdpGwAssumption DEF ServerReply, TypeOK
<1>4. /\ SocksTypeOK' /\ HoldsWhatItsStateSays' /\ OwnerAgrees' /\ ConnectorHolds'
  BY <1>0 DEF IInv, TypeOK, SocksTypeOK, HoldsWhatItsStateSays, OwnerAgrees, ConnectorHolds,
     socksVars, ownerVars, sendVars, bufVars
<1>5. TypeOK'
  BY <1>0, <1>1, <1>2, <1>3, <1>4 DEF TypeOK, ownerVars, tableVars, bufVars, sendVars
<1>6. Connections'
  BY <1>0, ConnectionsFrame DEF tableVars, bufVars
<1> QED BY <1>4, <1>5, <1>6 DEF IInv

LEMMA ServerSocketErrorIInv ==
    ASSUME IInv, NEW c \in Conids, ServerSocketError(c)
    PROVE  IInv'
<1>0. /\ TypeOK /\ Connections /\ srv' = [srv EXCEPT ![c] = NoFlow]
      /\ UNCHANGED <<socksVars, ownerVars, tableVars, bufVars, sendVars, up, down, submits,
                     replies>>
  BY DEF IInv, ServerSocketError
<1>1. srvLru' \in Seq(Conids) /\ failures' \in 0..MaxFailures
  BY <1>0, RemoveFirstType, FailsType DEF ServerSocketError, TypeOK
<1>2. \A d \in Conids : srv'[d] \in {NoFlow, srv[d]}
  BY <1>0 DEF TypeOK
<1>3. /\ SocksTypeOK' /\ HoldsWhatItsStateSays' /\ OwnerAgrees' /\ ConnectorHolds'
  BY <1>0 DEF IInv, TypeOK, SocksTypeOK, HoldsWhatItsStateSays, OwnerAgrees, ConnectorHolds,
     socksVars, ownerVars, sendVars, bufVars
<1>4. TypeOK'
  BY <1>0, <1>1, <1>3 DEF TypeOK, ownerVars, tableVars, bufVars, sendVars
<1>5. JobsInOrder' /\ LruHasUsed' /\ ReadyHasRoom' /\ OwnPackets'
  BY <1>0 DEF Connections, JobsInOrder, LruHasUsed, ReadyHasRoom, OwnPackets, InJob, tableVars, bufVars
<1>6. FreshIsUnheard'
  BY <1>0, <1>2 DEF Connections, FreshIsUnheard, Unheard, UnderWay, InJob, tableVars, bufVars
<1>7. FollowedOrLost'
  <2> SUFFICES ASSUME NEW d \in Conids, conaddr[d] # NoFlow, ~InJob(d), d \notin lostRebind
               PROVE  Follows(d, conaddr[d])'
    BY <1>0 DEF FollowedOrLost, InJob, tableVars, bufVars
  <2>1. Follows(d, conaddr[d])
    BY <1>0 DEF Connections, FollowedOrLost
  <2> QED BY <1>0, <1>2, <2>1 DEF Follows, Rebinds, AllOf, tableVars, bufVars
<1> QED BY <1>3, <1>4, <1>5, <1>6, <1>7 DEF IInv, Connections

-----------------------------------------------------------------------------
LEMMA NextIInv == IInv /\ [Next]_vars => IInv'
<1> SUFFICES ASSUME IInv, [Next]_vars PROVE IInv'
  OBVIOUS
<1>1. CASE ReconnectTimer \/ SocksStep \/ SocksUp
  BY <1>1, ReconnectTimerIInv, SocksStepIInv, SocksUpIInv
<1>2. CASE SocksError \/ ServerError \/ SocksUdpGwClientFree
  BY <1>2, SocksLostIInv
<1>3. CASE \E f \in Flows : SubmitPacket(f)
  BY <1>3, SubmitPacketIInv
<1>4. CASE RunJob \/ ConnectorDone \/ ClientReceive \/ ServerReceive
  BY <1>4, RunJobIInv, ConnectorDoneIInv, ClientReceiveIInv, ServerReceiveIInv
<1>5. CASE \E c \in Conids : ConnectorSend(c) \/ ServerReply(c) \/ ServerSocketError(c)
  BY <1>5, ConnectorSendIInv, ServerReplyIInv, ServerSocketErrorIInv
<1>6. CASE UNCHANGED vars
  <2>1. Connections'
    BY <1>6, ConnectionsFrame DEF IInv, vars, tableVars, bufVars, streamVars
  <2> QED BY <1>6, <2>1
          DEF IInv, TypeOK, SocksTypeOK, HoldsWhatItsStateSays, OwnerAgrees, ConnectorHolds,
              vars, socksVars, ownerVars, tableVars, bufVars, sendVars,
              streamVars, historyVars
<1> QED BY <1>1, <1>2, <1>3, <1>4, <1>5, <1>6 DEF Next

(* The inductive invariant: a REBIND that was not dropped travels ahead of *)
(* everything else of its flow, from the buffer to the server's socket.    *)
THEOREM Invariance == Spec => []IInv
  BY InitIInv, NextIInv, PTL DEF Spec

(* Every variable keeps its type, find_unused_conid's result included.     *)
THEOREM TypeCorrect == Spec => []TypeOK
<1>1. IInv => TypeOK
  BY DEF IInv
<1> QED BY <1>1, Invariance, PTL

(* BSocksClient holds what its state says and no more, whichever handler   *)
(* fails and whenever SocksUdpGwClient frees it.                           *)
THEOREM NothingLeaks == Spec => []HoldsWhatItsStateSays
<1>1. IInv => HoldsWhatItsStateSays
  BY DEF IInv
<1> QED BY <1>1, Invariance, PTL

(* The server's socket is one that the connection's present flow opened,   *)
(* once its packets have arrived and unless a full buffer dropped its      *)
(* REBIND: for every table, buffer and stream size, and any number of      *)
(* reconnections.                                                          *)
THEOREM ServerFollows == Spec => []RebindIsFollowed
<1>1. IInv => RebindIsFollowed
  <2> SUFFICES ASSUME IInv, NEW c \in Conids, srv[c] # NoFlow, jobs = <<>>, ~UnderWay(c),
                      c \notin lostRebind
               PROVE  srv[c] = conaddr[c]
    BY DEF RebindIsFollowed
  <2>1. conaddr[c] # NoFlow /\ ~InJob(c)
    BY DEF IInv, Connections, FreshIsUnheard, Unheard, InJob
  <2>2. Follows(c, conaddr[c])
    BY <2>1 DEF IInv, Connections, FollowedOrLost
  <2>3. buf[c] = <<>> /\ \A i \in DOMAIN up : up[i].con # c
    BY DEF UnderWay
  <2>4. ~Rebinds(buf[c], c, conaddr[c]) /\ ~Rebinds(up, c, conaddr[c])
    BY <2>3 DEF Rebinds
  <2> QED BY <2>2, <2>4 DEF Follows
<1> QED BY <1>1, Invariance, PTL

(* FirstPacketKept, for one step.                                          *)
KeptStep == \A c \in lostRebind' \ lostRebind : Len(buf[c]) = SendBuf

(* connection_send drops a REBIND only when SendBuf packets of the flow    *)
(* before are waiting; the first packet of a new connection is never       *)
(* dropped, whatever jobs and failures come between.                       *)
THEOREM FirstIsKept == Spec => FirstPacketKept
<1>1. ASSUME IInv, Next PROVE KeptStep
  <2>1. ASSUME NEW f \in Flows, SubmitPacket(f) PROVE KeptStep
    <3>0. TypeOK /\ Connections /\ jobs = <<>> /\ (\A d \in Conids : ~InJob(d))
      BY <1>1, <2>1 DEF IInv, SubmitPacket, Idle, InJob
    <3>1. ASSUME \A c \in Conids : conaddr[c] # NoFlow, ConnectionSend(Head(lru), f, TRUE)
          PROVE  KeptStep
      <4>1. 0 \in Conids
        BY UdpGwAssumption DEF Conids
      <4>2. Head(lru) \in Conids
        BY <3>0, <3>1, <4>1, HeadTailProperties DEF Connections, LruHasUsed, TypeOK
      <4> QED BY <3>0, <3>1, <4>2 DEF KeptStep, ConnectionSend, Connections, ReadyHasRoom
    <3>2. ASSUME NEW c \in Conids, ConnectionSend(c, f, FALSE) PROVE KeptStep
      BY <3>2 DEF KeptStep, ConnectionSend
    <3>3. ASSUME UNCHANGED bufVars PROVE KeptStep
      BY <3>3 DEF KeptStep, bufVars
    <3> QED BY <2>1, <3>1, <3>2, <3>3 DEF SubmitPacket
  <2>2. CASE RunJob
    <3>1. PICK c \in Conids :
            \/ jobs = << <<"recv", c>>, <<"first", c>> >>
            \/ jobs = << <<"first", c>> >> /\ c \in ready
      BY <1>1, <2>2 DEF IInv, Connections, JobsInOrder, RunJob
    <3>2. \/ Head(jobs)[1] = "recv"
          \/ Head(jobs)[1] # "recv" /\ Head(jobs)[2] \in ready
      BY <3>1
    <3> QED BY <2>2, <3>2 DEF RunJob, ConnectionSend, KeptStep
  <2>3. CASE \/ ReconnectTimer \/ SocksStep \/ SocksUp \/ SocksError \/ ServerError
             \/ SocksUdpGwClientFree \/ ConnectorDone \/ ClientReceive \/ ServerReceive
             \/ \E c \in Conids : ConnectorSend(c) \/ ServerReply(c) \/ ServerSocketError(c)
    <3>1. lostRebind' = lostRebind
      BY <2>3 DEF ReconnectTimer, SocksStep, SocksUp, SocksError, ServerError,
         SocksUdpGwClientFree, ConnectorDone, ClientReceive, ServerReceive, ConnectorSend,
         ServerReply, ServerSocketError, bufVars
    <3> QED BY <3>1 DEF KeptStep
  <2> QED BY <1>1, <2>1, <2>2, <2>3 DEF Next
<1>2. IInv /\ [Next]_vars => [KeptStep]_vars
  BY <1>1
<1> QED BY <1>2, Invariance, PTL DEF Spec, FirstPacketKept, KeptStep
==============================================================================
