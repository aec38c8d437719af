-------------------------------- MODULE UdpGw --------------------------------
(***************************************************************************)
(* UDP through the tunnel: tun2socks hands every UDP packet to a           *)
(* SocksUdpGwClient, which keeps a SOCKS connection to a udpgw server and  *)
(* multiplexes the flows (local and remote address) over it by a           *)
(* connection number.  The client reuses the number of the least recently  *)
(* used flow when it runs out; REBIND tells the server to forget the old   *)
(* flow.  Numbers, buffers and the packet held by the connector outlive    *)
(* the SOCKS connection; the server's sockets do not.                      *)
(***************************************************************************)
EXTENDS BSocksClient, Sequences, SequencesExt

CONSTANTS
    Locals, Remotes, \* addresses of the applications and of their peers
    NoFlow,
    MaxConnections,  \* max_connections of UdpGwClient
    SendBuf,         \* send_buffer_size, in packets
    SrvConnections,  \* max_connections_for_client of the server
    StreamCap,       \* packets that fit into one direction of the stream
    MaxSubmits,      \* bound on the packets submitted
    MaxReplies,      \* bound on the datagrams the server receives
    MaxFailures      \* bound on what goes wrong with the SOCKS connection

Flows == Locals \X Remotes
Conids == 0..(MaxConnections - 1)
NoCon == MaxConnections
RemoteOf(f) == f[2]

ASSUME UdpGwAssumption ==
    /\ NoFlow \notin Flows
    /\ {MaxConnections, SendBuf, SrvConnections, StreamCap} \subseteq Nat \ {0}
    /\ {MaxSubmits, MaxReplies, MaxFailures} \subseteq Nat

VARIABLES
    \* SocksUdpGwClient
    haveSocks, socksUp,
    timer,       \* reconnect_timer is running
    freed,       \* SocksUdpGwClient_Free was called
    \* UdpGwClient
    conaddr,     \* connections by conid: their flow
    lru,         \* connections_list
    nextConid,   \* next_conid
    buf,         \* PacketBuffer of each connection
    ready,       \* connections whose BufferWriter can take a packet
    jobs,        \* the reactor's pending jobs, the next one first
    sendCon,     \* the connection whose packet the connector holds
    handed,      \* the connector's packet was given to its output
    haveServer,  \* have_server: the connector has an output
    \* the SOCKS connection and the server behind it
    up, down,    \* packets and replies on the stream
    srv,         \* the server's connections: conid -> flow, or NoFlow
    srvLru,      \* the server's connections_list
    \* history and bounds
    lostRebind,  \* conids whose REBIND was dropped for lack of buffer
    submits, replies, failures

ownerVars == <<haveSocks, socksUp, timer, freed>>
tableVars == <<conaddr, lru, nextConid, jobs>>
bufVars == <<buf, ready, lostRebind>>
sendVars == <<sendCon, handed, haveServer>>
streamVars == <<up, down, srv, srvLru>>
historyVars == <<submits, replies, failures>>
vars == <<socksVars, ownerVars, tableVars, bufVars, sendVars, streamVars, historyVars>>

(* A packet for the server; flow is what its header stands for.            *)
Packet == [con : Conids, flow : Flows, rebind : BOOLEAN]
(* A reply; flow is the flow that opened the server's socket.  Its header  *)
(* has the connection and the remote address of that flow.                 *)
Reply == [con : Conids, flow : Flows]
Job == {"recv", "first"} \X Conids

TypeOK ==
    /\ SocksTypeOK
    /\ haveSocks \in BOOLEAN /\ socksUp \in BOOLEAN /\ timer \in BOOLEAN /\ freed \in BOOLEAN
    /\ handed \in BOOLEAN /\ haveServer \in BOOLEAN
    /\ conaddr \in [Conids -> Flows \cup {NoFlow}]
    /\ lru \in Seq(Conids) /\ jobs \in Seq(Job)
    /\ nextConid \in Conids
    /\ buf \in [Conids -> Seq(Packet)]
    /\ ready \subseteq Conids /\ lostRebind \subseteq Conids
    /\ sendCon \in Conids \cup {NoCon}
    /\ up \in Seq(Packet) /\ down \in Seq(Reply)
    /\ srv \in [Conids -> Flows \cup {NoFlow}]
    /\ srvLru \in Seq(Conids)
    /\ submits \in 0..MaxSubmits /\ replies \in 0..MaxReplies
    /\ failures \in 0..MaxFailures

Init ==
    /\ NoSocksClient
    /\ haveSocks = FALSE /\ socksUp = FALSE /\ timer = TRUE /\ freed = FALSE
    /\ conaddr = [c \in Conids |-> NoFlow]
    /\ lru = <<>> /\ nextConid = 0 /\ jobs = <<>>
    /\ buf = [c \in Conids |-> <<>>] /\ ready = {} /\ lostRebind = {}
    /\ sendCon = NoCon /\ handed = FALSE /\ haveServer = FALSE
    /\ up = <<>> /\ down = <<>>
    /\ srv = [c \in Conids |-> NoFlow] /\ srvLru = <<>>
    /\ submits = 0 /\ replies = 0 /\ failures = 0

(* The reactor takes the next event when no job and no callback is left.   *)
Idle == ~freed /\ jobs = <<>> /\ event = "NONE"

Fails == failures < MaxFailures /\ failures' = failures + 1

-----------------------------------------------------------------------------
(* SocksUdpGwClient: a SOCKS connection, or a timer that makes one.        *)

(* UdpGwClient_DisconnectServer(): the connector keeps its packet.         *)
DisconnectServer == haveServer' = FALSE /\ handed' = FALSE /\ UNCHANGED sendCon

(* Only packets that come later go to the new server.                      *)
ConnectServerMutant == haveServer' = TRUE /\ handed' = FALSE /\ UNCHANGED sendCon

(* UdpGwClient_ConnectServer(): a packet left from the last server is sent *)
(* again, as a whole.                                                      *)
ConnectServer == haveServer' = TRUE /\ handed' = (sendCon # NoCon) /\ UNCHANGED sendCon

(* free_socks(): the stream and the server's side of it are gone.          *)
FreeSocks ==
    /\ IF socksUp THEN DisconnectServer ELSE UNCHANGED sendVars
    /\ BSocksClientFree
    /\ haveSocks' = FALSE
    /\ up' = <<>> /\ down' = <<>>
    /\ srv' = [c \in Conids |-> NoFlow] /\ srvLru' = <<>>
    /\ UNCHANGED socksUp

(* try_connect(): without a SOCKS client the timer is set again.  The      *)
(* first call, from SocksUdpGwClient_Init, is taken for a timer at zero.   *)
ReconnectTimer ==
    /\ Idle
    /\ timer
    /\ \/ BSocksClientInit /\ haveSocks' = TRUE /\ socksUp' = FALSE /\ timer' = FALSE
          /\ UNCHANGED failures
       \/ Fails /\ UNCHANGED <<socksVars, haveSocks, socksUp, timer>>
    /\ UNCHANGED <<freed, tableVars, bufVars, sendVars, streamVars, submits, replies>>

(* The handshake and the connection's own errors.                          *)
SocksStep ==
    /\ Idle
    /\ SocksNext
    /\ IF event' \in Errors THEN Fails ELSE UNCHANGED failures
    /\ UNCHANGED <<ownerVars, tableVars, bufVars, sendVars, streamVars, submits, replies>>

(* socks_client_handler(): up.                                             *)
SocksUp ==
    /\ event = "UP"
    /\ \/ ConnectServer /\ socksUp' = TRUE /\ event' = "NONE"
          /\ UNCHANGED <<state, held, sending, recvLeft, haveSocks, timer, streamVars, failures>>
       \/ Fails /\ FreeSocks /\ timer' = TRUE
    /\ UNCHANGED <<freed, tableVars, bufVars, submits, replies>>

(* socks_client_handler(): an error.                                       *)
SocksError ==
    /\ event \in Errors
    /\ FreeSocks
    /\ timer' = TRUE
    /\ UNCHANGED <<freed, tableVars, bufVars, historyVars>>

(* udpgw_handler_servererror(): the server's stream cannot be decoded.     *)
ServerError ==
    /\ Idle
    /\ haveServer
    /\ Fails
    /\ FreeSocks
    /\ timer' = TRUE
    /\ UNCHANGED <<freed, tableVars, bufVars, submits, replies>>

(* SocksUdpGwClient_Free(): with tun2socks, whatever is under way.         *)
SocksUdpGwClientFree ==
    /\ Idle
    /\ freed' = TRUE
    /\ IF haveSocks THEN FreeSocks
       ELSE UNCHANGED <<sendVars, socksVars, haveSocks, socksUp, streamVars>>
    /\ timer' = FALSE
    /\ UNCHANGED <<tableVars, bufVars, historyVars>>

-----------------------------------------------------------------------------
(* UdpGwClient: the table of flows.                                        *)

MoveToEnd(s, c) == Append(RemoveFirst(s, c), c)

(* Jobs in the order in which they were set.                               *)
BPendingSetMutant(j, js) == js \o <<j>>

(* BPending_Set(): the job set last runs first.                            *)
BPendingSet(j, js) == <<j>> \o js

(* find_unused_conid(): from next_conid on, around the table.              *)
FindUnusedConid ==
    LET unused == {c \in Conids : conaddr[c] = NoFlow}
        steps(c) == (c - nextConid + MaxConnections) % MaxConnections
    IN  CHOOSE c \in unused : \A d \in unused : steps(c) <= steps(d)

(* connection_send(): without room for it the packet is dropped.           *)
ConnectionSend(c, f, rebind) ==
    IF c \in ready
    THEN /\ buf' = [buf EXCEPT ![c] = Append(@, [con |-> c, flow |-> f, rebind |-> rebind])]
         /\ ready' = IF Len(buf'[c]) < SendBuf THEN ready ELSE ready \ {c}
         /\ lostRebind' = IF rebind THEN lostRebind \ {c} ELSE lostRebind
    ELSE /\ lostRebind' = IF rebind THEN lostRebind \cup {c} ELSE lostRebind
         /\ UNCHANGED <<buf, ready>>

(* connection_init(): the packet waits for a job of its own, set before    *)
(* the jobs that make the new buffer ready.                                *)
ConnectionInit(f) ==
    LET c == FindUnusedConid
    IN  /\ conaddr' = [conaddr EXCEPT ![c] = f]
        /\ lru' = Append(lru, c)
        /\ nextConid' = c
        /\ jobs' = BPendingSet(<<"recv", c>>, BPendingSet(<<"first", c>>, jobs))

(* UdpGwClient_SubmitPacket(): a packet of a known flow, of a flow that    *)
(* takes over the least recently used connection, or of a new one (for     *)
(* which there may be no memory).                                          *)
SubmitPacket(f) ==
    /\ Idle
    /\ submits < MaxSubmits
    /\ submits' = submits + 1
    /\ LET known == {c \in Conids : conaddr[c] = f}
           full == \A c \in Conids : conaddr[c] # NoFlow
       IN  \/ \E c \in known :
                /\ ConnectionSend(c, f, FALSE)
                /\ lru' = MoveToEnd(lru, c)
                /\ UNCHANGED <<conaddr, nextConid, jobs>>
           \/ /\ known = {} /\ full
              /\ conaddr' = [conaddr EXCEPT ![Head(lru)] = f]
              /\ ConnectionSend(Head(lru), f, TRUE)
              /\ lru' = MoveToEnd(lru, Head(lru))
              /\ UNCHANGED <<nextConid, jobs>>
           \/ /\ known = {} /\ ~full
              /\ ConnectionInit(f) \/ (nextConid' = FindUnusedConid /\ UNCHANGED <<conaddr, lru, jobs>>)
              /\ UNCHANGED bufVars
    /\ UNCHANGED <<socksVars, ownerVars, sendVars, streamVars, replies, failures>>

(* A pending job: the buffer asks for its first packet, or                 *)
(* connection_first_job_handler() sends it, with REBIND.                   *)
RunJob ==
    /\ jobs # <<>>
    /\ jobs' = Tail(jobs)
    /\ LET c == Head(jobs)[2]
       IN  IF Head(jobs)[1] = "recv"
           THEN ready' = ready \cup {c} /\ UNCHANGED <<buf, lostRebind>>
           ELSE ConnectionSend(c, conaddr[c], TRUE)
    /\ UNCHANGED <<socksVars, ownerVars, conaddr, lru, nextConid, sendVars, streamVars, historyVars>>

(* PacketPassConnector input_handler_send(): the fair queue gives it the   *)
(* first packet of one of the connections.                                 *)
ConnectorSend(c) ==
    /\ Idle
    /\ sendCon = NoCon
    /\ buf[c] # <<>>
    /\ sendCon' = c
    /\ handed' = haveServer
    /\ UNCHANGED <<socksVars, ownerVars, tableVars, bufVars, haveServer, streamVars, historyVars>>

(* The packet is on the stream; only now does it leave its buffer.         *)
ConnectorDone ==
    /\ Idle
    /\ handed
    /\ Len(up) < StreamCap
    /\ up' = Append(up, Head(buf[sendCon]))
    /\ buf' = [buf EXCEPT ![sendCon] = Tail(@)]
    /\ ready' = ready \cup {sendCon}
    /\ sendCon' = NoCon
    /\ handed' = FALSE
    /\ UNCHANGED <<socksVars, ownerVars, tableVars, lostRebind, haveServer,
                   down, srv, srvLru, historyVars>>

(* The reply has the remote address of the connection that has its number; *)
(* a reply to an earlier flow with that address passes too.                *)
Accepts(r) ==
    /\ conaddr[r.con] # NoFlow
    /\ RemoteOf(conaddr[r.con]) = RemoteOf(r.flow)

(* recv_interface_handler_send(): a reply of the server.                   *)
ClientReceive ==
    /\ Idle
    /\ haveServer
    /\ down # <<>>
    /\ down' = Tail(down)
    /\ LET r == Head(down)
       IN  IF Accepts(r)
           THEN lru' = MoveToEnd(lru, r.con)
           ELSE UNCHANGED lru
    /\ UNCHANGED <<socksVars, ownerVars, conaddr, nextConid, jobs, bufVars, sendVars,
                   up, srv, srvLru, submits, replies, failures>>

-----------------------------------------------------------------------------
(* The udpgw server's side of the connection.                              *)

(* The server looks at the address only.                                   *)
ClosesOldMutant(p) == RemoteOf(srv[p.con]) # RemoteOf(p.flow)

(* An existing connection is given up for a REBIND and for another remote  *)
(* address.                                                                *)
ClosesOld(p) == p.rebind \/ RemoteOf(srv[p.con]) # RemoteOf(p.flow)

(* client_recv_if_handler_send(): the packet goes out by the socket of its *)
(* connection, which is created if necessary; the server makes room by     *)
(* closing its least recently used one.  There may be no memory for it.    *)
ServerReceive ==
    /\ up # <<>>
    /\ up' = Tail(up)
    /\ LET p == Head(up)
           left == RemoveFirst(srvLru, p.con)
           full == Len(left) = SrvConnections
           kept == IF full THEN Tail(left) ELSE left
       IN  IF srv[p.con] # NoFlow /\ ~ClosesOld(p)
           THEN srvLru' = MoveToEnd(srvLru, p.con) /\ UNCHANGED srv
           ELSE \E created \in BOOLEAN :
                  /\ srv' = [c \in Conids |->
                               CASE c = p.con -> IF created THEN p.flow ELSE NoFlow
                                 [] c # p.con /\ full /\ c = Head(left) -> NoFlow
                                 [] OTHER -> srv[c]]
                  /\ srvLru' = IF created THEN Append(kept, p.con) ELSE kept
    /\ UNCHANGED <<socksVars, ownerVars, tableVars, bufVars, sendVars, down, historyVars>>

(* connection_udp_recv_if_handler_send(): a datagram at a socket, dropped  *)
(* when there is no room for it.                                           *)
ServerReply(c) ==
    /\ srv[c] # NoFlow
    /\ replies < MaxReplies
    /\ replies' = replies + 1
    /\ srvLru' = MoveToEnd(srvLru, c)
    /\ down' = IF Len(down) < StreamCap THEN Append(down, [con |-> c, flow |-> srv[c]]) ELSE down
    /\ UNCHANGED <<socksVars, ownerVars, tableVars, bufVars, sendVars, up, srv,
                   submits, failures>>

(* connection_dgram_handler_event(): a socket fails and is closed.         *)
ServerSocketError(c) ==
    /\ srv[c] # NoFlow
    /\ Fails
    /\ srv' = [srv EXCEPT ![c] = NoFlow]
    /\ srvLru' = RemoveFirst(srvLru, c)
    /\ UNCHANGED <<socksVars, ownerVars, tableVars, bufVars, sendVars, up, down,
                   submits, replies>>

-----------------------------------------------------------------------------
Next ==
    \/ ReconnectTimer \/ SocksStep \/ SocksUp \/ SocksError \/ ServerError
    \/ SocksUdpGwClientFree
    \/ \E f \in Flows : SubmitPacket(f)
    \/ RunJob
    \/ \E c \in Conids : ConnectorSend(c) \/ ServerReply(c) \/ ServerSocketError(c)
    \/ ConnectorDone \/ ClientReceive \/ ServerReceive

(* Timers fire, jobs and callbacks run, and the streams move.              *)
Fairness ==
    /\ WF_vars(ReconnectTimer) /\ WF_vars(SocksStep)
    /\ WF_vars(SocksUp) /\ WF_vars(SocksError)
    /\ WF_vars(RunJob)
    /\ WF_vars(\E c \in Conids : ConnectorSend(c))
    /\ WF_vars(ConnectorDone) /\ WF_vars(ClientReceive) /\ WF_vars(ServerReceive)

Spec == Init /\ [][Next]_vars /\ Fairness

-----------------------------------------------------------------------------
(* The packets of connection c that have not reached the server.           *)
UnderWay(c) == buf[c] # <<>> \/ \E i \in DOMAIN up : up[i].con = c

(* Once the packets of a connection have arrived, the server's socket is   *)
(* one that its present flow opened, so that the flow gets no replies to   *)
(* the flow before it; across reuse, reconnection and the packet that is   *)
(* sent twice.  The one exception is a REBIND dropped by a full buffer,    *)
(* which connection_send forgets.                                          *)
RebindIsFollowed ==
    \A c \in Conids :
        (srv[c] # NoFlow /\ jobs = <<>> /\ ~UnderWay(c) /\ c \notin lostRebind)
            => srv[c] = conaddr[c]

(* A packet that is in a buffer is sent in the end: every failure of the   *)
(* SOCKS connection leads to another attempt, and the packet that the      *)
(* connector held is not forgotten.                                        *)
BufferedIsSent == \A c \in Conids : buf[c] # <<>> ~> (buf[c] = <<>> \/ freed)

(* A REBIND is only dropped when packets of the connection's earlier flow  *)
(* fill its buffer: the first packet of a new connection always finds the  *)
(* buffer ready, because the job that sends it was set before the jobs     *)
(* that make the buffer ready, and pending jobs run last-set first.        *)
FirstPacketKept == [][\A c \in lostRebind' \ lostRebind : Len(buf[c]) = SendBuf]_vars
=============================================================================
