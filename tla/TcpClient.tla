----------------------------- MODULE TcpClient ------------------------------
(***************************************************************************)
(* One struct tcp_client of tun2socks.c: a TCP connection accepted from    *)
(* the tun device (lwIP) relayed through a SOCKS connection.               *)
(*                                                                         *)
(* tun2socks is one event loop, so a callback with everything it calls is  *)
(* one action.  An action is enabled by what is registered (the lwIP       *)
(* callbacks in cbs, the operations outstanding on the SOCKS connection),  *)
(* never by whether the struct is still allocated: that no callback is     *)
(* left when it has been freed is a property.                              *)
(*                                                                         *)
(* Bytes are their positions in their stream, so buffers are sequences of  *)
(* numbers.  socks_recv_buf_used is -1 exactly when recvBuf is empty.      *)
(***************************************************************************)
EXTENDS Integers, Sequences

CONSTANTS
  Wnd,           \* TCP_WND: lwIP's receive window, and sizeof(client->buf)
  RecvBufSize,   \* CLIENT_SOCKS_RECV_BUF_SIZE
  SndBuf,        \* TCP_SND_BUF: lwIP's send buffer
  MaxUp,         \* bound on the bytes received from the client
  MaxDown        \* bound on the bytes received from SOCKS

ASSUME SizesAssumption ==
  /\ Wnd \in Nat \ {0}
  /\ RecvBufSize \in Nat \ {0}
  /\ SndBuf \in Nat \ {0}
  /\ MaxUp \in Nat
  /\ MaxDown \in Nat

VARIABLES
  entry,         \* "none", "live" (in tcp_clients) or "freed"
  clientClosed,  \* client_closed
  cbs,           \* lwIP callbacks that are set on the pcb
  rcvWnd,        \* the pcb's receive window
  buf,           \* buf[0 .. buf_used-1]: from the client, not yet sent
  socksUp,       \* socks_up
  socksClosed,   \* socks_closed
  sending,       \* length of the outstanding send to SOCKS, 0 if none
  receiving,     \* a receive from SOCKS is outstanding
  recvBuf,       \* socks_recv_buf[0 .. socks_recv_buf_used-1]
  recvBufSent,   \* socks_recv_buf_sent
  recvWaiting,   \* socks_recv_waiting
  tcpPending,    \* socks_recv_tcp_pending
  upIn,          \* bytes client_recv_func has accepted
  toSocks,       \* bytes the SOCKS connection has taken
  downIn,        \* bytes received from SOCKS while the client was open
  toClient,      \* bytes given to tcp_write
  refused,       \* client_recv_func found no room ("no buffer for data !?!")
  clientGone,    \* the client ended: FIN, error, abort or murder
  socksGone      \* SOCKS ended: error, close or murder

lwipVars  == <<clientClosed, cbs>>
upVars    == <<buf, rcvWnd, upIn, toSocks, refused>>
downVars  == <<recvBuf, recvBufSent, recvWaiting, tcpPending, downIn, toClient>>
socksVars == <<socksClosed, sending, receiving>>
goneVars  == <<clientGone, socksGone>>
vars == <<entry, lwipVars, upVars, downVars, socksVars, socksUp, goneVars>>

\* The bytes at positions from+1 .. from+n of a stream.
Bytes(from, n) == [i \in 1..n |-> from + i]

Lesser(a, b) == IF a < b THEN a ELSE b

TypeOK ==
  /\ entry \in {"none", "live", "freed"}
  /\ clientClosed \in BOOLEAN
  /\ cbs \subseteq {"err", "recv", "sent"}
  /\ rcvWnd \in 0..Wnd
  /\ buf \in Seq(Nat) /\ Len(buf) <= Wnd
  /\ socksUp \in BOOLEAN
  /\ socksClosed \in BOOLEAN
  /\ sending \in 0..Wnd
  /\ receiving \in BOOLEAN
  /\ recvBuf \in Seq(Nat) /\ Len(recvBuf) <= RecvBufSize
  /\ recvBufSent \in 0..RecvBufSize
  /\ recvWaiting \in BOOLEAN
  /\ tcpPending \in 0..SndBuf
  /\ upIn \in 0..MaxUp
  /\ toSocks \in Seq(Nat)
  /\ downIn \in 0..MaxDown
  /\ toClient \in Seq(Nat)
  /\ refused \in BOOLEAN
  /\ clientGone \in BOOLEAN
  /\ socksGone \in BOOLEAN

\* malloc leaves the socks_recv_ fields of a new client uninitialized: they
\* hold anything until SOCKS is up.
Init ==
  /\ entry = "none"
  /\ clientClosed = FALSE
  /\ cbs = {}
  /\ rcvWnd = Wnd
  /\ buf = <<>>
  /\ socksUp = FALSE
  /\ socksClosed = FALSE
  /\ sending = 0
  /\ receiving = FALSE
  /\ recvBuf \in {<<>>, <<0>>}
  /\ recvBufSent = 0
  /\ recvWaiting \in BOOLEAN
  /\ tcpPending \in {0, 1}
  /\ upIn = 0
  /\ toSocks = <<>>
  /\ downIn = 0
  /\ toClient = <<>>
  /\ refused = FALSE
  /\ clientGone = FALSE
  /\ socksGone = FALSE
-----------------------------------------------------------------------------
(* The functions that take a client down. *)

\* An outstanding receive survives the connection it belongs to.
BSocksClientFreeMutant ==
  /\ socksClosed' = TRUE
  /\ sending' = 0
  /\ UNCHANGED receiving

\* BSocksClient_Free cancels what is outstanding on the connection.
BSocksClientFree ==
  /\ socksClosed' = TRUE
  /\ sending' = 0
  /\ receiving' = FALSE

\* client_dealloc.
Dealloc == entry' = "freed"

\* A client freed although data is still to be sent to SOCKS.
KeepSendingMutant == FALSE

\* Buffered data that SOCKS can still take keeps a freed client's entry.
KeepSending == buf # <<>> /\ ~socksClosed

\* The uninitialized fields count although SOCKS never came up.
KeepDrainingMutant ==
  (recvBuf # <<>> \/ tcpPending > 0) /\ ~clientClosed

\* Received data that the client can still take keeps it when SOCKS is freed.
\* Before SOCKS is up the fields are uninitialized and must not count.
KeepDraining ==
  socksUp /\ (recvBuf # <<>> \/ tcpPending > 0) /\ ~clientClosed

\* client_handle_freed_client, after the pcb was freed by lwIP, tcp_close or
\* tcp_abort: buffered data is still sent to SOCKS; otherwise SOCKS is freed
\* too (client_free_socks with the client closed) and the entry with it.
HandleFreedClient(armed) ==
  /\ clientClosed' = TRUE
  /\ cbs' = {}
  /\ IF KeepSending
     THEN receiving' = armed /\ UNCHANGED <<entry, socksClosed, sending>>
     ELSE BSocksClientFree /\ Dealloc

\* The receive callback stays set after SOCKS is gone.
StopReceivingMutant == UNCHANGED cbs

\* tcp_recv(pcb, NULL): lwIP discards what the client still sends.
StopReceiving == cbs' = cbs \ {"recv"}

\* client_free_socks: what was received is still sent to the client;
\* otherwise the client is freed (client_free_client) and the entry with it.
FreeSocks ==
  /\ BSocksClientFree
  /\ IF KeepDraining
     THEN StopReceiving /\ UNCHANGED <<entry, clientClosed>>
     ELSE clientClosed' = TRUE /\ cbs' = {} /\ Dealloc
-----------------------------------------------------------------------------
(* lwIP events. *)

\* listener_accept_func.
Accept ==
  /\ entry = "none"
  /\ entry' = "live"
  /\ cbs' = {"err", "recv"}
  /\ UNCHANGED <<clientClosed, upVars, downVars, socksVars, socksUp, goneVars>>

\* client_recv_func with n bytes, which fit the window lwIP keeps.
Recv(n) ==
  /\ "recv" \in cbs
  /\ n <= rcvWnd
  /\ upIn + n <= MaxUp
  /\ rcvWnd' = rcvWnd - n
  /\ IF n > Wnd - Len(buf)
     THEN refused' = TRUE /\ UNCHANGED <<buf, upIn, sending>>
     ELSE /\ buf' = buf \o Bytes(upIn, n)
          /\ upIn' = upIn + n
          /\ sending' = IF buf = <<>> /\ socksUp THEN n ELSE sending
          /\ UNCHANGED refused
  /\ UNCHANGED <<entry, lwipVars, toSocks, downVars, socksClosed, receiving,
                 socksUp, goneVars>>

\* client_recv_func with p = NULL: the client sent FIN.
RecvFin ==
  /\ "recv" \in cbs
  /\ HandleFreedClient(receiving)
  /\ clientGone' = TRUE
  /\ UNCHANGED <<upVars, downVars, socksUp, socksGone>>

\* client_err_func: lwIP has dropped the connection.
Err ==
  /\ "err" \in cbs
  /\ HandleFreedClient(receiving)
  /\ clientGone' = TRUE
  /\ UNCHANGED <<upVars, downVars, socksUp, socksGone>>

\* The client waits for an ACK although nothing was queued.
StalledMutant(more, pending) == FALSE

\* "can't queue data, but all data was confirmed !?!": no ACK will come to
\* continue with.
Stalled(more, pending) == more /\ pending = 0

\* A partial tcp_write is not counted.
AdvancedMutant(sent, w) == IF sent = 0 THEN w ELSE sent

\* socks_recv_buf_sent once w more bytes were written.
Advanced(sent, w) == sent + w

\* client_socks_recv_send_out on the bytes data, of which sent were written
\* already, while pending bytes wait for the client's ACK.  tcp_write takes
\* what fits in the send buffer or nothing (ERR_MEM); any other failure of
\* tcp_write or tcp_output aborts the client, as does having nothing queued
\* to wait for.  Then the next receive starts if everything was queued.
SendOut(data, sent, pending, armed) ==
  LET Abort ==
        /\ HandleFreedClient(armed)
        /\ recvBuf' = data /\ recvBufSent' = sent /\ recvWaiting' = FALSE
        /\ tcpPending' = pending
        /\ clientGone' = TRUE
        /\ UNCHANGED toClient
      Queue(w) ==
        LET more == Advanced(sent, w) < Len(data) IN
        IF Stalled(more, pending + w)
        THEN Abort
        ELSE /\ recvBuf' = IF more THEN data ELSE <<>>
             /\ recvBufSent' = Advanced(sent, w)
             /\ recvWaiting' = more
             /\ tcpPending' = pending + w
             /\ toClient' = toClient \o SubSeq(data, sent + 1, sent + w)
             /\ receiving' = (armed \/ (~more /\ ~socksClosed))
             /\ UNCHANGED <<entry, lwipVars, socksClosed, sending, clientGone>>
  IN  \/ Abort
      \/ Queue(0)
      \/ Queue(Lesser(Len(data) - sent, SndBuf - pending))

\* client_sent_func: the client has acknowledged n bytes.
Sent(n) ==
  /\ "sent" \in cbs
  /\ n <= tcpPending
  /\ \/ /\ recvBuf # <<>>
        /\ SendOut(recvBuf, recvBufSent, tcpPending - n, receiving)
     \/ /\ recvBuf = <<>>
        /\ tcpPending' = tcpPending - n
        /\ IF socksClosed /\ tcpPending = n
           THEN HandleFreedClient(receiving)
           ELSE UNCHANGED <<entry, lwipVars, socksVars>>
        /\ UNCHANGED <<recvBuf, recvBufSent, recvWaiting, toClient, clientGone>>
  /\ UNCHANGED <<upVars, downIn, socksUp, socksGone>>
-----------------------------------------------------------------------------
(* Events of the SOCKS connection: client_socks_handler and the handlers of *)
(* the send and receive interfaces.                                        *)

\* What was buffered while SOCKS connected is not sent.
FirstSendMutant == 0

\* "start sending data if there is any", when SOCKS comes up.
FirstSend == Len(buf)

\* BSOCKSCLIENT_EVENT_UP.
SocksUp ==
  /\ entry # "none"
  /\ ~socksClosed /\ ~socksUp
  /\ socksUp' = TRUE
  /\ recvBuf' = <<>>
  /\ tcpPending' = 0
  /\ cbs' = IF clientClosed THEN cbs ELSE cbs \cup {"sent"}
  /\ sending' = FirstSend
  /\ receiving' = ~clientClosed
  /\ UNCHANGED <<entry, clientClosed, upVars, recvBufSent, recvWaiting, downIn,
                 toClient, socksClosed, goneVars>>

\* BSOCKSCLIENT_EVENT_ERROR: connecting, negotiating, sending or receiving
\* has failed.
SocksError ==
  /\ entry # "none"
  /\ ~socksClosed
  /\ FreeSocks
  /\ socksGone' = TRUE
  /\ UNCHANGED <<upVars, downVars, socksUp, clientGone>>

\* BSOCKSCLIENT_EVENT_ERROR_CLOSED: an outstanding receive met end of file.
SocksErrorClosed ==
  /\ receiving
  /\ FreeSocks
  /\ socksGone' = TRUE
  /\ UNCHANGED <<upVars, downVars, socksUp, clientGone>>

\* buf_used is reduced without moving the rest of the data.
MovedMutant(n) == SubSeq(buf, 1, Len(buf) - n)

\* The memmove that drops the first n bytes of buf.
Moved(n) == SubSeq(buf, n + 1, Len(buf))

\* The whole outstanding send is confirmed when part of it was taken.
ReopenedMutant(n) == rcvWnd + sending

\* tcp_recved(pcb, n) gives n bytes of window back to the client.
Reopened(n) == rcvWnd + n

\* client_socks_send_handler_done: the connection has taken n bytes.
SendDone(n) ==
  /\ n <= sending
  /\ toSocks' = toSocks \o SubSeq(buf, 1, n)
  /\ buf' = Moved(n)
  /\ rcvWnd' = IF clientClosed THEN rcvWnd ELSE Reopened(n)
  /\ IF clientClosed /\ n = Len(buf)
     THEN FreeSocks
     ELSE /\ sending' = Len(buf) - n
          /\ UNCHANGED <<entry, lwipVars, socksClosed, receiving>>
  /\ UNCHANGED <<upIn, refused, downVars, socksUp, goneVars>>

\* client_socks_recv_handler_done: n bytes were received.
RecvDone(n) ==
  /\ receiving
  /\ downIn + n <= MaxDown
  /\ \/ /\ clientClosed
        /\ receiving' = FALSE
        /\ UNCHANGED <<entry, lwipVars, downVars, socksClosed, sending, clientGone>>
     \/ /\ ~clientClosed
        /\ downIn' = downIn + n
        /\ SendOut(Bytes(downIn, n), 0, tcpPending, FALSE)
  /\ UNCHANGED <<upVars, socksUp, socksGone>>

\* client_murder, for every client of tcp_clients when tun2socks terminates.
Murder ==
  /\ entry = "live"
  /\ clientClosed' = TRUE
  /\ cbs' = {}
  /\ BSocksClientFree
  /\ Dealloc
  /\ clientGone' = TRUE /\ socksGone' = TRUE
  /\ UNCHANGED <<upVars, downVars, socksUp>>

Next ==
  \/ Accept \/ RecvFin \/ Err
  \/ \E n \in 1..Wnd : Recv(n)
  \/ \E n \in 1..SndBuf : Sent(n)
  \/ SocksUp \/ SocksError \/ SocksErrorClosed
  \/ \E n \in 1..Wnd : SendDone(n)
  \/ \E n \in 1..RecvBufSize : RecvDone(n)
  \/ Murder

\* lwIP retransmits until data is acknowledged or gives the connection up;
\* the local SOCKS server answers the handshake and keeps reading, or the
\* connection fails.
Fairness ==
  /\ WF_vars(\E n \in 1..SndBuf : Sent(n))
  /\ WF_vars(~socksUp /\ (SocksUp \/ SocksError))
  /\ WF_vars(\E n \in 1..Wnd : SendDone(n))

Spec == Init /\ [][Next]_vars /\ Fairness
-----------------------------------------------------------------------------
(* Properties. *)

\* client_dealloc runs once, with both sides closed, and leaves nothing that
\* could call back into the freed struct: no lwIP callback, no outstanding
\* SOCKS operation.  Dually, a client with no side left has been freed.
NoCallbackAfterFree ==
  /\ entry = "freed" <=> clientClosed /\ socksClosed
  /\ clientClosed => cbs = {}
  /\ socksClosed => sending = 0 /\ ~receiving /\ "recv" \notin cbs

\* The ASSERTs at the head of the SOCKS handlers hold whenever their event can
\* fire: the outstanding send covers a prefix of buf, and buf is never left
\* without a send; a receive is outstanding only while socks_recv_buf is free.
SocksAsserts ==
  /\ sending > 0 => socksUp /\ sending <= Len(buf)
  /\ socksUp /\ ~socksClosed => (sending > 0 <=> buf # <<>>)
  /\ receiving => socksUp /\ (clientClosed \/ recvBuf = <<>>)

\* The ASSERTs of client_sent_func hold whenever an ACK can arrive: data left
\* in socks_recv_buf is waiting for one, and one is still to come, so the
\* relay towards the client never stalls.
SentAsserts ==
  "sent" \in cbs =>
    /\ socksUp
    /\ recvBuf # <<>> => /\ recvWaiting
                         /\ recvBufSent < Len(recvBuf)
                         /\ tcpPending > 0
    /\ recvBuf = <<>> /\ ~socksClosed => receiving
    /\ socksClosed => tcpPending > 0

\* client_recv_func's "no buffer for data !?!" is unreachable: the window lwIP
\* advertises is the free space of buf, through every partial send.
WindowMatchesBuffer ==
  /\ ~refused
  /\ "recv" \in cbs => rcvWnd = Wnd - Len(buf)

\* s holds consecutive bytes of a stream, after position from.
Run(s, from) == \A i \in 1..Len(s) : s[i] = from + i

\* Bytes reach SOCKS in the order the client sent them, and buf continues
\* exactly where they end, through every memmove of a partly sent buffer.
UplinkInOrder ==
  /\ Len(toSocks) + Len(buf) = upIn
  /\ Run(toSocks, 0)
  /\ Run(buf, Len(toSocks))

\* Bytes reach lwIP in the order SOCKS delivered them, and what is left of
\* socks_recv_buf continues where they end, through every partial tcp_write.
DownlinkInOrder ==
  /\ Run(toClient, 0)
  /\ socksUp /\ ~clientClosed =>
       IF recvBuf = <<>>
       THEN Len(toClient) = downIn
       ELSE /\ Len(recvBuf) <= downIn
            /\ Run(recvBuf, downIn - Len(recvBuf))
            /\ Len(toClient) + (Len(recvBuf) - recvBufSent) = downIn

\* Closing loses nothing: a client that went down with SOCKS intact is freed
\* only when all it sent was passed on, and a client that did not go down only
\* when all SOCKS delivered was acknowledged.
GracefulClose ==
  entry = "freed" =>
    /\ ~socksGone => Len(toSocks) = upIn
    /\ ~clientGone /\ socksUp => Len(toClient) = downIn /\ tcpPending = 0

\* The inductive strengthening: which callbacks are set follows from which
\* sides are open, a half-closed client has data left for the open side, and
\* every closed side has a cause.
Registration ==
  /\ "recv" \in cbs <=> entry = "live" /\ ~clientClosed /\ ~socksClosed
  /\ "sent" \in cbs <=> socksUp /\ ~clientClosed
  /\ "err" \in cbs => entry = "live"
  /\ entry = "none" => /\ ~socksUp /\ ~clientClosed /\ ~socksClosed
                       /\ buf = <<>> /\ rcvWnd = Wnd
  /\ ~socksUp => downIn = 0 /\ toClient = <<>>
  /\ clientClosed /\ ~socksClosed => buf # <<>> /\ clientGone
  /\ socksClosed /\ ~clientClosed => socksUp /\ socksGone

IInv ==
  /\ TypeOK /\ NoCallbackAfterFree /\ SocksAsserts /\ SentAsserts
  /\ WindowMatchesBuffer /\ UplinkInOrder /\ DownlinkInOrder
  /\ GracefulClose /\ Registration

\* No callback of lwIP or of the SOCKS connection ever runs on a freed client.
NoUseAfterFree == [][entry # "freed"]_vars

\* A client that lost one side is freed once its buffered data has gone.
HalfClosedIsFreed ==
  (entry = "live" /\ (clientClosed \/ socksClosed)) ~> (entry = "freed")

\* How a direction ends: by the close of the side that takes its bytes.
StreamEnd(closed, gone) ==
  IF ~closed THEN "open" ELSE IF gone THEN "broken" ELSE "drained"

Up == INSTANCE ByteStream WITH
        taken <- upIn, delivered <- toSocks, end <- StreamEnd(socksClosed, socksGone)

Down == INSTANCE ByteStream WITH
          taken <- downIn, delivered <- toClient, end <- StreamEnd(clientClosed, clientGone)

\* tun2socks relays each direction as a byte stream of its own: whatever happens
\* to the other one, bytes are delivered in order, once, and all of them unless
\* the side that takes them is gone.
ImplementsStreams == Up!StreamSpec /\ Down!StreamSpec
=============================================================================
