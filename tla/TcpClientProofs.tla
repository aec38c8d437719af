-------------------------- MODULE TcpClientProofs ---------------------------
(***************************************************************************)
(* Proofs about TcpClient, for every size of the window and the buffers    *)
(* and every number of bytes.                                              *)
(***************************************************************************)
EXTENDS TcpClient, SequenceTheorems, TLAPS

-----------------------------------------------------------------------------
(* Runs of consecutive bytes. *)

\* The bytes of one read are a run.
LEMMA RunBytes ==
  ASSUME NEW from \in Nat, NEW n \in Nat
  PROVE  /\ Bytes(from, n) \in Seq(Nat)
         /\ Len(Bytes(from, n)) = n
         /\ Run(Bytes(from, n), from)
  BY DEF Bytes, Run

\* A run followed by the run that starts where it ends is a run.
LEMMA RunConcat ==
  ASSUME NEW s \in Seq(Nat), NEW t \in Seq(Nat), NEW k \in Nat,
         Run(s, k), Run(t, k + Len(s))
  PROVE  /\ s \o t \in Seq(Nat)
         /\ Len(s \o t) = Len(s) + Len(t)
         /\ Run(s \o t, k)
<1>1. /\ s \o t \in Seq(Nat)
      /\ Len(s \o t) = Len(s) + Len(t)
      /\ \A i \in 1..(Len(s) + Len(t)) :
            (s \o t)[i] = IF i <= Len(s) THEN s[i] ELSE t[i - Len(s)]
  BY ConcatProperties
<1>2. Len(s) \in Nat /\ Len(t) \in Nat
  BY LenProperties
<1>3. ASSUME NEW i \in 1..Len(s \o t) PROVE (s \o t)[i] = k + i
  <2>1. CASE i <= Len(s)
    BY <1>1, <1>2, <2>1 DEF Run
  <2>2. CASE i > Len(s)
    <3>1. i - Len(s) \in 1..Len(t)
      BY <1>1, <1>2, <2>2
    <3>2. t[i - Len(s)] = k + Len(s) + (i - Len(s))
      BY <3>1 DEF Run
    <3> QED BY <1>1, <1>2, <2>2, <3>2
  <2> QED BY <1>1, <1>2, <2>1, <2>2
<1> QED BY <1>1, <1>3 DEF Run

\* A part of a run is a run.
LEMMA RunSubSeq ==
  ASSUME NEW s \in Seq(Nat), NEW k \in Nat, Run(s, k),
         NEW a \in Nat, NEW b \in Nat, a <= b, b <= Len(s)
  PROVE  /\ SubSeq(s, a + 1, b) \in Seq(Nat)
         /\ Len(SubSeq(s, a + 1, b)) = b - a
         /\ Run(SubSeq(s, a + 1, b), k + a)
<1>1. Len(s) \in Nat
  BY LenProperties
<1>2. CASE a = b
  <2>1. SubSeq(s, a + 1, b) = <<>>
    BY <1>2, SubSeqProperties
  <2> QED BY <1>2, <2>1 DEF Run
<1>3. CASE a < b
  <2>1. a + 1 \in 1..Len(s) /\ b \in (a + 1)..Len(s)
    BY <1>1, <1>3
  <2>2. /\ SubSeq(s, a + 1, b) \in Seq(Nat)
        /\ Len(SubSeq(s, a + 1, b)) = b - (a + 1) + 1
        /\ \A i \in 1..(b - (a + 1) + 1) : SubSeq(s, a + 1, b)[i] = s[(a + 1) + i - 1]
    BY <2>1, <1>1, SubSeqProperties
  <2>3. ASSUME NEW i \in 1..(b - a) PROVE SubSeq(s, a + 1, b)[i] = k + a + i
    <3>1. a + i \in 1..Len(s)
      BY <1>1
    <3>2. s[a + i] = k + (a + i)
      BY <3>1 DEF Run
    <3> QED BY <2>2, <3>2
  <2> QED BY <2>2, <2>3 DEF Run
<1> QED BY <1>2, <1>3

\* A prefix of a run is a run.
LEMMA RunPrefix ==
  ASSUME NEW s \in Seq(Nat), NEW k \in Nat, Run(s, k), NEW b \in Nat, b <= Len(s)
  PROVE  /\ SubSeq(s, 1, b) \in Seq(Nat)
         /\ Len(SubSeq(s, 1, b)) = b
         /\ Run(SubSeq(s, 1, b), k)
<1>1. PICK a \in Nat : a = 0
  OBVIOUS
<1>2. a <= b
  BY <1>1
<1>3. /\ SubSeq(s, a + 1, b) \in Seq(Nat)
      /\ Len(SubSeq(s, a + 1, b)) = b - a
      /\ Run(SubSeq(s, a + 1, b), k + a)
  BY <1>2, RunSubSeq
<1>4. a + 1 = 1 /\ k + a = k /\ b - a = b
  BY <1>1
<1> QED BY <1>3, <1>4
-----------------------------------------------------------------------------
(* The inductive invariant. *)

\* The two halves of TypeOK: flags and names, then numbers and bytes.
FlagsOK ==
  /\ entry \in {"none", "live", "freed"}
  /\ clientClosed \in BOOLEAN /\ socksUp \in BOOLEAN /\ socksClosed \in BOOLEAN
  /\ receiving \in BOOLEAN /\ recvWaiting \in BOOLEAN /\ refused \in BOOLEAN
  /\ clientGone \in BOOLEAN /\ socksGone \in BOOLEAN
  /\ cbs \subseteq {"err", "recv", "sent"}

DataOK ==
  /\ rcvWnd \in 0..Wnd /\ sending \in 0..Wnd
  /\ buf \in Seq(Nat) /\ Len(buf) <= Wnd
  /\ recvBuf \in Seq(Nat) /\ Len(recvBuf) <= RecvBufSize
  /\ recvBufSent \in 0..RecvBufSize
  /\ tcpPending \in 0..SndBuf
  /\ upIn \in 0..MaxUp /\ downIn \in 0..MaxDown
  /\ toSocks \in Seq(Nat) /\ toClient \in Seq(Nat)

\* TypeOK of TcpClient.tla is the conjunction of its two halves: the flags that
\* steer the client callbacks, and the counters and streams.
LEMMA TypeSplit ==
  /\ TypeOK <=> FlagsOK /\ DataOK
  /\ TypeOK' <=> FlagsOK' /\ DataOK'
  BY DEF TypeOK, FlagsOK, DataOK

\* A struct that does not exist yet satisfies the invariant, whatever malloc
\* leaves in the socks_recv_ fields.
LEMMA InitIInv == Init => IInv
<1> SUFFICES ASSUME Init PROVE IInv
  OBVIOUS
<1>1. FlagsOK
  BY DEF Init, FlagsOK
<1>2. DataOK
  <2>1. recvBuf \in Seq(Nat) /\ Len(recvBuf) <= 1
    <3>1. <<0>> \in Seq(Nat) /\ Len(<<0>>) = 1
      OBVIOUS
    <3>2. <<>> \in Seq(Nat) /\ Len(<<>>) = 0
      OBVIOUS
    <3>3. CASE recvBuf = <<>>
      BY <3>2, <3>3
    <3>4. CASE recvBuf = <<0>>
      BY <3>1, <3>4
    <3> QED BY <3>3, <3>4 DEF Init
  <2>2. tcpPending \in 0..SndBuf
    BY SizesAssumption DEF Init
  <2> QED BY <2>1, <2>2, SizesAssumption DEF Init, DataOK
<1>3. Run(<<>>, 0)
  BY DEF Run
<1>4. UplinkInOrder /\ DownlinkInOrder
  BY <1>3 DEF Init, UplinkInOrder, DownlinkInOrder
<1>5. /\ NoCallbackAfterFree /\ SocksAsserts /\ SentAsserts
      /\ WindowMatchesBuffer /\ GracefulClose /\ Registration
  BY SizesAssumption DEF Init, NoCallbackAfterFree, SocksAsserts, SentAsserts,
     WindowMatchesBuffer, GracefulClose, Registration
<1> QED BY <1>1, <1>2, <1>4, <1>5, TypeSplit DEF IInv

\* Accepting a client.
LEMMA AcceptIInv == IInv /\ Accept => IInv'
<1> SUFFICES ASSUME IInv, Accept PROVE IInv'
  OBVIOUS
<1> USE DEF IInv, Accept, upVars, downVars, socksVars, goneVars
<1>1. FlagsOK' /\ DataOK'
  BY TypeSplit DEF FlagsOK, DataOK
<1>2. UplinkInOrder' /\ DownlinkInOrder'
  BY DEF UplinkInOrder, DownlinkInOrder
<1>3. ~clientClosed /\ ~socksClosed /\ ~socksUp
  BY DEF Registration
<1>4. NoCallbackAfterFree' /\ SocksAsserts' /\ SentAsserts'
  BY <1>3 DEF NoCallbackAfterFree, SocksAsserts, SentAsserts
<1>5. GracefulClose' /\ Registration'
  BY <1>3 DEF GracefulClose, Registration
<1>6. WindowMatchesBuffer'
  BY SizesAssumption DEF WindowMatchesBuffer, Registration
<1> QED BY <1>1, <1>2, <1>4, <1>5, <1>6, TypeSplit

\* client_recv_func with data: the window leaves room for it in buf.
LEMMA RecvIInv == ASSUME NEW n \in 1..Wnd PROVE IInv /\ Recv(n) => IInv'
<1> SUFFICES ASSUME IInv, Recv(n) PROVE IInv'
  OBVIOUS
<1>0. /\ FlagsOK /\ DataOK /\ n \in Nat /\ upIn \in Nat /\ Len(toSocks) \in Nat
      /\ buf \in Seq(Nat) /\ Len(buf) \in Nat /\ Len(toSocks) + Len(buf) = upIn
      /\ Run(buf, Len(toSocks))
  BY TypeSplit, SizesAssumption DEF IInv, DataOK, UplinkInOrder
<1>1. /\ n <= Wnd - Len(buf)
      /\ entry = "live" /\ ~clientClosed /\ ~socksClosed
  BY DEF IInv, Recv, WindowMatchesBuffer, Registration
<1>2. /\ buf' = buf \o Bytes(upIn, n)
      /\ upIn' = upIn + n
      /\ sending' = IF buf = <<>> /\ socksUp THEN n ELSE sending
      /\ refused' = refused
  BY <1>0, <1>1, SizesAssumption DEF Recv
<1>3. /\ Bytes(upIn, n) \in Seq(Nat) /\ Len(Bytes(upIn, n)) = n
      /\ Run(Bytes(upIn, n), Len(toSocks) + Len(buf))
  BY <1>0, RunBytes
<1>4. /\ buf' \in Seq(Nat) /\ Len(buf') = Len(buf) + n
      /\ Run(buf', Len(toSocks))
  BY <1>0, <1>2, <1>3, RunConcat
<1> USE DEF IInv, Recv, lwipVars, downVars, goneVars
<1>5. UplinkInOrder'
  <2>1. toSocks' = toSocks
    OBVIOUS
  <2>2. Len(toSocks) + Len(buf') = upIn'
    <3>1. Len(buf') = Len(buf) + n
      BY <1>4
    <3>2. upIn' = upIn + n
      BY <1>2
    <3> HIDE DEF IInv, Recv
    <3> QED BY <1>0, <3>1, <3>2
  <2> QED BY <1>4, <2>1, <2>2 DEF UplinkInOrder
<1>6. FlagsOK'
  BY <1>0, <1>2 DEF FlagsOK
<1>7. DataOK'
  BY <1>0, <1>1, <1>2, <1>4, SizesAssumption DEF DataOK
<1>8. DownlinkInOrder'
  BY DEF DownlinkInOrder
<1>9. buf' # <<>>
  BY <1>0, <1>4
<1>10. SocksAsserts'
  <2>1. CASE buf = <<>> /\ socksUp
    BY <1>0, <1>1, <1>2, <1>4, <1>9, <2>1 DEF SocksAsserts, FlagsOK
  <2>2. CASE ~(buf = <<>> /\ socksUp)
    <3>1. sending' = sending /\ sending \in Nat
      BY <1>0, <1>2, <2>2 DEF DataOK
    <3> QED BY <1>0, <1>1, <1>4, <1>9, <2>2, <3>1 DEF SocksAsserts
  <2> QED BY <2>1, <2>2
<1>11. /\ NoCallbackAfterFree' /\ SentAsserts' /\ GracefulClose' /\ Registration'
  BY <1>1, <1>2, <1>9 DEF NoCallbackAfterFree, SentAsserts, GracefulClose, Registration
<1>12. WindowMatchesBuffer'
  BY <1>0, <1>2, <1>4, SizesAssumption DEF WindowMatchesBuffer, DataOK
<1> QED BY <1>5, <1>6, <1>7, <1>8, <1>10, <1>11, <1>12, TypeSplit

\* FIN from the client, or an error of its pcb: client_handle_freed_client.
LEMMA ClientDown ==
  ASSUME IInv, "recv" \in cbs \/ "err" \in cbs, HandleFreedClient(receiving),
         clientGone' = TRUE, UNCHANGED <<upVars, downVars, socksUp, socksGone>>
  PROVE  IInv'
<1> USE DEF upVars, downVars
<1>0. FlagsOK /\ DataOK /\ entry = "live"
  BY TypeSplit DEF IInv, Registration
<1>1. ~clientClosed
  BY <1>0 DEF IInv, Registration, NoCallbackAfterFree
<1>2. UplinkInOrder'
  BY DEF IInv, UplinkInOrder
<1>3. clientClosed' /\ cbs' = {} /\ clientGone'
  BY DEF HandleFreedClient
<1>4. CASE KeepSending
  <2>1. /\ entry' = entry /\ socksClosed' = socksClosed /\ sending' = sending
        /\ receiving' = receiving
    BY <1>4 DEF HandleFreedClient
  <2>2. FlagsOK'
    BY <1>0, <2>1 DEF FlagsOK, HandleFreedClient
  <2>3. DataOK'
    BY <1>0, <2>1 DEF DataOK
  <2>4. NoCallbackAfterFree' /\ SocksAsserts' /\ SentAsserts' /\ WindowMatchesBuffer'
    BY <1>0, <1>1, <1>3, <1>4, <2>1 DEF IInv, NoCallbackAfterFree, SocksAsserts,
       SentAsserts, WindowMatchesBuffer, KeepSending
  <2>5. DownlinkInOrder' /\ GracefulClose' /\ Registration'
    BY <1>0, <1>1, <1>3, <1>4, <2>1 DEF IInv, DownlinkInOrder, GracefulClose,
       Registration, KeepSending
  <2> QED BY <1>2, <2>2, <2>3, <2>4, <2>5, TypeSplit DEF IInv
<1>5. CASE ~KeepSending
  <2>1. entry' = "freed" /\ socksClosed' /\ sending' = 0 /\ ~receiving'
    BY <1>5 DEF HandleFreedClient, BSocksClientFree, Dealloc
  <2>2. FlagsOK'
    BY <1>0, <1>5 DEF FlagsOK, HandleFreedClient, BSocksClientFree, Dealloc
  <2>3. DataOK'
    BY <1>0, <2>1, SizesAssumption DEF DataOK
  <2>4. NoCallbackAfterFree' /\ SocksAsserts' /\ SentAsserts' /\ WindowMatchesBuffer'
    BY <1>3, <2>1 DEF IInv, NoCallbackAfterFree, SocksAsserts, SentAsserts,
       WindowMatchesBuffer
  <2>5. ~socksGone => Len(toSocks) = upIn
    <3>1. buf = <<>> \/ socksGone
      BY <1>1, <1>5 DEF KeepSending, IInv, Registration
    <3>2. buf = <<>> => Len(toSocks) = upIn
      BY <1>0 DEF IInv, UplinkInOrder, DataOK
    <3> QED BY <3>1, <3>2
  <2>6. DownlinkInOrder' /\ GracefulClose' /\ Registration'
    BY <1>3, <2>1, <2>5 DEF IInv, DownlinkInOrder, GracefulClose, Registration
  <2> QED BY <1>2, <2>2, <2>3, <2>4, <2>6, TypeSplit DEF IInv
<1> QED BY <1>4, <1>5

\* An error or a close of the SOCKS connection: client_free_socks.
LEMMA SocksDown ==
  ASSUME IInv, entry # "none", ~socksClosed, FreeSocks,
         socksGone' = TRUE, UNCHANGED <<upVars, downVars, socksUp, clientGone>>
  PROVE  IInv'
<1> USE DEF upVars, downVars
<1>0. FlagsOK /\ DataOK /\ entry = "live"
  BY TypeSplit DEF IInv, FlagsOK, NoCallbackAfterFree
<1>1. socksClosed' /\ sending' = 0 /\ ~receiving' /\ socksGone'
  BY DEF FreeSocks, BSocksClientFree
<1>2. UplinkInOrder' /\ DataOK'
  BY <1>0, <1>1, SizesAssumption DEF IInv, UplinkInOrder, DataOK
<1>3. FlagsOK'
  BY <1>0 DEF FlagsOK, FreeSocks, BSocksClientFree, StopReceiving, Dealloc
<1>4. CASE KeepDraining
  <2>1. entry' = entry /\ clientClosed' = clientClosed /\ cbs' = cbs \ {"recv"}
    BY <1>4 DEF FreeSocks, StopReceiving
  <2>2. tcpPending > 0 /\ socksUp /\ ~clientClosed
    BY <1>4 DEF KeepDraining, IInv, SentAsserts, Registration
  <2>3. NoCallbackAfterFree' /\ SocksAsserts' /\ SentAsserts' /\ WindowMatchesBuffer'
    BY <1>0, <1>1, <2>1, <2>2 DEF IInv, NoCallbackAfterFree, SocksAsserts,
       SentAsserts, WindowMatchesBuffer
  <2>4. DownlinkInOrder' /\ GracefulClose' /\ Registration'
    BY <1>0, <1>1, <2>1, <2>2 DEF IInv, DownlinkInOrder, GracefulClose, Registration
  <2> QED BY <1>2, <1>3, <2>3, <2>4, TypeSplit DEF IInv
<1>5. CASE ~KeepDraining
  <2>1. entry' = "freed" /\ clientClosed' /\ cbs' = {}
    BY <1>5 DEF FreeSocks, Dealloc
  <2>2. NoCallbackAfterFree' /\ SocksAsserts' /\ SentAsserts' /\ WindowMatchesBuffer'
    BY <1>1, <2>1 DEF IInv, NoCallbackAfterFree, SocksAsserts, SentAsserts,
       WindowMatchesBuffer
  <2>3. ~clientGone /\ socksUp => Len(toClient) = downIn /\ tcpPending = 0
    BY <1>0, <1>5 DEF KeepDraining, IInv, Registration, DownlinkInOrder, DataOK
  <2>4. DownlinkInOrder' /\ GracefulClose' /\ Registration'
    BY <1>1, <2>1, <2>3 DEF IInv, DownlinkInOrder, GracefulClose, Registration
  <2> QED BY <1>2, <1>3, <2>2, <2>4, TypeSplit DEF IInv
<1> QED BY <1>4, <1>5

\* client_murder.
LEMMA MurderIInv == IInv /\ Murder => IInv'
<1> SUFFICES ASSUME IInv, Murder PROVE IInv'
  OBVIOUS
<1> USE DEF Murder, BSocksClientFree, Dealloc, upVars, downVars
<1>0. FlagsOK' /\ FlagsOK
  BY TypeSplit DEF IInv, FlagsOK
<1>1. DataOK'
  BY TypeSplit, SizesAssumption DEF IInv, DataOK
<1>2. UplinkInOrder' /\ DownlinkInOrder' /\ WindowMatchesBuffer'
  BY DEF IInv, UplinkInOrder, DownlinkInOrder, WindowMatchesBuffer
<1>3. /\ NoCallbackAfterFree' /\ SocksAsserts' /\ SentAsserts'
      /\ GracefulClose' /\ Registration'
  BY DEF IInv, NoCallbackAfterFree, SocksAsserts, SentAsserts, GracefulClose,
     Registration
<1> QED BY <1>0, <1>1, <1>2, <1>3, TypeSplit DEF IInv

\* BSOCKSCLIENT_EVENT_UP: whatever the fields held, they are set now.
LEMMA SocksUpIInv == IInv /\ SocksUp => IInv'
<1> SUFFICES ASSUME IInv, SocksUp PROVE IInv'
  OBVIOUS
<1> USE DEF SocksUp, upVars, goneVars
<1>0. FlagsOK /\ DataOK /\ entry = "live" /\ entry' = "live"
  BY TypeSplit DEF IInv, FlagsOK, NoCallbackAfterFree
<1>1. /\ socksUp' /\ ~socksUp /\ ~socksClosed /\ ~socksClosed'
      /\ recvBuf' = <<>> /\ tcpPending' = 0
  OBVIOUS
<1>2. FlagsOK'
  BY <1>0 DEF FlagsOK
<1>3. DataOK'
  BY <1>0, SizesAssumption DEF DataOK, FirstSend
<1>4. UplinkInOrder' /\ WindowMatchesBuffer'
  BY <1>0 DEF IInv, UplinkInOrder, WindowMatchesBuffer, Registration, FlagsOK
<1>5. DownlinkInOrder'
  <2>1. toClient' = <<>> /\ downIn' = 0
    BY <1>1 DEF IInv, Registration
  <2> QED BY <1>1, <2>1 DEF IInv, DownlinkInOrder, Run
<1>6. SocksAsserts'
  BY <1>0, <1>1 DEF SocksAsserts, FirstSend, DataOK
<1>7. NoCallbackAfterFree' /\ GracefulClose'
  BY <1>0, <1>1 DEF IInv, NoCallbackAfterFree, GracefulClose
<1>8. SentAsserts' /\ Registration'
  <2>1. CASE clientClosed
    BY <1>0, <1>1, <2>1 DEF IInv, SentAsserts, Registration, NoCallbackAfterFree
  <2>2. CASE ~clientClosed
    BY <1>0, <1>1, <2>2 DEF IInv, SentAsserts, Registration
  <2> QED BY <2>1, <2>2
<1> QED BY <1>2, <1>3, <1>4, <1>5, <1>6, <1>7, <1>8, TypeSplit DEF IInv

\* client_socks_send_handler_done: the window reopens by what left buf, and
\* the last byte of a closed client frees it.
LEMMA SendDoneIInv == ASSUME NEW n \in 1..Wnd PROVE IInv /\ SendDone(n) => IInv'
<1> SUFFICES ASSUME IInv, SendDone(n) PROVE IInv'
  OBVIOUS
<1>0. /\ FlagsOK /\ DataOK /\ n \in Nat /\ n > 0
      /\ buf \in Seq(Nat) /\ Len(buf) \in Nat /\ toSocks \in Seq(Nat)
      /\ Len(toSocks) \in Nat /\ sending \in Nat
  BY TypeSplit, SizesAssumption DEF IInv, DataOK
<1>1. /\ n <= sending /\ sending <= Len(buf) /\ n <= Len(buf)
      /\ socksUp /\ ~socksClosed
  BY <1>0 DEF IInv, SendDone, SocksAsserts, NoCallbackAfterFree
<1>2. entry = "live"
  BY <1>0, <1>1 DEF IInv, FlagsOK, NoCallbackAfterFree, Registration
<1>3. /\ buf' = SubSeq(buf, n + 1, Len(buf))
      /\ toSocks' = toSocks \o SubSeq(buf, 1, n)
  BY DEF SendDone, Moved
<1>4. Run(toSocks, 0) /\ Run(buf, Len(toSocks)) /\ Len(toSocks) + Len(buf) = upIn
  BY DEF IInv, UplinkInOrder
<1>5. /\ buf' \in Seq(Nat) /\ Len(buf') = Len(buf) - n
      /\ Run(buf', Len(toSocks) + n)
  BY <1>0, <1>1, <1>3, <1>4, RunSubSeq
<1>6. /\ SubSeq(buf, 1, n) \in Seq(Nat) /\ Len(SubSeq(buf, 1, n)) = n
      /\ Run(SubSeq(buf, 1, n), Len(toSocks))
  BY <1>0, <1>1, <1>4, RunPrefix
<1>7. /\ toSocks' \in Seq(Nat) /\ Len(toSocks') = Len(toSocks) + n
      /\ Run(toSocks', 0)
  <2>1. Run(SubSeq(buf, 1, n), 0 + Len(toSocks))
    BY <1>0, <1>6
  <2> QED BY <1>0, <1>3, <1>4, <1>6, <2>1, RunConcat
<1>8. upIn' = upIn /\ refused' = refused /\ socksUp' = socksUp
      /\ UNCHANGED <<downVars, goneVars>>
  BY DEF SendDone
<1>9. UplinkInOrder'
  <2>1. Len(toSocks') + Len(buf') = upIn'
    <3>1. Len(buf') = Len(buf) - n /\ Len(toSocks') = Len(toSocks) + n /\ upIn' = upIn
      BY <1>5, <1>7, <1>8
    <3> QED BY <1>0, <1>4, <3>1
  <2>2. Run(buf', Len(toSocks'))
    BY <1>5, <1>7
  <2> QED BY <1>7, <2>1, <2>2 DEF UplinkInOrder
<1>10. rcvWnd' \in 0..Wnd /\ (~clientClosed => rcvWnd' = Wnd - Len(buf'))
  <2>1. CASE clientClosed
    BY <1>0, <2>1 DEF SendDone, DataOK
  <2>2. CASE ~clientClosed
    <3>1. rcvWnd = Wnd - Len(buf)
      BY <1>1, <1>2, <2>2 DEF IInv, Registration, WindowMatchesBuffer
    <3>2. rcvWnd' = rcvWnd + n
      BY <2>2 DEF SendDone, Reopened
    <3>3. Len(buf') = Len(buf) - n
      BY <1>5
    <3>4. Len(buf) <= Wnd /\ Wnd \in Nat
      BY <1>0, SizesAssumption DEF DataOK
    <3> QED BY <1>0, <1>1, <3>1, <3>2, <3>3, <3>4
  <2> QED BY <2>1, <2>2
<1>11. WindowMatchesBuffer'
  <2>1. ~refused /\ ("recv" \in cbs' => ~clientClosed)
    BY DEF IInv, WindowMatchesBuffer, Registration, SendDone, lwipVars, FreeSocks,
       StopReceiving
  <2> QED BY <1>8, <1>10, <2>1 DEF WindowMatchesBuffer
<1>12. buf' = <<>> <=> n = Len(buf)
  <2>1. buf' = <<>> <=> Len(buf') = 0
    BY <1>5
  <2>2. Len(buf') = Len(buf) - n
    BY <1>5
  <2> QED BY <1>0, <2>1, <2>2
<1>13. CASE clientClosed /\ n = Len(buf)
  <2>1. /\ socksClosed' /\ sending' = 0 /\ ~receiving'
        /\ entry' = "freed" /\ clientClosed' /\ cbs' = {}
    BY <1>13 DEF SendDone, FreeSocks, KeepDraining, BSocksClientFree, Dealloc
  <2>2. FlagsOK'
    BY <1>0, <1>8, <1>13 DEF SendDone, FreeSocks, KeepDraining, BSocksClientFree,
       Dealloc, FlagsOK, downVars, goneVars
  <2>3. DataOK'
    <3>1. Len(buf') <= Wnd
      <4>1. Len(buf') = 0
        BY <1>5, <1>13, <1>0
      <4> QED BY <4>1, SizesAssumption
    <3> QED BY <1>0, <1>5, <1>7, <1>8, <1>10, <2>1, <3>1, SizesAssumption DEF DataOK, downVars
  <2>4. NoCallbackAfterFree' /\ SocksAsserts' /\ SentAsserts' /\ DownlinkInOrder'
    BY <1>8, <2>1 DEF IInv, NoCallbackAfterFree, SocksAsserts, SentAsserts,
       DownlinkInOrder, downVars
  <2>5. GracefulClose'
    <3>1. clientGone'
      BY <1>1, <1>8, <1>13 DEF IInv, Registration, goneVars
    <3>2. Len(toSocks') = upIn'
      <4>1. Len(toSocks') = Len(toSocks) + n
        BY <1>7
      <4> QED BY <1>0, <1>4, <1>8, <1>13, <4>1
    <3> QED BY <3>1, <3>2 DEF GracefulClose
  <2>6. Registration'
    BY <1>8, <2>1 DEF IInv, Registration, downVars
  <2> QED BY <1>9, <1>11, <2>2, <2>3, <2>4, <2>5, <2>6, TypeSplit DEF IInv
<1>14. CASE ~(clientClosed /\ n = Len(buf))
  <2>1. /\ sending' = Len(buf) - n
        /\ UNCHANGED <<entry, lwipVars, socksClosed, receiving>>
    BY <1>14 DEF SendDone
  <2>2. FlagsOK'
    BY <1>0, <1>8, <2>1 DEF FlagsOK, lwipVars, downVars, goneVars
  <2>3. sending' \in 0..Wnd /\ Len(buf') <= Wnd /\ sending' = Len(buf')
    <3>1. Len(buf') = Len(buf) - n
      BY <1>5
    <3>2. Len(buf) <= Wnd /\ Wnd \in Nat
      BY <1>0, SizesAssumption DEF DataOK
    <3> QED BY <1>0, <1>1, <2>1, <3>1, <3>2
  <2>4. DataOK'
    BY <1>0, <1>5, <1>7, <1>8, <1>10, <2>3 DEF DataOK, downVars
  <2>5. NoCallbackAfterFree' /\ SentAsserts' /\ DownlinkInOrder'
    BY <1>1, <1>2, <1>8, <2>1 DEF IInv, NoCallbackAfterFree, SentAsserts,
       DownlinkInOrder, downVars, lwipVars
  <2>6. SocksAsserts'
    <3>1. sending' > 0 <=> buf' # <<>>
      BY <1>0, <1>1, <1>12, <2>1
    <3>2. sending' <= Len(buf')
      BY <2>3
    <3>3. receiving' => clientClosed' \/ recvBuf' = <<>>
      BY <1>8, <2>1 DEF IInv, SocksAsserts, lwipVars, downVars
    <3> QED BY <1>1, <1>8, <2>1, <3>1, <3>2, <3>3 DEF SocksAsserts
  <2>7. GracefulClose'
    BY <1>2, <2>1 DEF GracefulClose
  <2>8. Registration'
    BY <1>1, <1>2, <1>8, <1>12, <1>14, <2>1 DEF IInv, Registration, lwipVars,
       downVars, goneVars
  <2> QED BY <1>9, <1>11, <2>2, <2>4, <2>5, <2>6, <2>7, <2>8, TypeSplit DEF IInv
<1> QED BY <1>13, <1>14

\* client_socks_recv_send_out: what tcp_write takes continues the stream, and
\* data that is left has an ACK to wait for.
LEMMA SendOutIInv ==
  ASSUME IInv, socksUp, ~clientClosed, entry = "live",
         NEW data \in Seq(Nat), NEW sent \in Nat, NEW pending \in Nat,
         sent < Len(data), Len(data) <= RecvBufSize, pending <= SndBuf,
         downIn' \in 0..MaxDown, Len(data) <= downIn',
         Run(data, downIn' - Len(data)),
         Len(toClient) + (Len(data) - sent) = downIn',
         SendOut(data, sent, pending, FALSE),
         UNCHANGED <<upVars, socksUp, socksGone>>
  PROVE  IInv'
<1> DEFINE Abort ==
             /\ HandleFreedClient(FALSE)
             /\ recvBuf' = data /\ recvBufSent' = sent /\ recvWaiting' = FALSE
             /\ tcpPending' = pending
             /\ clientGone' = TRUE
             /\ UNCHANGED toClient
           More(w) == sent + w < Len(data)
           Queued(w) ==
             /\ ~(More(w) /\ pending + w = 0)
             /\ recvBuf' = IF More(w) THEN data ELSE <<>>
             /\ recvBufSent' = sent + w
             /\ recvWaiting' = More(w)
             /\ tcpPending' = pending + w
             /\ toClient' = toClient \o SubSeq(data, sent + 1, sent + w)
             /\ receiving' = (FALSE \/ (~More(w) /\ ~socksClosed))
             /\ UNCHANGED <<entry, lwipVars, socksClosed, sending, clientGone>>
<1>0. /\ FlagsOK /\ DataOK /\ Len(data) \in Nat /\ toClient \in Seq(Nat)
      /\ Len(toClient) \in Nat /\ downIn' \in Nat /\ SndBuf \in Nat
      /\ RecvBufSize \in Nat
  <2>1. FlagsOK /\ DataOK
    BY TypeSplit DEF IInv
  <2>2. downIn' \in Nat /\ SndBuf \in Nat /\ RecvBufSize \in Nat
    BY SizesAssumption
  <2>3. Len(data) \in Nat
    OBVIOUS
  <2>4. toClient \in Seq(Nat) /\ Len(toClient) \in Nat
    BY <2>1 DEF DataOK
  <2> QED BY <2>1, <2>2, <2>3, <2>4
<1>1. UplinkInOrder'
  BY DEF IInv, UplinkInOrder, upVars
<1>2. \/ Abort
      \/ \E w \in Nat : /\ Queued(w)
                        /\ sent + w <= Len(data) /\ pending + w <= SndBuf
  <2>1. LET w == Lesser(Len(data) - sent, SndBuf - pending)
        IN  w \in Nat /\ sent + w <= Len(data) /\ pending + w <= SndBuf
    BY <1>0 DEF Lesser
  <2>2. 0 \in Nat /\ sent + 0 <= Len(data) /\ pending + 0 <= SndBuf
    BY <1>0
  <2> QED BY <2>1, <2>2 DEF SendOut, Stalled, Advanced
<1>3. CASE Abort
  <2>1. clientClosed' /\ cbs' = {} /\ clientGone'
    BY <1>3 DEF HandleFreedClient
  <2>2. DataOK'
    <3>1. sending' \in 0..Wnd
      BY <1>0, <1>3, SizesAssumption DEF HandleFreedClient, BSocksClientFree, DataOK
    <3>2. recvBufSent' \in 0..RecvBufSize /\ tcpPending' \in 0..SndBuf
      BY <1>0, <1>3
    <3>3. recvBuf' = data /\ toClient' = toClient
      BY <1>3
    <3> QED BY <1>0, <3>1, <3>2, <3>3 DEF DataOK, upVars
  <2>3. DownlinkInOrder' /\ WindowMatchesBuffer'
    BY <1>3, <2>1 DEF IInv, DownlinkInOrder, WindowMatchesBuffer, upVars
  <2>4. CASE KeepSending
    <3>1. entry' = entry /\ socksClosed' = socksClosed /\ sending' = sending
          /\ receiving' = FALSE
      BY <1>3, <2>4 DEF HandleFreedClient
    <3>2. FlagsOK'
      BY <1>0, <1>3, <3>1 DEF FlagsOK, HandleFreedClient, upVars
    <3>3. NoCallbackAfterFree' /\ SocksAsserts' /\ SentAsserts'
      BY <2>1, <2>4, <3>1 DEF IInv, NoCallbackAfterFree, SocksAsserts, SentAsserts,
         KeepSending, upVars
    <3>4. GracefulClose' /\ Registration'
      BY <2>1, <2>4, <3>1 DEF IInv, GracefulClose, Registration, KeepSending, upVars
    <3> QED BY <1>1, <2>2, <2>3, <3>2, <3>3, <3>4, TypeSplit DEF IInv
  <2>5. CASE ~KeepSending
    <3>1. entry' = "freed" /\ socksClosed' /\ sending' = 0 /\ ~receiving'
      BY <1>3, <2>5 DEF HandleFreedClient, BSocksClientFree, Dealloc
    <3>2. FlagsOK'
      BY <1>0, <1>3, <2>5 DEF FlagsOK, HandleFreedClient, BSocksClientFree, Dealloc, upVars
    <3>3. NoCallbackAfterFree' /\ SocksAsserts' /\ SentAsserts'
      BY <2>1, <3>1 DEF IInv, NoCallbackAfterFree, SocksAsserts, SentAsserts
    <3>4. ~socksGone => Len(toSocks) = upIn
      <4>1. buf = <<>> \/ socksGone
        BY <2>5 DEF KeepSending, IInv, Registration
      <4>2. buf = <<>> => Len(toSocks) = upIn
        BY <1>0 DEF IInv, UplinkInOrder, DataOK
      <4> QED BY <4>1, <4>2
    <3>5. GracefulClose' /\ Registration'
      BY <2>1, <3>1, <3>4 DEF GracefulClose, Registration, upVars
    <3> QED BY <1>1, <2>2, <2>3, <3>2, <3>3, <3>5, TypeSplit DEF IInv
  <2> QED BY <2>4, <2>5
<1>4. ASSUME NEW w \in Nat, Queued(w), sent + w <= Len(data), pending + w <= SndBuf
      PROVE  IInv'
  <2>1. /\ SubSeq(data, sent + 1, sent + w) \in Seq(Nat)
        /\ Len(SubSeq(data, sent + 1, sent + w)) = w
        /\ Run(SubSeq(data, sent + 1, sent + w), Len(toClient))
    <3>1. PICK b \in Nat : b = sent + w
      OBVIOUS
    <3>2. PICK k \in Nat : k = downIn' - Len(data)
      BY <1>0
    <3>3. sent <= b /\ b <= Len(data) /\ Run(data, k)
      BY <1>4, <3>1, <3>2
    <3>4. /\ SubSeq(data, sent + 1, b) \in Seq(Nat)
          /\ Len(SubSeq(data, sent + 1, b)) = b - sent
          /\ Run(SubSeq(data, sent + 1, b), k + sent)
      BY <3>3, RunSubSeq
    <3>5. k + sent = Len(toClient) /\ b - sent = w
      BY <1>0, <3>1, <3>2
    <3> QED BY <3>1, <3>4, <3>5
  <2>2. /\ toClient' \in Seq(Nat) /\ Len(toClient') = Len(toClient) + w
        /\ Run(toClient', 0)
    <3>1. Run(SubSeq(data, sent + 1, sent + w), 0 + Len(toClient)) /\ Run(toClient, 0)
      BY <1>0, <2>1 DEF IInv, DownlinkInOrder
    <3> QED BY <1>0, <1>4, <2>1, <3>1, RunConcat
  <2>3. /\ recvBuf' = IF More(w) THEN data ELSE <<>>
        /\ recvBufSent' = sent + w /\ tcpPending' = pending + w
        /\ (recvWaiting' <=> More(w))
        /\ (receiving' <=> ~More(w) /\ ~socksClosed)
        /\ UNCHANGED <<entry, clientClosed, cbs, socksClosed, sending, clientGone>>
    BY <1>4 DEF lwipVars
  <2>4. FlagsOK'
    <3>1. recvWaiting' \in BOOLEAN /\ receiving' \in BOOLEAN
      BY <1>4
    <3> QED BY <1>0, <2>3, <3>1 DEF FlagsOK, upVars
  <2>5. DataOK'
    <3>1. recvBufSent' \in 0..RecvBufSize /\ tcpPending' \in 0..SndBuf
      BY <1>0, <1>4, <2>3
    <3>2. recvBuf' \in Seq(Nat) /\ Len(recvBuf') <= RecvBufSize
      BY <1>0, <2>3
    <3> QED BY <1>0, <2>2, <2>3, <3>1, <3>2 DEF DataOK, upVars
  <2>6. DownlinkInOrder'
    <3>1. CASE More(w)
      <4>1. recvBuf' = data /\ data # <<>>
        BY <1>0, <2>3, <3>1
      <4>2. Len(toClient') + (Len(data) - (sent + w)) = downIn'
        BY <1>0, <2>2
      <4> QED BY <2>2, <2>3, <4>1, <4>2 DEF DownlinkInOrder
    <3>2. CASE ~More(w)
      <4>1. recvBuf' = <<>>
        BY <2>3, <3>2
      <4>2. Len(toClient') = Len(toClient) + w /\ w = Len(data) - sent
        BY <1>0, <1>4, <2>2, <3>2
      <4>3. Len(toClient') = downIn'
        BY <1>0, <4>2
      <4> QED BY <2>2, <4>1, <4>3 DEF DownlinkInOrder
    <3> QED BY <3>1, <3>2
  <2>7. WindowMatchesBuffer' /\ NoCallbackAfterFree' /\ GracefulClose'
    <3>1. receiving' => ~socksClosed'
      BY <2>3
    <3> QED BY <2>3, <3>1 DEF IInv, WindowMatchesBuffer, NoCallbackAfterFree, GracefulClose, upVars
  <2>8. SocksAsserts'
    <3>1. receiving' => recvBuf' = <<>>
      BY <2>3
    <3> QED BY <2>3, <3>1 DEF IInv, SocksAsserts, upVars
  <2>9. SentAsserts'
    <3>1. data # <<>> /\ (recvBuf' # <<>> <=> More(w))
      BY <1>0, <2>3
    <3>2. tcpPending' > 0
      BY <1>0, <1>4, <2>3
    <3> QED BY <2>3, <3>1, <3>2 DEF SentAsserts
  <2>10. Registration'
    BY <2>3 DEF IInv, Registration, upVars
  <2> QED BY <1>1, <2>4, <2>5, <2>6, <2>7, <2>8, <2>9, <2>10, TypeSplit DEF IInv
<1> QED BY <1>2, <1>3, <1>4

\* client_socks_recv_handler_done: a closed client drops the data, an open one
\* queues it.
LEMMA RecvDoneIInv ==
  ASSUME NEW n \in 1..RecvBufSize PROVE IInv /\ RecvDone(n) => IInv'
<1> SUFFICES ASSUME IInv, RecvDone(n) PROVE IInv'
  OBVIOUS
<1>0. /\ FlagsOK /\ DataOK /\ n \in Nat /\ n <= RecvBufSize /\ downIn \in Nat
      /\ tcpPending \in Nat /\ tcpPending <= SndBuf
  BY TypeSplit, SizesAssumption DEF IInv, DataOK
<1>1. receiving /\ ~socksClosed /\ socksUp
  BY DEF RecvDone, IInv, NoCallbackAfterFree, SocksAsserts
<1>2. CASE clientClosed
  <2>1. /\ ~receiving'
        /\ UNCHANGED <<entry, lwipVars, upVars, downVars, socksClosed, sending,
                       socksUp, goneVars>>
    BY <1>2 DEF RecvDone, goneVars
  <2>2. FlagsOK'
    BY <1>0, <1>2, <2>1 DEF RecvDone, FlagsOK, lwipVars, upVars, downVars, goneVars
  <2> USE <2>1 DEF IInv, lwipVars, upVars, downVars, goneVars
  <2>3. DataOK'
    BY <1>0 DEF DataOK
  <2>4. UplinkInOrder' /\ DownlinkInOrder'
    BY DEF UplinkInOrder, DownlinkInOrder
  <2>5. NoCallbackAfterFree' /\ WindowMatchesBuffer' /\ GracefulClose' /\ Registration'
    BY DEF NoCallbackAfterFree, WindowMatchesBuffer, GracefulClose, Registration
  <2>6. SocksAsserts' /\ SentAsserts'
    BY <1>2 DEF SocksAsserts, SentAsserts, Registration
  <2> QED BY <2>2, <2>3, <2>4, <2>5, <2>6, TypeSplit
<1>3. CASE ~clientClosed
  <2>1. /\ downIn' = downIn + n /\ downIn + n <= MaxDown
        /\ SendOut(Bytes(downIn, n), 0, tcpPending, FALSE)
        /\ UNCHANGED <<upVars, socksUp, socksGone>>
    BY <1>3 DEF RecvDone
  <2>2. /\ Bytes(downIn, n) \in Seq(Nat) /\ Len(Bytes(downIn, n)) = n
        /\ Run(Bytes(downIn, n), downIn)
    BY <1>0, RunBytes
  <2>3. Len(toClient) = downIn
    BY <1>1, <1>3 DEF IInv, DownlinkInOrder, SocksAsserts
  <2>4. PICK data \in Seq(Nat) : data = Bytes(downIn, n)
    BY <2>2
  <2>5. PICK sent \in Nat : sent = 0
    OBVIOUS
  <2>6. /\ sent < Len(data) /\ Len(data) <= RecvBufSize
        /\ downIn' \in 0..MaxDown /\ Len(data) <= downIn'
        /\ downIn' - Len(data) = downIn
        /\ Len(toClient) + (Len(data) - sent) = downIn'
    <3>1. Len(data) = n
      BY <2>2, <2>4
    <3> QED BY <1>0, <2>1, <2>3, <2>5, <3>1, SizesAssumption
  <2>7. Run(data, downIn' - Len(data)) /\ SendOut(data, sent, tcpPending, FALSE)
    BY <2>1, <2>2, <2>4, <2>5, <2>6
  <2>8. entry = "live"
    BY <1>0, <1>1, <1>3 DEF IInv, FlagsOK, NoCallbackAfterFree, Registration
  <2> QED BY <1>0, <1>1, <1>3, <2>1, <2>6, <2>7, <2>8, SendOutIInv
<1> QED BY <1>2, <1>3

\* client_sent_func: an ACK continues the queueing, or ends a client whose
\* SOCKS side is gone.
LEMMA SentIInv ==
  ASSUME NEW n \in 1..SndBuf PROVE IInv /\ Sent(n) => IInv'
<1> SUFFICES ASSUME IInv, Sent(n) PROVE IInv'
  OBVIOUS
<1>0. /\ FlagsOK /\ DataOK /\ n \in Nat /\ n > 0 /\ downIn \in Nat
      /\ tcpPending \in Nat /\ tcpPending <= SndBuf /\ n <= tcpPending
  BY TypeSplit, SizesAssumption DEF IInv, DataOK, Sent
<1>1. socksUp /\ ~clientClosed /\ entry = "live" /\ "sent" \in cbs
  BY <1>0 DEF Sent, IInv, FlagsOK, NoCallbackAfterFree, Registration
<1>2. UNCHANGED <<upVars, downIn, socksUp, socksGone>>
  BY DEF Sent
<1>3. CASE recvBuf # <<>>
  <2>1. SendOut(recvBuf, recvBufSent, tcpPending - n, receiving)
    BY <1>3 DEF Sent
  <2>2. receiving = FALSE
    BY <1>0, <1>1, <1>3 DEF IInv, SocksAsserts, FlagsOK
  <2>3. SendOut(recvBuf, recvBufSent, tcpPending - n, FALSE)
    BY <2>1, <2>2
  <2>4. tcpPending - n \in Nat /\ tcpPending - n <= SndBuf
    BY <1>0, SizesAssumption
  <2>5. /\ recvBuf \in Seq(Nat) /\ recvBufSent \in Nat /\ Len(recvBuf) <= RecvBufSize
        /\ downIn \in 0..MaxDown
    BY <1>0, SizesAssumption DEF DataOK
  <2>6. recvBufSent < Len(recvBuf)
    BY <1>1, <1>3 DEF IInv, SentAsserts
  <2>7. /\ Len(recvBuf) <= downIn /\ Run(recvBuf, downIn - Len(recvBuf))
        /\ Len(toClient) + (Len(recvBuf) - recvBufSent) = downIn
    BY <1>1, <1>3 DEF IInv, DownlinkInOrder
  <2>8. downIn' = downIn
    BY <1>2
  <2> QED BY <1>1, <1>2, <2>3, <2>4, <2>5, <2>6, <2>7, <2>8, SendOutIInv
<1>4. CASE recvBuf = <<>> /\ socksClosed /\ tcpPending = n
  <2>1. /\ tcpPending' = 0 /\ HandleFreedClient(receiving)
        /\ UNCHANGED <<recvBuf, recvBufSent, recvWaiting, toClient, clientGone>>
    BY <1>0, <1>4 DEF Sent
  <2>2. /\ clientClosed' /\ cbs' = {} /\ entry' = "freed"
        /\ socksClosed' /\ sending' = 0 /\ ~receiving'
    BY <1>4, <2>1 DEF HandleFreedClient, KeepSending, BSocksClientFree, Dealloc
  <2>3. FlagsOK'
    BY <1>0, <1>2, <1>4, <2>1 DEF FlagsOK, HandleFreedClient, KeepSending,
       BSocksClientFree, Dealloc, upVars
  <2>4. DataOK'
    BY <1>0, <1>2, <2>1, <2>2, SizesAssumption DEF DataOK, upVars
  <2>5. UplinkInOrder' /\ DownlinkInOrder' /\ WindowMatchesBuffer'
    BY <1>2, <2>1, <2>2 DEF IInv, UplinkInOrder, DownlinkInOrder, WindowMatchesBuffer,
       upVars
  <2>6. NoCallbackAfterFree' /\ SocksAsserts' /\ SentAsserts' /\ Registration'
    BY <1>2, <2>1, <2>2 DEF IInv, NoCallbackAfterFree, SocksAsserts, SentAsserts,
       Registration, upVars
  <2>7. GracefulClose'
    <3>1. Len(toClient) = downIn
      BY <1>1, <1>4 DEF IInv, DownlinkInOrder
    <3>2. socksGone
      BY <1>1, <1>4 DEF IInv, Registration
    <3> QED BY <1>2, <2>1, <3>1, <3>2 DEF GracefulClose
  <2> QED BY <2>3, <2>4, <2>5, <2>6, <2>7, TypeSplit DEF IInv
<1>5. CASE recvBuf = <<>> /\ ~(socksClosed /\ tcpPending = n)
  <2>1. /\ tcpPending' = tcpPending - n
        /\ UNCHANGED <<entry, lwipVars, socksVars, recvBuf, recvBufSent, recvWaiting,
                       toClient, clientGone>>
    BY <1>5 DEF Sent
  <2>2. tcpPending' \in 0..SndBuf /\ (socksClosed => tcpPending' > 0)
    BY <1>0, <1>5, <2>1, SizesAssumption
  <2> USE <1>2, <2>1 DEF IInv, lwipVars, upVars, socksVars
  <2>3. FlagsOK'
    BY <1>0 DEF FlagsOK
  <2>4. DataOK'
    BY <1>0, <2>2 DEF DataOK
  <2>5. UplinkInOrder' /\ DownlinkInOrder' /\ WindowMatchesBuffer'
    BY DEF UplinkInOrder, DownlinkInOrder, WindowMatchesBuffer
  <2>6. NoCallbackAfterFree' /\ SocksAsserts' /\ Registration'
    BY DEF NoCallbackAfterFree, SocksAsserts, Registration
  <2>7. SentAsserts'
    BY <1>5, <2>2 DEF SentAsserts
  <2>8. GracefulClose'
    BY <1>1 DEF GracefulClose
  <2> QED BY <2>3, <2>4, <2>5, <2>6, <2>7, <2>8, TypeSplit
<1> QED BY <1>3, <1>4, <1>5

\* Every callback preserves the invariant.
LEMMA NextIInv == IInv /\ [Next]_vars => IInv'
<1> SUFFICES ASSUME IInv, [Next]_vars PROVE IInv'
  OBVIOUS
<1>1. CASE Accept
  BY <1>1, AcceptIInv
<1>2. CASE RecvFin \/ Err
  BY <1>2, ClientDown DEF RecvFin, Err
<1>3. ASSUME NEW n \in 1..Wnd, Recv(n) PROVE IInv'
  BY <1>3, RecvIInv
<1>4. ASSUME NEW n \in 1..SndBuf, Sent(n) PROVE IInv'
  BY <1>4, SentIInv
<1>5. CASE SocksUp
  BY <1>5, SocksUpIInv
<1>6. CASE SocksError
  BY <1>6, SocksDown DEF SocksError
<1>7. CASE SocksErrorClosed
  <2>1. ~socksClosed /\ entry # "none"
    BY <1>7 DEF SocksErrorClosed, IInv, NoCallbackAfterFree, SocksAsserts, Registration
  <2> QED BY <1>7, <2>1, SocksDown DEF SocksErrorClosed
<1>8. ASSUME NEW n \in 1..Wnd, SendDone(n) PROVE IInv'
  BY <1>8, SendDoneIInv
<1>9. ASSUME NEW n \in 1..RecvBufSize, RecvDone(n) PROVE IInv'
  BY <1>9, RecvDoneIInv
<1>10. CASE Murder
  BY <1>10, MurderIInv
<1>11. CASE UNCHANGED vars
  <2> USE <1>11 DEF vars, lwipVars, upVars, downVars, socksVars, goneVars
  <2>1. TypeOK'
    BY DEF IInv, TypeOK
  <2>2. UplinkInOrder' /\ DownlinkInOrder' /\ WindowMatchesBuffer'
    BY DEF IInv, UplinkInOrder, DownlinkInOrder, WindowMatchesBuffer
  <2>3. /\ NoCallbackAfterFree' /\ SocksAsserts' /\ SentAsserts'
        /\ GracefulClose' /\ Registration'
    BY DEF IInv, NoCallbackAfterFree, SocksAsserts, SentAsserts, GracefulClose,
       Registration
  <2> QED BY <2>1, <2>2, <2>3 DEF IInv
<1> QED BY <1>1, <1>2, <1>3, <1>4, <1>5, <1>6, <1>7, <1>8, <1>9, <1>10, <1>11 DEF Next
-----------------------------------------------------------------------------
(* The theorems. *)

\* The inductive invariant holds in every reachable state, for every window
\* and buffer size.
THEOREM Invariance == Spec => []IInv
  BY InitIInv, NextIInv, PTL DEF Spec

\* Every variable keeps its type; in particular buf never holds more than
\* TCP_WND bytes and socks_recv_tcp_pending never exceeds the send buffer.
THEOREM TypeCorrect == Spec => []TypeOK
<1>1. IInv => TypeOK
  BY DEF IInv
<1> QED BY <1>1, Invariance, PTL

\* The ASSERTs at the head of the SOCKS handlers never fail.
THEOREM SocksAssertsNeverFail == Spec => []SocksAsserts
<1>1. IInv => SocksAsserts
  BY DEF IInv
<1> QED BY <1>1, Invariance, PTL

\* The ASSERTs of client_sent_func never fail.
THEOREM SentAssertsNeverFail == Spec => []SentAsserts
<1>1. IInv => SentAsserts
  BY DEF IInv
<1> QED BY <1>1, Invariance, PTL

\* client_dealloc runs exactly when both sides are closed, and leaves no
\* callback and no outstanding SOCKS operation.
THEOREM NothingCallsBack == Spec => []NoCallbackAfterFree
<1>1. IInv => NoCallbackAfterFree
  BY DEF IInv
<1> QED BY <1>1, Invariance, PTL

\* client_recv_func always has room for what lwIP delivers.
THEOREM WindowAlwaysMatches == Spec => []WindowMatchesBuffer
<1>1. IInv => WindowMatchesBuffer
  BY DEF IInv
<1> QED BY <1>1, Invariance, PTL

\* The client's bytes reach the SOCKS server once and in order.
THEOREM UplinkAlwaysInOrder == Spec => []UplinkInOrder
<1>1. IInv => UplinkInOrder
  BY DEF IInv
<1> QED BY <1>1, Invariance, PTL

\* The SOCKS server's bytes reach the client once and in order.
THEOREM DownlinkAlwaysInOrder == Spec => []DownlinkInOrder
<1>1. IInv => DownlinkInOrder
  BY DEF IInv
<1> QED BY <1>1, Invariance, PTL

\* A side that ends by itself never costs the other side buffered data.
THEOREM GracefulCloseAlways == Spec => []GracefulClose
<1>1. IInv => GracefulClose
  BY DEF IInv
<1> QED BY <1>1, Invariance, PTL

\* Once client_dealloc has run, nothing calls into the struct.
THEOREM FreedIsFinal == Spec => NoUseAfterFree
<1>1. IInv /\ [Next]_vars => [entry # "freed"]_vars
  <2> SUFFICES ASSUME IInv, Next, entry = "freed" PROVE FALSE
    OBVIOUS
  <2>1. clientClosed /\ socksClosed /\ cbs = {} /\ sending = 0 /\ ~receiving
    BY DEF IInv, NoCallbackAfterFree
  <2>2. ~Accept /\ ~RecvFin /\ ~Err /\ ~SocksUp /\ ~SocksError /\ ~SocksErrorClosed
        /\ ~Murder
    BY <2>1 DEF Accept, RecvFin, Err, SocksUp, SocksError, SocksErrorClosed, Murder
  <2>3. ASSUME NEW n \in 1..Wnd PROVE ~Recv(n) /\ ~SendDone(n)
    <3>1. ~Recv(n)
      BY <2>1 DEF Recv
    <3>2. ~(n <= sending)
      BY <2>1, SizesAssumption
    <3> QED BY <3>1, <3>2 DEF SendDone
  <2>4. ASSUME NEW n \in 1..SndBuf PROVE ~Sent(n)
    BY <2>1 DEF Sent
  <2>5. ASSUME NEW n \in 1..RecvBufSize PROVE ~RecvDone(n)
    BY <2>1 DEF RecvDone
  <2> QED BY <2>2, <2>3, <2>4, <2>5 DEF Next
<1> QED BY <1>1, Invariance, PTL DEF Spec, NoUseAfterFree
-----------------------------------------------------------------------------
(* Each direction is a byte stream. *)

\* What a step may do to a direction: it goes on or, once closed, stands still.
UpMoves ==
  /\ upIn <= upIn' /\ Len(toSocks) <= Len(toSocks')
  /\ socksClosed => socksClosed' /\ UNCHANGED <<upIn, toSocks, socksGone>>

DownMoves ==
  /\ downIn <= downIn' /\ Len(toClient) <= Len(toClient')
  /\ clientClosed => clientClosed' /\ UNCHANGED <<downIn, toClient, clientGone>>
  /\ toClient' # toClient => ~clientClosed' /\ socksUp'

\* client_socks_recv_send_out appends what tcp_write took, and only then keeps
\* the client open.
LEMMA SendOutMoves ==
  ASSUME socksUp, ~clientClosed, NEW data \in Seq(Nat), NEW k \in Nat, Run(data, k),
         NEW sent \in Nat, NEW pending \in Nat, sent < Len(data), pending <= SndBuf,
         toClient \in Seq(Nat), NEW armed, SendOut(data, sent, pending, armed), UNCHANGED socksUp
  PROVE  /\ Len(toClient) <= Len(toClient')
         /\ toClient' # toClient => ~clientClosed' /\ socksUp'
         /\ socksClosed => socksClosed'
<1>0. Len(data) \in Nat /\ Len(toClient) \in Nat
  BY LenProperties
<1>1. ASSUME UNCHANGED toClient, HandleFreedClient(armed)
      PROVE  Len(toClient) <= Len(toClient') /\ (socksClosed => socksClosed')
  BY <1>0, <1>1 DEF HandleFreedClient, BSocksClientFree
<1>2. ASSUME NEW w \in Nat, sent + w <= Len(data),
             toClient' = toClient \o SubSeq(data, sent + 1, sent + w),
             UNCHANGED <<clientClosed, socksClosed>>
      PROVE  /\ Len(toClient) <= Len(toClient')
             /\ ~clientClosed' /\ socksUp' /\ (socksClosed => socksClosed')
  <2>1. sent + w \in Nat /\ sent <= sent + w
    OBVIOUS
  <2>2. SubSeq(data, sent + 1, sent + w) \in Seq(Nat)
    BY <1>2, <2>1, RunSubSeq
  <2>3. Len(toClient') = Len(toClient) + Len(SubSeq(data, sent + 1, sent + w))
    BY <1>2, <2>2, ConcatProperties
  <2>4. Len(SubSeq(data, sent + 1, sent + w)) \in Nat
    BY <2>2, LenProperties
  <2> QED BY <1>0, <1>2, <2>3, <2>4
<1>3. \/ UNCHANGED toClient /\ HandleFreedClient(armed)
      \/ \E w \in {0, Lesser(Len(data) - sent, SndBuf - pending)} :
           /\ toClient' = toClient \o SubSeq(data, sent + 1, sent + w)
           /\ UNCHANGED <<clientClosed, socksClosed>>
  BY DEF SendOut, lwipVars
<1>4. \A w \in {0, Lesser(Len(data) - sent, SndBuf - pending)} : w \in Nat /\ sent + w <= Len(data)
  BY <1>0, SizesAssumption DEF Lesser
<1> QED BY <1>1, <1>2, <1>3, <1>4

LEMMA SentMoves ==
  ASSUME IInv, NEW n \in 1..SndBuf, Sent(n)
  PROVE  UpMoves /\ DownMoves
<1>0. /\ n \in Nat /\ tcpPending \in 0..SndBuf /\ upIn \in Nat /\ downIn \in Nat
      /\ toClient \in Seq(Nat) /\ Len(toClient) \in Nat /\ Len(toSocks) \in Nat
      /\ recvBuf \in Seq(Nat) /\ Len(recvBuf) \in Nat /\ recvBufSent \in Nat
  BY SizesAssumption, LenProperties DEF IInv, TypeOK
<1>1. /\ socksUp /\ ~clientClosed /\ n <= tcpPending
      /\ UNCHANGED <<upIn, toSocks, downIn, socksUp, socksGone>>
  BY DEF Sent, IInv, Registration, upVars
<1>2. CASE recvBuf # << >>
  <2>1. SendOut(recvBuf, recvBufSent, tcpPending - n, receiving)
    BY <1>2 DEF Sent
  <2>2. /\ recvBufSent < Len(recvBuf) /\ Len(recvBuf) <= downIn
        /\ Run(recvBuf, downIn - Len(recvBuf))
    BY <1>1, <1>2 DEF Sent, IInv, SentAsserts, DownlinkInOrder
  <2>3. tcpPending - n \in Nat /\ tcpPending - n <= SndBuf /\ downIn - Len(recvBuf) \in Nat
    BY <1>0, <1>1, <2>2, SizesAssumption
  <2>4. /\ Len(toClient) <= Len(toClient')
        /\ toClient' # toClient => ~clientClosed' /\ socksUp'
        /\ socksClosed => socksClosed'
    BY <1>0, <1>1, <2>1, <2>2, <2>3, SendOutMoves
  <2> QED BY <1>0, <1>1, <2>4 DEF UpMoves, DownMoves
<1>3. CASE recvBuf = << >>
  <2>1. socksClosed => socksClosed'
    BY <1>3 DEF Sent, HandleFreedClient, BSocksClientFree, socksVars
  <2>2. toClient' = toClient
    BY <1>3 DEF Sent, SendOut
  <2> QED BY <1>0, <1>1, <2>1, <2>2 DEF UpMoves, DownMoves
<1> QED BY <1>2, <1>3

LEMMA RecvDoneMoves ==
  ASSUME IInv, NEW n \in 1..RecvBufSize, RecvDone(n)
  PROVE  UpMoves /\ DownMoves
<1>0. /\ n \in Nat /\ n > 0 /\ tcpPending \in Nat /\ tcpPending <= SndBuf
      /\ upIn \in Nat /\ downIn \in Nat
      /\ toClient \in Seq(Nat) /\ Len(toClient) \in Nat /\ Len(toSocks) \in Nat
  BY SizesAssumption, LenProperties DEF IInv, TypeOK
<1>1. socksUp /\ ~socksClosed /\ UNCHANGED <<upIn, toSocks, socksUp, socksGone>>
  BY DEF RecvDone, IInv, NoCallbackAfterFree, SocksAsserts, upVars
<1>2. CASE clientClosed
  BY <1>0, <1>1, <1>2 DEF RecvDone, UpMoves, DownMoves, lwipVars, downVars
<1>3. CASE ~clientClosed
  <2>1. downIn' = downIn + n /\ SendOut(Bytes(downIn, n), 0, tcpPending, FALSE)
    BY <1>3 DEF RecvDone
  <2>2. /\ Bytes(downIn, n) \in Seq(Nat) /\ Len(Bytes(downIn, n)) = n
        /\ Run(Bytes(downIn, n), downIn)
    BY <1>0, RunBytes
  <2>3. PICK data \in Seq(Nat) : data = Bytes(downIn, n)
    BY <2>2
  <2>4. PICK sent \in Nat : sent = 0
    OBVIOUS
  <2>5. /\ SendOut(data, sent, tcpPending, FALSE) /\ Run(data, downIn) /\ sent < Len(data)
    BY <1>0, <2>1, <2>2, <2>3, <2>4
  <2>6. /\ Len(toClient) <= Len(toClient')
        /\ toClient' # toClient => ~clientClosed' /\ socksUp'
    BY <1>0, <1>1, <1>3, <2>5, SendOutMoves
  <2>7. downIn <= downIn'
    BY <1>0, <2>1
  <2> QED BY <1>0, <1>1, <1>3, <2>6, <2>7 DEF UpMoves, DownMoves
<1> QED BY <1>2, <1>3

LEMMA SendDoneMoves ==
  ASSUME IInv, NEW n \in 1..Wnd, SendDone(n)
  PROVE  UpMoves /\ DownMoves
<1>0. /\ n \in Nat /\ n > 0 /\ upIn \in Nat /\ downIn \in Nat /\ sending \in Nat /\ n <= sending
      /\ toSocks \in Seq(Nat) /\ buf \in Seq(Nat) /\ Len(buf) \in Nat
      /\ Len(toClient) \in Nat /\ Len(toSocks) \in Nat /\ Run(buf, Len(toSocks))
  BY SizesAssumption, LenProperties DEF IInv, TypeOK, SendDone, UplinkInOrder
<1>1. ~socksClosed /\ n <= Len(buf)
  BY <1>0 DEF IInv, NoCallbackAfterFree, SocksAsserts
<1>2. /\ toSocks' = toSocks \o SubSeq(buf, 1, n)
      /\ UNCHANGED <<upIn, downIn, toClient, clientGone>>
      /\ clientClosed => clientClosed'
  BY DEF SendDone, FreeSocks, StopReceiving, downVars, goneVars, lwipVars
<1>3. SubSeq(buf, 1, n) \in Seq(Nat) /\ Len(SubSeq(buf, 1, n)) = n
  BY <1>0, <1>1, RunPrefix
<1>4. Len(toSocks') = Len(toSocks) + n
  BY <1>0, <1>2, <1>3, ConcatProperties
<1> QED BY <1>0, <1>1, <1>2, <1>4 DEF UpMoves, DownMoves

\* The other steps move nothing but the uplink's source.
LEMMA NextMoves == IInv /\ [Next]_vars => UpMoves /\ DownMoves
<1> SUFFICES ASSUME IInv, [Next]_vars PROVE UpMoves /\ DownMoves
  OBVIOUS
<1>0. upIn \in Nat /\ downIn \in Nat /\ Len(toClient) \in Nat /\ Len(toSocks) \in Nat
  BY SizesAssumption, LenProperties DEF IInv, TypeOK
<1>1. ASSUME UNCHANGED <<upIn, toSocks, downIn, toClient>>,
             socksClosed => socksClosed' /\ socksGone' = socksGone,
             clientClosed => clientClosed' /\ clientGone' = clientGone
      PROVE  UpMoves /\ DownMoves
  BY <1>0, <1>1 DEF UpMoves, DownMoves
<1> USE DEF lwipVars, upVars, downVars, socksVars, goneVars
<1>2. CASE Accept \/ SocksUp
  BY <1>1, <1>2 DEF Accept, SocksUp
<1>3. CASE RecvFin \/ Err
  <2>1. ~clientClosed
    BY <1>3 DEF RecvFin, Err, IInv, NoCallbackAfterFree
  <2> QED BY <1>1, <1>3, <2>1 DEF RecvFin, Err, HandleFreedClient, BSocksClientFree
<1>4. ASSUME NEW n \in 1..Wnd, Recv(n) PROVE UpMoves /\ DownMoves
  <2>1. ~socksClosed /\ ~clientClosed
    BY <1>4 DEF Recv, IInv, Registration
  <2>2. upIn' \in {upIn, upIn + n} /\ UNCHANGED <<toSocks, downIn, toClient>>
    BY <1>4 DEF Recv
  <2>3. upIn <= upIn'
    BY <1>0, <2>2, SizesAssumption
  <2> QED BY <1>0, <2>1, <2>2, <2>3 DEF UpMoves, DownMoves
<1>5. CASE SocksError \/ SocksErrorClosed
  <2>1. ~socksClosed
    BY <1>5 DEF SocksError, SocksErrorClosed, IInv, NoCallbackAfterFree
  <2>2. /\ UNCHANGED <<upIn, toSocks, downIn, toClient, clientGone>>
        /\ clientClosed => clientClosed'
    BY <1>5 DEF SocksError, SocksErrorClosed, FreeSocks, StopReceiving
  <2> QED BY <1>1, <2>1, <2>2
<1>6. CASE Murder
  <2>1. /\ socksClosed => socksGone
        /\ clientClosed => clientGone
    BY <1>6 DEF Murder, IInv, NoCallbackAfterFree, Registration
  <2>2. socksGone \in BOOLEAN /\ clientGone \in BOOLEAN
    BY DEF IInv, TypeOK
  <2>3. /\ UNCHANGED <<upIn, toSocks, downIn, toClient>> /\ socksClosed' /\ clientClosed'
        /\ clientGone' = TRUE /\ socksGone' = TRUE
    BY <1>6 DEF Murder, BSocksClientFree
  <2> QED BY <1>1, <2>1, <2>2, <2>3
<1>7. CASE UNCHANGED vars
  BY <1>1, <1>7 DEF vars
<1> QED BY <1>2, <1>3, <1>4, <1>5, <1>6, <1>7, SentMoves, RecvDoneMoves, SendDoneMoves DEF Next

\* A run from the first byte on is the list of its positions.
LEMMA RunIsPositions ==
  ASSUME NEW s \in Seq(Nat), Run(s, 0)
  PROVE  s = [i \in 1..Len(s) |-> i]
<1>1. Len(s) \in Nat /\ DOMAIN s = 1..Len(s) /\ s = [i \in 1..Len(s) |-> s[i]]
  BY LenProperties
<1>2. \A i \in 1..Len(s) : s[i] = i
  BY <1>1 DEF Run
<1> QED BY <1>1, <1>2

LEMMA UpStep == IInv /\ IInv' /\ UpMoves => [Up!StreamNext]_(Up!streamVars)
<1> SUFFICES ASSUME IInv, IInv', UpMoves PROVE [Up!StreamNext]_(Up!streamVars)
  OBVIOUS
<1>1. CASE socksClosed
  BY <1>1 DEF UpMoves, Up!streamVars, StreamEnd
<1>2. CASE ~socksClosed
  <2>1. /\ toSocks' \in Seq(Nat) /\ Run(toSocks', 0) /\ Len(toSocks') \in Nat
        /\ Len(buf') \in Nat /\ Len(toSocks') + Len(buf') = upIn'
    BY LenProperties DEF IInv, TypeOK, UplinkInOrder
  <2>2. toSocks' = [i \in 1..Len(toSocks') |-> i]
    BY <2>1, RunIsPositions
  <2>3. Len(toSocks') <= upIn'
    BY <2>1
  <2>4. Up!Move
    BY <1>2, <2>2, <2>3 DEF Up!Move, UpMoves, StreamEnd
  <2>5. socksClosed' /\ ~socksGone' => Len(toSocks') = upIn'
    BY DEF IInv, Registration, NoCallbackAfterFree, GracefulClose
  <2> QED BY <2>4, <2>5 DEF Up!StreamNext, Up!Relay, Up!Drain, Up!Break, StreamEnd
<1> QED BY <1>1, <1>2

LEMMA DownStep == IInv /\ IInv' /\ DownMoves => [Down!StreamNext]_(Down!streamVars)
<1> SUFFICES ASSUME IInv, IInv', DownMoves PROVE [Down!StreamNext]_(Down!streamVars)
  OBVIOUS
<1>1. CASE clientClosed
  BY <1>1 DEF DownMoves, Down!streamVars, StreamEnd
<1>2. CASE ~clientClosed
  <2>1. /\ toClient' \in Seq(Nat) /\ Run(toClient', 0) /\ Len(toClient') \in Nat
        /\ downIn' \in Nat /\ downIn \in Nat /\ Len(toClient) \in Nat
    BY LenProperties, SizesAssumption DEF IInv, TypeOK, DownlinkInOrder
  <2>2. toClient' = [i \in 1..Len(toClient') |-> i]
    BY <2>1, RunIsPositions
  <2>3. Len(toClient') <= downIn'
    <3>1. ASSUME ~clientClosed', socksUp' PROVE Len(toClient') <= downIn'
      <4>1. /\ recvBuf' = << >> => Len(toClient') = downIn'
            /\ recvBuf' # << >> => Len(toClient') + (Len(recvBuf') - recvBufSent') = downIn'
        BY <3>1 DEF IInv, DownlinkInOrder
      <4>2. /\ Len(recvBuf') \in Nat /\ recvBufSent' \in Nat
            /\ recvBuf' # << >> => recvBufSent' < Len(recvBuf')
        BY <3>1, LenProperties, SizesAssumption
           DEF IInv, TypeOK, SentAsserts, Registration, NoCallbackAfterFree
      <4> QED BY <2>1, <4>1, <4>2
    <3>2. ASSUME toClient' = toClient PROVE Len(toClient') <= downIn'
      <4>1. CASE ~socksUp
        BY <2>1, <3>2, <4>1 DEF IInv, Registration
      <4>2. CASE socksUp
        <5>1. /\ recvBuf = << >> => Len(toClient) = downIn
              /\ recvBuf # << >> => Len(toClient) + (Len(recvBuf) - recvBufSent) = downIn
          BY <1>2, <4>2 DEF IInv, DownlinkInOrder
        <5>2. /\ Len(recvBuf) \in Nat /\ recvBufSent \in Nat
              /\ recvBuf # << >> => recvBufSent < Len(recvBuf)
          BY <1>2, <4>2, LenProperties, SizesAssumption
             DEF IInv, TypeOK, SentAsserts, Registration, NoCallbackAfterFree
        <5>3. downIn <= downIn'
          BY DEF DownMoves
        <5> QED BY <2>1, <3>2, <5>1, <5>2, <5>3
      <4> QED BY <4>1, <4>2
    <3> QED BY <3>1, <3>2 DEF DownMoves
  <2>4. Down!Move
    BY <1>2, <2>2, <2>3 DEF Down!Move, DownMoves, StreamEnd
  <2>5. clientClosed' /\ ~clientGone' => Len(toClient') = downIn'
    <3>1. clientClosed' /\ ~clientGone' => entry' = "freed"
      BY DEF IInv, Registration, NoCallbackAfterFree
    <3>2. ~socksUp' => Len(toClient') = downIn'
      BY DEF IInv, Registration
    <3> QED BY <3>1, <3>2 DEF IInv, GracefulClose
  <2> QED BY <2>4, <2>5 DEF Down!StreamNext, Down!Relay, Down!Drain, Down!Break, StreamEnd
<1> QED BY <1>1, <1>2

\* Each direction of the relay implements a byte stream: in order, once, ended
\* only when it is drained or the side that takes the bytes is gone.
THEOREM StreamRefinement == Spec => ImplementsStreams
<1>1. Init => Up!StreamInit /\ Down!StreamInit
  BY DEF Init, Up!StreamInit, Down!StreamInit, StreamEnd
<1>2. IInv /\ IInv' /\ [Next]_vars => [Up!StreamNext]_(Up!streamVars) /\ [Down!StreamNext]_(Down!streamVars)
  BY NextMoves, UpStep, DownStep
<1> QED BY <1>1, <1>2, Invariance, PTL DEF Spec, ImplementsStreams, Up!StreamSpec, Down!StreamSpec
=============================================================================
