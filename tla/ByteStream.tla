----------------------------- MODULE ByteStream -----------------------------
(***************************************************************************)
(* What one direction of a relayed TCP connection promises: the bytes that *)
(* were taken are delivered in order and once, nothing is delivered after  *)
(* the end, and the stream ends either drained, with everything delivered, *)
(* or broken, because the side that takes the bytes is gone.  Bytes are    *)
(* their positions in the stream.  Each direction of TcpClient implements  *)
(* this specification.                                                     *)
(***************************************************************************)
EXTENDS Naturals, Sequences

VARIABLES taken,      \* number of bytes taken from the source
          delivered,  \* the bytes delivered
          end         \* "open", "drained" or "broken"

streamVars == <<taken, delivered, end>>

StreamInit == taken = 0 /\ delivered = << >> /\ end = "open"

\* More bytes are taken, and of those taken the next ones delivered.
Move ==
  /\ end = "open"
  /\ taken <= taken'
  /\ Len(delivered) <= Len(delivered')
  /\ Len(delivered') <= taken'
  /\ delivered' = [i \in 1..Len(delivered') |-> i]

Relay == Move /\ end' = "open"

Drain == Move /\ Len(delivered') = taken' /\ end' = "drained"

Break == Move /\ end' = "broken"

StreamNext == Relay \/ Drain \/ Break

StreamSpec == StreamInit /\ [][StreamNext]_streamVars
=============================================================================
