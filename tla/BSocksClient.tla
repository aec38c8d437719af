---------------------------- MODULE BSocksClient ----------------------------
(***************************************************************************)
(* BSocksClient (badvpn/socksclient): the client side of a SOCKS5          *)
(* handshake as a chain of sends and receives, and the resources each      *)
(* state holds.  The client reports UP or an error to its owner by a       *)
(* callback that is the last thing a handler does; event is that callback, *)
(* and nothing else runs until the owner has dealt with it.                *)
(***************************************************************************)
EXTENDS Integers, FiniteSets

CONSTANTS
    AuthMethods, \* auth_info: the methods the client offers
    MaxPieces    \* bound on the pieces a reply may arrive in

ASSUME SocksAssumption ==
    /\ AuthMethods \subseteq {"none", "password"}
    /\ AuthMethods # {}
    /\ MaxPieces \in Nat \ {0}

VARIABLES
    state,       \* o->state, or "NONE" when the client does not exist
    held,        \* the resources that are allocated
    sending,     \* a message is being sent from the buffer
    recvLeft,    \* recv_total - recv_len, in pieces; 0 if nothing is received
    event        \* the callback under way

socksVars == <<state, held, sending, recvLeft, event>>

SendingStates == {"SENDING_HELLO", "SENDING_PASSWORD", "SENDING_REQUEST"}
WaitingStates == {"SENT_HELLO", "SENT_PASSWORD", "SENT_REQUEST", "RECEIVED_REPLY_HEADER"}
Errors == {"ERROR", "ERROR_CLOSED"}
Resources == {"connector", "con", "control_io", "up_io", "buffer"}

SocksTypeOK ==
    /\ state \in {"NONE", "CONNECTING", "UP"} \cup SendingStates \cup WaitingStates
    /\ held \subseteq Resources
    /\ sending \in BOOLEAN
    /\ recvLeft \in 0..MaxPieces
    /\ event \in {"NONE", "UP"} \cup Errors

NoSocksClient ==
    /\ state = "NONE"
    /\ held = {}
    /\ sending = FALSE
    /\ recvLeft = 0
    /\ event = "NONE"

-----------------------------------------------------------------------------
(* BSocksClient_Init() and BSocksClient_Free(), called by the owner.       *)

BSocksClientInit ==
    /\ state' = "CONNECTING"
    /\ held' = held \cup {"connector"}
    /\ sending' = FALSE
    /\ recvLeft' = 0
    /\ event' = "NONE"

(* A Free that takes every client to be in its handshake.                  *)
ReleasedMutant ==
    {"connector", "buffer"} \cup
    (IF state = "CONNECTING" THEN {} ELSE {"control_io", "con"})

(* What Free releases, by the state it finds.                              *)
Released ==
    {"connector", "buffer"} \cup
    CASE state = "CONNECTING" -> {}
      [] state = "UP" -> {"up_io", "con"}
      [] OTHER -> {"control_io", "con"}

BSocksClientFree ==
    /\ state' = "NONE"
    /\ held' = held \ Released
    /\ sending' = FALSE
    /\ recvLeft' = 0
    /\ event' = "NONE"

-----------------------------------------------------------------------------
(* The handlers.                                                           *)

ReportError(e) ==
    /\ event' = e
    /\ UNCHANGED <<state, sending, recvLeft>>

(* reserve_buffer() and a send, in the state s that waits for it.          *)
StartSend(s) ==
    /\ held' = held \cup {"buffer"}
    /\ sending' = TRUE
    /\ recvLeft' = 0
    /\ state' = s
    /\ UNCHANGED event

(* start_receive(): the reply comes in n pieces.                           *)
StartReceive(s, n) ==
    /\ sending' = FALSE
    /\ recvLeft' = n
    /\ state' = s
    /\ UNCHANGED event

(* connector_handler(): the connection failed, or could not be set up; or  *)
(* the hello could not be built, and what was set up is given back while   *)
(* the state stays CONNECTING (fail1); or the hello is on its way.         *)
ConnectorHandler ==
    /\ state = "CONNECTING"
    /\ event = "NONE"
    /\ \/ ReportError("ERROR") /\ UNCHANGED held
       \/ /\ held' = (held \cup {"con", "control_io"}) \ {"control_io", "con"}
          /\ ReportError("ERROR")
       \/ /\ held' = held \cup {"con", "control_io", "buffer"}
          /\ sending' = TRUE
          /\ state' = "SENDING_HELLO"
          /\ UNCHANGED <<recvLeft, event>>

(* connection_handler(): the proxy closed the connection or it broke.      *)
ConnectionHandler ==
    /\ state \notin {"NONE", "CONNECTING"}
    /\ event = "NONE"
    /\ \E e \in Errors :
         /\ e = "ERROR_CLOSED" => state = "UP"
         /\ ReportError(e)
    /\ UNCHANGED held

(* send_handler_done(): the buffer becomes the place for the reply.        *)
SendHandlerDone ==
    /\ sending
    /\ event = "NONE"
    /\ \/ ReportError("ERROR")
       \/ \E n \in 1..MaxPieces :
            StartReceive(CASE state = "SENDING_HELLO" -> "SENT_HELLO"
                           [] state = "SENDING_PASSWORD" -> "SENT_PASSWORD"
                           [] OTHER -> "SENT_REQUEST", n)
    /\ UNCHANGED held

(* What the client sends after the reply it has received in full.          *)
NextMessages ==
    CASE state = "SENT_HELLO" ->
            {IF m = "none" THEN "SENDING_REQUEST" ELSE "SENDING_PASSWORD" : m \in AuthMethods}
      [] state = "SENT_PASSWORD" -> {"SENDING_REQUEST"}
      [] OTHER -> {}

(* recv_handler_done(): a part of a reply, a reply that is refused (wrong  *)
(* version, method, status or address type, or no memory for the answer),  *)
(* or the next step of the handshake.                                      *)
RecvHandlerDone ==
    /\ recvLeft > 0
    /\ event = "NONE"
    /\ \/ /\ recvLeft > 1
          /\ \E n \in 1..(recvLeft - 1) : recvLeft' = recvLeft - n
          /\ UNCHANGED <<state, held, sending, event>>
       \/ /\ state # "RECEIVED_REPLY_HEADER"
          /\ ReportError("ERROR")
          /\ UNCHANGED held
       \/ \E s \in NextMessages : StartSend(s)
       \/ /\ state = "SENT_REQUEST"
          /\ \E n \in 1..MaxPieces : StartReceive("RECEIVED_REPLY_HEADER", n)
          /\ UNCHANGED held
       \/ /\ state = "RECEIVED_REPLY_HEADER"
          /\ held' = (held \ {"buffer", "control_io"}) \cup {"up_io"}
          /\ recvLeft' = 0
          /\ state' = "UP"
          /\ event' = "UP"
          /\ UNCHANGED sending

SocksNext == ConnectorHandler \/ ConnectionHandler \/ SendHandlerDone \/ RecvHandlerDone

-----------------------------------------------------------------------------
(* The client holds what its state says and nothing else: whatever step    *)
(* fails, in particular between the connection and the hello where the     *)
(* state is still CONNECTING, Free releases each resource once and leaves  *)
(* none behind; and no message is built in a buffer that is still in use.  *)
HoldsWhatItsStateSays ==
    /\ held = CASE state = "NONE" -> {}
                [] state = "CONNECTING" -> {"connector"}
                [] state = "UP" -> {"connector", "con", "up_io"}
                [] OTHER -> {"connector", "con", "control_io", "buffer"}
    /\ sending <=> state \in SendingStates
    /\ recvLeft > 0 <=> state \in WaitingStates
=============================================================================
