----------------------------- MODULE PacketPump -----------------------------
(***************************************************************************)
(* What the VPN layer promises the rest of the app: there is one VPN       *)
(* interface, and at most one packet pump (a tun2socks instance) moves     *)
(* packets between it and the tunnel.  The pump starts only on an          *)
(* interface that is up, and the interface is taken down only when no pump *)
(* is running on it.  VpnManager implements this specification.            *)
(***************************************************************************)
CONSTANT Pump     \* the pumps that may ever run

VARIABLES iface,  \* "up" while the app holds the VPN interface's descriptor
          pumps   \* the set of running pumps

pumpVars == <<iface, pumps>>

PumpInit == iface = "down" /\ pumps = {}

\* The VPN interface is created: nothing can be pumping yet.
BringUp == /\ iface = "down" /\ pumps = {}
           /\ iface' = "up"
           /\ UNCHANGED pumps

\* The interface is closed under no running pump.
TakeDown == /\ iface = "up" /\ pumps = {}
            /\ iface' = "down"
            /\ UNCHANGED pumps

StartPump == /\ iface = "up" /\ pumps = {}
             /\ \E p \in Pump : pumps' = {p}
             /\ UNCHANGED iface

StopPump == /\ pumps # {} /\ pumps' = {}
            /\ UNCHANGED iface

PumpNext == BringUp \/ TakeDown \/ StartPump \/ StopPump

PumpSpec == PumpInit /\ [][PumpNext]_pumpVars
=============================================================================
