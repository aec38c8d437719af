-------------------------- MODULE MCTunnelManager ---------------------------
(***************************************************************************)
(* TunnelManager for TLC: VPN mode on either of two ports, and proxy-only  *)
(* mode.                                                                   *)
(***************************************************************************)
EXTENDS TunnelManager

MCConfigs ==
  {[port |-> 1, proxyOnly |-> FALSE], [port |-> 2, proxyOnly |-> FALSE],
   [port |-> 1, proxyOnly |-> TRUE]}
=============================================================================
