------------------------------ MODULE MCTunnel ------------------------------
(* Two clients and two endpoints: each client may reconnect from the same  *)
(* endpoint, from the other, or from one the other client has just left.   *)
EXTENDS Tunnel, TLC

CONSTANTS a1, a2, p1, p2, ip1

MCSources == [p \in {p1, p2} |-> {ip1}]
=============================================================================
