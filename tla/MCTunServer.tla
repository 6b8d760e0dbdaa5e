---------------------------- MODULE MCTunServer -----------------------------
(* Two clients and two endpoints, so that a peer can move and a peer can   *)
(* take over another's endpoint; three handshakes, so that a replacement   *)
(* can itself be replaced.                                                 *)
EXTENDS TunServer, TLC

CONSTANTS a1, a2, p1, p2, ip1, ip2, ll1

\* Both hosts use ip1, of the tunnel's CIDR; p2's kernel also sends from an IPv4
\* address of its own network, ip2, and from an IPv6 link-local one.
MCSources == (p1 :> {ip1}) @@ (p2 :> {ip1, ip2, ll1})
=============================================================================
