---------------------------- MODULE MCClientRoutes ----------------------------
(* Three LANs and six faults: a client is killed, the host moves, and the  *)
(* next client meets what is left with four faults to come.               *)
EXTENDS ClientRoutes

CONSTANTS g1, g2, g3
=============================================================================
