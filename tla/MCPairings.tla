----------------------------- MODULE MCPairings -----------------------------
(* One account, whose wallet may sign in two ways, two slots that two keys *)
(* and a browser compete for, and a client that leases by itself from a    *)
(* range of two addresses and the gateway's: the table fills up.           *)
EXTENDS Pairings, TLC

CONSTANTS d1, u, k1, k2, t1, c1, p, q, tunnel, plainly, zeros

MCKeysOf == u :> {k1, k2}
Symmetric == Permutations({p, q})
=============================================================================
