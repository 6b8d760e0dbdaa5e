------------------------------ MODULE MCPortal ------------------------------
(* Two requests at once, two wallets and room for a chain of four blocks.  *)
EXTENDS Portal, TLC

CONSTANTS p1, p2, w1, w2, u1, u2, u3, t1, t2, t3

MCSymmetry == Permutations({p1, p2}) \cup Permutations({w1, w2})
              \cup Permutations({u1, u2, u3}) \cup Permutations({t1, t2, t3})
=============================================================================
