--------------------------- MODULE MCControlPlane ---------------------------
(* The constants are plain values: the configurations give them.           *)
EXTENDS ControlPlane
=============================================================================
