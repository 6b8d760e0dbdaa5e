------------------------------- MODULE MCBridge ------------------------------
(* The constants are plain values: the configuration gives them.           *)
EXTENDS Bridge
=============================================================================
