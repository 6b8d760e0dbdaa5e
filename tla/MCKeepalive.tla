----------------------------- MODULE MCKeepalive -----------------------------
(* The constants are plain values: the configuration gives them.           *)
EXTENDS KeepalivePath
=============================================================================
