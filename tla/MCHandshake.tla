----------------------------- MODULE MCHandshake ------------------------------
(* Two wallets and two endpoints; two attempts, which may be of one wallet *)
(* or follow each other at one endpoint; three answers, so that a message  *)
(* A is answered twice; a static key for every time the server dies before *)
(* it has kept one, and one more.                                          *)
EXTENDS Handshake

CONSTANTS w1, w2, a1, a2
=============================================================================
