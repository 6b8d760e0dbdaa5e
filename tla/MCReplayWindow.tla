--------------------------- MODULE MCReplayWindow ---------------------------
(* A window of three bits and nonces 0..7: room for a frame to fall out of *)
(* the window on either side of a shift longer than the window itself.     *)
EXTENDS ReplayWindow

MCW == 3
MCMaxNonce == 7
=============================================================================
