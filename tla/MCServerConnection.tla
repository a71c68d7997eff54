------------------------- MODULE MCServerConnection -------------------------
(* Small requests and a small buffer for TLC.                                *)
EXTENDS ServerConnection

MCStrayLens == {0, FrameLen, FrameLen + 1}
=============================================================================
