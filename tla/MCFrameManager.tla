--------------------------- MODULE MCFrameManager ---------------------------
(* Small instances of FrameManager for TLC.                                *)
EXTENDS FrameManager
=============================================================================
