--------------------------- MODULE MCRankWorkers ----------------------------
(* Small instances of RankWorkers for TLC.                                 *)
EXTENDS RankWorkers
=============================================================================
