--------------------------- MODULE MCResultQueue ---------------------------
(* Small instances of ResultQueue for TLC.                                 *)
EXTENDS ResultQueue

CONSTANTS q1, q2  \* the readers
=============================================================================
