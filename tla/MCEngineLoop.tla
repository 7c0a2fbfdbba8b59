---------------------------- MODULE MCEngineLoop ----------------------------
(* Small instances of EngineLoop for TLC.                                  *)
EXTENDS EngineLoop, TLC

CONSTANTS r1, r2, r3, c1, c2, s1, s2, l1

\* The prompt of r1 is longer than one prefill chunk; a batch of two requests
\* outgrows the cache; r3 asks for fewer tokens than its prompt has.
TwoRequests   == {r1, r2}
ThreeRequests == {r1, r2, r3}
MCInputLen  == [r \in Requests |-> IF r = r1 THEN 4 ELSE 2]
MCMaxLength == [r \in Requests |-> IF r = r3 THEN 1 ELSE 7]
ShortLength == [r \in Requests |-> 6]
OneClient   == [r \in Requests |-> {c1}]
OwnClient   == [r \in Requests |-> IF r = r1 THEN {c1} ELSE {c2}]
AnyClient   == [r \in Requests |-> Clients]
NoLora      == [r \in Requests |-> None]
AllLora     == [r \in Requests |-> l1]
=============================================================================
