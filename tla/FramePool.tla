------------------------------ MODULE FramePool ------------------------------
(***************************************************************************)
(* What a cache frame manager promises: a claim takes all the frames it    *)
(* asks for in one step, or none.  FrameManager implements it.             *)
(***************************************************************************)
EXTENDS Integers, FiniteSets

CONSTANTS Frames, Threads, MaxClaim

VARIABLES
  made,    \* frames that exist
  used,    \* frames that are wrapped in a span
  asked    \* asked[t]: frames thread t is claiming, 0 outside a claim

vars == <<made, used, asked>>

Init ==
  /\ made = {} /\ used = {}
  /\ asked = [t \in Threads |-> 0]

Create(f) ==
  /\ f \notin made
  /\ made' = made \cup {f}
  /\ UNCHANGED <<used, asked>>

Ask(t, n) ==
  /\ asked[t] = 0
  /\ asked' = [asked EXCEPT ![t] = n]
  /\ UNCHANGED <<made, used>>

\* Every frame asked for, none of them in use.
Grant(t, S) ==
  /\ asked[t] > 0 /\ Cardinality(S) = asked[t]
  /\ S \subseteq made /\ S \cap used = {}
  /\ used' = used \cup S
  /\ asked' = [asked EXCEPT ![t] = 0]
  /\ UNCHANGED made

Refuse(t) ==
  /\ asked[t] > 0
  /\ asked' = [asked EXCEPT ![t] = 0]
  /\ UNCHANGED <<made, used>>

Release(S) ==
  /\ S # {} /\ S \subseteq used
  /\ used' = used \ S
  /\ UNCHANGED <<made, asked>>

Next ==
  \/ \E f \in Frames : Create(f)
  \/ \E t \in Threads : \E n \in 1..MaxClaim : Ask(t, n)
  \/ \E t \in Threads : \E S \in SUBSET Frames : Grant(t, S)
  \/ \E t \in Threads : Refuse(t)
  \/ \E S \in SUBSET Frames : Release(S)

Spec == Init /\ [][Next]_vars
=============================================================================
