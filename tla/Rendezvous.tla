----------------------------- MODULE Rendezvous -----------------------------
(***************************************************************************)
(* What Insert needs of PrefixCacheCoordinator: call number n of a rank    *)
(* returns only after every rank has made its call number n.               *)
(***************************************************************************)
EXTENDS Naturals

CONSTANT Ranks

VARIABLES entered, passed   \* calls each rank has made, and has returned from

Init == entered = [r \in Ranks |-> 0] /\ passed = [r \in Ranks |-> 0]

Enter(r) ==
  /\ entered[r] = passed[r]
  /\ entered' = [entered EXCEPT ![r] = @ + 1]
  /\ UNCHANGED passed

Leave(r) ==
  /\ passed[r] < entered[r]
  /\ \A s \in Ranks : entered[r] <= entered[s]
  /\ passed' = [passed EXCEPT ![r] = @ + 1]
  /\ UNCHANGED entered

\* The last one to come does not wait.
EnterLast(r) ==
  /\ entered[r] = passed[r]
  /\ \A s \in Ranks \ {r} : entered[r] < entered[s]
  /\ entered' = [entered EXCEPT ![r] = @ + 1]
  /\ passed' = [passed EXCEPT ![r] = @ + 1]

Next == \E r \in Ranks : Enter(r) \/ Leave(r) \/ EnterLast(r)

Spec == Init /\ [][Next]_<<entered, passed>>
=============================================================================
