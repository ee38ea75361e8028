--------------------------- MODULE MCAlertWorker ----------------------------
(***************************************************************************)
(* Instances of AlertWorker for TLC: firings of one dedup key with rising  *)
(* and falling risk, one that is not to become an alert, and analysts.     *)
(***************************************************************************)
EXTENDS AlertWorker, TLC

CONSTANTS t1, t2, u1, q1, q2, k1

TwoTasks == {t1, t2}
OneAnalyst == {u1}
TwoRequests == {q1, q2}
SameKey == [m \in Firing |-> k1]
Risk == [m \in Firing |-> CASE m = 1 -> 50 [] m = 2 -> 80 [] OTHER -> 20]
NoFiring == {}
Firings == 1..MaxMsgs

(* Bound: analysts come while there are few firings, and again and again   *)
(* only while there are fewer and no task dies.                            *)
FewAtOnce == /\ triaged > 0 => stream <= 4
             /\ triaged > 1 => stream <= 2 /\ faults = 0

Symmetry == Permutations(Task) \cup Permutations(Analyst) \cup Permutations(ApiRequest)
=============================================================================
