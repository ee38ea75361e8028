----------------------------- MODULE MCPlaybooks -----------------------------
(***************************************************************************)
(* Instances of Playbooks for TLC: a playbook of three steps, the last two *)
(* destructive, decided by two analysts.                                   *)
(***************************************************************************)
EXTENDS Playbooks, TLC

CONSTANTS u1, u2, r1, r2, a1, a2, a3, a4, q1, q2, q3

TwoUsers == {u1, u2}
OneRun == {r1}
TwoRuns == {r1, r2}
ThreeApprovals == {a1, a2, a3}
FourApprovals == {a1, a2, a3, a4}
TwoRequests == {q1, q2}
ThreeRequests == {q1, q2, q3}
LastTwo == {1, 2}

(* Ids are only compared for equality. *)
Symmetry == Permutations(User) \cup Permutations(Run) \cup Permutations(Approval)
                \cup Permutations(Request)
=============================================================================
