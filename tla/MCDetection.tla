----------------------------- MODULE MCDetection -----------------------------
(***************************************************************************)
(* An instance of Detection for TLC: a rule that one edit turns from a     *)
(* streaming into a threshold rule, which counts events or the values of a *)
(* field, events of one entity of which one is exempted, and an exception  *)
(* that expires. A detection cites one event, less than the threshold.     *)
(***************************************************************************)
EXTENDS Detection, TLC

CONSTANTS r1, r2, d1, d2, single, rate, spread, x1

Replicas == {r1, r2}
Editors == {d1, d2}
Contents == {single, rate, spread}
WindowedContents == {rate, spread}
DistinctContents == {spread}
Exceptions == {x1}
Definitions == {[content |-> single, status |-> "enabled", canonical |-> FALSE],
                [content |-> rate, status |-> "testing", canonical |-> FALSE],
                [content |-> spread, status |-> "enabled", canonical |-> FALSE]}

MCEvent == 1..3
MCEntity == <<7, 7, 7>>
MCTimestamp == <<0, 0, 2>>
MCValues == <<{1}, {1, 2}, {}>>
MCMatching == [c \in Contents |-> IF c = single THEN {1, 2} ELSE {1, 2, 3}]
MCExcepts == [x \in Exceptions |-> {1}]
MCExpiresAt == [x \in Exceptions |-> 2]

(* The bounds of a behaviour: one interplay each, so that their state       *)
(* spaces add up instead of multiplying.                                   *)
Bounds(ed, stream, store, pa, fa) ==
    [edits |-> ed, stream |-> stream, store |-> store, passes |-> pa, faults |-> fa]

Editing == Bounds(3, {}, {}, 0, 0)                 \* overlapping edits
Streaming == Bounds(0, {1, 2, 3}, {}, 0, 1)        \* two consumers and a fault
Tuning == Bounds(1, {1, 2}, {}, 0, 0)              \* two consumers and an edit
Passes == Bounds(0, {}, {1, 2, 3}, 2, 1)           \* two passes and a fault
SharedCache == Bounds(0, {1}, {}, 1, 1)            \* a consumer and a pass
Scenarios == {Editing, Streaming, Tuning, Passes, SharedCache}

(* Only a pass can tell the threshold rules apart: where there is none to  *)
(* search for, one of them is enough.                                      *)
MeasuresWhereSearched ==
    scenario.store = {} =>
        /\ Stored => spread \notin {row.columns, row.yaml.content}
        /\ \A d \in Editor : edit[d] # NoEdit => edit[d].yaml.content # spread

Symmetry == Permutations(Replica) \cup Permutations(Editor)
=============================================================================
