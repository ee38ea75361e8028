---------------------------- MODULE MCCorrelation ----------------------------
(***************************************************************************)
(* Instances of Correlation for TLC: failed logons, then a success. One    *)
(* input satisfies two stages, one claims an implausible time, one is no   *)
(* JSON object.                                                            *)
(***************************************************************************)
EXTENDS Correlation, TLC

CONSTANTS t1, t2

TwoTasks == {t1, t2}

Required(stage, n) == [stage |-> stage, min_count |-> n]

MCRule == {[ordered |-> TRUE, window |-> 2, suppression |-> 2,
            required |-> <<Required("fail", 2), Required("login", 1)>>],
           [ordered |-> FALSE, window |-> 1, suppression |-> 0,
            required |-> <<Required("fail", 1), Required("login", 1)>>]}

MCInput == 1..5
MCClaimed == <<0, 0, 1, 9, 3>>
MCIngested == <<0, 1, 1, 2, 3>>
MCMatches == <<<<"fail">>, <<"fail", "login">>, <<"login">>, <<"fail">>, <<>>>>
MCUndecodable == {5}

(* A collector delivers late: a chain of a failure at 0 and a login at 1,  *)
(* and another failure at 4.                                               *)
LateRule == {[ordered |-> TRUE, window |-> 2, suppression |-> 0,
              required |-> <<Required("fail", 1), Required("login", 1)>>]}
LateInput == 1..3
LateClaimed == <<0, 1, 4>>
LateIngested == <<4, 4, 4>>
LateMatches == <<<<"fail">>, <<"login">>, <<"fail">>>>
NoInput == {}

Symmetry == Permutations(Task)
=============================================================================
