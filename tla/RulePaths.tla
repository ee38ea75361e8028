------------------------------ MODULE RulePaths ------------------------------
(***************************************************************************)
(* One detection rule on its way from its author to the two engines: the   *)
(* loader accepts it (backend/app/detection/loader.py), exceptions are     *)
(* added to it over the API, and an event is judged by it, in Python when  *)
(* the rule is streaming (detection/engine.py) and by a compiled query     *)
(* when it is windowed (detection/windowed.py). Both verdicts are worked   *)
(* out for every event, so that they can be compared; the groups and       *)
(* counts a windowed rule makes of the events it finds are in Detection.   *)
(***************************************************************************)
EXTENDS Conditions

CONSTANTS
    Tree,          \* the condition trees authors write
    Waiver,        \* those they write as exceptions
    Document,      \* the normalized documents that occur
    MaxPathsWork   \* bound: loads, edits and exceptions altogether

ASSUME PathsConstants == MaxPathsWork \in Nat

VARIABLES
    ruleDef,       \* the rule that was accepted last, with its exceptions
    verdict,       \* the last document, and what each path says of it
    pathsWork      \* steps so far

pathsVars == <<ruleDef, verdict, pathsWork>>

NoRule == [loaded |-> FALSE]
NoVerdict == [judged |-> FALSE]

PathsInit == ruleDef = NoRule /\ verdict = NoVerdict

PathsStep == pathsWork < MaxPathsWork /\ pathsWork' = pathsWork + 1

(* _check_execution_shape: whether a windowed rule can be compiled. *)
_check_execution_shape(type, conditions, exceptions) ==
    type = "windowed" =>
        /\ unsupported_operators(conditions) = {}
        /\ \A x \in exceptions : unsupported_operators(x) = {}

(* parse_rule on creation: anything else is refused. *)
parse_rule(type, conditions, exceptions) ==
    /\ ~ruleDef.loaded
    /\ _check_execution_shape(type, conditions, exceptions)
    /\ PathsStep
    /\ ruleDef' = [loaded |-> TRUE, type |-> type, conditions |-> conditions,
                   exceptions |-> exceptions, added |-> {}]
    /\ UNCHANGED verdict

(* parse_rule on an edit, here one of the type: the exceptions that were   *)
(* added over the API stay with the rule.                                  *)
ReparseRule(type) ==
    /\ ruleDef.loaded
    /\ _check_execution_shape(type, ruleDef.conditions, ruleDef.exceptions)
    /\ PathsStep
    /\ ruleDef' = [ruleDef EXCEPT !.type = type]
    /\ verdict' = NoVerdict

(* add_exception: validated as a condition, and not against the shape of   *)
(* the rule it is for.                                                     *)
AddException(x) ==
    /\ ruleDef.loaded
    /\ PathsStep
    /\ ruleDef' = [ruleDef EXCEPT !.added = @ \cup {x}]
    /\ verdict' = NoVerdict

Exceptions == ruleDef.exceptions \cup ruleDef.added

(* StreamingEngine: the conditions, and no exception. *)
Streams(d) ==
    /\ evaluate_node(ruleDef.conditions, d)
    /\ \A x \in Exceptions : ~evaluate_node(x, d)

(* WindowedEvaluator: compile_conditions raises on an operator without a   *)
(* translation, and so does a search that OpenSearch rejects; the pass of  *)
(* the rule fails.                                                         *)
Windows(d) ==
    LET trees == {ruleDef.conditions} \cup Exceptions IN
    IF \/ \E t \in trees : unsupported_operators(t) # {}
       \/ \E t \in trees : Refused(compile_conditions(t))
    THEN "raises"
    ELSE IF /\ Hits(compile_conditions(ruleDef.conditions), d)
            /\ \A x \in Exceptions : ~Hits(compile_conditions(x), d)
    THEN "finds" ELSE "misses"

Judge(d) ==
    /\ ruleDef.loaded
    /\ ~verdict.judged
    /\ verdict' = [judged |-> TRUE, document |-> d, streams |-> Streams(d), windows |-> Windows(d)]
    /\ UNCHANGED <<ruleDef, pathsWork>>

PathsNext ==
    \/ \E type \in {"streaming", "windowed"}, c \in Tree, X \in {{}} \cup {{x} : x \in Waiver} :
         parse_rule(type, c, X)
    \/ \E type \in {"streaming", "windowed"} : ReparseRule(type)
    \/ \E x \in Waiver : AddException(x)
    \/ \E d \in Document : Judge(d)

-----------------------------------------------------------------------------
(* A rule "must mean the same thing on both paths" (query.py:9): what the  *)
(* compiled query finds is what the evaluator matches, down to absent and  *)
(* null fields, lists, letter case and literal wildcards, unless one of    *)
(* its conditions is of a kind that Diverges lists; and a windowed rule    *)
(* the loader accepted raises only because a condition does not suit the   *)
(* type of its field, which nothing checks, or because of an exception     *)
(* added later, whose operators add_exception does not check.              *)
PathsAgree ==
    verdict.judged =>
      LET trees == {ruleDef.conditions} \cup Exceptions
          conditions == UNION {_leaf_conditions(t) : t \in trees}
          d == verdict.document IN
      /\ \/ \E c \in conditions : Diverges(c, d)
         \/ verdict.windows = "raises"
         \/ verdict.windows = "finds" <=> verdict.streams
      /\ verdict.windows = "raises" /\ ruleDef.type = "windowed" =>
           \/ \E c \in conditions : Mistyped(c)
           \/ \E x \in ruleDef.added : unsupported_operators(x) # {}
=============================================================================
