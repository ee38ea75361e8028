----------------------------- MODULE Correlation -----------------------------
(***************************************************************************)
(* Correlation: tasks of the correlation workers record stage hits in a    *)
(* shared Redis list and report a chain when a rule's stages are complete  *)
(* (backend/app/workers/correlation_worker.py, correlation/engine.py,      *)
(* correlation/state.py).                                                  *)
(*                                                                         *)
(* One rule and one entity: keys of others are disjoint. Events and        *)
(* detections come in on two streams, and before that through racing       *)
(* parsers and detectors, so inputs are taken in any order once they were  *)
(* ingested. No task ever claims a message another one left unacked.       *)
(***************************************************************************)
EXTENDS Integers, Sequences, FiniteSets

CONSTANTS
    Input,         \* events and detections of the entity
    Claimed,       \* the source's own timestamp of each input
    Ingested,      \* the ingestion timestamp (matched_at of a detection)
    Matches,       \* the stages each input satisfies, in the rule's order
    Undecodable,   \* inputs whose payload is not a JSON object
    Rule,          \* the rules to check, one per behaviour
    MaxSkew,       \* correlation_max_clock_skew_seconds
    MaxHits,       \* DEFAULT_MAX_HITS (500)
    Task,          \* consumer tasks of all replicas
    MaxTime,       \* bound: the last instant of the clock
    MaxFaults,     \* bound: crashes and failed Redis calls
    None           \* no input

ASSUME CorrelationConstants ==
    /\ \A m \in Input : /\ Claimed[m] \in Nat /\ Ingested[m] \in Nat
                        /\ Len(Matches[m]) \in Nat /\ DOMAIN Matches[m] = 1..Len(Matches[m])
    /\ MaxSkew \in Nat /\ MaxTime \in Nat /\ MaxFaults \in Nat
    /\ MaxHits \in Nat \ {0}
    /\ \A r \in Rule : /\ r.window \in Nat \ {0}
                       /\ r.suppression \in Nat
                       /\ r.ordered \in BOOLEAN
                       /\ Len(r.required) \in Nat \ {0} /\ DOMAIN r.required = 1..Len(r.required)
                       /\ \A k \in DOMAIN r.required : r.required[k].min_count \in Nat \ {0}
    /\ None \notin Input

VARIABLES
    rule,          \* the rule of this behaviour
    clock,         \* wall-clock time
    held,          \* the list of hits in Redis, oldest first
    expires_at,    \* when the list's TTL runs out
    suppressed,    \* when the suppression key's TTL runs out
    task,          \* what each task is doing
    taken,         \* inputs read off the streams
    acked,         \* inputs acked
    deadletter,    \* inputs dead-lettered
    reports,       \* correlations.created
    faults         \* faults so far

vars == <<rule, clock, held, expires_at, suppressed, task, taken, acked, deadletter, reports,
          faults>>

StageHit == UNION {{[input |-> m, stage |-> Matches[m][i]] : i \in DOMAIN Matches[m]} : m \in Input}

TaskState == [phase : {"idle", "append", "evaluate", "publish", "ack"},
              input : Input \cup {None},
              next : Nat,              \* the stage of Matches[input] to record next
              view : Seq(StageHit),    \* what the last append returned
              at : Nat]                \* when the suppression key was claimed

NoTask == [phase |-> "idle", input |-> None, next |-> 0, view |-> <<>>, at |-> 0]

TypeOK ==
    /\ rule \in Rule
    /\ clock \in 0..MaxTime
    /\ held \in Seq(StageHit) /\ Len(held) <= MaxHits
    /\ expires_at \in Nat
    /\ suppressed \in Nat
    /\ task \in [Task -> TaskState]
    /\ acked \subseteq taken /\ taken \subseteq Input
    /\ deadletter \subseteq Input
    /\ reports \in Seq([at : Nat, hits : SUBSET StageHit])
    /\ faults \in 0..MaxFaults

Init ==
    /\ rule \in Rule
    /\ clock = 0
    /\ held = <<>>
    /\ expires_at = 0
    /\ suppressed = 0
    /\ task = [t \in Task |-> NoTask]
    /\ taken = {}
    /\ acked = {}
    /\ deadletter = {}
    /\ reports = <<>>
    /\ faults = 0

-----------------------------------------------------------------------------
(* effective_time: the source's timestamp if it is plausible. *)
effective_time(claimed, ingested) ==
    IF claimed - ingested <= MaxSkew /\ ingested - claimed <= MaxSkew
    THEN claimed ELSE ingested

occurred_at(h) == effective_time(Claimed[h.input], Ingested[h.input])

Hits(list) == {list[i] : i \in DOMAIN list}

(* Mutant of in_window: old hits are kept. *)
EverythingHeld(list) == Hits(list)

(* The hits no older than the window before the newest one. *)
in_window(list) ==
    {h \in Hits(list) : \A n \in Hits(list) : occurred_at(h) >= occurred_at(n) - rule.window}

hits_by_stage(H, k) == {h \in H : h.stage = rule.required[k].stage}

(* The n-th earliest time in a set of at least n hits. *)
NthTime(H, n) ==
    CHOOSE t \in {occurred_at(h) : h \in H} :
        /\ Cardinality({h \in H : occurred_at(h) < t}) < n
        /\ Cardinality({h \in H : occurred_at(h) <= t}) >= n

Infeasible == -2

(* _ordered_completion: for each required stage in turn the earliest       *)
(* min_count hits at or after the last one selected.                       *)
ordered_completion(H) ==
    LET cursor[k \in 0..Len(rule.required)] ==
            IF k = 0 THEN -1
            ELSE LET candidates == {h \in hits_by_stage(H, k) : occurred_at(h) >= cursor[k - 1]}
                 IN  IF \/ cursor[k - 1] = Infeasible
                        \/ Cardinality(candidates) < rule.required[k].min_count
                     THEN Infeasible
                     ELSE NthTime(candidates, rule.required[k].min_count)
    IN  cursor[Len(rule.required)] # Infeasible

unordered_completion(H) ==
    \A k \in DOMAIN rule.required :
        Cardinality(hits_by_stage(H, k)) >= rule.required[k].min_count

Complete(H) == IF rule.ordered THEN ordered_completion(H) ELSE unordered_completion(H)

-----------------------------------------------------------------------------
Busy(t, phase) == task[t].phase = phase

Goto(t, phase) == task' = [task EXCEPT ![t].phase = phase]

(* The list in Redis, unless its TTL ran out. *)
Live == IF clock < expires_at THEN held ELSE <<>>

(* A task reads its next message. accept dead-letters what it cannot       *)
(* decode; an input that satisfies no stage is only acked.                 *)
Take(t, m) ==
    /\ Busy(t, "idle")
    /\ m \notin taken /\ Ingested[m] <= clock
    /\ taken' = taken \cup {m}
    /\ deadletter' = IF m \in Undecodable THEN deadletter \cup {m} ELSE deadletter
    /\ task' = [task EXCEPT ![t] =
                    [NoTask EXCEPT !.input = m,
                                   !.next = 1,
                                   !.phase = IF m \in Undecodable \/ Matches[m] = <<>>
                                             THEN "ack" ELSE "append"]]
    /\ UNCHANGED <<rule, clock, held, expires_at, suppressed, acked, reports, faults>>

(* RPUSH and LTRIM. *)
Pushed(list, h) ==
    LET longer == Append(list, h)
    IN  IF Len(longer) > MaxHits
        THEN SubSeq(longer, Len(longer) - MaxHits + 1, Len(longer)) ELSE longer

(* Mutant of append: the list is read before the hit is pushed to it. *)
AppendReadsFirst(t) ==
    LET m == task[t].input
        pushed == Pushed(Live, [input |-> m, stage |-> Matches[m][task[t].next]])
    IN  /\ held' = pushed
        /\ expires_at' = clock + rule.window
        /\ task' = [task EXCEPT ![t].view = Live,
                                ![t].next = @ + 1,
                                ![t].phase = IF task[t].next = Len(Matches[m])
                                             THEN "evaluate" ELSE "append"]

(* _APPEND_SCRIPT, one atomic step: push, trim, restart the TTL, read all. *)
append(t) ==
    LET m == task[t].input
        pushed == Pushed(Live, [input |-> m, stage |-> Matches[m][task[t].next]])
    IN  /\ held' = pushed
        /\ expires_at' = clock + rule.window
        /\ task' = [task EXCEPT ![t].view = pushed,
                                ![t].next = @ + 1,
                                ![t].phase = IF task[t].next = Len(Matches[m])
                                             THEN "evaluate" ELSE "append"]

(* _process_rule records the input once for every stage it satisfies. *)
RecordHit(t) ==
    /\ Busy(t, "append")
    /\ append(t)
    /\ UNCHANGED <<rule, clock, suppressed, taken, acked, deadletter, reports, faults>>

(* Mutant of Claimable: the key is set whether or not it exists. *)
AlwaysClaimable == TRUE

(* SET NX EX of the suppression key succeeds. *)
Claimable == suppressed <= clock

(* _evaluate on what the last append returned. *)
Evaluate(t) ==
    /\ Busy(t, "evaluate")
    /\ \/ /\ ~Complete(in_window(task[t].view))
          /\ Goto(t, "ack")
          /\ UNCHANGED suppressed
       \/ /\ Complete(in_window(task[t].view))
          /\ rule.suppression > 0 /\ ~Claimable
          /\ Goto(t, "ack")
          /\ UNCHANGED suppressed
       \/ /\ Complete(in_window(task[t].view))
          /\ rule.suppression = 0 \/ Claimable
          /\ suppressed' = IF rule.suppression > 0 THEN clock + rule.suppression ELSE suppressed
          /\ task' = [task EXCEPT ![t].phase = "publish", ![t].at = clock]
    /\ UNCHANGED <<rule, clock, held, expires_at, taken, acked, deadletter, reports, faults>>

Publish(t) ==
    /\ Busy(t, "publish")
    /\ reports' = Append(reports, [at |-> task[t].at, hits |-> in_window(task[t].view)])
    /\ Goto(t, "ack")
    /\ UNCHANGED <<rule, clock, held, expires_at, suppressed, taken, acked, deadletter, faults>>

Ack(t) ==
    /\ Busy(t, "ack")
    /\ acked' = acked \cup {task[t].input}
    /\ task' = [task EXCEPT ![t] = NoTask]
    /\ UNCHANGED <<rule, clock, held, expires_at, suppressed, taken, deadletter, reports, faults>>

(* A Redis call of the engine raises: process() logs it as a failure of    *)
(* the rule, and the input is acked all the same. The call may have been   *)
(* applied: failing one phase later is that case.                          *)
RuleFails(t) ==
    /\ faults < MaxFaults
    /\ faults' = faults + 1
    /\ task[t].phase \in {"append", "evaluate", "publish"}
    /\ Goto(t, "ack")
    /\ UNCHANGED <<rule, clock, held, expires_at, suppressed, taken, acked, deadletter, reports>>

(* The task ends; its message stays pending and is never read again. *)
Crash(t) ==
    /\ faults < MaxFaults
    /\ faults' = faults + 1
    /\ ~Busy(t, "idle")
    /\ task' = [task EXCEPT ![t] = NoTask]
    /\ UNCHANGED <<rule, clock, held, expires_at, suppressed, taken, acked, deadletter, reports>>

Tick ==
    /\ clock < MaxTime
    /\ clock' = clock + 1
    /\ UNCHANGED <<rule, held, expires_at, suppressed, task, taken, acked, deadletter, reports,
                   faults>>

Next ==
    \/ \E t \in Task, m \in Input : Take(t, m)
    \/ \E t \in Task : \/ RecordHit(t)
                       \/ Evaluate(t)
                       \/ Publish(t)
                       \/ Ack(t)
                       \/ RuleFails(t)
                       \/ Crash(t)
    \/ Tick

Spec == Init /\ [][Next]_vars

-----------------------------------------------------------------------------
(* What a chain is, with no word about how one is looked for: for every    *)
(* required stage min_count hits, if the rule is ordered none of them      *)
(* before a hit of an earlier stage, all within one window.                *)
IsChain(pick) ==
    /\ \A k \in DOMAIN rule.required :
        Cardinality(pick[k]) = rule.required[k].min_count
    /\ rule.ordered =>
        \A j, k \in DOMAIN rule.required : j < k =>
            \A g \in pick[j], h \in pick[k] : occurred_at(g) <= occurred_at(h)
    /\ \A j, k \in DOMAIN rule.required : \A g \in pick[j], h \in pick[k] :
        occurred_at(h) - occurred_at(g) <= rule.window

HasChain(H) ==
    \E pick \in [DOMAIN rule.required -> SUBSET H] :
        /\ \A k \in DOMAIN rule.required : pick[k] \subseteq hits_by_stage(H, k)
        /\ IsChain(pick)

Quiet == faults = 0 /\ \A t \in Task : Busy(t, "idle")

(* A correlation that is reported did happen: the inputs it cites contain  *)
(* a chain, they lie within one window, and all of them were read.         *)
ReportsAreChains ==
    \A i \in DOMAIN reports :
        /\ HasChain(reports[i].hits)
        /\ \A g, h \in reports[i].hits : occurred_at(h) - occurred_at(g) <= rule.window
        /\ \A h \in reports[i].hits : h.input \in taken

(* Two workers that record two stages of a chain at once do not both miss  *)
(* it (state.py:13-15), and the greedy search finds a chain if there is    *)
(* one (engine.py:294-297): once the tasks are done, a chain among the     *)
(* hits in the window has been reported, unless an earlier report          *)
(* suppressed it.                                                          *)
CompletedChainIsReported ==
    Quiet /\ HasChain(in_window(Live)) =>
        LET appended_at == expires_at - rule.window
        IN  \E i \in DOMAIN reports : \/ appended_at <= reports[i].at
                                      \/ appended_at < reports[i].at + rule.suppression

(* An entity fires once per suppression window, across all tasks. *)
ReportsAreSpaced ==
    \A i, j \in DOMAIN reports : i # j =>
        \/ reports[i].at >= reports[j].at + rule.suppression
        \/ reports[j].at >= reports[i].at + rule.suppression

(* "A backlogged collector, a retried batch, or two workers racing must    *)
(* not be able to break a chain that really happened" (engine.py:18-20):   *)
(* once the tasks are done, a chain among the inputs read has been         *)
(* reported, in whatever order they were.                                  *)
ArrivalOrderIsIrrelevant ==
    Quiet /\ HasChain({h \in StageHit : h.input \in acked}) => reports # <<>>
=============================================================================
