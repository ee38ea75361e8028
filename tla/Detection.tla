------------------------------ MODULE Detection ------------------------------
(***************************************************************************)
(* The detection workers (backend/app/workers/detection_worker.py,         *)
(* detection/engine.py, detection/windowed.py) on a rule that is being     *)
(* edited. Every replica has a rule cache, which its consumer of           *)
(* events.normalized and its scheduler of windowed rules refresh under a   *)
(* lock; suppression keys in Redis are shared by all replicas. No replica  *)
(* ever claims a message another one left unacked.                         *)
(***************************************************************************)
EXTENDS DetectionRules, Sequences

CONSTANTS
    Replica,       \* detection workers
    Event,         \* normalized events
    Entity,        \* the entity of each event: the values of suppress_by, group_by
    Timestamp,     \* the timestamp of each event
    Undecodable,   \* events whose document is refused
    Matching,      \* the events each content's conditions match
    Windowed,      \* the contents that are threshold rules
    Excepts,       \* the events each exception's conditions match
    ExpiresAt,     \* when each exception expires
    Suppression,   \* suppression_seconds
    Duration,      \* the window's duration
    Threshold,     \* the window's threshold
    Distinct,      \* the contents whose window counts the values of a distinct_field
    Values,        \* the values each event has in that field: none, one or several
    Evidence,      \* EVIDENCE_EVENTS (10)
    MaxBuckets,    \* DEFAULT_MAX_BUCKETS (10 000)
    Refresh,       \* detection_rule_refresh_seconds
    LoadTime,      \* how long loading the rules may take
    MaxTime,       \* bound: the last instant of the clock
    Scenario,      \* bound: how many edits, passes and faults there are, and which
                   \* events reach the stream and the event store
    None           \* no event

ASSUME DetectionConstants ==
    /\ Windowed \subseteq Content /\ Distinct \subseteq Windowed
    /\ IsFiniteSet(Event) /\ IsFiniteSet(UNION {Values[e] : e \in Event})
    /\ \A c \in Content : Matching[c] \subseteq Event
    /\ \A x \in Exception : Excepts[x] \subseteq Event /\ ExpiresAt[x] \in Nat
    /\ \A e \in Event : Entity[e] \in Nat /\ Timestamp[e] \in Nat
    /\ Suppression \in Nat /\ Duration \in Nat /\ Threshold \in Nat \ {0}
    /\ Evidence \in Nat \ {0}
    /\ MaxBuckets \in Nat \ {0} /\ Refresh \in Nat \ {0} /\ LoadTime \in Nat
    /\ MaxTime \in Nat
    /\ \A s \in Scenario : /\ s.edits \in Nat /\ s.passes \in Nat /\ s.faults \in Nat
                           /\ s.stream \subseteq Event /\ s.store \subseteq Event
    /\ None \notin Event

VARIABLES
    scenario,      \* the bounds of this behaviour
    clock,         \* wall-clock time
    cache,         \* each replica's rule cache
    task,          \* what each task is doing
    taken,         \* events read off events.normalized
    acked,         \* events acked
    deadletter,    \* events dead-lettered
    indexed,       \* events the event store holds
    suppressed,    \* the suppression keys: version, entity and when it expires
    detections,    \* detections.created
    due,           \* history: what the streaming rule was to report, and when
    passes,        \* bound: windowed passes left
    faults         \* bound: faults left

workerVars == <<scenario, clock, cache, task, taken, acked, deadletter, indexed, suppressed, detections,
                due, passes, faults>>

vars == <<ruleVars, workerVars>>

Task == Replica \X {"stream", "window"}

(* What load_active_rules makes of the row and its exceptions, and when it *)
(* read them. A rule that is absent or disabled is not loaded.             *)
Rules == [version : Nat \ {0}, content : Content, status : RuleStatus,
          exceptions : SUBSET Exception, read_at : Nat]
         \cup [version : {0}, read_at : Nat]

NoRules == [version |-> 0, read_at |-> 0]

NotLoaded == [loaded_at |-> -1, rules |-> NoRules]

Match == [entity : Nat, events : SUBSET Event,   \* event_ids
          observed : Nat,                        \* what the evidence says was counted
          version : Nat \ {0}, content : Content, dry_run : BOOLEAN, at : Nat, age : Int]

TaskState == [phase : {"idle", "wait", "load", "evaluate", "search", "publish", "ack"},
              event : Event \cup {None},
              since : Nat,             \* when the event or the pass was taken up
              rules : Rules,           \* what is being loaded, or searched for
              now : Nat,               \* the end of the window searched
              age : Int,               \* how old the rules were
              after : Int,             \* after_key
              seen : Nat,              \* buckets seen
              matches : Seq(Match)]    \* found and not published yet

NoTask == [phase |-> "idle", event |-> None, since |-> 0, rules |-> NoRules, now |-> 0,
           age |-> 0, after |-> -1, seen |-> 0, matches |-> <<>>]

TypeOK ==
    /\ RulesTypeOK
    /\ scenario \in Scenario
    /\ clock \in 0..MaxTime
    /\ cache \in [Replica -> [loaded_at : -1..clock, rules : Rules]]
    /\ task \in [Task -> TaskState]
    /\ acked \subseteq taken /\ taken \subseteq Event
    /\ deadletter \subseteq Event /\ indexed \subseteq Event
    /\ suppressed \subseteq [version : Nat \ {0}, entity : Nat, until : Nat]
    /\ detections \in Seq(Match)
    /\ due \subseteq [version : Nat \ {0}, entity : Nat, at : Nat]
    /\ passes \in Nat
    /\ faults \in Nat

Init ==
    /\ RulesInit
    /\ scenario \in Scenario
    /\ edits = scenario.edits
    /\ clock = 0
    /\ cache = [r \in Replica |-> NotLoaded]
    /\ task = [t \in Task |-> NoTask]
    /\ taken = {}
    /\ acked = {}
    /\ deadletter = {}
    /\ indexed = {}
    /\ suppressed = {}
    /\ detections = <<>>
    /\ due = {}
    /\ passes = scenario.passes
    /\ faults = scenario.faults

-----------------------------------------------------------------------------
Busy(t, phase) == task[t].phase = phase

Goto(t, phase) == task' = [task EXCEPT ![t].phase = phase]

Fault == faults > 0 /\ faults' = faults - 1

(* The cache is younger than the refresh interval. *)
Fresh(r) == cache[r].loaded_at >= 0 /\ clock - cache[r].loaded_at < Refresh

Locked(r) == \E t \in Task : t[1] = r /\ Busy(t, "load")

(* accept: a refused document is dead-lettered; any other needs the rules. *)
Accept(t, e) ==
    /\ t[2] = "stream" /\ Busy(t, "idle")
    /\ e \in scenario.stream \ taken /\ Timestamp[e] <= clock
    /\ taken' = taken \cup {e}
    /\ deadletter' = IF e \in Undecodable THEN deadletter \cup {e} ELSE deadletter
    /\ task' = [task EXCEPT ![t] =
                    [NoTask EXCEPT !.event = e,
                                   !.since = clock,
                                   !.phase = IF e \in Undecodable THEN "ack"
                                             ELSE IF Fresh(t[1]) THEN "evaluate" ELSE "wait"]]
    /\ UNCHANGED <<ruleVars, scenario, clock, cache, acked, indexed, suppressed, detections, due, passes,
                   faults>>

(* run_once asks for the tenant's windowed rules. *)
StartPass(t) ==
    /\ t[2] = "window" /\ Busy(t, "idle")
    /\ passes > 0
    /\ passes' = passes - 1
    /\ task' = [task EXCEPT ![t] = [NoTask EXCEPT !.since = clock,
                                                  !.phase = IF Fresh(t[1]) THEN "evaluate"
                                                            ELSE "wait"]]
    /\ UNCHANGED <<ruleVars, scenario, clock, cache, taken, acked, deadletter, indexed, suppressed,
                   detections, due, faults>>

(* The second look, inside the lock. *)
StillFresh(r) == Fresh(r)

load_active_rules ==
    IF Stored /\ row.status # "disabled"
    THEN [version |-> row.current_version, content |-> row.yaml.content, status |-> row.status,
          exceptions |-> {x \in exceptions : ExpiresAt[x] > clock}, read_at |-> clock]
    ELSE [version |-> 0, read_at |-> clock]

(* _refresh_if_stale inside the lock: somebody else may have loaded. *)
BeginLoad(t) ==
    /\ Busy(t, "wait")
    /\ ~Locked(t[1])
    /\ task' = IF StillFresh(t[1])
               THEN [task EXCEPT ![t].phase = "evaluate"]
               ELSE [task EXCEPT ![t].phase = "load", ![t].rules = load_active_rules]
    /\ UNCHANGED <<ruleVars, scenario, clock, cache, taken, acked, deadletter, indexed, suppressed,
                   detections, due, passes, faults>>

(* Mutant of FinishLoad: an engine that exists keeps its rules. *)
FinishLoadOnce(t) ==
    /\ Busy(t, "load")
    /\ cache' = [cache EXCEPT ![t[1]] =
                    [loaded_at |-> clock,
                     rules |-> IF @.loaded_at >= 0 THEN @.rules ELSE task[t].rules]]
    /\ task' = [task EXCEPT ![t].phase = "evaluate", ![t].rules = NoRules]
    /\ UNCHANGED <<ruleVars, scenario, clock, taken, acked, deadletter, indexed, suppressed, detections,
                   due, passes, faults>>

(* _load replaces the engine's rules and releases the lock. *)
FinishLoad(t) ==
    /\ Busy(t, "load")
    /\ cache' = [cache EXCEPT ![t[1]] = [loaded_at |-> clock, rules |-> task[t].rules]]
    /\ task' = [task EXCEPT ![t].phase = "evaluate", ![t].rules = NoRules]
    /\ UNCHANGED <<ruleVars, scenario, clock, taken, acked, deadletter, indexed, suppressed, detections,
                   due, passes, faults>>

-----------------------------------------------------------------------------
Executes(rules, type) ==
    /\ rules.version > 0
    /\ type = (IF rules.content \in Windowed THEN "window" ELSE "stream")

(* matching_exception: an active exception covers the event. *)
Excepted(rules, e, now) ==
    \E x \in rules.exceptions : ExpiresAt[x] > now /\ e \in Excepts[x]

(* Mutant of Claimable: whether the key exists is not looked at. *)
AlwaysClaimable(version, entity) == TRUE

(* SET NX EX of the suppression key succeeds. *)
Claimable(version, entity) ==
    \A k \in suppressed : k.version = version /\ k.entity = entity => k.until <= clock

claim(version, entity) ==
    suppressed' = IF Suppression = 0 THEN suppressed
                  ELSE {k \in suppressed : k.until > clock}
                       \cup {[version |-> version, entity |-> entity,
                              until |-> clock + Suppression]}

build_match(rules, entity, events, observed, age) ==
    [entity |-> entity, events |-> events, observed |-> observed, version |-> rules.version,
     content |-> rules.content, dry_run |-> rules.status = "testing", at |-> clock,
     age |-> age]

(* Mutant of Evaluate: the key is claimed before exceptions are looked at. *)
EvaluateClaimsFirst(t) ==
    LET rules == cache[t[1]].rules
        e == task[t].event
        conditions == Executes(rules, "stream") /\ e \in Matching[rules.content]
        excepted == conditions /\ Excepted(rules, e, clock)
        fires == conditions /\ (Suppression > 0 => Claimable(rules.version, Entity[e]))
    IN  /\ t[2] = "stream" /\ Busy(t, "evaluate")
        /\ IF fires THEN claim(rules.version, Entity[e]) ELSE UNCHANGED suppressed
        /\ task' = [task EXCEPT ![t] =
                        [NoTask EXCEPT !.event = e,
                                       !.phase = IF fires /\ ~excepted THEN "publish" ELSE "ack",
                                       !.matches = IF fires /\ ~excepted
                                                   THEN <<build_match(rules, Entity[e], {e}, 1,
                                                            task[t].since - rules.read_at)>>
                                                   ELSE <<>>]]
        /\ due' = IF conditions /\ ~excepted
                  THEN due \cup {[version |-> rules.version, entity |-> Entity[e], at |-> clock]}
                  ELSE due
        /\ UNCHANGED <<ruleVars, scenario, clock, cache, taken, acked, deadletter, indexed, detections,
                       passes, faults>>

(* StreamingEngine.evaluate: conditions, then exceptions, then the claim. *)
Evaluate(t) ==
    LET rules == cache[t[1]].rules
        e == task[t].event
        isDue == /\ Executes(rules, "stream")
                 /\ e \in Matching[rules.content]
                 /\ ~Excepted(rules, e, clock)
        fires == isDue /\ (Suppression > 0 => Claimable(rules.version, Entity[e]))
    IN  /\ t[2] = "stream" /\ Busy(t, "evaluate")
        /\ IF fires THEN claim(rules.version, Entity[e]) ELSE UNCHANGED suppressed
        /\ task' = [task EXCEPT ![t] =
                        [NoTask EXCEPT !.event = e,
                                       !.phase = IF fires THEN "publish" ELSE "ack",
                                       !.matches = IF fires
                                                   THEN <<build_match(rules, Entity[e], {e}, 1,
                                                            task[t].since - rules.read_at)>>
                                                   ELSE <<>>]]
        /\ due' = IF isDue
                  THEN due \cup {[version |-> rules.version, entity |-> Entity[e], at |-> clock]}
                  ELSE due
        /\ UNCHANGED <<ruleVars, scenario, clock, cache, taken, acked, deadletter, indexed, detections,
                       passes, faults>>

(* WindowedEvaluator.run fixes the rule and the window it searches. *)
EvaluateWindow(t) ==
    LET rules == cache[t[1]].rules
    IN  /\ t[2] = "window" /\ Busy(t, "evaluate")
        /\ task' = [task EXCEPT ![t] =
                        IF Executes(rules, "window")
                        THEN [NoTask EXCEPT !.phase = "search", !.rules = rules, !.now = clock,
                                            !.age = task[t].since - rules.read_at]
                        ELSE NoTask]
        /\ UNCHANGED <<ruleVars, scenario, clock, cache, taken, acked, deadletter, indexed, suppressed,
                       detections, due, passes, faults>>

(* Mutant of InWindow: the window has no beginning. *)
InWindowOpenEnded(rules, now) ==
    {e \in indexed : /\ e \in Matching[rules.content]
                     /\ Timestamp[e] <= now
                     /\ ~Excepted(rules, e, now)}

(* _base_filter and must_not: what the aggregation counts. *)
InWindow(rules, now) ==
    {e \in indexed : /\ e \in Matching[rules.content]
                     /\ now - Duration <= Timestamp[e] /\ Timestamp[e] <= now
                     /\ ~Excepted(rules, e, now)}

(* What a bucket is measured by: its documents, or the values they have in *)
(* the distinct_field (exactly, below CARDINALITY_PRECISION).              *)
Observed(content, bucket) ==
    IF content \in Distinct THEN Cardinality(UNION {Values[e] : e \in bucket})
    ELSE Cardinality(bucket)

(* top_hits: the newest Evidence documents of the bucket, ties in any      *)
(* order. A detection cites no more than these.                            *)
Newest(bucket) ==
    {S \in SUBSET bucket :
        /\ Cardinality(S) = IF Cardinality(bucket) < Evidence THEN Cardinality(bucket)
                            ELSE Evidence
        /\ \A e \in S, f \in bucket \ S : Timestamp[f] <= Timestamp[e]}

(* _collect, by pages of one bucket: the next entity after after_key.      *)
Search(t) ==
    LET rules == task[t].rules
        counted == InWindow(rules, task[t].now)
        rest == {Entity[e] : e \in counted} \cap {n \in Nat : n > task[t].after}
    IN  /\ Busy(t, "search")
        /\ \/ /\ rest = {} \/ task[t].seen >= MaxBuckets
              /\ Goto(t, "publish")
              /\ UNCHANGED suppressed
           \/ /\ task[t].seen < MaxBuckets
              /\ \E entity \in rest :
                  LET bucket == {e \in counted : Entity[e] = entity}
                      observed == Observed(rules.content, bucket)
                      fires == /\ observed >= Threshold
                               /\ Suppression > 0 => Claimable(rules.version, entity)
                  IN  /\ \A other \in rest : entity <= other
                      /\ IF fires THEN claim(rules.version, entity) ELSE UNCHANGED suppressed
                      /\ \E cited \in Newest(bucket) :
                            task' = [task EXCEPT
                                ![t].after = entity,
                                ![t].seen = @ + 1,
                                ![t].matches = IF fires
                                               THEN Append(@, build_match(rules, entity, cited,
                                                                          observed, task[t].age))
                                               ELSE @]
        /\ UNCHANGED <<ruleVars, scenario, clock, cache, taken, acked, deadletter, indexed, detections, due,
                       passes, faults>>

(* publish, one match at a time; a pass has nothing to ack. *)
Publish(t) ==
    /\ Busy(t, "publish")
    /\ IF task[t].matches = <<>>
       THEN /\ task' = [task EXCEPT ![t] = IF t[2] = "stream" THEN [@ EXCEPT !.phase = "ack"]
                                           ELSE NoTask]
            /\ UNCHANGED detections
       ELSE /\ detections' = Append(detections, Head(task[t].matches))
            /\ task' = [task EXCEPT ![t].matches = Tail(@)]
    /\ UNCHANGED <<ruleVars, scenario, clock, cache, taken, acked, deadletter, indexed, suppressed, due,
                   passes, faults>>

Ack(t) ==
    /\ Busy(t, "ack")
    /\ acked' = acked \cup {task[t].event}
    /\ task' = [task EXCEPT ![t] = NoTask]
    /\ UNCHANGED <<ruleVars, scenario, clock, cache, taken, deadletter, indexed, suppressed, detections,
                   due, passes, faults>>

(* The claim of the streaming engine raises: evaluate logs it as a failure *)
(* of the rule, and the event is acked. It may have been applied: failing  *)
(* in the next phase is that case.                                         *)
RuleFails(t) ==
    /\ t[2] = "stream"
    /\ Busy(t, "evaluate") \/ Busy(t, "publish")
    /\ Fault
    /\ task' = [task EXCEPT ![t] = [NoTask EXCEPT !.event = task[t].event, !.phase = "ack"]]
    /\ UNCHANGED <<ruleVars, scenario, clock, cache, taken, acked, deadletter, indexed, suppressed,
                   detections, due, passes>>

(* Loading, searching, claiming or publishing raises in a pass: the        *)
(* scheduler goes on with its next pass, and what was found is discarded.  *)
PassFails(t) ==
    /\ t[2] = "window"
    /\ ~Busy(t, "idle")
    /\ Fault
    /\ task' = [task EXCEPT ![t] = NoTask]
    /\ UNCHANGED <<ruleVars, scenario, clock, cache, taken, acked, deadletter, indexed, suppressed,
                   detections, due, passes>>

(* A replica ends, with both its tasks and its cache; what it did not ack  *)
(* stays pending. So it does when the consumer's load, publish or ack      *)
(* raises.                                                                 *)
Crash(r) ==
    /\ Fault
    /\ task' = [t \in Task |-> IF t[1] = r THEN NoTask ELSE task[t]]
    /\ cache' = [cache EXCEPT ![r] = NotLoaded]
    /\ UNCHANGED <<ruleVars, scenario, clock, taken, acked, deadletter, indexed, suppressed, detections,
                   due, passes>>

(* The indexer makes an event visible to searches. *)
Index(e) ==
    /\ e \in scenario.store \ indexed /\ Timestamp[e] <= clock
    /\ indexed' = indexed \cup {e}
    /\ UNCHANGED <<ruleVars, scenario, clock, cache, task, taken, acked, deadletter, suppressed, detections,
                   due, passes, faults>>

(* Time passes; loading the rules takes LoadTime at most. *)
Tick ==
    /\ clock < MaxTime
    /\ \A t \in Task : Busy(t, "load") => clock - task[t].rules.read_at < LoadTime
    /\ clock' = clock + 1
    /\ UNCHANGED <<ruleVars, scenario, cache, task, taken, acked, deadletter, indexed, suppressed,
                   detections, due, passes, faults>>

EditRules == RulesNext /\ UNCHANGED workerVars

Next ==
    \/ EditRules
    \/ \E t \in Task, e \in Event : Accept(t, e)
    \/ \E t \in Task : \/ StartPass(t)
                       \/ BeginLoad(t)
                       \/ FinishLoad(t)
                       \/ Evaluate(t)
                       \/ EvaluateWindow(t)
                       \/ Search(t)
                       \/ Publish(t)
                       \/ Ack(t)
                       \/ RuleFails(t)
                       \/ PassFails(t)
    \/ \E r \in Replica : Crash(r)
    \/ \E e \in Event : Index(e)
    \/ Tick

Spec == Init /\ [][Next]_vars

-----------------------------------------------------------------------------
(* Overlapping requests never give a version two meanings, and the row's   *)
(* columns are those of its current version: "the sequence has to be       *)
(* monotonic per rule" (detection_rules.py:163-165). Unless edits          *)
(* overlapped, "there is no path where the row says severity: low and the  *)
(* YAML the engine executes says critical" (:14-16), and engine and API    *)
(* agree on the status (:240-241).                                         *)
VersionsAreHistory ==
    /\ \A h, k \in versions : h.version = k.version => h = k
    /\ Stored => [version |-> row.current_version, content |-> row.columns] \in versions
    /\ Stored /\ ~overlapped => row.columns = row.yaml.content /\ row.status = row.yaml.status

(* "What did this rule say on the day": a detection is explained by the    *)
(* version it names, also when the rule was edited while it was on its     *)
(* way, unless edits overlapped.                                           *)
HistoryExplainsDetections ==
    ~overlapped => \A i \in DOMAIN detections :
        [version |-> detections[i].version, content |-> detections[i].content] \in versions

(* What a threshold rule's detection rests on: events the store held, of   *)
(* its entity, that the rule matches, all within one window, enough by the *)
(* rule's measure; it says how much was observed and cites the newest.     *)
RestsOn(d, B) ==
    /\ \A e \in B : Entity[e] = d.entity /\ e \in Matching[d.content]
    /\ \A e, f \in B : Timestamp[e] - Timestamp[f] <= Duration
    /\ d.observed = Observed(d.content, B) /\ d.observed >= Threshold
    /\ d.events \in Newest(B)

(* A detection is justified: by its event, which the rule matches, or, for *)
(* a threshold rule, by enough events of one window, though the rule was   *)
(* edited, events were indexed and time passed since it was evaluated, and *)
(* though it cites at most Evidence of them (windowed.py:310-312).         *)
DetectionsAreJustified ==
    \A i \in DOMAIN detections :
        LET d == detections[i] IN
        IF d.content \in Windowed
        THEN \E B \in SUBSET indexed : RestsOn(d, B)
        ELSE \E e \in Matching[d.content] : Entity[e] = d.entity /\ d.events = {e}

(* Across all replicas and both paths an entity fires once per suppression *)
(* window and version (engine.py:94-97).                                   *)
DetectionsAreSpaced ==
    \A i, j \in DOMAIN detections :
        i # j /\ detections[i].version = detections[j].version
              /\ detections[i].entity = detections[j].entity =>
            \/ detections[i].at >= detections[j].at + Suppression
            \/ detections[j].at >= detections[i].at + Suppression

(* Disabling a rule takes effect within the refresh interval and the time  *)
(* of a load (detection_worker.py:15-19): no event is judged by rules that *)
(* were older than that when it was taken up.                              *)
RulesAreRecent == \A i \in DOMAIN detections : detections[i].age < Refresh + LoadTime

(* An exempted event silences nothing: without faults, an event the rule   *)
(* was to report is reported, or its entity was within the suppression     *)
(* window.                                                                 *)
DueIsDetected ==
    faults = scenario.faults /\ (\A t \in Task : Busy(t, "idle")) =>
        \A d \in due : \E i \in DOMAIN detections :
            /\ detections[i].version = d.version
            /\ detections[i].entity = d.entity
            /\ detections[i].at <= d.at
            /\ d.at < detections[i].at + Suppression \/ d.at = detections[i].at
=============================================================================
