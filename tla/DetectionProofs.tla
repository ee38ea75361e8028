--------------------------- MODULE DetectionProofs ---------------------------
(***************************************************************************)
(* Proofs about Detection and the rule store it reads (DetectionRules),    *)
(* for every number of replicas, editors, events, rule contents and        *)
(* exceptions, and every length of the suppression, refresh and load       *)
(* times.                                                                  *)
(***************************************************************************)
EXTENDS Detection, SequenceTheorems, FiniteSetTheorems, TLAPS

(* The task that handles an event has taken it; passes ack nothing, and    *)
(* search for a threshold rule.                                            *)
Working ==
    \A t \in Task : /\ t[2] = "stream" /\ ~Busy(t, "idle") => task[t].event \in taken
                    /\ t[2] = "window" => ~Busy(t, "ack")
                    /\ Busy(t, "search") => /\ task[t].rules.version > 0
                                            /\ task[t].rules.content \in Windowed

(* Only a search collects matches, and only a publish holds them. *)
MatchesHeld ==
    \A t \in Task : task[t].phase \notin {"search", "publish"} => task[t].matches = <<>>

Base == TypeOK /\ Working /\ MatchesHeld

(* An edit in flight loaded the row of a stored rule. Either the row still *)
(* has the version and the columns it loaded, or the version it would      *)
(* write is taken.                                                         *)
EditsRead ==
    /\ ~Stored => versions = {}
    /\ \A d \in Editor : edit[d] # NoEdit =>
        /\ Stored
        /\ \/ /\ edit[d].row.current_version = row.current_version
              /\ edit[d].row.columns = row.columns
           \/ VersionTaken(edit[d].row.current_version + 1)

(* Without overlaps there is one edit at a time, and the row is as it      *)
(* loaded it.                                                              *)
EditsAlone ==
    ~overlapped =>
        /\ \A d, f \in Editor : edit[d] # NoEdit /\ edit[f] # NoEdit => d = f
        /\ \A d \in Editor : edit[d] # NoEdit =>
            /\ edit[d].row = row
            /\ edit[d].kind = "status" => edit[d].yaml.content = row.yaml.content

HistoryInv == VersionsAreHistory /\ EditsRead /\ EditsAlone

-----------------------------------------------------------------------------
(* A match is a claim from the moment its suppression key is set. It is    *)
(* held by a task until it is published.                                   *)
Matches == [t \in Task |-> task[t].matches]

Held(D, M, m) ==
    \/ \E i \in DOMAIN D : m = D[i]
    \/ \E t \in Task : \E i \in DOMAIN M[t] : m = M[t][i]

IsClaim(m) == Held(detections, Matches, m)

(* The history knows the version a loaded rule or a match names. *)
Known(x) == x.version > 0 => [version |-> x.version, content |-> x.content] \in versions

ExplainedInv ==
    ~overlapped =>
        /\ \A r \in Replica : Known(cache[r].rules)
        /\ \A t \in Task : Known(task[t].rules)
        /\ \A m \in Match : IsClaim(m) => Known(m)

Justified(m) ==
    IF m.content \in Windowed
    THEN \E B \in SUBSET indexed : RestsOn(m, B)
    ELSE \E e \in Matching[m.content] : Entity[e] = m.entity /\ m.events = {e}

JustifiedInv == \A m \in Match : IsClaim(m) => Justified(m)

(* Two claims of one key are a suppression window apart. *)
Apart(m, n) ==
    m.version = n.version /\ m.entity = n.entity =>
        m.at >= n.at + Suppression \/ n.at >= m.at + Suppression

Spacing(D, M) ==
    /\ \A i, j \in DOMAIN D : i # j => Apart(D[i], D[j])
    /\ \A t \in Task : \A i \in DOMAIN M[t] : \A j \in DOMAIN D : Apart(M[t][i], D[j])
    /\ \A s, t \in Task : \A i \in DOMAIN M[s] : \A j \in DOMAIN M[t] :
            s # t \/ i # j => Apart(M[s][i], M[t][j])

KeyOf(k, m) == k.version = m.version /\ k.entity = m.entity /\ k.until = m.at + Suppression

(* While a claim is within its window its key is in Redis. *)
SpacedInv ==
    /\ Spacing(detections, Matches)
    /\ \A m \in Match : IsClaim(m) =>
        /\ m.at <= clock
        /\ m.at + Suppression > clock => \E k \in suppressed : KeyOf(k, m)

(* A load is short, and does not bring older rules than the replica has:   *)
(* at most one task of a replica loads.                                    *)
LoadsInTurn ==
    /\ \A s, t \in Task : s[1] = t[1] /\ Busy(s, "load") /\ Busy(t, "load") => s = t
    /\ \A t \in Task : Busy(t, "load") =>
        /\ task[t].rules.read_at <= clock
        /\ clock - task[t].rules.read_at <= LoadTime
        /\ cache[t[1]].loaded_at <= task[t].rules.read_at
    /\ \A r \in Replica : cache[r].loaded_at >= 0 =>
        /\ cache[r].rules.read_at <= cache[r].loaded_at
        /\ cache[r].loaded_at - cache[r].rules.read_at <= LoadTime

RecentInv ==
    /\ LoadsInTurn
    /\ \A t \in Task : task[t].since <= clock
    /\ \A t \in Task : Busy(t, "evaluate") =>
        /\ cache[t[1]].loaded_at >= 0
        /\ task[t].since - cache[t[1]].rules.read_at < Refresh + LoadTime
    /\ \A t \in Task : Busy(t, "search") => task[t].age < Refresh + LoadTime
    /\ \A m \in Match : IsClaim(m) => m.age < Refresh + LoadTime

(* Without faults every key in Redis is the key of a claim, and what was   *)
(* due is a claim or was suppressed by one.                                *)
Covers(m, d) ==
    /\ m.version = d.version /\ m.entity = d.entity /\ m.at <= d.at
    /\ d.at < m.at + Suppression \/ d.at = m.at

DueInv ==
    /\ faults <= scenario.faults
    /\ faults = scenario.faults =>
        /\ \A k \in suppressed : \E m \in Match : IsClaim(m) /\ KeyOf(k, m) /\ m.at <= clock
        /\ \A d \in due : \E m \in Match : IsClaim(m) /\ Covers(m, d)
-----------------------------------------------------------------------------
(* What the unions of record sets in the rule store's types mean. *)
LEMMA RuleTypes ==
    ASSUME RulesTypeOK
    PROVE  /\ Stored => row \in RuleRow
           /\ \A d \in Editor : edit[d] # NoEdit => edit[d] \in EditState
           /\ \A r \in RuleRow : r # NoRule
           /\ \A e \in EditState : e # NoEdit
<1>1. (Stored => row \in RuleRow) /\ \A d \in Editor : edit[d] # NoEdit => edit[d] \in EditState
      BY DEF RulesTypeOK, Stored
<1>2. \A r \in RuleRow : r # NoRule
      <2>1. NoRule.current_version = 0 /\ \A r \in RuleRow : r.current_version # 0
            BY DEF NoRule, RuleRow
      <2> QED BY <2>1
<1>3. \A e \in EditState : e # NoEdit
      <2>1. NoEdit.phase = "idle" /\ \A e \in EditState : e.phase = "read"
            BY DEF NoEdit, EditState
      <2> QED BY <2>1
<1> QED BY <1>1, <1>2, <1>3

(* A rule is created once, and that is its first version. *)
LEMMA CreateKeepsHistory ==
    ASSUME RulesTypeOK, HistoryInv, NEW y \in Submitted, NEW v \in FirstVersion, create_rule(y, v)
    PROVE  RulesTypeOK' /\ HistoryInv'
<1>1. y \in Yaml /\ v \in Nat \ {0} /\ y.content \in Content /\ y.status \in RuleStatus
      BY RuleConstants DEF Yaml
<1> DEFINE r == [columns |-> y.content, status |-> y.status, yaml |-> y, current_version |-> v]
           h == [version |-> v, content |-> y.content]
<1>2. /\ r \in RuleRow /\ r.columns = y.content /\ r.status = y.status /\ r.yaml = y
      /\ r.current_version = v
      BY <1>1 DEF RuleRow
<1>3. h \in [version : Nat \ {0}, content : Content]
      BY <1>1
<1>4. /\ ~Stored /\ row' = r /\ versions' = versions \cup {h}
      /\ UNCHANGED <<exceptions, edit, overlapped, edits>>
      BY DEF create_rule
<1> HIDE DEF r
<1>5. versions = {} /\ \A d \in Editor : edit[d] = NoEdit
      BY <1>4 DEF HistoryInv, EditsRead
<1>6. versions' = {h} /\ \A d \in Editor : edit'[d] = NoEdit
      BY <1>4, <1>5
<1>7. RulesTypeOK'
      BY <1>2, <1>3, <1>4 DEF RulesTypeOK
<1>8. Stored'
      BY <1>2, <1>4, RuleTypes DEF Stored
<1>9. VersionsAreHistory'
      BY <1>2, <1>4, <1>6 DEF VersionsAreHistory
<1>10. EditsRead' /\ EditsAlone'
      BY <1>6, <1>8 DEF EditsRead, EditsAlone
<1> QED BY <1>7, <1>9, <1>10 DEF HistoryInv

(* Loading a row for an edit writes nothing. *)
LEMMA LoadKeepsHistory ==
    ASSUME RulesTypeOK, HistoryInv, NEW d \in Editor, NEW k \in {"update", "status"}, NEW y \in Yaml,
           LoadRule(d, k, y)
    PROVE  RulesTypeOK' /\ HistoryInv'
<1>1. row \in RuleRow /\ Stored /\ edit \in [Editor -> EditState \cup {NoEdit}]
      BY RuleTypes DEF LoadRule, RulesTypeOK
<1>2. PICK w : w = [phase |-> "read", kind |-> k, row |-> row, yaml |-> y]
      OBVIOUS
<1>3. w \in EditState /\ w.row = row /\ w.kind = k /\ w.yaml = y
      BY <1>1, <1>2 DEF EditState
<1>4. /\ edit' = [edit EXCEPT ![d] = w] /\ UNCHANGED <<row, versions, exceptions>>
      /\ edits > 0 /\ edits' = edits - 1
      /\ k = "status" => y.content = row.yaml.content
      BY <1>2 DEF LoadRule
<1>5. /\ overlapped' \in BOOLEAN
      /\ ~overlapped' => ~overlapped /\ \A f \in Editor \ {d} : edit[f] = NoEdit
      BY DEF LoadRule
<1>6. edit'[d] = w /\ \A f \in Editor \ {d} : edit'[f] = edit[f]
      BY <1>1, <1>4
<1>7. RulesTypeOK'
      <2>1. edit' \in [Editor -> EditState \cup {NoEdit}]
            BY <1>1, <1>3, <1>4
      <2>2. edits' \in Nat
            BY <1>4 DEF RulesTypeOK
      <2> QED BY <1>4, <1>5, <2>1, <2>2 DEF RulesTypeOK
<1>8. VersionsAreHistory'
      <2>1. VersionsAreHistory
            BY DEF HistoryInv
      <2> QED BY <1>4, <1>5, <2>1 DEF VersionsAreHistory, Stored
<1>9. EditsRead'
      BY <1>1, <1>3, <1>4, <1>6 DEF HistoryInv, EditsRead, Stored, VersionTaken
<1>10. EditsAlone'
      <2>1. CASE overlapped'
            BY <2>1 DEF EditsAlone
      <2>2. CASE ~overlapped'
            BY <1>3, <1>4, <1>5, <1>6, <2>2 DEF EditsAlone
      <2> QED BY <2>1, <2>2
<1> QED BY <1>7, <1>8, <1>9, <1>10 DEF HistoryInv

(* An edit that ends without a commit leaves the row to the others. *)
LEMMA AbortKeepsHistory ==
    ASSUME RulesTypeOK, HistoryInv, NEW d \in Editor, AbortEdit(d)
    PROVE  RulesTypeOK' /\ HistoryInv'
<1>1. /\ edit' = [edit EXCEPT ![d] = NoEdit]
      /\ UNCHANGED <<row, versions, exceptions, overlapped, edits>>
      /\ edit \in [Editor -> EditState \cup {NoEdit}]
      BY DEF AbortEdit, RulesTypeOK
<1>2. edit'[d] = NoEdit /\ \A f \in Editor \ {d} : edit'[f] = edit[f]
      BY <1>1
<1>3. RulesTypeOK'
      BY <1>1 DEF RulesTypeOK
<1>4. VersionsAreHistory'
      BY <1>1 DEF HistoryInv, VersionsAreHistory, Stored
<1>5. EditsRead'
      BY <1>1, <1>2 DEF HistoryInv, EditsRead, Stored, VersionTaken
<1>6. EditsAlone'
      BY <1>1, <1>2 DEF HistoryInv, EditsAlone
<1> QED BY <1>3, <1>4, <1>5, <1>6 DEF HistoryInv

(* set_rule_status writes the status columns, and no version. *)
LEMMA StatusKeepsHistory ==
    ASSUME RulesTypeOK, HistoryInv, NEW d \in Editor, set_rule_status(d)
    PROVE  RulesTypeOK' /\ HistoryInv'
<1>1. /\ edit[d] # NoEdit /\ edit[d].kind = "status" /\ edit' = [edit EXCEPT ![d] = NoEdit]
      /\ UNCHANGED <<versions, exceptions, overlapped, edits>>
      /\ edit \in [Editor -> EditState \cup {NoEdit}]
      BY DEF set_rule_status, RulesTypeOK
<1>2. PICK e \in EditState : e = edit[d]
      BY <1>1, RuleTypes
<1>3. Stored /\ row \in RuleRow
      BY <1>1, RuleTypes DEF HistoryInv, EditsRead
<1>4. PICK s, y : /\ s = Written(row.status, e.row.status, e.yaml.status)
                  /\ y = Written(row.yaml, e.row.yaml, e.yaml)
      OBVIOUS
<1>5. s \in RuleStatus /\ y \in Yaml
      BY <1>2, <1>3, <1>4 DEF Written, EditState, RuleRow, Yaml
<1>6. row' = [row EXCEPT !.status = s, !.yaml = y]
      BY <1>2, <1>4 DEF set_rule_status
<1>7. /\ row' \in RuleRow /\ row'.columns = row.columns /\ row'.current_version = row.current_version
      /\ row'.status = s /\ row'.yaml = y
      BY <1>3, <1>5, <1>6 DEF RuleRow
<1>8. Stored'
      BY <1>7, RuleTypes DEF Stored
<1>9. edit'[d] = NoEdit /\ \A f \in Editor \ {d} : edit'[f] = edit[f]
      BY <1>1
<1>10. RulesTypeOK'
      BY <1>1, <1>7 DEF RulesTypeOK
<1>11. EditsRead'
      BY <1>1, <1>7, <1>8, <1>9 DEF HistoryInv, EditsRead, VersionTaken
<1>12. EditsAlone'
      <2>1. ~overlapped => \A f \in Editor : edit'[f] = NoEdit
            BY <1>1, <1>9 DEF HistoryInv, EditsAlone
      <2> QED BY <1>1, <2>1 DEF EditsAlone
<1>13. VersionsAreHistory'
      <2>1. ASSUME ~overlapped PROVE row.columns = y.content /\ s = y.status
            <3>1. e.row = row /\ e.yaml.content = row.yaml.content
                  BY <1>1, <1>2, <2>1 DEF HistoryInv, EditsAlone
            <3>2. row.columns = row.yaml.content /\ row.status = row.yaml.status
                  BY <1>3, <2>1 DEF HistoryInv, VersionsAreHistory
            <3>3. y = e.yaml /\ s = e.yaml.status
                  BY <1>4, <3>1 DEF Written
            <3> QED BY <3>1, <3>2, <3>3
      <2>2. /\ \A h, k \in versions : h.version = k.version => h = k
            /\ [version |-> row.current_version, content |-> row.columns] \in versions
            BY <1>3 DEF HistoryInv, VersionsAreHistory
      <2> QED BY <1>1, <1>7, <2>1, <2>2 DEF VersionsAreHistory
<1> QED BY <1>10, <1>11, <1>12, <1>13 DEF HistoryInv

(* update_rule adds the version after the one it loaded. The unique key    *)
(* lets it through only if the row still has that version, so the version  *)
(* says what the row's columns say.                                        *)
LEMMA UpdateKeepsHistory ==
    ASSUME RulesTypeOK, HistoryInv, NEW d \in Editor, update_rule(d)
    PROVE  RulesTypeOK' /\ HistoryInv'
<1>1. /\ edit[d] # NoEdit /\ edit' = [edit EXCEPT ![d] = NoEdit]
      /\ UNCHANGED <<exceptions, overlapped, edits>>
      /\ edit \in [Editor -> EditState \cup {NoEdit}]
      BY DEF update_rule, RulesTypeOK
<1>2. PICK e \in EditState : e = edit[d]
      BY <1>1, RuleTypes
<1>3. Stored /\ row \in RuleRow
      BY <1>1, RuleTypes DEF HistoryInv, EditsRead
<1>4. PICK c, s, y, v : /\ c = Written(row.columns, e.row.columns, e.yaml.content)
                        /\ s = Written(row.status, e.row.status, e.yaml.status)
                        /\ y = Written(row.yaml, e.row.yaml, e.yaml)
                        /\ v = e.row.current_version + 1
      OBVIOUS
<1>5. ~VersionTaken(v) /\ v \in Nat \ {0}
      BY <1>2, <1>4 DEF update_rule, EditState, RuleRow
<1>6. e.row.current_version = row.current_version /\ e.row.columns = row.columns
      BY <1>1, <1>2, <1>4, <1>5 DEF HistoryInv, EditsRead
<1>7. c = e.yaml.content /\ c \in Content
      BY <1>2, <1>4, <1>6 DEF Written, EditState, Yaml
<1>8. s \in RuleStatus /\ y \in Yaml
      BY <1>2, <1>3, <1>4 DEF Written, EditState, RuleRow, Yaml
<1>9. row' = [columns |-> c, status |-> s, yaml |-> y, current_version |-> v]
      BY <1>2, <1>4 DEF update_rule
<1>10. /\ row' \in RuleRow /\ row'.columns = c /\ row'.status = s /\ row'.yaml = y
       /\ row'.current_version = v
      BY <1>5, <1>7, <1>8, <1>9 DEF RuleRow
<1>11. PICK h \in [version : Nat \ {0}, content : Content] :
            h = [version |-> v, content |-> c] /\ h.version = v
      <2>1. [version |-> v, content |-> c] \in [version : Nat \ {0}, content : Content]
            BY <1>5, <1>7
      <2> QED BY <2>1
<1>12. versions' = versions \cup {h}
      BY <1>2, <1>4, <1>7, <1>11 DEF update_rule
<1>13. Stored'
      BY <1>10, RuleTypes DEF Stored
<1>14. edit'[d] = NoEdit /\ \A f \in Editor \ {d} : edit'[f] = edit[f]
      BY <1>1
<1>15. RulesTypeOK'
      BY <1>1, <1>10, <1>12 DEF RulesTypeOK
<1>16. EditsRead'
      <2>1. ASSUME NEW f \in Editor, edit'[f] # NoEdit
            PROVE  VersionTaken(edit[f].row.current_version + 1)'
            <3>1. edit'[f] = edit[f] /\ edit[f] # NoEdit
                  BY <1>14, <2>1
            <3>2. CASE edit[f].row.current_version = row.current_version
                  BY <1>4, <1>6, <1>11, <1>12, <3>1, <3>2 DEF VersionTaken
            <3>3. CASE VersionTaken(edit[f].row.current_version + 1)
                  BY <1>12, <3>1, <3>3 DEF VersionTaken
            <3> QED BY <3>1, <3>2, <3>3 DEF HistoryInv, EditsRead
      <2> QED BY <1>13, <2>1 DEF EditsRead
<1>17. EditsAlone'
      <2>1. ~overlapped => \A f \in Editor : edit'[f] = NoEdit
            BY <1>1, <1>14 DEF HistoryInv, EditsAlone
      <2> QED BY <1>1, <2>1 DEF EditsAlone
<1>18. VersionsAreHistory'
      <2>1. \A k, l \in versions' : k.version = l.version => k = l
            BY <1>5, <1>11, <1>12 DEF HistoryInv, VersionsAreHistory, VersionTaken
      <2>2. [version |-> row'.current_version, content |-> row'.columns] \in versions'
            BY <1>10, <1>11, <1>12
      <2>3. ASSUME ~overlapped PROVE c = y.content /\ s = y.status
            <3>1. e.row = row
                  BY <1>1, <1>2, <2>3 DEF HistoryInv, EditsAlone
            <3>2. y = e.yaml /\ s = e.yaml.status
                  BY <1>4, <3>1 DEF Written
            <3> QED BY <1>7, <3>2
      <2> QED BY <1>1, <1>10, <2>1, <2>2, <2>3 DEF VersionsAreHistory
<1> QED BY <1>15, <1>16, <1>17, <1>18 DEF HistoryInv

(* The rule store keeps its history straight, whoever edits at once. *)
LEMMA RulesStep ==
    ASSUME RulesTypeOK, HistoryInv, RulesNext \/ UNCHANGED ruleVars
    PROVE  RulesTypeOK' /\ HistoryInv'
<1>1. CASE UNCHANGED ruleVars
      BY <1>1 DEF ruleVars, RulesTypeOK, HistoryInv, VersionsAreHistory, EditsRead, EditsAlone, Stored, VersionTaken
<1>2. ASSUME NEW x \in Exception, add_exception(x) PROVE RulesTypeOK' /\ HistoryInv'
      BY <1>2 DEF add_exception, RulesTypeOK, HistoryInv, VersionsAreHistory, EditsRead, EditsAlone, Stored, VersionTaken
<1> QED BY <1>1, <1>2, CreateKeepsHistory, LoadKeepsHistory, AbortKeepsHistory,
           StatusKeepsHistory, UpdateKeepsHistory DEF RulesNext

-----------------------------------------------------------------------------
Phases == {"idle", "wait", "load", "evaluate", "search", "publish", "ack"}

(* A loaded rule has a content exactly if its version is not 0. *)
LEMMA RulesFields ==
    ASSUME NEW r \in Rules
    PROVE  /\ r.version \in Nat /\ r.read_at \in Nat
           /\ r.version > 0 => r.content \in Content /\ r.exceptions \subseteq Exception
BY DEF Rules

(* The fields of a task's state. *)
LEMMA TaskFields ==
    ASSUME NEW w \in TaskState
    PROVE  /\ w.phase \in Phases /\ w.event \in Event \cup {None} /\ w.since \in Nat
           /\ w.rules \in Rules /\ w.now \in Nat /\ w.age \in Int /\ w.after \in Int
           /\ w.seen \in Nat /\ w.matches \in Seq(Match)
BY DEF TaskState, Phases

(* An idle evaluation holds no matches and no rules. *)
LEMMA IdleTask ==
    /\ NoTask \in TaskState /\ NoTask.phase = "idle" /\ NoTask.matches = <<>>
    /\ NoTask.rules = NoRules /\ NoTask.since = 0
    /\ NoRules \in Rules /\ NoRules.version = 0 /\ NoRules.read_at = 0
<1>1. NoRules \in Rules /\ NoRules.version = 0 /\ NoRules.read_at = 0
      BY DEF NoRules, Rules
<1>2. <<>> \in Seq(Match)
      OBVIOUS
<1>3. /\ NoTask \in TaskState /\ NoTask.phase = "idle" /\ NoTask.matches = <<>>
      /\ NoTask.rules = NoRules /\ NoTask.since = 0
      BY <1>1, <1>2 DEF NoTask, TaskState
<1> QED BY <1>1, <1>3

(* One task moves, the others do not. *)
Moves(t, x) == task'[t] = x /\ \A s \in Task \ {t} : task'[s] = task[s]

(* A step of one evaluation to a typed state keeps them all typed. *)
LEMMA MoveTyped ==
    ASSUME TypeOK, NEW t \in Task, NEW x \in TaskState, task' = [task EXCEPT ![t] = x]
    PROVE  task' \in [Task -> TaskState] /\ Moves(t, x)
BY DEF TypeOK, Moves

(* What the type invariant says, in the form the proofs below use. *)
LEMMA WorkerTypes ==
    ASSUME TypeOK
    PROVE  /\ RulesTypeOK /\ clock \in Nat /\ MaxTime \in Nat /\ task \in [Task -> TaskState]
           /\ \A r \in Replica : cache[r].rules \in Rules /\ cache[r].loaded_at \in Int
                                 /\ cache[r].loaded_at <= clock
           /\ \A t \in Task : t[1] \in Replica
           /\ suppressed \subseteq [version : Nat \ {0}, entity : Nat, until : Nat]
           /\ Suppression \in Nat
BY DetectionConstants DEF TypeOK, Task

(* What a match says, and when it is justified. *)
LEMMA MatchBuilt ==
    ASSUME TypeOK, NEW r \in Rules, r.version > 0, NEW n \in Nat, NEW E \in SUBSET Event, NEW o \in Nat,
           NEW a \in Int, NEW m, m = build_match(r, n, E, o, a)
    PROVE  /\ m \in Match /\ m.version = r.version /\ m.entity = n /\ m.content = r.content
           /\ m.events = E /\ m.observed = o /\ m.at = clock /\ m.age = a
<1>1. r.version \in Nat \ {0} /\ r.content \in Content /\ clock \in Nat
      BY RulesFields, WorkerTypes
<1>2. PICK b \in BOOLEAN : b = (r.status = "testing")
      BY Zenon
<1>3. m = [entity |-> n, events |-> E, observed |-> o, version |-> r.version, content |-> r.content,
           dry_run |-> b, at |-> clock, age |-> a]
      BY <1>2 DEF build_match
<1> QED BY <1>1, <1>3 DEF Match

(* A bucket is finite, and what is observed of it and cited of it is typed. *)
LEMMA BucketObserved ==
    ASSUME NEW c, NEW B \in SUBSET Event
    PROVE  Observed(c, B) \in Nat /\ Newest(B) \subseteq SUBSET Event
<1>1. IsFiniteSet(B) /\ IsFiniteSet(UNION {Values[e] : e \in B})
  <2>1. UNION {Values[e] : e \in B} \subseteq UNION {Values[e] : e \in Event}
        OBVIOUS
  <2> QED BY <2>1, DetectionConstants, FS_Subset
<1>2. Cardinality(B) \in Nat /\ Cardinality(UNION {Values[e] : e \in B}) \in Nat
      BY <1>1, FS_CardinalityType
<1> QED BY <1>2 DEF Observed, Newest

(* The rules load_active_rules returns are those of the row. *)
LEMMA LoadedRules ==
    ASSUME TypeOK, NEW r, r = load_active_rules
    PROVE  /\ r \in Rules /\ r.read_at = clock
           /\ r.version > 0 => /\ Stored /\ r.version = row.current_version
                               /\ r.content = row.yaml.content
<1>1. RulesTypeOK /\ clock \in Nat
      BY WorkerTypes
<1>2. CASE Stored /\ row.status # "disabled"
      <2>1. row \in RuleRow
            BY <1>1, <1>2, RuleTypes
      <2>2. /\ row.current_version \in Nat \ {0} /\ row.yaml.content \in Content
            /\ row.status \in RuleStatus
            BY <2>1 DEF RuleRow, Yaml
      <2>3. PICK X \in SUBSET Exception : X = {x \in exceptions : ExpiresAt[x] > clock}
            BY <1>1 DEF RulesTypeOK
      <2>4. r = [version |-> row.current_version, content |-> row.yaml.content,
                 status |-> row.status, exceptions |-> X, read_at |-> clock]
            BY <1>2, <2>3 DEF load_active_rules
      <2> QED BY <1>1, <1>2, <2>2, <2>4 DEF Rules
<1>3. CASE ~(Stored /\ row.status # "disabled")
      <2>1. r = [version |-> 0, read_at |-> clock]
            BY <1>3 DEF load_active_rules
      <2> QED BY <1>1, <2>1 DEF Rules
<1> QED BY <1>2, <1>3

-----------------------------------------------------------------------------
(* The effect of each step on its task. *)
LEMMA AcceptEffect ==
    ASSUME TypeOK, NEW t \in Task, NEW e \in Event, Accept(t, e)
    PROVE  \E w \in TaskState :
             /\ task' = [task EXCEPT ![t] = w]
             /\ w.phase \in {"ack", "evaluate", "wait"} /\ w.event = e /\ w.since = clock
             /\ w.rules = NoRules /\ w.matches = <<>>
             /\ w.phase = "evaluate" => Fresh(t[1])
<1>1. PICK p : p = IF e \in Undecodable THEN "ack" ELSE IF Fresh(t[1]) THEN "evaluate" ELSE "wait"
      OBVIOUS
<1>2. p \in {"ack", "evaluate", "wait"} /\ p \in Phases /\ (p = "evaluate" => Fresh(t[1]))
      BY <1>1 DEF Phases
<1>3. PICK w : w = [NoTask EXCEPT !.event = e, !.since = clock, !.phase = p]
      OBVIOUS
<1>4. PICK c \in Nat : c = clock
      BY WorkerTypes
<1>5. task' = [task EXCEPT ![t] = w]
      BY <1>1, <1>3 DEF Accept
<1>6. /\ w \in TaskState /\ w.phase = p /\ w.event = e /\ w.since = clock
      /\ w.rules = NoRules /\ w.matches = <<>>
      BY <1>2, <1>3, <1>4, IdleTask DEF TaskState, Phases
<1> QED BY <1>2, <1>5, <1>6

(* A pass goes on with the replica's rules if they are fresh, else it waits. *)
LEMMA StartPassEffect ==
    ASSUME TypeOK, NEW t \in Task, StartPass(t)
    PROVE  \E w \in TaskState :
             /\ task' = [task EXCEPT ![t] = w]
             /\ w.phase \in {"evaluate", "wait"} /\ w.since = clock
             /\ w.rules = NoRules /\ w.matches = <<>>
             /\ w.phase = "evaluate" => Fresh(t[1])
<1>1. PICK p : p = IF Fresh(t[1]) THEN "evaluate" ELSE "wait"
      OBVIOUS
<1>2. p \in {"evaluate", "wait"} /\ p \in Phases /\ (p = "evaluate" => Fresh(t[1]))
      BY <1>1 DEF Phases
<1>3. PICK w : w = [NoTask EXCEPT !.since = clock, !.phase = p]
      OBVIOUS
<1>4. PICK c \in Nat : c = clock
      BY WorkerTypes
<1>5. task' = [task EXCEPT ![t] = w]
      BY <1>1, <1>3 DEF StartPass
<1>6. /\ w \in TaskState /\ w.phase = p /\ w.since = clock
      /\ w.rules = NoRules /\ w.matches = <<>>
      BY <1>2, <1>3, <1>4, IdleTask DEF TaskState, Phases
<1> QED BY <1>2, <1>5, <1>6

(* BeginLoad either finds the cache fresh or reads the row. *)
LEMMA BeginLoadEffect ==
    ASSUME TypeOK, NEW t \in Task, BeginLoad(t)
    PROVE  \E w \in TaskState :
             /\ task' = [task EXCEPT ![t] = w]
             /\ w.event = task[t].event /\ w.since = task[t].since
             /\ w.matches = task[t].matches
             /\ \/ w.phase = "evaluate" /\ Fresh(t[1]) /\ w.rules = task[t].rules
                \/ w.phase = "load" /\ w.rules = load_active_rules
<1>1. PICK u \in TaskState : u = task[t]
      BY WorkerTypes
<1>2. PICK r \in Rules : r = load_active_rules
      BY LoadedRules
<1>3. "evaluate" \in Phases /\ "load" \in Phases
      BY DEF Phases
<1>4. CASE Fresh(t[1])
      <2>1. PICK w : w = [u EXCEPT !.phase = "evaluate"]
            OBVIOUS
      <2>2. task' = [task EXCEPT ![t] = w]
            BY <1>1, <1>4, <2>1, WorkerTypes DEF BeginLoad, StillFresh
      <2>3. /\ w \in TaskState /\ w.phase = "evaluate" /\ w.event = u.event /\ w.since = u.since
            /\ w.rules = u.rules /\ w.matches = u.matches
            BY <1>3, <2>1 DEF TaskState
      <2> QED BY <1>1, <1>4, <2>2, <2>3
<1>5. CASE ~Fresh(t[1])
      <2>1. PICK w : w = [u EXCEPT !.phase = "load", !.rules = r]
            OBVIOUS
      <2>2. task' = [task EXCEPT ![t] = w]
            BY <1>1, <1>2, <1>5, <2>1, WorkerTypes DEF BeginLoad, StillFresh
      <2>3. /\ w \in TaskState /\ w.phase = "load" /\ w.event = u.event /\ w.since = u.since
            /\ w.rules = r /\ w.matches = u.matches
            BY <1>3, <2>1 DEF TaskState
      <2> QED BY <1>1, <1>2, <2>2, <2>3
<1> QED BY <1>4, <1>5

(* The evaluation that read the rules stores them, dated now, and goes on. *)
LEMMA FinishLoadEffect ==
    ASSUME TypeOK, NEW t \in Task, FinishLoad(t)
    PROVE  \E w \in TaskState :
             /\ task' = [task EXCEPT ![t] = w]
             /\ w.event = task[t].event /\ w.since = task[t].since
             /\ w.matches = task[t].matches /\ w.phase = "evaluate" /\ w.rules = NoRules
             /\ cache'[t[1]] = [loaded_at |-> clock, rules |-> task[t].rules]
             /\ \A r \in Replica \ {t[1]} : cache'[r] = cache[r]
             /\ cache' \in [Replica -> [loaded_at : -1..clock, rules : Rules]]
<1>1. PICK u \in TaskState : u = task[t]
      BY WorkerTypes
<1>2. "evaluate" \in Phases /\ NoRules \in Rules
      BY IdleTask DEF Phases
<1>3. PICK w : w = [u EXCEPT !.phase = "evaluate", !.rules = NoRules]
      OBVIOUS
<1>4. task' = [task EXCEPT ![t] = w]
      BY <1>1, <1>3, WorkerTypes DEF FinishLoad
<1>5. PICK c : c = [loaded_at |-> clock, rules |-> u.rules]
      OBVIOUS
<1>6. c \in [loaded_at : -1..clock, rules : Rules]
      BY <1>5, TaskFields, WorkerTypes
<1>7. cache' = [cache EXCEPT ![t[1]] = c] /\ t[1] \in Replica
      BY <1>1, <1>5, WorkerTypes DEF FinishLoad
<1>8. /\ cache'[t[1]] = c /\ \A r \in Replica \ {t[1]} : cache'[r] = cache[r]
      /\ cache' \in [Replica -> [loaded_at : -1..clock, rules : Rules]]
      BY <1>6, <1>7 DEF TypeOK
<1>9. /\ w \in TaskState /\ w.phase = "evaluate" /\ w.event = u.event /\ w.since = u.since
      /\ w.rules = NoRules /\ w.matches = u.matches
      BY <1>2, <1>3 DEF TaskState
<1> QED BY <1>1, <1>4, <1>5, <1>8, <1>9

(* Match m of rules r gets the suppression key: a new claim. *)
Claims(m, r) ==
    /\ m \in Match /\ m.at = clock /\ r.version > 0
    /\ m.version = r.version /\ m.content = r.content
    /\ Justified(m)
    /\ Suppression > 0 => Claimable(m.version, m.entity)
    /\ claim(m.version, m.entity)

(* Evaluate makes a claim of its event, or finds it not due or suppressed. *)
LEMMA EvaluateEffect ==
    ASSUME TypeOK, NEW t \in Task, Evaluate(t)
    PROVE  \E w \in TaskState :
             /\ task' = [task EXCEPT ![t] = w]
             /\ w.event = task[t].event /\ w.since = 0 /\ w.rules = NoRules
             /\ \/ /\ w.phase = "publish"
                   /\ \E m \in Match :
                        /\ w.matches = <<m>> /\ Claims(m, cache[t[1]].rules)
                        /\ m.age = task[t].since - cache[t[1]].rules.read_at
                        /\ due' = due \cup {[version |-> m.version, entity |-> m.entity, at |-> clock]}
                \/ /\ w.phase = "ack" /\ w.matches = <<>> /\ suppressed' = suppressed
                   /\ \/ due' = due
                      \/ \E v \in Nat \ {0}, n \in Nat :
                            /\ Suppression > 0 /\ ~Claimable(v, n)
                            /\ due' = due \cup {[version |-> v, entity |-> n, at |-> clock]}
<1>1. PICK u \in TaskState : u = task[t]
      BY WorkerTypes
<1>2. PICK rules \in Rules : rules = cache[t[1]].rules
      BY WorkerTypes
<1>3. PICK e \in Event \cup {None} : e = u.event
      BY TaskFields
<1>4. PICK isDue \in BOOLEAN : isDue = (/\ Executes(rules, "stream")
                                       /\ e \in Matching[rules.content]
                                       /\ ~Excepted(rules, e, clock))
      BY Zenon
<1>5. PICK fires \in BOOLEAN : fires = (isDue /\ (Suppression > 0 => Claimable(rules.version, Entity[e])))
      BY Zenon
<1>6. PICK m : m = build_match(rules, Entity[e], {e}, 1, u.since - rules.read_at)
      OBVIOUS
<1>7. PICK w : w = [NoTask EXCEPT !.event = e, !.phase = IF fires THEN "publish" ELSE "ack",
                                  !.matches = IF fires THEN <<m>> ELSE <<>>]
      OBVIOUS
<1>8. /\ task' = [task EXCEPT ![t] = w]
      /\ IF fires THEN claim(rules.version, Entity[e]) ELSE UNCHANGED suppressed
      /\ due' = IF isDue THEN due \cup {[version |-> rules.version, entity |-> Entity[e], at |-> clock]}
                ELSE due
      BY <1>1, <1>2, <1>3, <1>4, <1>5, <1>6, <1>7, Zenon DEF Evaluate
<1>9. isDue => /\ rules.version > 0 /\ rules.version \in Nat \ {0} /\ rules.content \notin Windowed
               /\ e \in Event /\ e \in Matching[rules.content] /\ Entity[e] \in Nat
      <2> SUFFICES ASSUME isDue
                   PROVE  /\ rules.version > 0 /\ rules.version \in Nat \ {0} /\ rules.content \notin Windowed
                          /\ e \in Event /\ e \in Matching[rules.content] /\ Entity[e] \in Nat
          OBVIOUS
      <2>1. Executes(rules, "stream") /\ e \in Matching[rules.content]
            BY <1>4
      <2>2. rules.version > 0 /\ rules.content \notin Windowed
            BY <2>1 DEF Executes
      <2>3. rules.version \in Nat \ {0} /\ rules.content \in Content
            BY <2>2, RulesFields
      <2> QED BY <2>1, <2>2, <2>3, DetectionConstants
<1>10. CASE fires
      <2>1. isDue /\ (Suppression > 0 => Claimable(rules.version, Entity[e]))
            BY <1>5, <1>10
      <2>2. u.since - rules.read_at \in Int
            BY TaskFields, RulesFields
      <2>3. PICK n \in Nat, E \in SUBSET Event, o \in Nat, a \in Int :
                n = Entity[e] /\ E = {e} /\ o = 1 /\ a = u.since - rules.read_at
            BY <1>9, <2>1, <2>2
      <2>4. m = build_match(rules, n, E, o, a)
            BY <1>6, <2>3
      <2>5. /\ m \in Match /\ m.version = rules.version /\ m.entity = n /\ m.content = rules.content
            /\ m.events = E /\ m.at = clock /\ m.age = a
            BY <1>9, <2>1, <2>4, MatchBuilt
      <2>6. Justified(m)
            BY <1>9, <2>1, <2>3, <2>5 DEF Justified
      <2>7. Claims(m, rules)
            BY <1>8, <1>9, <1>10, <2>1, <2>3, <2>5, <2>6 DEF Claims
      <2>8. w = [NoTask EXCEPT !.event = e, !.phase = "publish", !.matches = <<m>>]
            BY <1>7, <1>10
      <2>9. <<m>> \in Seq(Match)
            BY <2>5
      <2>10. /\ w \in TaskState /\ w.phase = "publish" /\ w.event = e /\ w.since = 0
             /\ w.rules = NoRules /\ w.matches = <<m>>
            BY <2>8, <2>9, IdleTask DEF TaskState
      <2>11. due' = due \cup {[version |-> m.version, entity |-> m.entity, at |-> clock]}
            BY <1>8, <2>1, <2>3, <2>5
      <2>12. /\ Claims(m, cache[t[1]].rules) /\ m.age = task[t].since - cache[t[1]].rules.read_at
             /\ w.event = task[t].event
            BY <1>1, <1>2, <1>3, <2>3, <2>5, <2>7, <2>10
      <2> QED BY <1>8, <2>5, <2>10, <2>11, <2>12
<1>11. CASE ~fires
      <2>1. w = [NoTask EXCEPT !.event = e, !.phase = "ack", !.matches = <<>>]
            BY <1>7, <1>11
      <2>2. <<>> \in Seq(Match)
            OBVIOUS
      <2>3. /\ w \in TaskState /\ w.phase = "ack" /\ w.event = e /\ w.since = 0
            /\ w.rules = NoRules /\ w.matches = <<>>
            BY <2>1, <2>2, IdleTask DEF TaskState
      <2>4. \/ due' = due
            \/ \E v \in Nat \ {0}, n \in Nat :
                  /\ Suppression > 0 /\ ~Claimable(v, n)
                  /\ due' = due \cup {[version |-> v, entity |-> n, at |-> clock]}
            BY <1>5, <1>8, <1>9, <1>11
      <2> QED BY <1>1, <1>3, <1>8, <1>11, <2>3, <2>4
<1> QED BY <1>10, <1>11

(* A pass searches for the windowed rule its replica has, if any. *)
LEMMA EvaluateWindowEffect ==
    ASSUME TypeOK, NEW t \in Task, EvaluateWindow(t)
    PROVE  \E w \in TaskState :
             /\ task' = [task EXCEPT ![t] = w]
             /\ w.since = 0 /\ w.matches = <<>>
             /\ \/ /\ w.phase = "search" /\ w.rules = cache[t[1]].rules /\ w.rules.version > 0
                   /\ w.rules.content \in Windowed
                   /\ w.age = task[t].since - cache[t[1]].rules.read_at
                \/ w.phase = "idle" /\ w.rules = NoRules
<1>1. PICK rules \in Rules : rules = cache[t[1]].rules
      BY WorkerTypes
<1>2. PICK a \in Int : a = task[t].since - rules.read_at
      BY WorkerTypes, TaskFields, RulesFields
<1>3. PICK c \in Nat : c = clock
      BY WorkerTypes
<1>4. CASE Executes(rules, "window")
      <2>1. PICK w : w = [NoTask EXCEPT !.phase = "search", !.rules = rules, !.now = c, !.age = a]
            OBVIOUS
      <2>2. /\ w \in TaskState /\ w.phase = "search" /\ w.since = 0 /\ w.age = a
            /\ w.rules = rules /\ w.matches = <<>>
            BY <2>1, IdleTask DEF TaskState
      <2>3. task' = [task EXCEPT ![t] = w]
            BY <1>1, <1>2, <1>3, <1>4, <2>1 DEF EvaluateWindow
      <2> QED BY <1>1, <1>2, <1>4, <2>2, <2>3 DEF Executes
<1>5. CASE ~Executes(rules, "window")
      <2>1. task' = [task EXCEPT ![t] = NoTask]
            BY <1>1, <1>5 DEF EvaluateWindow
      <2> QED BY <2>1, IdleTask
<1> QED BY <1>4, <1>5

(* A search ends, passes a bucket over, or makes a claim of it. *)
LEMMA SearchEffect ==
    ASSUME TypeOK, Working, NEW t \in Task, Search(t)
    PROVE  \E w \in TaskState :
             /\ task' = [task EXCEPT ![t] = w]
             /\ w.event = task[t].event /\ w.since = task[t].since /\ w.rules = task[t].rules
             /\ w.age = task[t].age
             /\ \/ /\ w.phase = "publish" /\ w.matches = task[t].matches /\ suppressed' = suppressed
                \/ /\ w.phase = "search" /\ w.matches = task[t].matches /\ suppressed' = suppressed
                \/ /\ w.phase = "search"
                   /\ \E m \in Match : /\ w.matches = Append(task[t].matches, m)
                                       /\ Claims(m, task[t].rules) /\ m.age = task[t].age
<1>1. PICK u \in TaskState : u = task[t]
      BY WorkerTypes
<1>2. u.phase = "search" /\ u.rules.version > 0 /\ u.rules \in Rules /\ u.rules.content \in Windowed
      BY <1>1, TaskFields DEF Search, Busy, Working
<1>3. PICK counted : counted = InWindow(u.rules, u.now)
      OBVIOUS
<1>4. PICK rest : rest = {Entity[e] : e \in counted} \cap {n \in Nat : n > u.after}
      OBVIOUS
<1>5. CASE Goto(t, "publish") /\ UNCHANGED suppressed
      <2>1. PICK w : w = [u EXCEPT !.phase = "publish"]
            OBVIOUS
      <2>2. /\ w \in TaskState /\ w.phase = "publish" /\ w.event = u.event /\ w.since = u.since
            /\ w.rules = u.rules /\ w.age = u.age /\ w.matches = u.matches
            BY <2>1 DEF TaskState
      <2>3. task' = [task EXCEPT ![t] = w]
            BY <1>1, <1>5, <2>1, WorkerTypes DEF Goto
      <2> QED BY <1>1, <1>5, <2>2, <2>3
<1> DEFINE BucketOf(n) == {e \in counted : Entity[e] = n}
           Fires(n, B) == /\ Observed(u.rules.content, B) >= Threshold
                          /\ Suppression > 0 => Claimable(u.rules.version, n)
           PassesBucket(n, B, f) ==
               /\ IF f THEN claim(u.rules.version, n) ELSE UNCHANGED suppressed
               /\ \E S \in Newest(B) :
                     task' = [task EXCEPT ![t].after = n, ![t].seen = @ + 1,
                                ![t].matches =
                                  IF f THEN Append(@, build_match(u.rules, n, S,
                                                        Observed(u.rules.content, B), u.age))
                                  ELSE @]
<1>6. ASSUME NEW entity \in rest, NEW bucket, bucket = BucketOf(entity),
             NEW fires \in BOOLEAN, fires = Fires(entity, bucket),
             PassesBucket(entity, bucket, fires)
      PROVE  \E w \in TaskState :
               /\ task' = [task EXCEPT ![t] = w]
               /\ w.event = task[t].event /\ w.since = task[t].since /\ w.rules = task[t].rules
               /\ w.age = task[t].age
               /\ \/ /\ w.phase = "search" /\ w.matches = task[t].matches /\ suppressed' = suppressed
                  \/ /\ w.phase = "search"
                     /\ \E m \in Match : /\ w.matches = Append(task[t].matches, m)
                                         /\ Claims(m, task[t].rules) /\ m.age = task[t].age
      <2>1. entity \in Nat
            BY <1>4, <1>6
      <2>2. /\ bucket \in SUBSET Event /\ u.age \in Int /\ u.seen + 1 \in Nat
            /\ u.matches \in Seq(Match)
            BY <1>3, <1>6, TaskFields DEF InWindow, TypeOK
      <2>12. PICK cited \in Newest(bucket), observed \in Nat :
                /\ observed = Observed(u.rules.content, bucket)
                /\ task' = [task EXCEPT ![t].after = entity, ![t].seen = @ + 1,
                                ![t].matches =
                                  IF fires THEN Append(@, build_match(u.rules, entity, cited,
                                                                      observed, u.age))
                                  ELSE @]
            BY <1>6, <2>2, BucketObserved
      <2>3. PICK m : m = build_match(u.rules, entity, cited, observed, u.age)
            OBVIOUS
      <2>4. PICK r \in Rules, n \in Nat, E \in SUBSET Event, a \in Int :
                r = u.rules /\ n = entity /\ E = cited /\ a = u.age
            BY <1>2, <2>1, <2>2, BucketObserved
      <2>5. /\ m \in Match /\ m.version = u.rules.version /\ m.entity = entity
            /\ m.content = u.rules.content /\ m.events = cited /\ m.observed = observed
            /\ m.at = clock /\ m.age = u.age
            <3>1. m = build_match(r, n, E, observed, a) /\ r.version > 0
                  BY <1>2, <2>3, <2>4
            <3>2. /\ m \in Match /\ m.version = r.version /\ m.entity = n /\ m.content = r.content
                  /\ m.events = E /\ m.observed = observed /\ m.at = clock /\ m.age = a
                  BY <3>1, MatchBuilt
            <3> QED BY <2>4, <3>2
      <2>6. PICK M : M = IF fires THEN Append(u.matches, m) ELSE u.matches
            OBVIOUS
      <2>7. M \in Seq(Match)
            BY <2>2, <2>5, <2>6
      <2>8. PICK w : w = [u EXCEPT !.after = entity, !.seen = u.seen + 1, !.matches = M]
            OBVIOUS
      <2>9. /\ w \in TaskState /\ w.phase = "search" /\ w.event = u.event /\ w.since = u.since
            /\ w.rules = u.rules /\ w.age = u.age /\ w.matches = M
            <3>1. PICK a1 \in Int, k \in Nat : a1 = entity /\ k = u.seen + 1
                  BY <2>1, <2>2
            <3>2. w = [u EXCEPT !.after = a1, !.seen = k, !.matches = M]
                  BY <2>8, <3>1
            <3> QED BY <1>2, <2>7, <3>2 DEF TaskState
      <2>10. task' = [task EXCEPT ![t] = w]
            BY <1>1, <2>12, <2>3, <2>6, <2>8, WorkerTypes
      <2>11. CASE fires
            <3>1. Justified(m)
                  <4>1. /\ \A e \in bucket : /\ Entity[e] = entity /\ e \in Matching[u.rules.content]
                                             /\ u.now - Duration <= Timestamp[e] /\ Timestamp[e] <= u.now
                                             /\ e \in Event
                        /\ observed >= Threshold /\ bucket \subseteq indexed
                        BY <1>3, <1>6, <2>2, <2>11, <2>12 DEF InWindow
                  <4>2. u.now \in Nat /\ Duration \in Nat /\ \A e \in Event : Timestamp[e] \in Nat
                        BY TaskFields, DetectionConstants
                  <4>3. \A e, f \in bucket : Timestamp[e] - Timestamp[f] <= Duration
                        BY <4>1, <4>2
                  <4>4. RestsOn(m, bucket)
                        BY <2>5, <2>12, <4>1, <4>3 DEF RestsOn
                  <4> QED BY <1>2, <2>5, <4>1, <4>4 DEF Justified
            <3>2. Claims(m, u.rules)
                  BY <1>2, <1>6, <2>5, <2>11, <3>1 DEF Claims
            <3>3. M = Append(u.matches, m)
                  BY <2>6, <2>11
            <3> QED BY <1>1, <2>5, <2>9, <2>10, <3>2, <3>3
      <2>13. CASE ~fires
            BY <1>1, <1>6, <2>6, <2>9, <2>10, <2>13
      <2> QED BY <2>11, <2>13
<1>7. \/ Goto(t, "publish") /\ UNCHANGED suppressed
      \/ \E entity \in rest : PassesBucket(entity, BucketOf(entity), Fires(entity, BucketOf(entity)))
      BY <1>1, <1>3, <1>4, ZenonT(90) DEF Search
<1>8. CASE \E entity \in rest : PassesBucket(entity, BucketOf(entity), Fires(entity, BucketOf(entity)))
      <2>1. PICK entity \in rest : PassesBucket(entity, BucketOf(entity), Fires(entity, BucketOf(entity)))
            BY <1>8
      <2>2. PICK bucket : bucket = BucketOf(entity)
            OBVIOUS
      <2>3. PICK fires \in BOOLEAN : fires = Fires(entity, bucket)
            BY Zenon
      <2>4. PassesBucket(entity, bucket, fires)
            BY <2>1, <2>2, <2>3, Zenon
      <2> QED BY <1>6, <2>2, <2>3, <2>4
<1> QED BY <1>5, <1>7, <1>8

(* Publishing moves one match to the topic, or is over. *)
LEMMA PublishEffect ==
    ASSUME TypeOK, NEW t \in Task, Publish(t)
    PROVE  \E w \in TaskState :
             /\ task' = [task EXCEPT ![t] = w]
             /\ w.rules \in {task[t].rules, NoRules}
             /\ \/ /\ task[t].matches = <<>> /\ w.matches = <<>> /\ detections' = detections
                   /\ \/ /\ t[2] = "stream" /\ w.phase = "ack" /\ w.event = task[t].event
                         /\ w.since = task[t].since
                      \/ t[2] # "stream" /\ w = NoTask
                \/ /\ task[t].matches # <<>> /\ w.matches = Tail(task[t].matches)
                   /\ w.phase = "publish" /\ w.event = task[t].event /\ w.since = task[t].since
                   /\ detections' = Append(detections, Head(task[t].matches))
<1>1. PICK u \in TaskState : u = task[t]
      BY WorkerTypes
<1>2. u.phase = "publish" /\ u.matches \in Seq(Match)
      BY <1>1, TaskFields DEF Publish, Busy
<1>3. CASE u.matches = <<>> /\ t[2] = "stream"
      <2>1. PICK w : w = [u EXCEPT !.phase = "ack"]
            OBVIOUS
      <2>2. /\ w \in TaskState /\ w.phase = "ack" /\ w.event = u.event /\ w.since = u.since
            /\ w.rules = u.rules /\ w.matches = u.matches
            BY <2>1 DEF TaskState
      <2>3. task' = [task EXCEPT ![t] = w] /\ detections' = detections
            BY <1>1, <1>3, <2>1, WorkerTypes DEF Publish
      <2> QED BY <1>1, <1>3, <2>2, <2>3
<1>4. CASE u.matches = <<>> /\ t[2] # "stream"
      <2>1. task' = [task EXCEPT ![t] = NoTask] /\ detections' = detections
            BY <1>1, <1>4, WorkerTypes DEF Publish
      <2> QED BY <1>1, <1>4, <2>1, IdleTask
<1>5. CASE u.matches # <<>>
      <2>1. PICK M \in Seq(Match) : M = Tail(u.matches)
            <3>1. PICK N \in Seq(Match) : N = u.matches /\ N # <<>>
                  BY <1>2, <1>5
            <3>2. Tail(N) \in Seq(Match)
                  BY <3>1
            <3> QED BY <3>1, <3>2
      <2>2. PICK w : w = [u EXCEPT !.matches = M]
            OBVIOUS
      <2>3. /\ w \in TaskState /\ w.phase = "publish" /\ w.event = u.event /\ w.since = u.since
            /\ w.rules = u.rules /\ w.matches = M
            BY <1>2, <2>2 DEF TaskState
      <2>4. task' = [task EXCEPT ![t] = w] /\ detections' = Append(detections, Head(u.matches))
            BY <1>1, <1>5, <2>1, <2>2, WorkerTypes DEF Publish
      <2> QED BY <1>1, <1>5, <2>1, <2>3, <2>4
<1> QED BY <1>3, <1>4, <1>5

(* A rule that fails in the consumer leaves the event to be acked. *)
LEMMA RuleFailsEffect ==
    ASSUME TypeOK, NEW t \in Task, RuleFails(t)
    PROVE  \E w \in TaskState :
             /\ task' = [task EXCEPT ![t] = w]
             /\ w.phase = "ack" /\ w.event = task[t].event /\ w.since = 0
             /\ w.rules = NoRules /\ w.matches = <<>>
<1>1. PICK e \in Event \cup {None} : e = task[t].event
      BY WorkerTypes, TaskFields
<1>2. PICK w : w = [NoTask EXCEPT !.event = e, !.phase = "ack"]
      OBVIOUS
<1>3. /\ w \in TaskState /\ w.phase = "ack" /\ w.event = e /\ w.since = 0
      /\ w.rules = NoRules /\ w.matches = <<>>
      BY <1>2, IdleTask DEF TaskState
<1>4. task' = [task EXCEPT ![t] = w]
      BY <1>1, <1>2 DEF RuleFails
<1> QED BY <1>1, <1>3, <1>4

(* A replica that ends leaves two idle tasks and an empty cache. *)
LEMMA CrashEffect ==
    ASSUME TypeOK, NEW r \in Replica, Crash(r)
    PROVE  /\ task' \in [Task -> TaskState]
           /\ \A t \in Task : task'[t] = IF t[1] = r THEN NoTask ELSE task[t]
           /\ cache' \in [Replica -> [loaded_at : -1..clock, rules : Rules]]
           /\ cache'[r].loaded_at = -1 /\ cache'[r].rules = NoRules
           /\ \A q \in Replica \ {r} : cache'[q] = cache[q]
<1>1. /\ task' = [t \in Task |-> IF t[1] = r THEN NoTask ELSE task[t]]
      /\ cache' = [cache EXCEPT ![r] = NotLoaded]
      BY DEF Crash
<1>2. task' \in [Task -> TaskState] /\ \A t \in Task : task'[t] = IF t[1] = r THEN NoTask ELSE task[t]
      BY <1>1, WorkerTypes, IdleTask
<1>3. NotLoaded \in [loaded_at : -1..clock, rules : Rules] /\ NotLoaded.loaded_at = -1 /\ NotLoaded.rules = NoRules
      BY WorkerTypes, IdleTask DEF NotLoaded
<1> QED BY <1>1, <1>2, <1>3 DEF TypeOK

-----------------------------------------------------------------------------
(* The keys stay keys. *)
LEMMA ClaimTyped ==
    ASSUME TypeOK, NEW m \in Match, claim(m.version, m.entity)
    PROVE  suppressed' \subseteq [version : Nat \ {0}, entity : Nat, until : Nat]
<1>1. /\ m.version \in Nat \ {0} /\ m.entity \in Nat /\ clock + Suppression \in Nat
      /\ suppressed \subseteq [version : Nat \ {0}, entity : Nat, until : Nat]
      BY WorkerTypes DEF Match
<1>2. [version |-> m.version, entity |-> m.entity, until |-> clock + Suppression]
        \in [version : Nat \ {0}, entity : Nat, until : Nat]
      BY <1>1
<1> QED BY <1>1, <1>2 DEF claim

(* Types of a step that moves one task of a worker and changes neither the *)
(* rule store nor the clock.                                               *)
LEMMA TypeOfStep ==
    ASSUME TypeOK, UNCHANGED <<ruleVars, scenario>>,
           clock' \in clock..MaxTime,
           cache' \in [Replica -> [loaded_at : -1..clock', rules : Rules]],
           task' \in [Task -> TaskState],
           acked' \subseteq taken', taken' \subseteq Event, deadletter' \subseteq Event,
           indexed' \subseteq Event,
           suppressed' \subseteq [version : Nat \ {0}, entity : Nat, until : Nat],
           detections' \in Seq(Match),
           due' \subseteq [version : Nat \ {0}, entity : Nat, at : Nat],
           passes' \in Nat, faults' \in Nat
    PROVE  TypeOK'
<1>1. RulesTypeOK'
      BY DEF TypeOK, RulesTypeOK, ruleVars
<1>2. scenario' \in Scenario /\ clock' \in 0..MaxTime
      BY WorkerTypes DEF TypeOK
<1> QED BY <1>1, <1>2 DEF TypeOK

(* What a task may become. *)
WellPlaced(t, w) ==
    /\ t[2] = "stream" /\ w.phase # "idle" => w.event \in taken'
    /\ t[2] = "window" => w.phase # "ack"
    /\ w.phase = "search" => w.rules.version > 0 /\ w.rules.content \in Windowed
    /\ w.phase \notin {"search", "publish"} => w.matches = <<>>

(* A move to a well placed state keeps the structure of the evaluations. *)
LEMMA MovePlaced ==
    ASSUME Base, NEW t \in Task, NEW w \in TaskState, task' = [task EXCEPT ![t] = w],
           taken \subseteq taken', WellPlaced(t, w)
    PROVE  task' \in [Task -> TaskState] /\ Working' /\ MatchesHeld'
<1>1. task' \in [Task -> TaskState] /\ task'[t] = w /\ \A s \in Task \ {t} : task'[s] = task[s]
      BY MoveTyped DEF Base, Moves
<1>2. MatchesHeld'
      BY <1>1 DEF Base, MatchesHeld, WellPlaced
<1>3. Working'
      BY <1>1 DEF Base, Working, WellPlaced, Busy
<1> QED BY <1>1, <1>2, <1>3

(* The typing and the structure of the evaluations are inductive. *)
LEMMA BaseStep == Base /\ HistoryInv /\ [Next]_vars => Base'
<1> SUFFICES ASSUME Base, HistoryInv, [Next]_vars PROVE Base'
    OBVIOUS
<1> USE DEF Base
<1>1. /\ clock \in 0..MaxTime /\ clock \in Nat /\ MaxTime \in Nat /\ clock \in clock..MaxTime
      /\ cache \in [Replica -> [loaded_at : -1..clock, rules : Rules]]
      /\ task \in [Task -> TaskState]
      /\ acked \subseteq taken /\ taken \subseteq Event /\ deadletter \subseteq Event
      /\ indexed \subseteq Event
      /\ suppressed \subseteq [version : Nat \ {0}, entity : Nat, until : Nat]
      /\ detections \in Seq(Match) /\ due \subseteq [version : Nat \ {0}, entity : Nat, at : Nat]
      /\ passes \in Nat /\ faults \in Nat
      BY WorkerTypes DEF TypeOK
<1>2. Fault => faults' \in Nat
      BY <1>1 DEF Fault
<1>3. task' = task /\ taken' = taken => Working' /\ MatchesHeld'
      BY DEF Working, MatchesHeld, Busy
<1>4. CASE UNCHANGED vars
      <2>1. UNCHANGED ruleVars /\ UNCHANGED workerVars
            BY <1>4 DEF vars
      <2>2. TypeOK'
            BY <1>1, <2>1, TypeOfStep DEF workerVars
      <2> QED BY <1>3, <2>1, <2>2 DEF workerVars
<1>5. CASE EditRules
      <2>1. RulesNext /\ UNCHANGED workerVars
            BY <1>5 DEF EditRules
      <2>2. RulesTypeOK'
            BY <2>1, RulesStep DEF TypeOK
      <2>3. TypeOK'
            BY <2>1, <2>2 DEF TypeOK, workerVars
      <2> QED BY <1>3, <2>1, <2>3 DEF workerVars
<1>6. ASSUME NEW t \in Task, NEW e \in Event, Accept(t, e) PROVE Base'
      <2>1. PICK w \in TaskState :
                /\ task' = [task EXCEPT ![t] = w]
                /\ w.phase \in {"ack", "evaluate", "wait"} /\ w.event = e /\ w.matches = <<>>
            BY <1>6, AcceptEffect
      <2>2. /\ taken' = taken \cup {e} /\ deadletter' \subseteq Event /\ t[2] = "stream"
            /\ UNCHANGED <<ruleVars, scenario, clock, cache, acked, indexed, suppressed, detections, due,
                           passes, faults>>
            BY <1>1, <1>6 DEF Accept
      <2>3. WellPlaced(t, w)
            BY <2>1, <2>2 DEF WellPlaced
      <2>4. task' \in [Task -> TaskState] /\ Working' /\ MatchesHeld'
            BY <2>1, <2>2, <2>3, MovePlaced
      <2>5. acked' \subseteq taken' /\ taken' \subseteq Event
            BY <1>1, <2>2
      <2> QED BY <1>1, <2>2, <2>4, <2>5, TypeOfStep
<1>7. ASSUME NEW t \in Task, StartPass(t) PROVE Base'
      <2>1. PICK w \in TaskState :
                /\ task' = [task EXCEPT ![t] = w]
                /\ w.phase \in {"evaluate", "wait"} /\ w.matches = <<>>
            BY <1>7, StartPassEffect
      <2>2. /\ passes' \in Nat /\ t[2] = "window"
            /\ UNCHANGED <<ruleVars, scenario, clock, cache, taken, acked, deadletter, indexed, suppressed,
                           detections, due, faults>>
            BY <1>1, <1>7 DEF StartPass
      <2>3. WellPlaced(t, w)
            BY <2>1, <2>2 DEF WellPlaced
      <2>4. task' \in [Task -> TaskState] /\ Working' /\ MatchesHeld'
            BY <2>1, <2>2, <2>3, MovePlaced
      <2> QED BY <1>1, <2>2, <2>4, TypeOfStep
<1>8. ASSUME NEW t \in Task, BeginLoad(t) PROVE Base'
      <2>1. PICK w \in TaskState :
                /\ task' = [task EXCEPT ![t] = w]
                /\ w.event = task[t].event /\ w.matches = task[t].matches
                /\ w.phase \in {"evaluate", "load"}
            BY <1>8, BeginLoadEffect
      <2>2. /\ task[t].phase = "wait"
            /\ UNCHANGED <<ruleVars, scenario, clock, cache, taken, acked, deadletter, indexed, suppressed,
                           detections, due, passes, faults>>
            BY <1>8 DEF BeginLoad, Busy
      <2>3. WellPlaced(t, w)
            BY <2>1, <2>2 DEF WellPlaced, Working, MatchesHeld, Busy
      <2>4. task' \in [Task -> TaskState] /\ Working' /\ MatchesHeld'
            BY <2>1, <2>2, <2>3, MovePlaced
      <2> QED BY <1>1, <2>2, <2>4, TypeOfStep
<1>9. ASSUME NEW t \in Task, FinishLoad(t) PROVE Base'
      <2>1. PICK w \in TaskState :
                /\ task' = [task EXCEPT ![t] = w]
                /\ w.event = task[t].event /\ w.matches = task[t].matches /\ w.phase = "evaluate"
                /\ cache' \in [Replica -> [loaded_at : -1..clock, rules : Rules]]
            BY <1>9, FinishLoadEffect
      <2>2. /\ task[t].phase = "load"
            /\ UNCHANGED <<ruleVars, scenario, clock, taken, acked, deadletter, indexed, suppressed,
                           detections, due, passes, faults>>
            BY <1>9 DEF FinishLoad, Busy
      <2>3. WellPlaced(t, w)
            BY <2>1, <2>2 DEF WellPlaced, Working, MatchesHeld, Busy
      <2>4. task' \in [Task -> TaskState] /\ Working' /\ MatchesHeld'
            BY <2>1, <2>2, <2>3, MovePlaced
      <2> QED BY <1>1, <2>1, <2>2, <2>4, TypeOfStep
<1>10. ASSUME NEW t \in Task, Evaluate(t) PROVE Base'
      <2>1. PICK w \in TaskState :
                /\ task' = [task EXCEPT ![t] = w]
                /\ w.event = task[t].event
                /\ \/ /\ w.phase = "publish"
                      /\ \E m \in Match :
                           /\ Claims(m, cache[t[1]].rules)
                           /\ due' = due \cup {[version |-> m.version, entity |-> m.entity, at |-> clock]}
                   \/ /\ w.phase = "ack" /\ w.matches = <<>> /\ suppressed' = suppressed
                      /\ \/ due' = due
                         \/ \E v \in Nat \ {0}, n \in Nat :
                              due' = due \cup {[version |-> v, entity |-> n, at |-> clock]}
            BY <1>10, EvaluateEffect
      <2>2. /\ t[2] = "stream" /\ task[t].phase = "evaluate"
            /\ UNCHANGED <<ruleVars, scenario, clock, cache, taken, acked, deadletter, indexed, detections,
                           passes, faults>>
            BY <1>10 DEF Evaluate, Busy
      <2>3. WellPlaced(t, w)
            BY <2>1, <2>2 DEF WellPlaced, Working, Busy
      <2>4. task' \in [Task -> TaskState] /\ Working' /\ MatchesHeld'
            BY <2>1, <2>2, <2>3, MovePlaced
      <2>5. suppressed' \subseteq [version : Nat \ {0}, entity : Nat, until : Nat]
            BY <1>1, <2>1, ClaimTyped DEF Claims
      <2>6. due' \subseteq [version : Nat \ {0}, entity : Nat, at : Nat]
            <3>1. \A v \in Nat \ {0}, n \in Nat :
                    [version |-> v, entity |-> n, at |-> clock] \in [version : Nat \ {0}, entity : Nat, at : Nat]
                  BY <1>1
            <3>2. \A m \in Match : m.version \in Nat \ {0} /\ m.entity \in Nat
                  BY DEF Match
            <3>3. due' = due \/ \E v \in Nat \ {0}, n \in Nat :
                        due' = due \cup {[version |-> v, entity |-> n, at |-> clock]}
                  BY <2>1, <3>2
            <3>4. CASE due' = due
                  BY <1>1, <3>4
            <3>5. CASE \E v \in Nat \ {0}, n \in Nat :
                        due' = due \cup {[version |-> v, entity |-> n, at |-> clock]}
                  <4>1. PICK v \in Nat \ {0}, n \in Nat :
                            due' = due \cup {[version |-> v, entity |-> n, at |-> clock]}
                        BY <3>5
                  <4>2. PICK d \in [version : Nat \ {0}, entity : Nat, at : Nat] :
                            d = [version |-> v, entity |-> n, at |-> clock]
                        BY <3>1
                  <4>3. due' = due \cup {d}
                        BY <4>1, <4>2
                  <4> QED BY <1>1, <4>3
            <3> QED BY <3>3, <3>4, <3>5
      <2> QED BY <1>1, <2>2, <2>4, <2>5, <2>6, TypeOfStep
<1>11. ASSUME NEW t \in Task, EvaluateWindow(t) PROVE Base'
      <2>1. PICK w \in TaskState :
                /\ task' = [task EXCEPT ![t] = w] /\ w.matches = <<>>
                /\ \/ w.phase = "search" /\ w.rules.version > 0 /\ w.rules.content \in Windowed
                   \/ w.phase = "idle"
            BY <1>11, EvaluateWindowEffect
      <2>2. /\ t[2] = "window"
            /\ UNCHANGED <<ruleVars, scenario, clock, cache, taken, acked, deadletter, indexed, suppressed,
                           detections, due, passes, faults>>
            BY <1>11 DEF EvaluateWindow
      <2>3. WellPlaced(t, w)
            BY <2>1, <2>2 DEF WellPlaced
      <2>4. task' \in [Task -> TaskState] /\ Working' /\ MatchesHeld'
            BY <2>1, <2>2, <2>3, MovePlaced
      <2> QED BY <1>1, <2>2, <2>4, TypeOfStep
<1>12. ASSUME NEW t \in Task, Search(t) PROVE Base'
      <2>1. PICK w \in TaskState :
                /\ task' = [task EXCEPT ![t] = w]
                /\ w.event = task[t].event /\ w.rules = task[t].rules
                /\ w.phase \in {"search", "publish"}
                /\ suppressed' = suppressed \/ \E m \in Match : Claims(m, task[t].rules)
            BY <1>12, SearchEffect
      <2>2. /\ task[t].phase = "search"
            /\ UNCHANGED <<ruleVars, scenario, clock, cache, taken, acked, deadletter, indexed, detections, due,
                           passes, faults>>
            BY <1>12 DEF Search, Busy
      <2>3. WellPlaced(t, w)
            BY <2>1, <2>2 DEF WellPlaced, Working, Busy
      <2>4. task' \in [Task -> TaskState] /\ Working' /\ MatchesHeld'
            BY <2>1, <2>2, <2>3, MovePlaced
      <2>5. suppressed' \subseteq [version : Nat \ {0}, entity : Nat, until : Nat]
            BY <1>1, <2>1, ClaimTyped DEF Claims
      <2> QED BY <1>1, <2>2, <2>4, <2>5, TypeOfStep
<1>13. ASSUME NEW t \in Task, Publish(t) PROVE Base'
      <2>1. PICK w \in TaskState :
                /\ task' = [task EXCEPT ![t] = w]
                /\ \/ /\ w.matches = <<>> /\ detections' = detections
                      /\ \/ t[2] = "stream" /\ w.phase = "ack" /\ w.event = task[t].event
                         \/ t[2] # "stream" /\ w = NoTask
                   \/ /\ task[t].matches # <<>> /\ w.phase = "publish" /\ w.event = task[t].event
                      /\ detections' = Append(detections, Head(task[t].matches))
            BY <1>13, PublishEffect
      <2>2. /\ task[t].phase = "publish"
            /\ UNCHANGED <<ruleVars, scenario, clock, cache, taken, acked, deadletter, indexed, suppressed,
                           due, passes, faults>>
            BY <1>13 DEF Publish, Busy
      <2>3. t[2] # "stream" => t[2] = "window"
            BY DEF Task
      <2>4. WellPlaced(t, w)
            BY <2>1, <2>2, <2>3, IdleTask DEF WellPlaced, Working, Busy
      <2>5. task' \in [Task -> TaskState] /\ Working' /\ MatchesHeld'
            BY <2>1, <2>2, <2>4, MovePlaced
      <2>6. detections' \in Seq(Match)
            <3>1. PICK N \in Seq(Match) : N = task[t].matches
                  BY <1>1, TaskFields
            <3>2. CASE N = <<>>
                  BY <1>1, <2>1, <3>1, <3>2
            <3>3. CASE N # <<>>
                  <4>1. PICK D \in Seq(Match) : D = detections
                        BY <1>1
                  <4>2. PICK h \in Match : h = Head(N)
                        BY <3>3
                  <4>3. Append(D, h) \in Seq(Match)
                        OBVIOUS
                  <4> QED BY <1>1, <2>1, <3>1, <4>1, <4>2, <4>3
            <3> QED BY <3>2, <3>3
      <2> QED BY <1>1, <2>2, <2>5, <2>6, TypeOfStep
<1>14. ASSUME NEW t \in Task, Ack(t) PROVE Base'
      <2>1. /\ task' = [task EXCEPT ![t] = NoTask] /\ task[t].phase = "ack"
            /\ acked' = acked \cup {task[t].event}
            /\ UNCHANGED <<ruleVars, scenario, clock, cache, taken, deadletter, indexed, suppressed, detections,
                           due, passes, faults>>
            BY <1>14 DEF Ack, Busy
      <2>2. t[2] = "stream" /\ task[t].event \in taken
            BY <2>1 DEF Working, Busy, Task
      <2>3. WellPlaced(t, NoTask)
            BY IdleTask DEF WellPlaced
      <2>4. task' \in [Task -> TaskState] /\ Working' /\ MatchesHeld'
            BY <2>1, <2>3, IdleTask, MovePlaced
      <2> QED BY <1>1, <2>1, <2>2, <2>4, TypeOfStep
<1>15. ASSUME NEW t \in Task, RuleFails(t) PROVE Base'
      <2>1. PICK w \in TaskState :
                /\ task' = [task EXCEPT ![t] = w]
                /\ w.phase = "ack" /\ w.event = task[t].event /\ w.matches = <<>>
            BY <1>15, RuleFailsEffect
      <2>2. /\ t[2] = "stream" /\ task[t].phase \in {"evaluate", "publish"} /\ Fault
            /\ UNCHANGED <<ruleVars, scenario, clock, cache, taken, acked, deadletter, indexed, suppressed,
                           detections, due, passes>>
            BY <1>15 DEF RuleFails, Busy
      <2>3. WellPlaced(t, w)
            BY <2>1, <2>2 DEF WellPlaced, Working, Busy
      <2>4. task' \in [Task -> TaskState] /\ Working' /\ MatchesHeld'
            BY <2>1, <2>2, <2>3, MovePlaced
      <2> QED BY <1>1, <1>2, <2>2, <2>4, TypeOfStep
<1>16. ASSUME NEW t \in Task, PassFails(t) PROVE Base'
      <2>1. /\ task' = [task EXCEPT ![t] = NoTask] /\ Fault
            /\ UNCHANGED <<ruleVars, scenario, clock, cache, taken, acked, deadletter, indexed, suppressed,
                           detections, due, passes>>
            BY <1>16 DEF PassFails
      <2>2. WellPlaced(t, NoTask)
            BY IdleTask DEF WellPlaced
      <2>3. task' \in [Task -> TaskState] /\ Working' /\ MatchesHeld'
            BY <2>1, <2>2, IdleTask, MovePlaced
      <2> QED BY <1>1, <1>2, <2>1, <2>3, TypeOfStep
<1>17. ASSUME NEW r \in Replica, Crash(r) PROVE Base'
      <2>1. /\ task' \in [Task -> TaskState]
            /\ \A t \in Task : task'[t] = IF t[1] = r THEN NoTask ELSE task[t]
            /\ cache' \in [Replica -> [loaded_at : -1..clock, rules : Rules]]
            BY <1>17, CrashEffect
      <2>2. /\ Fault
            /\ UNCHANGED <<ruleVars, scenario, clock, taken, acked, deadletter, indexed, suppressed, detections,
                           due, passes>>
            BY <1>17 DEF Crash
      <2>3. Working' /\ MatchesHeld'
            BY <2>1, <2>2, IdleTask DEF Working, MatchesHeld, Busy
      <2> QED BY <1>1, <1>2, <2>1, <2>2, <2>3, TypeOfStep
<1>18. ASSUME NEW e \in Event, Index(e) PROVE Base'
      <2>1. /\ indexed' \subseteq Event
            /\ UNCHANGED <<ruleVars, scenario, clock, cache, task, taken, acked, deadletter, suppressed,
                           detections, due, passes, faults>>
            BY <1>1, <1>18 DEF Index
      <2> QED BY <1>1, <1>3, <2>1, TypeOfStep
<1>19. CASE Tick
      <2>1. /\ clock' = clock + 1 /\ clock < MaxTime
            /\ UNCHANGED <<ruleVars, scenario, cache, task, taken, acked, deadletter, indexed, suppressed,
                           detections, due, passes, faults>>
            BY <1>19 DEF Tick
      <2>2. clock' \in clock..MaxTime /\ -1..clock \subseteq -1..clock'
            BY <1>1, <2>1
      <2>3. [loaded_at : -1..clock, rules : Rules] \subseteq [loaded_at : -1..clock', rules : Rules]
            BY <2>2
      <2>4. cache' \in [Replica -> [loaded_at : -1..clock', rules : Rules]]
            BY <1>1, <2>1, <2>3
      <2> QED BY <1>1, <1>3, <2>1, <2>2, <2>4, TypeOfStep
<1> QED BY <1>4, <1>5, <1>6, <1>7, <1>8, <1>9, <1>10, <1>11, <1>12, <1>13, <1>14, <1>15, <1>16,
           <1>17, <1>18, <1>19 DEF Next

-----------------------------------------------------------------------------
(* Every step does one of three things to the claims. It makes none, and   *)
(* only a fault discards one ...                                           *)
Drops ==
    /\ detections' = detections /\ suppressed' = suppressed
    /\ \A t \in Task : Matches'[t] \in {Matches[t], <<>>}
    /\ faults' = faults => Matches' = Matches
    /\ \A d \in due' \ due :
        d.at = clock /\ Suppression > 0 /\ ~Claimable(d.version, d.entity)

(* ... or task t makes claim m of rules r ... *)
Makes(t, m, r) ==
    /\ Claims(m, r)
    /\ \/ Busy(t, "evaluate") /\ r = cache[t[1]].rules /\ m.age = task[t].since - r.read_at
       \/ Busy(t, "search") /\ r = task[t].rules /\ m.age = task[t].age
    /\ Matches'[t] = Append(Matches[t], m)
    /\ \A s \in Task \ {t} : Matches'[s] = Matches[s]
    /\ UNCHANGED <<detections, clock, faults>>
    /\ \A d \in due' \ due : d.version = m.version /\ d.entity = m.entity /\ d.at = clock

(* ... or it publishes one. *)
Publishes(t) ==
    /\ Matches[t] # <<>> /\ Matches'[t] = Tail(Matches[t])
    /\ \A s \in Task \ {t} : Matches'[s] = Matches[s]
    /\ detections' = Append(detections, Head(Matches[t]))
    /\ UNCHANGED <<suppressed, clock, due, faults>>

(* The matches held change with the task that moves. *)
LEMMA MatchesMove ==
    ASSUME Base, NEW t \in Task, NEW w \in TaskState, task' = [task EXCEPT ![t] = w]
    PROVE  /\ Matches'[t] = w.matches /\ \A s \in Task \ {t} : Matches'[s] = Matches[s]
           /\ Matches[t] = task[t].matches
           /\ w.matches = task[t].matches => Matches' = Matches
<1>1. task'[t] = w /\ \A s \in Task \ {t} : task'[s] = task[s]
      BY MoveTyped DEF Base, Moves
<1>2. \A s \in Task : Matches[s] = task[s].matches /\ Matches'[s] = task'[s].matches
      BY DEF Matches
<1>3. w.matches = task[t].matches => \A s \in Task : task'[s].matches = task[s].matches
      BY <1>1
<1> QED BY <1>1, <1>2, <1>3 DEF Matches

(* A step that makes and publishes nothing. *)
LEMMA QuietDrops ==
    ASSUME UNCHANGED <<detections, suppressed, due>>,
           Matches' = Matches
    PROVE  Drops
<1>1. \A t \in Task : Matches'[t] = Matches[t]
      OBVIOUS
<1> QED BY <1>1 DEF Drops

(* Every step of the stage is one of these three. *)
LEMMA StepKinds ==
    ASSUME Base, [Next]_vars
    PROVE  \/ Drops
           \/ \E t \in Task, m \in Match, r \in Rules : Makes(t, m, r)
           \/ \E t \in Task : Publishes(t)
<1> USE DEF Base
<1> DEFINE Goal == \/ Drops
                   \/ \E t \in Task, m \in Match, r \in Rules : Makes(t, m, r)
                   \/ \E t \in Task : Publishes(t)
<1>1. faults \in Nat /\ TypeOK /\ Working
      BY DEF TypeOK
<1>2. ASSUME UNCHANGED <<detections, suppressed, due, task>> PROVE Drops
      <2>1. Matches' = Matches
            BY <1>2 DEF Matches
      <2> QED BY <1>2, <2>1, QuietDrops
<1>3. CASE UNCHANGED vars
      BY <1>2, <1>3 DEF vars, workerVars
<1>4. CASE EditRules
      BY <1>2, <1>4 DEF EditRules, workerVars
<1>5. ASSUME NEW t \in Task, NEW e \in Event, Accept(t, e) PROVE Drops
      <2>1. PICK w \in TaskState : task' = [task EXCEPT ![t] = w] /\ w.matches = <<>>
            BY <1>1, <1>5, AcceptEffect
      <2>2. task[t].matches = <<>> /\ UNCHANGED <<detections, suppressed, due>>
            BY <1>5 DEF Accept, Busy, MatchesHeld
      <2> QED BY <2>1, <2>2, MatchesMove, QuietDrops
<1>6. ASSUME NEW t \in Task, StartPass(t) PROVE Drops
      <2>1. PICK w \in TaskState : task' = [task EXCEPT ![t] = w] /\ w.matches = <<>>
            BY <1>1, <1>6, StartPassEffect
      <2>2. task[t].matches = <<>> /\ UNCHANGED <<detections, suppressed, due>>
            BY <1>6 DEF StartPass, Busy, MatchesHeld
      <2> QED BY <2>1, <2>2, MatchesMove, QuietDrops
<1>7. ASSUME NEW t \in Task, BeginLoad(t) PROVE Drops
      <2>1. PICK w \in TaskState : task' = [task EXCEPT ![t] = w] /\ w.matches = task[t].matches
            BY <1>1, <1>7, BeginLoadEffect
      <2>2. UNCHANGED <<detections, suppressed, due>>
            BY <1>7 DEF BeginLoad
      <2> QED BY <2>1, <2>2, MatchesMove, QuietDrops
<1>8. ASSUME NEW t \in Task, FinishLoad(t) PROVE Drops
      <2>1. PICK w \in TaskState : task' = [task EXCEPT ![t] = w] /\ w.matches = task[t].matches
            BY <1>1, <1>8, FinishLoadEffect
      <2>2. UNCHANGED <<detections, suppressed, due>>
            BY <1>8 DEF FinishLoad
      <2> QED BY <2>1, <2>2, MatchesMove, QuietDrops
<1>9. ASSUME NEW t \in Task, Evaluate(t) PROVE Goal
      <2>1. PICK w \in TaskState :
             /\ task' = [task EXCEPT ![t] = w]
             /\ \/ /\ w.phase = "publish"
                   /\ \E m \in Match :
                        /\ w.matches = <<m>> /\ Claims(m, cache[t[1]].rules)
                        /\ m.age = task[t].since - cache[t[1]].rules.read_at
                        /\ due' = due \cup {[version |-> m.version, entity |-> m.entity, at |-> clock]}
                \/ /\ w.phase = "ack" /\ w.matches = <<>> /\ suppressed' = suppressed
                   /\ \/ due' = due
                      \/ \E v \in Nat \ {0}, n \in Nat :
                            /\ Suppression > 0 /\ ~Claimable(v, n)
                            /\ due' = due \cup {[version |-> v, entity |-> n, at |-> clock]}
            BY <1>1, <1>9, EvaluateEffect
      <2>2. /\ task[t].phase = "evaluate" /\ task[t].matches = <<>>
            /\ UNCHANGED <<detections, clock, faults>>
            BY <1>9 DEF Evaluate, Busy, MatchesHeld
      <2>3. /\ Matches'[t] = w.matches /\ \A s \in Task \ {t} : Matches'[s] = Matches[s]
            /\ Matches[t] = <<>> /\ (w.matches = <<>> => Matches' = Matches)
            BY <2>1, <2>2, MatchesMove
      <2>4. CASE w.phase = "publish"
            <3>1. PICK m \in Match :
                    /\ w.matches = <<m>> /\ Claims(m, cache[t[1]].rules)
                    /\ m.age = task[t].since - cache[t[1]].rules.read_at
                    /\ due' = due \cup {[version |-> m.version, entity |-> m.entity, at |-> clock]}
                  BY <2>1, <2>4
            <3>2. Append(<<>>, m) = <<m>>
                  OBVIOUS
            <3>3. PICK r \in Rules : r = cache[t[1]].rules
                  BY <1>1, WorkerTypes
            <3>4. \A d \in due' \ due : d.version = m.version /\ d.entity = m.entity /\ d.at = clock
                  BY <3>1
            <3>5. Makes(t, m, r)
                  BY <2>2, <2>3, <3>1, <3>2, <3>3, <3>4 DEF Makes, Busy
            <3> QED BY <3>5
      <2>5. CASE w.phase = "ack"
            <3>1. w.matches = <<>> /\ suppressed' = suppressed /\ Matches' = Matches
                  BY <2>1, <2>3, <2>5
            <3>2. \A s \in Task : Matches'[s] = Matches[s]
                  BY <3>1
            <3>3. ASSUME NEW d \in due' \ due
                  PROVE  d.at = clock /\ Suppression > 0 /\ ~Claimable(d.version, d.entity)
                  <4>1. PICK v \in Nat \ {0}, n \in Nat :
                            /\ Suppression > 0 /\ ~Claimable(v, n)
                            /\ due' = due \cup {[version |-> v, entity |-> n, at |-> clock]}
                        BY <2>1, <2>5, <3>3
                  <4>2. d.version = v /\ d.entity = n /\ d.at = clock
                        BY <3>3, <4>1
                  <4> QED BY <4>1, <4>2
            <3>4. Drops
                  BY <2>2, <3>1, <3>2, <3>3 DEF Drops
            <3> QED BY <3>4
      <2> QED BY <2>1, <2>4, <2>5
<1>10. ASSUME NEW t \in Task, EvaluateWindow(t) PROVE Drops
      <2>1. PICK w \in TaskState : task' = [task EXCEPT ![t] = w] /\ w.matches = <<>>
            BY <1>1, <1>10, EvaluateWindowEffect
      <2>2. task[t].matches = <<>> /\ UNCHANGED <<detections, suppressed, due>>
            BY <1>10 DEF EvaluateWindow, Busy, MatchesHeld
      <2> QED BY <2>1, <2>2, MatchesMove, QuietDrops
<1>11. ASSUME NEW t \in Task, Search(t) PROVE Goal
      <2>1. PICK w \in TaskState :
             /\ task' = [task EXCEPT ![t] = w]
             /\ \/ w.matches = task[t].matches /\ suppressed' = suppressed
                \/ \E m \in Match : /\ w.matches = Append(task[t].matches, m)
                                    /\ Claims(m, task[t].rules) /\ m.age = task[t].age
            BY <1>1, <1>11, SearchEffect
      <2>2. Busy(t, "search") /\ UNCHANGED <<detections, clock, faults, due>>
            BY <1>11 DEF Search
      <2>3. /\ Matches'[t] = w.matches /\ \A s \in Task \ {t} : Matches'[s] = Matches[s]
            /\ Matches[t] = task[t].matches /\ (w.matches = task[t].matches => Matches' = Matches)
            BY <2>1, MatchesMove
      <2>4. CASE w.matches = task[t].matches /\ suppressed' = suppressed
            BY <2>2, <2>3, <2>4, QuietDrops
      <2>5. ASSUME NEW m \in Match, w.matches = Append(task[t].matches, m),
                   Claims(m, task[t].rules), m.age = task[t].age
            PROVE  Goal
            <3>1. PICK r \in Rules : r = task[t].rules
                  BY <1>1, WorkerTypes, TaskFields
            <3>2. Makes(t, m, r)
                  BY <2>2, <2>3, <2>5, <3>1 DEF Makes
            <3> QED BY <3>2
      <2> QED BY <2>1, <2>4, <2>5
<1>12. ASSUME NEW t \in Task, Publish(t) PROVE Goal
      <2>1. PICK w \in TaskState :
             /\ task' = [task EXCEPT ![t] = w]
             /\ \/ task[t].matches = <<>> /\ w.matches = <<>> /\ detections' = detections
                \/ /\ task[t].matches # <<>> /\ w.matches = Tail(task[t].matches)
                   /\ detections' = Append(detections, Head(task[t].matches))
            BY <1>1, <1>12, PublishEffect
      <2>2. UNCHANGED <<suppressed, clock, due, faults>>
            BY <1>12 DEF Publish
      <2>3. /\ Matches'[t] = w.matches /\ \A s \in Task \ {t} : Matches'[s] = Matches[s]
            /\ Matches[t] = task[t].matches /\ (w.matches = task[t].matches => Matches' = Matches)
            BY <2>1, MatchesMove
      <2>4. CASE task[t].matches = <<>>
            BY <2>1, <2>2, <2>3, <2>4, QuietDrops
      <2>5. CASE task[t].matches # <<>>
            BY <2>1, <2>2, <2>3, <2>5 DEF Publishes
      <2> QED BY <2>4, <2>5
<1>13. ASSUME NEW t \in Task, Ack(t) PROVE Drops
      <2>1. task' = [task EXCEPT ![t] = NoTask] /\ UNCHANGED <<detections, suppressed, due>>
            BY <1>13 DEF Ack
      <2>2. task[t].matches = <<>>
            BY <1>13 DEF Ack, Busy, MatchesHeld
      <2>3. PICK w \in TaskState : w = NoTask /\ w.matches = <<>>
            BY IdleTask
      <2>4. task' = [task EXCEPT ![t] = w] /\ w.matches = task[t].matches
            BY <2>1, <2>2, <2>3
      <2>5. Matches' = Matches
            BY <2>4, MatchesMove
      <2> QED BY <2>1, <2>5, QuietDrops
<1>14. ASSUME NEW t \in Task, NEW w \in TaskState, task' = [task EXCEPT ![t] = w], w.matches = <<>>,
              Fault, UNCHANGED <<detections, suppressed, due>>
       PROVE  Drops
      <2>1. Matches'[t] = <<>> /\ \A s \in Task \ {t} : Matches'[s] = Matches[s]
            BY <1>14, MatchesMove
      <2>2. \A s \in Task : Matches'[s] \in {Matches[s], <<>>}
            BY <2>1
      <2>3. faults' # faults
            BY <1>1, <1>14 DEF Fault
      <2> QED BY <1>14, <2>2, <2>3 DEF Drops
<1>15. ASSUME NEW t \in Task, RuleFails(t) PROVE Drops
      <2>1. PICK w \in TaskState : task' = [task EXCEPT ![t] = w] /\ w.matches = <<>>
            BY <1>1, <1>15, RuleFailsEffect
      <2> QED BY <1>14, <1>15, <2>1 DEF RuleFails
<1>16. ASSUME NEW t \in Task, PassFails(t) PROVE Drops
      BY <1>14, <1>16, IdleTask DEF PassFails
<1>17. ASSUME NEW q \in Replica, Crash(q) PROVE Drops
      <2>1. \A t \in Task : task'[t] = IF t[1] = q THEN NoTask ELSE task[t]
            BY <1>1, <1>17, CrashEffect
      <2>2. \A s \in Task : Matches'[s] \in {Matches[s], <<>>}
            BY <2>1, IdleTask DEF Matches
      <2>3. faults' # faults /\ UNCHANGED <<detections, suppressed, due>>
            BY <1>1, <1>17 DEF Fault, Crash
      <2> QED BY <2>2, <2>3 DEF Drops
<1>18. ASSUME NEW e \in Event, Index(e) PROVE Drops
      BY <1>2, <1>18 DEF Index
<1>19. CASE Tick
      BY <1>2, <1>19 DEF Tick
<1> QED BY <1>3, <1>4, <1>5, <1>6, <1>7, <1>8, <1>9, <1>10, <1>11, <1>12, <1>13, <1>15, <1>16,
           <1>17, <1>18, <1>19 DEF Next

-----------------------------------------------------------------------------
(* What the three kinds of step do to who holds which claim, and to the    *)
(* spacing of the claims.                                                  *)
LEMMA DropHeld ==
    ASSUME NEW D, NEW M, NEW N, \A t \in Task : N[t] \in {M[t], <<>>}
    PROVE  /\ \A m : Held(D, N, m) => Held(D, M, m)
           /\ Spacing(D, M) => Spacing(D, N)
<1>1. \A t \in Task : \A i \in DOMAIN N[t] : i \in DOMAIN M[t] /\ N[t][i] = M[t][i]
      BY DOMAIN <<>> = {}
<1>2. \A m : Held(D, N, m) => Held(D, M, m)
      BY <1>1 DEF Held
<1>3. Spacing(D, M) => Spacing(D, N)
      BY <1>1 DEF Spacing
<1> QED BY <1>2, <1>3

(* Apart is symmetric. *)
LEMMA ApartSymmetric ==
    ASSUME NEW m, NEW n, Apart(m, n) PROVE Apart(n, m)
BY DEF Apart

(* A new claim that is apart from all others. *)
LEMMA AppendHeld ==
    ASSUME NEW D \in Seq(Match), NEW M, NEW N, NEW t \in Task, NEW m \in Match,
           \A s \in Task : M[s] \in Seq(Match),
           N[t] = Append(M[t], m), \A s \in Task \ {t} : N[s] = M[s]
    PROVE  /\ \A n : Held(D, N, n) <=> Held(D, M, n) \/ n = m
           /\ Spacing(D, M) /\ (\A n \in Match : Held(D, M, n) => Apart(m, n)) => Spacing(D, N)
<1>1. PICK S \in Seq(Match) : S = M[t]
      OBVIOUS
<1>2. PICK T : T = Append(S, m)
      OBVIOUS
<1>3. /\ DOMAIN T = DOMAIN S \cup {Len(S) + 1} /\ Len(S) + 1 \notin DOMAIN S
      /\ T[Len(S) + 1] = m /\ \A i \in DOMAIN S : T[i] = S[i]
      BY <1>1, <1>2
<1>4. PICK k : k = Len(S) + 1
      OBVIOUS
<1>5. N[t] = T
      BY <1>1, <1>2
<1>6. \A s \in Task : \A i : i \in DOMAIN N[s] <=> i \in DOMAIN M[s] \/ (s = t /\ i = k)
      BY <1>1, <1>3, <1>4, <1>5
<1>7. /\ \A s \in Task : \A i \in DOMAIN M[s] : N[s][i] = M[s][i] /\ ~(s = t /\ i = k)
      /\ N[t][k] = m
      BY <1>1, <1>3, <1>4, <1>5
<1>8. \A n : Held(D, N, n) <=> Held(D, M, n) \/ n = m
      <2>1. ASSUME NEW n, Held(D, N, n) PROVE Held(D, M, n) \/ n = m
            BY <1>6, <1>7, <2>1 DEF Held
      <2>2. ASSUME NEW n, Held(D, M, n) PROVE Held(D, N, n)
            BY <1>6, <1>7, <2>2 DEF Held
      <2>3. Held(D, N, m)
            <3>1. k \in DOMAIN N[t]
                  BY <1>6
            <3> QED BY <1>7, <3>1 DEF Held
      <2> QED BY <2>1, <2>2, <2>3
<1>9. ASSUME Spacing(D, M), \A n \in Match : Held(D, M, n) => Apart(m, n)
      PROVE  Spacing(D, N)
      <2>1. \A j \in DOMAIN D : D[j] \in Match /\ Held(D, M, D[j])
            BY DEF Held
      <2>2. \A s \in Task : \A i \in DOMAIN M[s] : M[s][i] \in Match /\ Held(D, M, M[s][i])
            BY DEF Held
      <2>3. \A j \in DOMAIN D : Apart(m, D[j])
            BY <1>9, <2>1
      <2>4. \A s \in Task : \A i \in DOMAIN M[s] : Apart(m, M[s][i]) /\ Apart(M[s][i], m)
            BY <1>9, <2>2, ApartSymmetric
      <2>5. \A s \in Task : \A i \in DOMAIN N[s] : \A j \in DOMAIN D : Apart(N[s][i], D[j])
            BY <1>6, <1>7, <1>9, <2>3 DEF Spacing
      <2>6. ASSUME NEW s \in Task, NEW u \in Task, NEW i \in DOMAIN N[s], NEW j \in DOMAIN N[u],
                   s # u \/ i # j
            PROVE  Apart(N[s][i], N[u][j])
            <3>1. CASE s = t /\ i = k
                  BY <1>6, <1>7, <2>4, <2>6, <3>1
            <3>2. CASE u = t /\ j = k
                  BY <1>6, <1>7, <2>4, <2>6, <3>2
            <3>3. CASE ~(s = t /\ i = k) /\ ~(u = t /\ j = k)
                  BY <1>6, <1>7, <1>9, <2>6, <3>3 DEF Spacing
            <3> QED BY <3>1, <3>2, <3>3
      <2> QED BY <1>9, <2>5, <2>6 DEF Spacing
<1> QED BY <1>8, <1>9

(* A claim that is published is one still, and as far from the others. *)
LEMMA MoveHeld ==
    ASSUME NEW D \in Seq(Match), NEW M, NEW N, NEW t \in Task,
           \A s \in Task : M[s] \in Seq(Match),
           M[t] # <<>>, N[t] = Tail(M[t]), \A s \in Task \ {t} : N[s] = M[s]
    PROVE  /\ \A n : Held(Append(D, Head(M[t])), N, n) <=> Held(D, M, n)
           /\ Spacing(D, M) => Spacing(Append(D, Head(M[t])), N)
<1>1. PICK S \in Seq(Match) : S = M[t] /\ S # <<>>
      OBVIOUS
<1>2. PICK h \in Match : h = Head(S) /\ h = S[1] /\ 1 \in DOMAIN S
      BY <1>1
<1>3. PICK T : T = Tail(S)
      OBVIOUS
<1>4. /\ \A i \in DOMAIN T : i + 1 \in DOMAIN S /\ T[i] = S[i + 1] /\ i + 1 # 1 /\ i \in Nat
      /\ \A i \in DOMAIN S : i = 1 \/ (i - 1 \in DOMAIN T /\ T[i - 1] = S[i])
      BY <1>1, <1>3
<1>5. PICK E, k : E = Append(D, h) /\ k = Len(D) + 1
      OBVIOUS
<1>6. /\ DOMAIN E = DOMAIN D \cup {k} /\ E[k] = h /\ k \notin DOMAIN D
      /\ \A i \in DOMAIN D : E[i] = D[i]
      BY <1>5
<1>7. /\ E = Append(D, Head(M[t])) /\ N[t] = T /\ S = M[t]
      /\ \A s \in Task \ {t} : N[s] = M[s]
      BY <1>1, <1>2, <1>3, <1>5
<1>8. \A n : Held(E, N, n) <=> Held(D, M, n)
      <2>1. ASSUME NEW n, Held(E, N, n) PROVE Held(D, M, n)
            BY <1>2, <1>4, <1>6, <1>7, <2>1 DEF Held
      <2>2. ASSUME NEW n, Held(D, M, n) PROVE Held(E, N, n)
            <3>1. CASE \E i \in DOMAIN D : n = D[i]
                  BY <1>6, <3>1 DEF Held
            <3>2. ASSUME NEW s \in Task, NEW i \in DOMAIN M[s], n = M[s][i] PROVE Held(E, N, n)
                  <4>1. CASE s # t
                        BY <1>7, <3>2, <4>1 DEF Held
                  <4>2. CASE s = t /\ i = 1
                        BY <1>2, <1>6, <1>7, <3>2, <4>2 DEF Held
                  <4>3. CASE s = t /\ i # 1
                        BY <1>4, <1>7, <3>2, <4>3 DEF Held
                  <4> QED BY <4>1, <4>2, <4>3
            <3> QED BY <2>2, <3>1, <3>2 DEF Held
      <2> QED BY <2>1, <2>2
<1>9. ASSUME Spacing(D, M) PROVE Spacing(E, N)
      <2>1. \A i \in DOMAIN T : Apart(S[i + 1], h) /\ Apart(h, S[i + 1])
            BY <1>2, <1>4, <1>7, <1>9 DEF Spacing
      <2>2. \A j \in DOMAIN D : Apart(h, D[j]) /\ Apart(D[j], h)
            BY <1>2, <1>7, <1>9, ApartSymmetric DEF Spacing
      <2>3. ASSUME NEW i \in DOMAIN E, NEW j \in DOMAIN E, i # j PROVE Apart(E[i], E[j])
            BY <1>6, <1>9, <2>2, <2>3 DEF Spacing
      <2>4. ASSUME NEW s \in Task, NEW i \in DOMAIN N[s], NEW j \in DOMAIN E PROVE Apart(N[s][i], E[j])
            <3>1. CASE s = t
                  BY <1>4, <1>6, <1>7, <1>9, <2>1, <2>4, <3>1 DEF Spacing
            <3>2. CASE s # t
                  BY <1>2, <1>6, <1>7, <1>9, <2>4, <3>2 DEF Spacing
            <3> QED BY <3>1, <3>2
      <2>5. ASSUME NEW s \in Task, NEW u \in Task, NEW i \in DOMAIN N[s], NEW j \in DOMAIN N[u],
                   s # u \/ i # j
            PROVE  Apart(N[s][i], N[u][j])
            <3>1. CASE s = t /\ u = t
                  <4>1. i + 1 # j + 1
                        BY <1>4, <1>7, <2>5, <3>1
                  <4> QED BY <1>4, <1>7, <1>9, <2>5, <3>1, <4>1 DEF Spacing
            <3>2. CASE s = t /\ u # t
                  <4>1. i + 1 \in DOMAIN M[s] /\ N[s][i] = M[s][i + 1] /\ j \in DOMAIN M[u] /\ N[u][j] = M[u][j]
                        BY <1>4, <1>7, <2>5, <3>2
                  <4>2. Apart(M[s][i + 1], M[u][j])
                        BY <1>9, <3>2, <4>1 DEF Spacing
                  <4> QED BY <4>1, <4>2
            <3>3. CASE s # t /\ u = t
                  <4>1. j + 1 \in DOMAIN M[u] /\ N[u][j] = M[u][j + 1] /\ i \in DOMAIN M[s] /\ N[s][i] = M[s][i]
                        BY <1>4, <1>7, <2>5, <3>3
                  <4>2. Apart(M[s][i], M[u][j + 1])
                        BY <1>9, <3>3, <4>1 DEF Spacing
                  <4> QED BY <4>1, <4>2
            <3>4. CASE s # t /\ u # t
                  BY <1>7, <1>9, <2>5, <3>4 DEF Spacing
            <3> QED BY <3>1, <3>2, <3>3, <3>4
      <2> QED BY <2>3, <2>4, <2>5 DEF Spacing
<1> QED BY <1>7, <1>8, <1>9

(* A claim after the step is one before it or the one the step makes.      *)
(* Without faults none is lost.                                            *)
LEMMA ClaimsStep ==
    ASSUME Base, [Next]_vars
    PROVE  /\ \A n : IsClaim(n)' =>
                \/ IsClaim(n)
                \/ \E t \in Task, r \in Rules : Makes(t, n, r)
           /\ faults' = faults => \A n : IsClaim(n) => IsClaim(n)'
<1>1. detections \in Seq(Match) /\ \A s \in Task : Matches[s] \in Seq(Match)
      BY WorkerTypes, TaskFields DEF Base, TypeOK, Matches
<1>2. PICK D, M, E, N : D = detections /\ M = Matches /\ E = detections' /\ N = Matches'
      OBVIOUS
<1>3. \A n : (IsClaim(n) <=> Held(D, M, n)) /\ (IsClaim(n)' <=> Held(E, N, n))
      BY <1>2 DEF IsClaim
<1>4. CASE Drops
      <2>1. /\ E = D /\ \A t \in Task : N[t] \in {M[t], <<>>}
            /\ faults' = faults => N = M
            BY <1>2, <1>4 DEF Drops
      <2>2. \A n : Held(E, N, n) => Held(D, M, n)
            BY <2>1, DropHeld
      <2> QED BY <1>3, <2>1, <2>2
<1>5. ASSUME NEW t \in Task, NEW m \in Match, NEW r \in Rules, Makes(t, m, r)
      PROVE  /\ \A n : IsClaim(n)' => IsClaim(n) \/ n = m
             /\ \A n : IsClaim(n) => IsClaim(n)'
      <2>1. E = D /\ N[t] = Append(M[t], m) /\ \A s \in Task \ {t} : N[s] = M[s]
            BY <1>2, <1>5 DEF Makes
      <2>2. \A n : Held(D, N, n) <=> Held(D, M, n) \/ n = m
            BY <1>1, <1>2, <2>1, AppendHeld
      <2> QED BY <1>3, <2>1, <2>2
<1>6. ASSUME NEW t \in Task, Publishes(t) PROVE \A n : IsClaim(n)' <=> IsClaim(n)
      <2>1. /\ E = Append(D, Head(M[t])) /\ M[t] # <<>>
            /\ N[t] = Tail(M[t]) /\ \A s \in Task \ {t} : N[s] = M[s]
            BY <1>2, <1>6 DEF Publishes
      <2>2. \A n : Held(E, N, n) <=> Held(D, M, n)
            BY <1>1, <1>2, <2>1, MoveHeld
      <2> QED BY <1>3, <2>2
<1>7. CASE \E t \in Task, m \in Match, r \in Rules : Makes(t, m, r)
      BY <1>5, <1>7
<1> QED BY <1>4, <1>6, <1>7, StepKinds

-----------------------------------------------------------------------------
(* Only edits write to the rule store, and only faults use faults up. *)
LEMMA Frame ==
    ASSUME Base, [Next]_vars
    PROVE  /\ RulesNext \/ UNCHANGED ruleVars
           /\ scenario' = scenario
           /\ clock' = clock \/ clock' = clock + 1
           /\ faults' = faults \/ faults' = faults - 1
           /\ indexed \subseteq indexed'
<1> DEFINE Goal == /\ RulesNext \/ UNCHANGED ruleVars
                   /\ scenario' = scenario
                   /\ clock' = clock \/ clock' = clock + 1
                   /\ faults' = faults \/ faults' = faults - 1
                   /\ indexed \subseteq indexed'
<1>1. CASE UNCHANGED vars
      BY <1>1 DEF vars, workerVars
<1>2. CASE EditRules
      BY <1>2 DEF EditRules, workerVars
<1>3. ASSUME NEW t \in Task, NEW e \in Event, Accept(t, e) PROVE Goal
      BY <1>3 DEF Accept
<1>4. ASSUME NEW t \in Task,
             StartPass(t) \/ BeginLoad(t) \/ FinishLoad(t) \/ EvaluateWindow(t) \/ Publish(t) \/ Ack(t)
      PROVE  Goal
      BY <1>4 DEF StartPass, BeginLoad, FinishLoad, EvaluateWindow, Publish, Ack
<1>5. ASSUME NEW t \in Task, Evaluate(t) \/ Search(t) PROVE Goal
      BY <1>5 DEF Evaluate, Search
<1>6. ASSUME NEW t \in Task, RuleFails(t) \/ PassFails(t) PROVE Goal
      BY <1>6 DEF RuleFails, PassFails, Fault
<1>7. ASSUME NEW r \in Replica, Crash(r) PROVE Goal
      BY <1>7 DEF Crash, Fault
<1>8. ASSUME NEW e \in Event, Index(e) PROVE Goal
      BY <1>8 DEF Index
<1>9. CASE Tick
      BY <1>9 DEF Tick
<1> QED BY <1>1, <1>2, <1>3, <1>4, <1>5, <1>6, <1>7, <1>8, <1>9 DEF Next

(* The history only grows, and an overlap is not forgotten. *)
LEMMA HistoryGrows ==
    ASSUME RulesNext \/ UNCHANGED ruleVars
    PROVE  versions \subseteq versions' /\ (overlapped => overlapped')
<1>1. CASE UNCHANGED ruleVars
      BY <1>1 DEF ruleVars
<1>2. ASSUME NEW y \in Submitted, NEW v \in FirstVersion, create_rule(y, v)
      PROVE  versions \subseteq versions' /\ (overlapped => overlapped')
      BY <1>2 DEF create_rule
<1>3. ASSUME NEW d \in Editor, NEW k \in {"update", "status"}, NEW y \in Yaml, LoadRule(d, k, y)
      PROVE  versions \subseteq versions' /\ (overlapped => overlapped')
      BY <1>3 DEF LoadRule
<1>4. ASSUME NEW d \in Editor, update_rule(d) \/ set_rule_status(d) \/ AbortEdit(d)
      PROVE  versions \subseteq versions' /\ (overlapped => overlapped')
      BY <1>4 DEF update_rule, set_rule_status, AbortEdit
<1>5. ASSUME NEW x \in Exception, add_exception(x)
      PROVE  versions \subseteq versions' /\ (overlapped => overlapped')
      BY <1>5 DEF add_exception
<1> QED BY <1>1, <1>2, <1>3, <1>4, <1>5 DEF RulesNext

(* Where the rules of a cache and of a task come from. *)
Origin(x) ==
    \/ x = NoRules
    \/ x = load_active_rules
    \/ \E r \in Replica : x = cache[r].rules
    \/ \E t \in Task : x = task[t].rules

(* A replica never invents rules: it keeps a copy it had, or reads the table. *)
LEMMA RulesFlow ==
    ASSUME Base, [Next]_vars
    PROVE  /\ \A r \in Replica : Origin(cache'[r].rules)
           /\ \A t \in Task : Origin(task'[t].rules)
<1> USE DEF Base
<1> DEFINE Goal == /\ \A r \in Replica : Origin(cache'[r].rules)
                   /\ \A t \in Task : Origin(task'[t].rules)
<1>1. TypeOK /\ Working
      OBVIOUS
<1>2. cache' = cache => \A r \in Replica : Origin(cache'[r].rules)
      BY DEF Origin
<1>3. task' = task => \A t \in Task : Origin(task'[t].rules)
      BY DEF Origin
<1>4. ASSUME NEW t \in Task, NEW w \in TaskState, task' = [task EXCEPT ![t] = w], Origin(w.rules)
      PROVE  \A s \in Task : Origin(task'[s].rules)
      <2>1. task'[t] = w /\ \A s \in Task \ {t} : task'[s] = task[s]
            BY <1>1, <1>4, MoveTyped DEF Moves
      <2> QED BY <1>4, <2>1 DEF Origin
<1>5. CASE UNCHANGED vars
      BY <1>2, <1>3, <1>5 DEF vars, workerVars
<1>6. CASE EditRules
      BY <1>2, <1>3, <1>6 DEF EditRules, workerVars
<1>7. ASSUME NEW t \in Task, NEW e \in Event, Accept(t, e) PROVE Goal
      <2>1. PICK w \in TaskState : task' = [task EXCEPT ![t] = w] /\ w.rules = NoRules
            BY <1>1, <1>7, AcceptEffect
      <2>2. cache' = cache /\ Origin(w.rules)
            BY <1>7, <2>1 DEF Accept, Origin
      <2> QED BY <1>2, <1>4, <2>1, <2>2
<1>8. ASSUME NEW t \in Task, StartPass(t) PROVE Goal
      <2>1. PICK w \in TaskState : task' = [task EXCEPT ![t] = w] /\ w.rules = NoRules
            BY <1>1, <1>8, StartPassEffect
      <2>2. cache' = cache /\ Origin(w.rules)
            BY <1>8, <2>1 DEF StartPass, Origin
      <2> QED BY <1>2, <1>4, <2>1, <2>2
<1>9. ASSUME NEW t \in Task, BeginLoad(t) PROVE Goal
      <2>1. PICK w \in TaskState : /\ task' = [task EXCEPT ![t] = w]
                                   /\ w.rules = task[t].rules \/ w.rules = load_active_rules
            BY <1>1, <1>9, BeginLoadEffect
      <2>2. cache' = cache /\ Origin(w.rules)
            BY <1>9, <2>1 DEF BeginLoad, Origin
      <2> QED BY <1>2, <1>4, <2>1, <2>2
<1>10. ASSUME NEW t \in Task, FinishLoad(t) PROVE Goal
      <2>1. PICK w \in TaskState :
                /\ task' = [task EXCEPT ![t] = w] /\ w.rules = NoRules
                /\ cache'[t[1]] = [loaded_at |-> clock, rules |-> task[t].rules]
                /\ \A r \in Replica \ {t[1]} : cache'[r] = cache[r]
            BY <1>1, <1>10, FinishLoadEffect
      <2>2. Origin(w.rules)
            BY <2>1 DEF Origin
      <2>3. cache'[t[1]].rules = task[t].rules
            BY <2>1
      <2>4. \A r \in Replica : Origin(cache'[r].rules)
            BY <2>1, <2>3 DEF Origin
      <2> QED BY <1>4, <2>1, <2>2, <2>4
<1>11. ASSUME NEW t \in Task, Evaluate(t) PROVE Goal
      <2>1. PICK w \in TaskState : task' = [task EXCEPT ![t] = w] /\ w.rules = NoRules
            BY <1>1, <1>11, EvaluateEffect
      <2>2. cache' = cache /\ Origin(w.rules)
            BY <1>11, <2>1 DEF Evaluate, Origin
      <2> QED BY <1>2, <1>4, <2>1, <2>2
<1>12. ASSUME NEW t \in Task, EvaluateWindow(t) PROVE Goal
      <2>1. PICK w \in TaskState : /\ task' = [task EXCEPT ![t] = w]
                                   /\ w.rules = cache[t[1]].rules \/ w.rules = NoRules
            BY <1>1, <1>12, EvaluateWindowEffect
      <2>2. cache' = cache /\ Origin(w.rules)
            BY <1>1, <1>12, <2>1, WorkerTypes DEF EvaluateWindow, Origin
      <2> QED BY <1>2, <1>4, <2>1, <2>2
<1>13. ASSUME NEW t \in Task, Search(t) PROVE Goal
      <2>1. PICK w \in TaskState : task' = [task EXCEPT ![t] = w] /\ w.rules = task[t].rules
            BY <1>1, <1>13, SearchEffect
      <2>2. cache' = cache /\ Origin(w.rules)
            BY <1>13, <2>1 DEF Search, Origin
      <2> QED BY <1>2, <1>4, <2>1, <2>2
<1>14. ASSUME NEW t \in Task, Publish(t) PROVE Goal
      <2>1. PICK w \in TaskState : /\ task' = [task EXCEPT ![t] = w]
                                   /\ w.rules \in {task[t].rules, NoRules}
            BY <1>1, <1>14, PublishEffect
      <2>2. cache' = cache /\ Origin(w.rules)
            BY <1>14, <2>1 DEF Publish, Origin
      <2> QED BY <1>2, <1>4, <2>1, <2>2
<1>15. ASSUME NEW t \in Task, Ack(t) \/ PassFails(t) PROVE Goal
      <2>1. task' = [task EXCEPT ![t] = NoTask] /\ cache' = cache
            BY <1>15 DEF Ack, PassFails
      <2>2. PICK w \in TaskState : w = NoTask /\ w.rules = NoRules
            BY IdleTask
      <2>3. Origin(w.rules)
            BY <2>2 DEF Origin
      <2> QED BY <1>2, <1>4, <2>1, <2>2, <2>3
<1>16. ASSUME NEW t \in Task, RuleFails(t) PROVE Goal
      <2>1. PICK w \in TaskState : task' = [task EXCEPT ![t] = w] /\ w.rules = NoRules
            BY <1>1, <1>16, RuleFailsEffect
      <2>2. cache' = cache /\ Origin(w.rules)
            BY <1>16, <2>1 DEF RuleFails, Origin
      <2> QED BY <1>2, <1>4, <2>1, <2>2
<1>17. ASSUME NEW r \in Replica, Crash(r) PROVE Goal
      <2>1. /\ \A t \in Task : task'[t] = IF t[1] = r THEN NoTask ELSE task[t]
            /\ cache'[r].rules = NoRules
            /\ \A q \in Replica \ {r} : cache'[q] = cache[q]
            BY <1>1, <1>17, CrashEffect
      <2> QED BY <2>1, IdleTask DEF Origin
<1>18. ASSUME NEW e \in Event, Index(e) PROVE Goal
      BY <1>2, <1>3, <1>18 DEF Index
<1>19. CASE Tick
      BY <1>2, <1>3, <1>19 DEF Tick
<1> QED BY <1>5, <1>6, <1>7, <1>8, <1>9, <1>10, <1>11, <1>12, <1>13, <1>14, <1>15, <1>16,
           <1>17, <1>18, <1>19 DEF Next

(* What is known stays known, and what is loaded is known: without         *)
(* overlaps the document the engine loads is the row's current version.    *)
LEMMA ExplainedStep ==
    ASSUME Base, HistoryInv, ExplainedInv, [Next]_vars
    PROVE  ExplainedInv'
<1>1. versions \subseteq versions' /\ (overlapped => overlapped')
      BY Frame, HistoryGrows
<1> SUFFICES ASSUME ~overlapped'
             PROVE  /\ \A r \in Replica : Known(cache[r].rules)'
                    /\ \A t \in Task : Known(task[t].rules)'
                    /\ \A m \in Match : IsClaim(m)' => Known(m)'
    BY DEF ExplainedInv
<1>2. /\ \A r \in Replica : Known(cache[r].rules)
      /\ \A t \in Task : Known(task[t].rules)
      /\ \A m \in Match : IsClaim(m) => Known(m)
      BY <1>1 DEF ExplainedInv
<1>3. \A x : Known(x) => (x.version > 0 => [version |-> x.version, content |-> x.content] \in versions')
      BY <1>1 DEF Known
<1>4. Known(NoRules)
      BY IdleTask DEF Known
<1>5. Known(load_active_rules)
      <2>1. PICK r \in Rules : r = load_active_rules
            BY LoadedRules DEF Base
      <2>2. r.version > 0 => Stored /\ r.version = row.current_version /\ r.content = row.yaml.content
            BY <2>1, LoadedRules DEF Base
      <2>3. Stored => /\ row.columns = row.yaml.content
                      /\ [version |-> row.current_version, content |-> row.columns] \in versions
            BY <1>1 DEF HistoryInv, VersionsAreHistory
      <2> QED BY <2>1, <2>2, <2>3 DEF Known
<1>6. \A x : Origin(x) => Known(x)
      BY <1>2, <1>4, <1>5 DEF Origin
<1>7. \A r \in Replica : Known(cache[r].rules)'
      <2>1. \A r \in Replica : Known(cache'[r].rules)
            BY <1>6, RulesFlow
      <2> QED BY <1>3, <2>1 DEF Known
<1>8. \A t \in Task : Known(task[t].rules)'
      <2>1. \A t \in Task : Known(task'[t].rules)
            BY <1>6, RulesFlow
      <2> QED BY <1>3, <2>1 DEF Known
<1>9. ASSUME NEW m \in Match, IsClaim(m)' PROVE Known(m)'
      <2>1. CASE IsClaim(m)
            BY <1>2, <1>3, <2>1 DEF Known
      <2>2. ASSUME NEW t \in Task, NEW r \in Rules, Makes(t, m, r) PROVE Known(m)'
            <3>1. /\ m.version = r.version /\ m.content = r.content
                  /\ r = cache[t[1]].rules \/ r = task[t].rules
                  BY <2>2 DEF Makes, Claims
            <3>2. Known(r)
                  BY <1>2, <3>1, WorkerTypes DEF Base
            <3> QED BY <1>3, <3>1, <3>2 DEF Known
      <2> QED BY <1>9, <2>1, <2>2, ClaimsStep
<1> QED BY <1>7, <1>8, <1>9

(* A claim is justified when it is made, and says what it said. *)
LEMMA JustifiedStep ==
    ASSUME Base, JustifiedInv, [Next]_vars
    PROVE  JustifiedInv'
<1>1. ASSUME NEW m \in Match, IsClaim(m)' PROVE Justified(m)'
      <2>1. ASSUME IsClaim(m) PROVE Justified(m)
            BY <2>1 DEF JustifiedInv
      <2>2. ASSUME NEW t \in Task, NEW r \in Rules, Makes(t, m, r) PROVE Justified(m)
            BY <2>2 DEF Makes, Claims
      <2>3. Justified(m)
            <3>1. IsClaim(m) \/ \E t \in Task, r \in Rules : Makes(t, m, r)
                  BY <1>1, ClaimsStep, Zenon
            <3> QED BY <2>1, <2>2, <3>1
      <2>4. indexed \subseteq indexed'
            BY Frame
      <2>5. CASE m.content \in Windowed
            <3>1. PICK B \in SUBSET indexed : RestsOn(m, B)
                  BY <2>3, <2>5 DEF Justified
            <3>2. B \in SUBSET indexed' /\ RestsOn(m, B)'
                  BY <2>4, <3>1 DEF RestsOn, Observed, Newest
            <3> QED BY <2>5, <3>2 DEF Justified
      <2> QED BY <2>3, <2>5 DEF Justified
<1> QED BY <1>1 DEF JustifiedInv

-----------------------------------------------------------------------------
(* The types of a match and of a key, for arithmetic on them. *)
LEMMA MatchFields ==
    ASSUME NEW m \in Match
    PROVE  m.version \in Nat \ {0} /\ m.entity \in Nat /\ m.at \in Nat /\ m.age \in Int
BY DEF Match

(* A claim is made only when its key is not in Redis; while an earlier     *)
(* claim is within its window, its key is.                                 *)
LEMMA ClaimIsApart ==
    ASSUME Base, SpacedInv, NEW m \in Match, NEW r \in Rules, Claims(m, r),
           NEW n \in Match, IsClaim(n)
    PROVE  Apart(m, n)
<1> SUFFICES ASSUME m.version = n.version, m.entity = n.entity
             PROVE  m.at >= n.at + Suppression
    BY DEF Apart
<1>1. m.at = clock /\ clock \in Nat /\ n.at \in Nat /\ Suppression \in Nat
      BY WorkerTypes, MatchFields DEF Base, Claims
<1>2. n.at <= clock /\ (n.at + Suppression > clock => \E k \in suppressed : KeyOf(k, n))
      BY DEF SpacedInv
<1>3. CASE Suppression = 0
      BY <1>1, <1>2, <1>3
<1>4. CASE Suppression > 0
      <2> SUFFICES ASSUME n.at + Suppression > clock PROVE FALSE
          BY <1>1
      <2>1. PICK k \in suppressed : KeyOf(k, n)
            BY <1>2
      <2>2. k.until <= clock
            BY <1>4, <2>1 DEF Claims, Claimable, KeyOf
      <2> QED BY <1>1, <2>1, <2>2 DEF KeyOf
<1> QED BY <1>1, <1>3, <1>4

(* Setting a key keeps every key that has not expired. *)
LEMMA ClaimSetsKey ==
    ASSUME Base, NEW m \in Match, NEW r \in Rules, Claims(m, r)
    PROVE  /\ \A k \in suppressed : k.until > clock => k \in suppressed'
           /\ Suppression > 0 => \E k \in suppressed' : KeyOf(k, m)
           /\ \A k \in suppressed' : k \in suppressed \/ KeyOf(k, m)
<1>1. claim(m.version, m.entity) /\ m.at = clock /\ Suppression \in Nat
      BY WorkerTypes DEF Claims, Base
<1>2. PICK q : q = [version |-> m.version, entity |-> m.entity, until |-> clock + Suppression]
      OBVIOUS
<1>3. KeyOf(q, m)
      BY <1>1, <1>2 DEF KeyOf
<1>4. CASE Suppression = 0
      BY <1>1, <1>4 DEF claim
<1>5. CASE Suppression # 0
      <2>1. suppressed' = {k \in suppressed : k.until > clock} \cup {q}
            BY <1>1, <1>2, <1>5 DEF claim
      <2> QED BY <1>3, <2>1
<1> QED BY <1>4, <1>5

(* The spacing of detections by their suppression keys is inductive. *)
LEMMA SpacedStep ==
    ASSUME Base, SpacedInv, [Next]_vars
    PROVE  SpacedInv'
<1>1. /\ clock \in Nat /\ clock' \in Nat /\ clock <= clock' /\ Suppression \in Nat
      BY WorkerTypes, Frame DEF Base
<1>2. detections \in Seq(Match) /\ \A s \in Task : Matches[s] \in Seq(Match)
      BY WorkerTypes, TaskFields DEF Base, TypeOK, Matches
<1>3. PICK D, M, E, N : D = detections /\ M = Matches /\ E = detections' /\ N = Matches'
      OBVIOUS
<1>4. Spacing(D, M)
      BY <1>3 DEF SpacedInv
<1>5. ASSUME NEW m \in Match, IsClaim(m), suppressed' = suppressed
      PROVE  m.at <= clock' /\ (m.at + Suppression > clock' => \E k \in suppressed' : KeyOf(k, m))
      BY <1>1, <1>5, MatchFields DEF SpacedInv
<1>6. CASE Drops
      <2>1. E = D /\ suppressed' = suppressed /\ \A t \in Task : N[t] \in {M[t], <<>>}
            BY <1>3, <1>6 DEF Drops
      <2>2. Spacing(E, N) /\ \A m : Held(E, N, m) => Held(D, M, m)
            BY <1>4, <2>1, DropHeld
      <2>3. \A m : IsClaim(m)' => IsClaim(m)
            BY <1>3, <2>2 DEF IsClaim
      <2> QED BY <1>3, <1>5, <2>1, <2>2, <2>3 DEF SpacedInv
<1>7. ASSUME NEW t \in Task, Publishes(t) PROVE SpacedInv'
      <2>1. /\ E = Append(D, Head(M[t])) /\ suppressed' = suppressed /\ M[t] # <<>>
            /\ N[t] = Tail(M[t]) /\ \A s \in Task \ {t} : N[s] = M[s]
            BY <1>3, <1>7 DEF Publishes
      <2>2. Spacing(E, N) /\ \A m : Held(E, N, m) => Held(D, M, m)
            BY <1>2, <1>3, <1>4, <2>1, MoveHeld
      <2>3. \A m : IsClaim(m)' => IsClaim(m)
            BY <1>3, <2>2 DEF IsClaim
      <2> QED BY <1>3, <1>5, <2>1, <2>2, <2>3 DEF SpacedInv
<1>8. ASSUME NEW t \in Task, NEW m \in Match, NEW r \in Rules, Makes(t, m, r) PROVE SpacedInv'
      <2>1. /\ E = D /\ N[t] = Append(M[t], m) /\ \A s \in Task \ {t} : N[s] = M[s]
            /\ clock' = clock /\ Claims(m, r)
            BY <1>3, <1>8 DEF Makes
      <2>2. \A n \in Match : Held(D, M, n) => Apart(m, n)
            BY <1>3, <2>1, ClaimIsApart DEF IsClaim
      <2>3. Spacing(E, N) /\ \A n : Held(E, N, n) => Held(D, M, n) \/ n = m
            BY <1>2, <1>3, <1>4, <2>1, <2>2, AppendHeld
      <2>4. \A n : IsClaim(n)' => IsClaim(n) \/ n = m
            BY <1>3, <2>3 DEF IsClaim
      <2>5. m.at = clock
            BY <2>1 DEF Claims
      <2>6. ASSUME NEW n \in Match, IsClaim(n)'
            PROVE  n.at <= clock' /\ (n.at + Suppression > clock' => \E k \in suppressed' : KeyOf(k, n))
            <3>1. CASE n = m
                  BY <1>1, <2>1, <2>5, <3>1, ClaimSetsKey
            <3>2. CASE IsClaim(n)
                  <4>1. n.at <= clock /\ (n.at + Suppression > clock => \E k \in suppressed : KeyOf(k, n))
                        BY <3>2 DEF SpacedInv
                  <4>2. n.at + Suppression > clock => \E k \in suppressed' : KeyOf(k, n)
                        BY <2>1, <4>1, ClaimSetsKey DEF KeyOf
                  <4> QED BY <2>1, <4>1, <4>2
            <3> QED BY <2>4, <2>6, <3>1, <3>2
      <2> QED BY <1>3, <2>3, <2>6 DEF SpacedInv
<1> QED BY <1>6, <1>7, <1>8, StepKinds

(* Without faults a key in Redis is the key of a claim, so what a key      *)
(* suppresses is covered by that claim.                                    *)
LEMMA DueStep ==
    ASSUME Base, DueInv, [Next]_vars
    PROVE  DueInv'
<1>1. /\ faults \in Nat /\ faults' <= faults /\ scenario' = scenario
      /\ clock \in Nat /\ clock' \in Nat /\ clock <= clock' /\ Suppression \in Nat
      BY WorkerTypes, Frame DEF Base, TypeOK
<1>2. faults' <= scenario'.faults
      <2>1. scenario.faults \in Nat
            BY DetectionConstants DEF Base, TypeOK
      <2> QED BY <1>1, <2>1, Frame DEF DueInv
<1> SUFFICES ASSUME faults' = scenario'.faults
             PROVE  /\ \A k \in suppressed' : \E m \in Match : IsClaim(m)' /\ KeyOf(k, m) /\ m.at <= clock'
                    /\ \A d \in due' : \E m \in Match : IsClaim(m)' /\ Covers(m, d)
    BY <1>2 DEF DueInv, KeyOf, Covers
<1>3. faults' = faults /\ faults = scenario.faults
      <2>1. scenario.faults \in Nat
            BY DetectionConstants DEF Base, TypeOK
      <2> QED BY <1>1, <2>1, Frame DEF DueInv
<1>4. \A n : IsClaim(n) => IsClaim(n)'
      BY <1>3, ClaimsStep
<1>5. /\ \A k \in suppressed : \E m \in Match : IsClaim(m) /\ KeyOf(k, m) /\ m.at <= clock
      /\ \A d \in due : \E m \in Match : IsClaim(m) /\ Covers(m, d)
      BY <1>3 DEF DueInv
<1>6. \A k \in suppressed : \E m \in Match : IsClaim(m)' /\ KeyOf(k, m) /\ m.at <= clock'
      BY <1>1, <1>4, <1>5, MatchFields
<1>7. \A d \in due : \E m \in Match : IsClaim(m)' /\ Covers(m, d)
      BY <1>4, <1>5
<1>8. CASE Drops
      <2>1. ASSUME NEW d \in due' \ due PROVE \E m \in Match : IsClaim(m)' /\ Covers(m, d)
            <3>1. d.at = clock /\ Suppression > 0 /\ ~Claimable(d.version, d.entity)
                  BY <1>8, <2>1 DEF Drops
            <3>2. PICK k \in suppressed : k.version = d.version /\ k.entity = d.entity /\ ~(k.until <= clock)
                  BY <3>1 DEF Claimable
            <3>3. PICK m \in Match : IsClaim(m) /\ KeyOf(k, m) /\ m.at <= clock
                  BY <1>5
            <3>4. m.at \in Nat
                  BY MatchFields
            <3>5. Covers(m, d)
                  BY <1>1, <3>1, <3>2, <3>3, <3>4 DEF Covers, KeyOf
            <3> QED BY <1>4, <3>3, <3>5
      <2> QED BY <1>6, <1>7, <1>8, <2>1 DEF Drops
<1>9. ASSUME NEW t \in Task, Publishes(t)
      PROVE  /\ \A k \in suppressed' : \E m \in Match : IsClaim(m)' /\ KeyOf(k, m) /\ m.at <= clock'
             /\ \A d \in due' : \E m \in Match : IsClaim(m)' /\ Covers(m, d)
      BY <1>6, <1>7, <1>9 DEF Publishes
<1>10. ASSUME NEW t \in Task, NEW m \in Match, NEW r \in Rules, Makes(t, m, r)
      PROVE  /\ \A k \in suppressed' : \E n \in Match : IsClaim(n)' /\ KeyOf(k, n) /\ n.at <= clock'
             /\ \A d \in due' : \E n \in Match : IsClaim(n)' /\ Covers(n, d)
      <2>1. /\ Claims(m, r) /\ clock' = clock /\ m.at = clock /\ detections' = detections
            /\ Matches'[t] = Append(Matches[t], m) /\ \A s \in Task \ {t} : Matches'[s] = Matches[s]
            /\ \A d \in due' \ due : d.version = m.version /\ d.entity = m.entity /\ d.at = clock
            BY <1>10 DEF Makes, Claims
      <2>2. IsClaim(m)'
            <3>1. detections \in Seq(Match) /\ \A s \in Task : Matches[s] \in Seq(Match)
                  BY WorkerTypes, TaskFields DEF Base, TypeOK, Matches
            <3>2. PICK D, M, N : D \in Seq(Match) /\ D = detections /\ M = Matches /\ N = Matches'
                  BY <3>1
            <3>3. Held(D, N, m)
                  BY <2>1, <3>1, <3>2, AppendHeld
            <3> QED BY <2>1, <3>2, <3>3 DEF IsClaim
      <2>3. \A k \in suppressed' : k \in suppressed \/ KeyOf(k, m)
            BY <2>1, ClaimSetsKey
      <2>4. \A d \in due' \ due : Covers(m, d)
            BY <1>1, <2>1 DEF Covers
      <2> QED BY <1>1, <1>6, <1>7, <2>1, <2>2, <2>3, <2>4
<1> QED BY <1>8, <1>9, <1>10, StepKinds

-----------------------------------------------------------------------------
(* RecentInv, as far as it is about the tasks and the caches. *)
RecentTasks ==
    /\ LoadsInTurn
    /\ \A t \in Task : task[t].since <= clock
    /\ \A t \in Task : Busy(t, "evaluate") =>
        /\ cache[t[1]].loaded_at >= 0
        /\ task[t].since - cache[t[1]].rules.read_at < Refresh + LoadTime
    /\ \A t \in Task : Busy(t, "search") => task[t].age < Refresh + LoadTime

(* What a task may become while the clock and the caches stand still. *)
RecentMove(t, w) ==
    /\ w.since <= clock
    /\ w.phase = "load" =>
        /\ w.rules.read_at = clock
        /\ \A s \in Task \ {t} : s[1] = t[1] => ~Busy(s, "load")
    /\ w.phase = "evaluate" =>
        /\ cache[t[1]].loaded_at >= 0
        /\ w.since - cache[t[1]].rules.read_at < Refresh + LoadTime
    /\ w.phase = "search" => w.age < Refresh + LoadTime

(* An evaluation's own step keeps every copy of the rules recent. *)
LEMMA MoveStaysRecent ==
    ASSUME Base, RecentTasks, UNCHANGED <<clock, cache>>,
           NEW t \in Task, NEW w \in TaskState, task' = [task EXCEPT ![t] = w], RecentMove(t, w)
    PROVE  RecentTasks'
<1>1. task'[t] = w /\ \A s \in Task \ {t} : task'[s] = task[s]
      BY MoveTyped DEF Base, Moves
<1>2. /\ clock \in Nat /\ LoadTime \in Nat /\ cache[t[1]].loaded_at <= clock /\ clock - clock = 0
      BY WorkerTypes, DetectionConstants DEF Base
<1>3. ASSUME NEW s \in Task, NEW u \in Task, s[1] = u[1], Busy(s, "load")', Busy(u, "load")' PROVE s = u
      BY <1>1, <1>3 DEF RecentTasks, LoadsInTurn, RecentMove, Busy
<1>4. ASSUME NEW s \in Task, Busy(s, "load")'
      PROVE  /\ task'[s].rules.read_at <= clock
             /\ clock - task'[s].rules.read_at <= LoadTime
             /\ cache[s[1]].loaded_at <= task'[s].rules.read_at
      <2>1. CASE s = t
            BY <1>1, <1>2, <1>4, <2>1 DEF RecentMove, Busy
      <2>2. CASE s # t
            BY <1>1, <1>4, <2>2 DEF RecentTasks, LoadsInTurn, Busy
      <2> QED BY <2>1, <2>2
<1>5. LoadsInTurn'
      <2>1. \A r \in Replica : cache[r].loaded_at >= 0 =>
                /\ cache[r].rules.read_at <= cache[r].loaded_at
                /\ cache[r].loaded_at - cache[r].rules.read_at <= LoadTime
            BY DEF RecentTasks, LoadsInTurn
      <2> QED BY <1>3, <1>4, <2>1 DEF LoadsInTurn
<1>6. /\ \A s \in Task : task'[s].since <= clock
      /\ \A s \in Task : Busy(s, "search")' => task'[s].age < Refresh + LoadTime
      BY <1>1 DEF RecentTasks, RecentMove, Busy
<1>7. \A s \in Task : Busy(s, "evaluate")' =>
        /\ cache[s[1]].loaded_at >= 0
        /\ task'[s].since - cache[s[1]].rules.read_at < Refresh + LoadTime
      BY <1>1 DEF RecentTasks, RecentMove, Busy
<1> QED BY <1>5, <1>6, <1>7 DEF RecentTasks

(* A fresh cache is young enough for whatever was taken up by now. *)
LEMMA FreshIsRecent ==
    ASSUME Base, RecentTasks, NEW r \in Replica, Fresh(r), NEW n \in Nat, n <= clock
    PROVE  cache[r].loaded_at >= 0 /\ n - cache[r].rules.read_at < Refresh + LoadTime
<1>1. PICK l \in Int, a \in Nat : l = cache[r].loaded_at /\ a = cache[r].rules.read_at
      BY WorkerTypes, RulesFields DEF Base
<1>2. l >= 0 /\ clock - l < Refresh /\ l - a <= LoadTime
      BY <1>1 DEF Fresh, RecentTasks, LoadsInTurn
<1>3. clock \in Nat /\ Refresh \in Nat /\ LoadTime \in Nat
      BY WorkerTypes, DetectionConstants DEF Base
<1> QED BY <1>1, <1>2, <1>3

(* Storing loaded rules in the cache keeps every copy recent. *)
LEMMA FinishStaysRecent ==
    ASSUME Base, RecentTasks, NEW t \in Task, FinishLoad(t)
    PROVE  RecentTasks'
<1>1. PICK w \in TaskState :
        /\ task' = [task EXCEPT ![t] = w]
        /\ w.since = task[t].since /\ w.phase = "evaluate"
        /\ cache'[t[1]] = [loaded_at |-> clock, rules |-> task[t].rules]
        /\ \A r \in Replica \ {t[1]} : cache'[r] = cache[r]
      BY FinishLoadEffect DEF Base
<1>2. task'[t] = w /\ \A s \in Task \ {t} : task'[s] = task[s]
      BY <1>1, MoveTyped DEF Base, Moves
<1>3. Busy(t, "load") /\ clock' = clock
      BY DEF FinishLoad
<1>4. cache'[t[1]].loaded_at = clock /\ cache'[t[1]].rules = task[t].rules
      BY <1>1
<1>5. PICK c \in Nat, a \in Nat, L \in Nat, R \in Nat \ {0} :
        c = clock /\ a = task[t].rules.read_at /\ L = LoadTime /\ R = Refresh
      BY WorkerTypes, TaskFields, RulesFields, DetectionConstants DEF Base
<1>6. a <= c /\ c - a <= L /\ cache[t[1]].loaded_at <= a
      BY <1>3, <1>5 DEF RecentTasks, LoadsInTurn
<1>7. \A s \in Task \ {t} : s[1] = t[1] => ~Busy(s, "load")'
      BY <1>2, <1>3 DEF RecentTasks, LoadsInTurn, Busy
<1>8. ~Busy(t, "load")' /\ ~Busy(t, "search")' /\ \A s \in Task : s[1] \in Replica
      BY <1>1, <1>2, WorkerTypes DEF Busy, Base
<1>9. LoadsInTurn'
      <2>1. \A s, u \in Task : s[1] = u[1] /\ Busy(s, "load")' /\ Busy(u, "load")' => s = u
            BY <1>2, <1>8 DEF RecentTasks, LoadsInTurn, Busy
      <2>2. ASSUME NEW s \in Task, Busy(s, "load")'
            PROVE  /\ task'[s].rules.read_at <= clock'
                   /\ clock' - task'[s].rules.read_at <= LoadTime
                   /\ cache'[s[1]].loaded_at <= task'[s].rules.read_at
            BY <1>1, <1>2, <1>3, <1>7, <1>8, <2>2 DEF RecentTasks, LoadsInTurn, Busy
      <2>3. ASSUME NEW r \in Replica, cache'[r].loaded_at >= 0
            PROVE  /\ cache'[r].rules.read_at <= cache'[r].loaded_at
                   /\ cache'[r].loaded_at - cache'[r].rules.read_at <= LoadTime
            <3>1. CASE r = t[1]
                  BY <1>4, <1>5, <1>6, <3>1
            <3>2. CASE r # t[1]
                  BY <1>1, <2>3, <3>2 DEF RecentTasks, LoadsInTurn
            <3> QED BY <3>1, <3>2
      <2> QED BY <2>1, <2>2, <2>3 DEF LoadsInTurn
<1>10. \A s \in Task : task'[s].since <= clock'
      BY <1>1, <1>2, <1>3 DEF RecentTasks
<1>11. ASSUME NEW s \in Task, Busy(s, "evaluate")'
      PROVE  /\ cache'[s[1]].loaded_at >= 0
             /\ task'[s].since - cache'[s[1]].rules.read_at < Refresh + LoadTime
      <2>1. PICK n \in Nat : n = task'[s].since
            BY <1>1, <1>2, WorkerTypes, TaskFields DEF Base
      <2>2. CASE s = t
            <3>1. n <= c
                  BY <1>3, <1>5, <1>10, <2>1
            <3>2. n - a < R + L
                  BY <1>6, <3>1
            <3> QED BY <1>4, <1>5, <2>1, <2>2, <3>2
      <2>3. CASE s # t /\ s[1] = t[1]
            <3>1. task'[s] = task[s] /\ Busy(s, "evaluate")
                  BY <1>2, <1>11, <2>3 DEF Busy
            <3>2. PICK b \in Nat, l \in Int : b = cache[s[1]].rules.read_at /\ l = cache[s[1]].loaded_at
                  BY WorkerTypes, RulesFields DEF Base
            <3>3. l >= 0 /\ n - b < R + L /\ b <= l /\ l <= a
                  BY <1>5, <1>6, <1>8, <2>1, <2>3, <3>1, <3>2 DEF RecentTasks, LoadsInTurn
            <3>4. n - a < R + L
                  BY <3>3
            <3> QED BY <1>4, <1>5, <2>1, <2>3, <3>4
      <2>4. CASE s[1] # t[1]
            <3>1. s # t /\ cache'[s[1]] = cache[s[1]]
                  BY <1>1, <1>8, <2>4
            <3> QED BY <1>2, <1>11, <3>1 DEF RecentTasks, Busy
      <2> QED BY <2>2, <2>3, <2>4
<1>12. \A s \in Task : Busy(s, "search")' => task'[s].age < Refresh + LoadTime
      BY <1>2, <1>8 DEF RecentTasks, Busy
<1> QED BY <1>9, <1>10, <1>11, <1>12 DEF RecentTasks

(* A crash, which empties the cache, keeps every other copy recent. *)
LEMMA CrashStaysRecent ==
    ASSUME Base, RecentTasks, NEW r \in Replica, Crash(r)
    PROVE  RecentTasks'
<1>1. /\ \A t \in Task : task'[t] = IF t[1] = r THEN NoTask ELSE task[t]
      /\ cache'[r].loaded_at = -1
      /\ \A q \in Replica \ {r} : cache'[q] = cache[q]
      BY CrashEffect DEF Base
<1>2. clock' = clock /\ clock \in Nat /\ \A s \in Task : s[1] \in Replica
      BY WorkerTypes DEF Crash, Base
<1>3. \A s \in Task, p \in {"load", "evaluate", "search"} :
        Busy(s, p)' => s[1] # r /\ task'[s] = task[s] /\ Busy(s, p) /\ cache'[s[1]] = cache[s[1]]
      BY <1>1, <1>2, IdleTask DEF Busy
<1>4. \A s \in Task : task'[s].since <= clock'
      BY <1>1, <1>2, IdleTask DEF RecentTasks
<1>5. \A q \in Replica : cache'[q].loaded_at >= 0 =>
        /\ cache'[q].rules.read_at <= cache'[q].loaded_at
        /\ cache'[q].loaded_at - cache'[q].rules.read_at <= LoadTime
      BY <1>1 DEF RecentTasks, LoadsInTurn
<1>6. LoadsInTurn'
      <2>1. \A s, u \in Task : s[1] = u[1] /\ Busy(s, "load")' /\ Busy(u, "load")' => s = u
            BY <1>3 DEF RecentTasks, LoadsInTurn
      <2>2. \A s \in Task : Busy(s, "load")' =>
                /\ task'[s].rules.read_at <= clock'
                /\ clock' - task'[s].rules.read_at <= LoadTime
                /\ cache'[s[1]].loaded_at <= task'[s].rules.read_at
            BY <1>2, <1>3 DEF RecentTasks, LoadsInTurn
      <2> QED BY <1>5, <2>1, <2>2 DEF LoadsInTurn
<1> QED BY <1>3, <1>4, <1>6 DEF RecentTasks

(* The clock does not pass the age at which a copy would be stale and in use. *)
LEMMA TickStaysRecent ==
    ASSUME Base, RecentTasks, Tick
    PROVE  RecentTasks'
<1>1. /\ clock' = clock + 1 /\ UNCHANGED <<task, cache>> /\ clock \in Nat /\ LoadTime \in Nat
      /\ \A t \in Task : Busy(t, "load") => clock - task[t].rules.read_at < LoadTime
      BY WorkerTypes, DetectionConstants DEF Tick, Base
<1>2. \A t \in Task : task[t].since \in Nat /\ task[t].rules.read_at \in Nat
      BY WorkerTypes, TaskFields, RulesFields DEF Base
<1>3. \A t \in Task, p \in {"load", "evaluate", "search"} : Busy(t, p)' <=> Busy(t, p)
      BY <1>1 DEF Busy
<1>4. \A t \in Task : task'[t].since <= clock'
      BY <1>1, <1>2 DEF RecentTasks
<1>5. ASSUME NEW t \in Task, Busy(t, "load")
      PROVE  /\ task[t].rules.read_at <= clock'
             /\ clock' - task[t].rules.read_at <= LoadTime
      <2>1. PICK a \in Nat : a = task[t].rules.read_at
            BY <1>2
      <2>2. a <= clock /\ clock - a < LoadTime
            BY <1>1, <1>5, <2>1 DEF RecentTasks, LoadsInTurn
      <2>3. a <= clock + 1 /\ clock + 1 - a <= LoadTime
            BY <1>1, <2>2
      <2> QED BY <1>1, <2>1, <2>3
<1>6. LoadsInTurn'
      BY <1>1, <1>3, <1>5 DEF RecentTasks, LoadsInTurn
<1> QED BY <1>1, <1>3, <1>4, <1>6 DEF RecentTasks

(* The tasks and the caches stay recent, action by action. *)
LEMMA TasksStayRecent ==
    ASSUME Base, RecentTasks, [Next]_vars
    PROVE  RecentTasks'
<1>1. TypeOK /\ Working /\ MatchesHeld /\ clock \in Nat /\ Refresh \in Nat /\ LoadTime \in Nat
      BY WorkerTypes, DetectionConstants DEF Base
<1>2. UNCHANGED <<clock, cache, task>> => RecentTasks'
      BY DEF RecentTasks, LoadsInTurn, Busy
<1>3. CASE UNCHANGED vars
      BY <1>2, <1>3 DEF vars, workerVars
<1>4. CASE EditRules
      BY <1>2, <1>4 DEF EditRules, workerVars
<1>5. \A t \in Task : task[t].since \in Nat /\ task[t].since <= clock /\ t[1] \in Replica
      BY <1>1, WorkerTypes, TaskFields DEF RecentTasks
<1>6. ASSUME NEW t \in Task, NEW e \in Event, Accept(t, e) PROVE RecentTasks'
      <2>1. PICK w \in TaskState :
             /\ task' = [task EXCEPT ![t] = w]
             /\ w.phase \in {"ack", "evaluate", "wait"} /\ w.since = clock
             /\ w.phase = "evaluate" => Fresh(t[1])
            BY <1>1, <1>6, AcceptEffect
      <2>2. RecentMove(t, w)
            BY <1>1, <1>5, <2>1, FreshIsRecent DEF RecentMove
      <2>3. UNCHANGED <<clock, cache>>
            BY <1>6 DEF Accept
      <2> QED BY <2>1, <2>2, <2>3, MoveStaysRecent
<1>7. ASSUME NEW t \in Task, StartPass(t) PROVE RecentTasks'
      <2>1. PICK w \in TaskState :
             /\ task' = [task EXCEPT ![t] = w]
             /\ w.phase \in {"evaluate", "wait"} /\ w.since = clock
             /\ w.phase = "evaluate" => Fresh(t[1])
            BY <1>1, <1>7, StartPassEffect
      <2>2. RecentMove(t, w)
            BY <1>1, <1>5, <2>1, FreshIsRecent DEF RecentMove
      <2>3. UNCHANGED <<clock, cache>>
            BY <1>7 DEF StartPass
      <2> QED BY <2>1, <2>2, <2>3, MoveStaysRecent
<1>8. ASSUME NEW t \in Task, BeginLoad(t) PROVE RecentTasks'
      <2>1. PICK w \in TaskState :
             /\ task' = [task EXCEPT ![t] = w]
             /\ w.since = task[t].since
             /\ \/ w.phase = "evaluate" /\ Fresh(t[1])
                \/ w.phase = "load" /\ w.rules = load_active_rules
            BY <1>1, <1>8, BeginLoadEffect
      <2>2. UNCHANGED <<clock, cache>> /\ ~Locked(t[1])
            BY <1>8 DEF BeginLoad
      <2>3. PICK n \in Nat : n = task[t].since /\ n <= clock
            BY <1>5
      <2>4. CASE w.phase = "evaluate"
            <3>1. Fresh(t[1])
                  BY <2>1, <2>4
            <3>2. cache[t[1]].loaded_at >= 0 /\ n - cache[t[1]].rules.read_at < Refresh + LoadTime
                  BY <1>5, <2>3, <3>1, FreshIsRecent
            <3>3. RecentMove(t, w)
                  BY <2>1, <2>3, <2>4, <3>2 DEF RecentMove
            <3> QED BY <2>1, <2>2, <3>3, MoveStaysRecent
      <2>5. CASE w.phase = "load"
            <3>1. PICK r : r = load_active_rules
                  OBVIOUS
            <3>2. r.read_at = clock
                  BY <1>1, <3>1, LoadedRules
            <3>3. RecentMove(t, w)
                  BY <2>1, <2>2, <2>3, <2>5, <3>1, <3>2 DEF RecentMove, Locked
            <3> QED BY <2>1, <2>2, <3>3, MoveStaysRecent
      <2> QED BY <2>1, <2>4, <2>5
<1>9. ASSUME NEW t \in Task, Evaluate(t) PROVE RecentTasks'
      <2>1. PICK w \in TaskState :
             /\ task' = [task EXCEPT ![t] = w]
             /\ w.since = 0 /\ w.phase \in {"publish", "ack"}
            BY <1>1, <1>9, EvaluateEffect
      <2>2. UNCHANGED <<clock, cache>>
            BY <1>9 DEF Evaluate
      <2>3. RecentMove(t, w)
            BY <1>1, <2>1 DEF RecentMove
      <2> QED BY <2>1, <2>2, <2>3, MoveStaysRecent
<1>10. ASSUME NEW t \in Task, EvaluateWindow(t) PROVE RecentTasks'
      <2>1. PICK w \in TaskState :
             /\ task' = [task EXCEPT ![t] = w]
             /\ w.since = 0
             /\ \/ w.phase = "search" /\ w.age = task[t].since - cache[t[1]].rules.read_at
                \/ w.phase = "idle"
            BY <1>1, <1>10, EvaluateWindowEffect
      <2>2. UNCHANGED <<clock, cache>> /\ Busy(t, "evaluate")
            BY <1>10 DEF EvaluateWindow
      <2>3. RecentMove(t, w)
            BY <1>1, <2>1, <2>2 DEF RecentMove, RecentTasks
      <2> QED BY <2>1, <2>2, <2>3, MoveStaysRecent
<1>11. ASSUME NEW t \in Task, Search(t) PROVE RecentTasks'
      <2>1. PICK w \in TaskState :
             /\ task' = [task EXCEPT ![t] = w]
             /\ w.since = task[t].since /\ w.age = task[t].age /\ w.phase \in {"search", "publish"}
            BY <1>1, <1>11, SearchEffect
      <2>2. UNCHANGED <<clock, cache>> /\ Busy(t, "search")
            BY <1>11 DEF Search
      <2>3. RecentMove(t, w)
            BY <1>5, <2>1, <2>2 DEF RecentMove, RecentTasks
      <2> QED BY <2>1, <2>2, <2>3, MoveStaysRecent
<1>12. ASSUME NEW t \in Task, Publish(t) PROVE RecentTasks'
      <2>1. PICK w \in TaskState :
             /\ task' = [task EXCEPT ![t] = w]
             /\ \/ w.phase \in {"ack", "publish"} /\ w.since = task[t].since
                \/ w = NoTask
            BY <1>1, <1>12, PublishEffect
      <2>2. UNCHANGED <<clock, cache>>
            BY <1>12 DEF Publish
      <2>3. RecentMove(t, w)
            BY <1>1, <1>5, <2>1, IdleTask DEF RecentMove
      <2> QED BY <2>1, <2>2, <2>3, MoveStaysRecent
<1>13. ASSUME NEW t \in Task, Ack(t) \/ PassFails(t) PROVE RecentTasks'
      <2>1. task' = [task EXCEPT ![t] = NoTask] /\ UNCHANGED <<clock, cache>>
            BY <1>13 DEF Ack, PassFails
      <2>2. NoTask \in TaskState /\ RecentMove(t, NoTask)
            BY <1>1, IdleTask DEF RecentMove
      <2> QED BY <2>1, <2>2, MoveStaysRecent
<1>14. ASSUME NEW t \in Task, RuleFails(t) PROVE RecentTasks'
      <2>1. PICK w \in TaskState :
             task' = [task EXCEPT ![t] = w] /\ w.since = 0 /\ w.phase = "ack"
            BY <1>1, <1>14, RuleFailsEffect
      <2>2. UNCHANGED <<clock, cache>>
            BY <1>14 DEF RuleFails
      <2>3. RecentMove(t, w)
            BY <1>1, <2>1 DEF RecentMove
      <2> QED BY <2>1, <2>2, <2>3, MoveStaysRecent
<1>15. ASSUME NEW e \in Event, Index(e) PROVE RecentTasks'
      BY <1>2, <1>15 DEF Index
<1> QED BY <1>3, <1>4, <1>6, <1>7, <1>8, <1>9, <1>10, <1>11, <1>12, <1>13, <1>14, <1>15,
           FinishStaysRecent, CrashStaysRecent, TickStaysRecent DEF Next

(* A claim is made by rules that are recent. *)
LEMMA RecentStep ==
    ASSUME Base, RecentInv, [Next]_vars
    PROVE  RecentInv'
<1>1. RecentTasks
      BY DEF RecentInv, RecentTasks
<1>2. RecentTasks'
      BY <1>1, TasksStayRecent
<1>3. ASSUME NEW m \in Match, IsClaim(m)' PROVE m.age < Refresh + LoadTime
      <2>1. CASE IsClaim(m)
            BY <2>1 DEF RecentInv
      <2>2. ASSUME NEW t \in Task, NEW r \in Rules, Makes(t, m, r) PROVE m.age < Refresh + LoadTime
            BY <2>2 DEF Makes, RecentInv
      <2> QED BY <1>3, <2>1, <2>2, ClaimsStep
<1> QED BY <1>2, <1>3 DEF RecentInv, RecentTasks

-----------------------------------------------------------------------------
(* At the start there are no rules, no claims and no keys. *)
LEMMA InitHolds ==
    ASSUME Init
    PROVE  Base /\ HistoryInv /\ ExplainedInv /\ JustifiedInv /\ SpacedInv /\ RecentInv /\ DueInv
<1>1. /\ RulesTypeOK /\ HistoryInv
      BY DetectionConstants DEF Init, RulesInit, RulesTypeOK, HistoryInv, VersionsAreHistory,
                                EditsRead, EditsAlone, Stored, VersionTaken
<1>2. NotLoaded \in [loaded_at : -1..0, rules : Rules] /\ NotLoaded.loaded_at = -1 /\ NotLoaded.rules = NoRules
      BY IdleTask DEF NotLoaded
<1>3. /\ clock = 0 /\ MaxTime \in Nat /\ 0 \in 0..MaxTime
      /\ \A r \in Replica : cache[r] = NotLoaded
      /\ \A t \in Task : task[t] = NoTask /\ t[1] \in Replica
      /\ suppressed = {} /\ detections = <<>> /\ due = {} /\ faults = scenario.faults
      /\ taken = {} /\ acked = {} /\ deadletter = {} /\ indexed = {}
      /\ scenario \in Scenario /\ passes = scenario.passes
      BY DetectionConstants DEF Init, Task
<1>4. TypeOK
      <2>1. cache \in [Replica -> [loaded_at : -1..clock, rules : Rules]]
            BY <1>2, <1>3 DEF Init
      <2>2. task \in [Task -> TaskState]
            BY IdleTask DEF Init
      <2>3. passes \in Nat /\ faults \in Nat
            BY <1>3, DetectionConstants
      <2>4. detections \in Seq(Match)
            BY <1>3
      <2> QED BY <1>1, <1>3, <2>1, <2>2, <2>3, <2>4 DEF TypeOK
<1>5. Base
      BY <1>3, <1>4, IdleTask DEF Base, Working, MatchesHeld, Busy
<1>6. \A t \in Task : Matches[t] = <<>>
      BY <1>3, IdleTask DEF Matches
<1>7. DOMAIN <<>> = {}
      OBVIOUS
<1>8. \A m : ~IsClaim(m)
      BY <1>3, <1>6, <1>7 DEF IsClaim, Held
<1>9. ExplainedInv /\ JustifiedInv
      BY <1>2, <1>3, <1>8, IdleTask DEF ExplainedInv, JustifiedInv, Known
<1>10. SpacedInv
      BY <1>3, <1>6, <1>7, <1>8 DEF SpacedInv, Spacing
<1>11. RecentInv
      BY <1>2, <1>3, <1>8, IdleTask DEF RecentInv, LoadsInTurn, Busy
<1>12. DueInv
      <2>1. faults \in Nat
            BY <1>4 DEF TypeOK
      <2> QED BY <1>3, <2>1 DEF DueInv
<1> QED BY <1>1, <1>5, <1>9, <1>10, <1>11, <1>12

(* The rule store, the workers and their claims, together. *)
LEMMA DetectionInvariant ==
    Spec => [](Base /\ HistoryInv /\ ExplainedInv /\ JustifiedInv /\ SpacedInv /\ RecentInv /\ DueInv)
<1> DEFINE Inv == Base /\ HistoryInv /\ ExplainedInv /\ JustifiedInv /\ SpacedInv /\ RecentInv /\ DueInv
<1>1. Init => Inv
      BY InitHolds
<1>2. Inv /\ [Next]_vars => Inv'
      <2> SUFFICES ASSUME Inv, [Next]_vars PROVE Inv'
          OBVIOUS
      <2>1. Base'
            BY BaseStep
      <2>2. HistoryInv'
            BY Frame, RulesStep DEF Base, TypeOK
      <2> QED BY <2>1, <2>2, ExplainedStep, JustifiedStep, SpacedStep, RecentStep, DueStep
<1> QED BY <1>1, <1>2, PTL DEF Spec

-----------------------------------------------------------------------------
(* Every variable keeps its type, for any number of replicas, events and   *)
(* editors: a match always names a version, a cache is never newer than    *)
(* the clock, and only events that were taken are acked.                   *)
THEOREM DetectionTypeCorrect == Spec => []TypeOK
<1>1. Base => TypeOK
      BY DEF Base
<1> QED BY <1>1, DetectionInvariant, PTL

(* However requests overlap, no version has two meanings and the row's     *)
(* columns are those of its current version; without overlaps row and YAML *)
(* agree.                                                                  *)
THEOREM VersionsAreHistoryHolds == Spec => []VersionsAreHistory
<1>1. HistoryInv => VersionsAreHistory
      BY DEF HistoryInv
<1> QED BY <1>1, DetectionInvariant, PTL

(* Every published detection is explained by the version it names, unless  *)
(* edits overlapped.                                                       *)
THEOREM HistoryExplainsDetectionsHolds == Spec => []HistoryExplainsDetections
<1>1. Base /\ ExplainedInv => HistoryExplainsDetections
      <2> SUFFICES ASSUME Base, ExplainedInv, ~overlapped, NEW i \in DOMAIN detections
                   PROVE  [version |-> detections[i].version, content |-> detections[i].content] \in versions
          BY DEF HistoryExplainsDetections
      <2>1. detections[i] \in Match /\ IsClaim(detections[i])
            BY DEF Base, TypeOK, IsClaim, Held
      <2>2. Known(detections[i]) /\ detections[i].version > 0
            BY <2>1, MatchFields DEF ExplainedInv
      <2> QED BY <2>2 DEF Known
<1> QED BY <1>1, DetectionInvariant, PTL

(* Every published detection is justified by its events. *)
THEOREM DetectionsAreJustifiedHolds == Spec => []DetectionsAreJustified
<1>1. Base /\ JustifiedInv => DetectionsAreJustified
      <2> SUFFICES ASSUME Base, JustifiedInv, NEW i \in DOMAIN detections
                   PROVE  Justified(detections[i])
          BY DEF DetectionsAreJustified, Justified
      <2>1. detections[i] \in Match /\ IsClaim(detections[i])
            BY DEF Base, TypeOK, IsClaim, Held
      <2> QED BY <2>1 DEF JustifiedInv
<1> QED BY <1>1, DetectionInvariant, PTL

(* Across any number of replicas and both paths, an entity fires once per  *)
(* suppression window and version.                                         *)
THEOREM DetectionsAreSpacedHolds == Spec => []DetectionsAreSpaced
<1>1. SpacedInv => DetectionsAreSpaced
      BY DEF SpacedInv, Spacing, Apart, DetectionsAreSpaced
<1> QED BY <1>1, DetectionInvariant, PTL

(* No event is judged by rules that were older than the refresh interval   *)
(* and a load when it was taken up.                                        *)
THEOREM RulesAreRecentHolds == Spec => []RulesAreRecent
<1>1. Base /\ RecentInv => RulesAreRecent
      <2> SUFFICES ASSUME Base, RecentInv, NEW i \in DOMAIN detections
                   PROVE  detections[i].age < Refresh + LoadTime
          BY DEF RulesAreRecent
      <2>1. detections[i] \in Match /\ IsClaim(detections[i])
            BY DEF Base, TypeOK, IsClaim, Held
      <2> QED BY <2>1 DEF RecentInv
<1> QED BY <1>1, DetectionInvariant, PTL

(* Without faults, what a streaming rule was to report is reported or      *)
(* within the suppression window of what was, once the workers are idle.   *)
THEOREM DueIsDetectedHolds == Spec => []DueIsDetected
<1>1. Base /\ DueInv => DueIsDetected
      <2> SUFFICES ASSUME Base, DueInv, faults = scenario.faults, \A t \in Task : Busy(t, "idle"),
                          NEW d \in due
                   PROVE  \E i \in DOMAIN detections : Covers(detections[i], d)
          BY DEF DueIsDetected, Covers
      <2>1. PICK m \in Match : IsClaim(m) /\ Covers(m, d)
            BY DEF DueInv
      <2>2. \A t \in Task : Matches[t] = <<>>
            BY DEF Base, MatchesHeld, Busy, Matches
      <2>3. DOMAIN <<>> = {}
            OBVIOUS
      <2>4. \E i \in DOMAIN detections : m = detections[i]
            BY <2>1, <2>2, <2>3 DEF IsClaim, Held
      <2> QED BY <2>1, <2>4
<1> QED BY <1>1, DetectionInvariant, PTL
=============================================================================
