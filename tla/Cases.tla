-------------------------------- MODULE Cases --------------------------------
(***************************************************************************)
(* Incidents (backend/app/services/incidents.py behind api/incidents.py):  *)
(* opening a case, moving it through its lifecycle, editing it, linking    *)
(* alerts, assets, indicators and accounts to it, notes and tasks, and the *)
(* timeline all of them write to.                                          *)
(*                                                                         *)
(* An API request is one READ COMMITTED transaction. A request that reads  *)
(* a row, decides and then writes is two steps: what it loaded is kept in  *)
(* caseReq, and an UPDATE names only the columns that differ from that. A  *)
(* request whose checks refuse it changes nothing and is left out. Times   *)
(* are positions in the incident's timeline.                               *)
(***************************************************************************)
EXTENDS Integers, FiniteSets, Sequences, SequencesExt

CONSTANTS
    Incident,      \* incident ids
    Account,       \* user ids an incident can be assigned to
    Linkable,      \* alerts, assets, indicators and account names
    KindOf,        \* "alert", "asset", "ioc" or "account", for each of them
    CaseRequest,   \* bound: requests in flight at once
    MaxCaseWork,   \* bound: requests altogether
    None           \* NULL

ASSUME CaseConstants ==
    /\ IsFiniteSet(Linkable)
    /\ KindOf \in [Linkable -> {"alert", "asset", "ioc", "account"}]
    /\ MaxCaseWork \in Nat
    /\ None \notin Account \cup Incident \cup Linkable

VARIABLES
    incident,      \* committed rows of incidents
    lastIncident,  \* the committed counter of incident_sequences
    timeline,      \* incident_timeline, per incident, in occurred_at order
    linked,        \* the link tables: <<incident, object>> pairs
    task,          \* incident_tasks: at most one per incident here
    present,       \* the linkable objects whose rows exist
    caseReq,       \* each request's transaction
    contended,     \* history: incidents two transitions were in flight on at once
    caseWork       \* requests so far

caseVars == <<incident, lastIncident, timeline, linked, task, present, caseReq, contended,
              caseWork>>

INCIDENT_STATUSES == {"NEW", "TRIAGE", "INVESTIGATION", "CONTAINMENT", "ERADICATION",
                      "RECOVERY", "CLOSED"}

INCIDENT_TRANSITIONS ==
    [NEW           |-> {"TRIAGE", "INVESTIGATION", "CLOSED"},
     TRIAGE        |-> {"INVESTIGATION", "CONTAINMENT", "CLOSED", "NEW"},
     INVESTIGATION |-> {"CONTAINMENT", "ERADICATION", "TRIAGE", "CLOSED"},
     CONTAINMENT   |-> {"ERADICATION", "INVESTIGATION", "CLOSED"},
     ERADICATION   |-> {"RECOVERY", "CONTAINMENT", "INVESTIGATION", "CLOSED"},
     RECOVERY      |-> {"CLOSED", "ERADICATION", "INVESTIGATION"},
     CLOSED        |-> {"INVESTIGATION", "TRIAGE"}]

TASK_STATUSES == {"open", "in_progress", "done"}

Severities == {"medium", "high"}   \* two of the four, enough to tell an edit

NoIncident == [status |-> "none", number |-> 0, severity |-> "medium", analyst |-> None,
               contained |-> 0, closed |-> 0, resolved |-> FALSE]

NoTask == [status |-> "none", completed |-> FALSE]

NoCaseReq == [op |-> "idle"]

(* A timeline entry: its kind, and what its detail says happened. *)
Entry(kind, from, to) == [kind |-> kind, from |-> from, to |-> to]

LinkKind == [alert |-> "alert_linked", asset |-> "asset_linked", ioc |-> "ioc_linked",
             account |-> "note"]

CasesInit ==
    /\ incident = [i \in Incident |-> NoIncident]
    /\ lastIncident = 0
    /\ timeline = [i \in Incident |-> <<>>]
    /\ linked = {}
    /\ task = [i \in Incident |-> NoTask]
    /\ present = Linkable
    /\ caseReq = [q \in CaseRequest |-> NoCaseReq]
    /\ contended = {}

-----------------------------------------------------------------------------
(* get_incident: anything else is a 404. *)
get_incident(i) == incident[i].status # "none"

(* record_timeline, in the transaction of what it records. *)
record_timeline(i, entries) == timeline' = [timeline EXCEPT ![i] = @ \o entries]

Begins(q, tx) ==
    /\ caseReq[q].op = "idle"
    /\ caseWork < MaxCaseWork
    /\ caseWork' = caseWork + 1
    /\ caseReq' = [caseReq EXCEPT ![q] = tx]

Ends(q) == caseReq' = [caseReq EXCEPT ![q] = NoCaseReq] /\ UNCHANGED caseWork

(* A request that only writes what it does not read: one step. *)
AtOnce == caseWork < MaxCaseWork /\ caseWork' = caseWork + 1 /\ UNCHANGED caseReq

(* next_display_id: the counter row exists after the INSERT, and its lock  *)
(* is held until the transaction ends.                                     *)
next_incident_id(q, u, alerts) ==
    /\ \A p \in CaseRequest : caseReq[p].op # "create"
    /\ Begins(q, [op |-> "create", actor |-> u, alerts |-> alerts, number |-> lastIncident + 1])
    /\ UNCHANGED <<incident, lastIncident, timeline, linked, task, present, contended>>

(* The rest of create_incident: the row, its first entry, and a link for   *)
(* each alert of the draft; all of them must exist.                        *)
create_incident(q, i) ==
    /\ caseReq[q].op = "create"
    /\ ~get_incident(i)
    /\ caseReq[q].alerts \subseteq present
    /\ incident' = [incident EXCEPT ![i] =
                      [NoIncident EXCEPT !.status = "NEW", !.number = caseReq[q].number,
                                         !.analyst = caseReq[q].actor]]
    /\ lastIncident' = caseReq[q].number
    /\ record_timeline(i, <<Entry("created", None, None)>> \o
                          [k \in 1..Cardinality(caseReq[q].alerts) |->
                             Entry("alert_linked", None, SetToSeq(caseReq[q].alerts)[k])])
    /\ linked' = linked \cup ({i} \X caseReq[q].alerts)
    /\ Ends(q)
    /\ UNCHANGED <<task, present, contended>>

-----------------------------------------------------------------------------
(* Mutant of transition: any status may follow any other. *)
TransitionUnchecked(q, i, target) ==
    /\ get_incident(i)
    /\ target # incident[i].status
    /\ Begins(q, [op |-> "transition", incident |-> i, target |-> target, row |-> incident[i]])
    /\ contended' = contended \cup
         {c \in {i} : \E p \in CaseRequest : caseReq[p].op = "transition" /\ caseReq[p].incident = i}
    /\ UNCHANGED <<incident, lastIncident, timeline, linked, task, present>>

(* transition up to its checks: the row is read without a lock; asking for *)
(* the status it has changes nothing.                                      *)
transition(q, i, target) ==
    /\ get_incident(i)
    /\ target \in INCIDENT_TRANSITIONS[incident[i].status]
    /\ Begins(q, [op |-> "transition", incident |-> i, target |-> target, row |-> incident[i]])
    /\ contended' = contended \cup
         {c \in {i} : \E p \in CaseRequest : caseReq[p].op = "transition" /\ caseReq[p].incident = i}
    /\ UNCHANGED <<incident, lastIncident, timeline, linked, task, present>>

(* The row after transition's UPDATE. *)
Transitioned(row, seen, target, at, note) ==
    [row EXCEPT !.status = target,
                !.contained = IF target = "CONTAINMENT" /\ seen.contained = 0 THEN at ELSE @,
                !.closed = IF target = "CLOSED" THEN at ELSE IF seen.closed # 0 THEN 0 ELSE @,
                !.resolved = IF target = "CLOSED" /\ note THEN TRUE ELSE @]

(* The rest of transition: the columns and the entry that says from which  *)
(* status, the one that was read, to which.                                *)
CommitStatus(q, note) ==
    /\ caseReq[q].op = "transition"
    /\ LET i == caseReq[q].incident
           seen == caseReq[q].row
           target == caseReq[q].target IN
       /\ incident' = [incident EXCEPT ![i] =
                         Transitioned(@, seen, target, Len(timeline[i]) + 1, note)]
       /\ record_timeline(i, <<Entry("status_change", seen.status, target)>>)
    /\ Ends(q)
    /\ UNCHANGED <<lastIncident, linked, task, present, contended>>

(* update_incident: one of the editable columns, written if it differs     *)
(* from what was read; only an assignment has an entry, an edit of the     *)
(* severity (or of another column) leaves the timeline alone. The refused  *)
(* cases (no such incident, no fields) change nothing.                     *)
assign_incident(i, u) ==
    /\ get_incident(i)
    /\ AtOnce
    /\ incident' = [incident EXCEPT ![i].analyst = u]
    /\ record_timeline(i, <<Entry("assignment", None, u)>>)
    /\ UNCHANGED <<lastIncident, linked, task, present, contended>>

update_incident(i, severity) ==
    /\ get_incident(i)
    /\ AtOnce
    /\ incident' = [incident EXCEPT ![i].severity = severity]
    /\ UNCHANGED <<lastIncident, timeline, linked, task, present, contended>>

-----------------------------------------------------------------------------
(* link_alert, link_asset, link_ioc and link_user up to their checks: the  *)
(* object exists (an account name needs no row), and no link is there yet. *)
link(q, i, o) ==
    /\ get_incident(i)
    /\ KindOf[o] = "account" \/ o \in present
    /\ <<i, o>> \notin linked
    /\ Begins(q, [op |-> "link", incident |-> i, object |-> o])
    /\ UNCHANGED <<incident, lastIncident, timeline, linked, task, present, contended>>

(* Mutant of CommitLink: the table has no unique constraint. *)
LinkTwice(q) ==
    /\ caseReq[q].op = "link"
    /\ LET i == caseReq[q].incident  o == caseReq[q].object IN
       /\ KindOf[o] = "account" \/ o \in present
       /\ linked' = linked \cup {<<i, o>>}
       /\ record_timeline(i, <<Entry(LinkKind[KindOf[o]], None, o)>>)
    /\ Ends(q)
    /\ UNCHANGED <<incident, lastIncident, task, present, contended>>

(* The INSERT and its entry are committed: the unique constraint and the   *)
(* foreign key are checked now, and failing either rolls the request back. *)
CommitLink(q) ==
    /\ caseReq[q].op = "link"
    /\ LET i == caseReq[q].incident  o == caseReq[q].object IN
       /\ <<i, o>> \notin linked
       /\ KindOf[o] = "account" \/ o \in present
       /\ linked' = linked \cup {<<i, o>>}
       /\ record_timeline(i, <<Entry(LinkKind[KindOf[o]], None, o)>>)
    /\ Ends(q)
    /\ UNCHANGED <<incident, lastIncident, task, present, contended>>

(* delete_asset, delete_ioc: ON DELETE CASCADE takes the links along, the  *)
(* timeline keeps its entries.                                             *)
delete_asset(o) ==
    /\ KindOf[o] \in {"asset", "ioc"}
    /\ o \in present
    /\ AtOnce
    /\ present' = present \ {o}
    /\ linked' = {l \in linked : l[2] # o}
    /\ UNCHANGED <<incident, lastIncident, timeline, task, contended>>

-----------------------------------------------------------------------------
add_note(i) ==
    /\ get_incident(i)
    /\ AtOnce
    /\ record_timeline(i, <<Entry("note", None, None)>>)
    /\ UNCHANGED <<incident, lastIncident, linked, task, present, contended>>

add_task(i) ==
    /\ get_incident(i)
    /\ task[i] = NoTask
    /\ AtOnce
    /\ task' = [task EXCEPT ![i] = [status |-> "open", completed |-> FALSE]]
    /\ record_timeline(i, <<Entry("task", None, "open")>>)
    /\ UNCHANGED <<incident, lastIncident, linked, present, contended>>

(* update_task: the task is read without a lock. *)
update_task(q, i, status) ==
    /\ task[i] # NoTask
    /\ Begins(q, [op |-> "task", incident |-> i, target |-> status, row |-> task[i]])
    /\ UNCHANGED <<incident, lastIncident, timeline, linked, task, present, contended>>

(* Its row after the UPDATE: completed_at is set once and never cleared. *)
TaskUpdated(row, seen, status) ==
    [row EXCEPT !.status = IF status # seen.status THEN status ELSE @,
                !.completed = IF status = "done" /\ ~seen.completed THEN TRUE ELSE @]

CommitTask(q) ==
    /\ caseReq[q].op = "task"
    /\ LET i == caseReq[q].incident
           seen == caseReq[q].row
           status == caseReq[q].target IN
       /\ task' = [task EXCEPT ![i] = TaskUpdated(@, seen, status)]
       /\ record_timeline(i, <<Entry("task", seen.status, status)>>)
    /\ Ends(q)
    /\ UNCHANGED <<incident, lastIncident, linked, present, contended>>

(* The request ends without a commit: an unknown alert, a constraint, a    *)
(* lost connection. The counter's lock is released.                        *)
RollbackCase(q) ==
    /\ caseReq[q].op # "idle"
    /\ Ends(q)
    /\ UNCHANGED <<incident, lastIncident, timeline, linked, task, present, contended>>

CasesNext ==
    \/ \E q \in CaseRequest :
         \/ \E u \in Account, S \in SUBSET {o \in Linkable : KindOf[o] = "alert"} :
              next_incident_id(q, u, S)
         \/ \E i \in Incident : create_incident(q, i)
         \/ \E i \in Incident, s \in INCIDENT_STATUSES : transition(q, i, s)
         \/ \E note \in BOOLEAN : CommitStatus(q, note)
         \/ \E i \in Incident, o \in Linkable : link(q, i, o)
         \/ CommitLink(q)
         \/ \E i \in Incident, s \in TASK_STATUSES : update_task(q, i, s)
         \/ CommitTask(q)
         \/ RollbackCase(q)
    \/ \E i \in Incident :
         \/ \E u \in Account \cup {None} : assign_incident(i, u)
         \/ \E s \in Severities : update_incident(i, s)
         \/ add_note(i)
         \/ add_task(i)
    \/ \E o \in Linkable : delete_asset(o)

CasesSpec == CasesInit /\ caseWork \in 0..MaxCaseWork /\ [][CasesNext]_caseVars

-----------------------------------------------------------------------------
(* What a timeline t tells of: its status changes, those to one status,    *)
(* the status just before its nth entry, a task done, the links to o.      *)
StatusChanges(t) == {k \in DOMAIN t : t[k].kind = "status_change"}

ChangesTo(t, status) == {k \in StatusChanges(t) : t[k].to = status}

StatusBefore(t, n) ==
    LET earlier == {k \in StatusChanges(t) : k < n} IN
    IF earlier = {} THEN "NEW"
    ELSE t[CHOOSE k \in earlier : \A l \in earlier : l <= k].to

TellsOfDone(t) == \E k \in DOMAIN t : t[k].kind = "task" /\ t[k].to = "done"

LinksTo(t, o) == {k \in DOMAIN t : t[k].kind = LinkKind[KindOf[o]] /\ t[k].to = o}

(* Incident numbers run 1, 2, 3 without a gap or a repeat, whatever rolled *)
(* back and whoever opened cases at the same moment (next_display_id's row *)
(* lock, held until the commit).                                           *)
IncidentNumbersGapless ==
    LET opened == {i \in Incident : get_incident(i)} IN
    /\ {incident[i].number : i \in opened} = 1..lastIncident
    /\ Cardinality(opened) = lastIncident

(* The timeline explains the status: every change in it was one of the     *)
(* TRANSITIONS for who asked, and the last one leads to the status of the  *)
(* row, however transitions overlap; unless two overlapped on the case,    *)
(* the changes also form a chain from NEW (transition, record_timeline).   *)
TimelineExplainsStatus ==
    \A i \in Incident : get_incident(i) =>
        LET t == timeline[i] IN
        /\ \A k \in StatusChanges(t) : t[k].to \in INCIDENT_TRANSITIONS[t[k].from]
        /\ incident[i].status = StatusBefore(t, Len(t) + 1)
        /\ i \notin contended => \A k \in StatusChanges(t) : t[k].from = StatusBefore(t, k)

(* A case has a contained_at exactly if its timeline has a containment,    *)
(* and it is the moment of one; closed_at is that of the last closing      *)
(* while the case is closed. Unless two transitions overlapped, it is the  *)
(* first containment, and closed_at is cleared while the case is not       *)
(* closed. A task has a completed_at exactly when its timeline says it was *)
(* once done, overlapping updates or not (transition, update_task).        *)
MilestonesMatchTimeline ==
    \A i \in Incident :
      LET containments == ChangesTo(timeline[i], "CONTAINMENT")
          closings == ChangesTo(timeline[i], "CLOSED")
          row == incident[i] IN
      /\ row.contained \in IF containments = {} THEN {0} ELSE containments
      /\ row.status = "CLOSED" => row.closed \in closings /\ \A k \in closings : k <= row.closed
      /\ i \notin contended =>
           /\ \A k \in containments : row.contained <= k
           /\ row.status # "CLOSED" => row.closed = 0
      /\ task[i].completed <=> TellsOfDone(timeline[i])

(* Every link is on the timeline once, however many requests asked for it  *)
(* at the same time, and what the timeline says was linked is linked until *)
(* the object itself is deleted (link_*, the unique constraints, CASCADE). *)
LinksAreOnTheTimeline ==
    \A i \in Incident, o \in Linkable :
        LET links == LinksTo(timeline[i], o) IN
        /\ \A k, l \in links : k = l
        /\ <<i, o>> \in linked <=> links # {} /\ (KindOf[o] = "account" \/ o \in present)

(* What the timeline says of a case is true of it: numbers, status and     *)
(* milestones. Of other columns (severity, priority, title) it says        *)
(* nothing: update_incident changes them without an entry.                 *)
CaseTimelineIsTrue ==
    IncidentNumbersGapless /\ TimelineExplainsStatus /\ MilestonesMatchTimeline
=============================================================================
