------------------------------- MODULE Alerts -------------------------------
(***************************************************************************)
(* The alert store (backend/app/services/alerts.py): create_or_update, the *)
(* transaction the alert worker runs for every firing, and the analysts'   *)
(* transition and assign. PostgreSQL runs them READ COMMITTED.             *)
(*                                                                         *)
(* An alert is named by the firing that created it. Risk stands for        *)
(* severity as well, which folding treats the same way; event and          *)
(* detection ids are the history variable folded.                          *)
(***************************************************************************)
EXTENDS Integers, FiniteSets

CONSTANTS
    Firing,        \* detections and correlations that may reach the store
    DedupKey,      \* the dedup_key of each firing
    RiskScore,     \* the risk_score of each firing
    Task,          \* worker tasks, each running one transaction at a time
    Analyst,       \* user ids of the analysts
    ApiRequest,    \* bound: transition requests in flight at once
    MaxTriage,     \* bound: transition and assign requests altogether
    Nobody         \* NULL in a user column

ASSUME AlertConstants ==
    /\ \A m \in Firing : RiskScore[m] \in 0..100
    /\ MaxTriage \in Nat
    /\ Nobody \notin Analyst /\ Nobody \notin Firing

VARIABLES
    alert,         \* committed rows of alerts
    last_number,   \* the committed counter of alert_sequences
    now,           \* the clock, as the number of create_or_update calls so far
    cutoff,        \* the dedup window's edge: what was seen at or before it is too old
    tx,            \* each task's transaction
    request,       \* transition requests in flight, with what they loaded
    folded,        \* history: the firings each alert stands for
    overlapped,    \* history: alerts two transition requests were in flight on at once
    triaged        \* requests so far

alertVars == <<alert, last_number, now, cutoff, tx, request, folded, overlapped, triaged>>

OPEN_STATUSES == {"NEW", "IN_PROGRESS", "ESCALATED"}
CLOSING == {"FALSE_POSITIVE", "RESOLVED", "CLOSED"}
ALERT_STATUSES == OPEN_STATUSES \cup CLOSING

TRANSITIONS ==
    [NEW            |-> {"IN_PROGRESS", "ESCALATED", "FALSE_POSITIVE", "RESOLVED", "CLOSED"},
     IN_PROGRESS    |-> {"ESCALATED", "FALSE_POSITIVE", "RESOLVED", "CLOSED", "NEW"},
     ESCALATED      |-> {"IN_PROGRESS", "FALSE_POSITIVE", "RESOLVED", "CLOSED"},
     FALSE_POSITIVE |-> {"IN_PROGRESS", "CLOSED"},
     RESOLVED       |-> {"IN_PROGRESS", "CLOSED"},
     CLOSED         |-> {"IN_PROGRESS"}]

AlertRow == [status : ALERT_STATUSES \cup {"none"},
             number : Nat,
             count : Nat,
             last_seen : Nat,
             risk : 0..100,
             acknowledged : BOOLEAN,
             closed : BOOLEAN,
             analyst : Analyst \cup {Nobody}]

NoAlert == [status |-> "none", number |-> 0, count |-> 0, last_seen |-> 0, risk |-> 0,
            acknowledged |-> FALSE, closed |-> FALSE, analyst |-> Nobody]

TxState == [phase : {"none", "fold", "create", "numbered"},
            alert : Firing \cup {Nobody}, now : Nat, number : Nat]

NoTx == [phase |-> "none", alert |-> Nobody, now |-> 0, number |-> 0]

RequestState == [phase : {"idle", "read"},
                 alert : Firing \cup {Nobody},
                 actor : Analyst \cup {Nobody},
                 target : ALERT_STATUSES,
                 row : AlertRow]

NoRequest == [phase |-> "idle", alert |-> Nobody, actor |-> Nobody, target |-> "NEW",
              row |-> NoAlert]

AlertsTypeOK ==
    /\ alert \in [Firing -> AlertRow]
    /\ last_number \in Nat
    /\ now \in Nat
    /\ cutoff \in 0..now
    /\ tx \in [Task -> TxState]
    /\ request \in [ApiRequest -> RequestState]
    /\ folded \in [Firing -> SUBSET Firing]
    /\ overlapped \subseteq Firing
    /\ triaged \in 0..MaxTriage

AlertsInit ==
    /\ alert = [m \in Firing |-> NoAlert]
    /\ last_number = 0
    /\ now = 0
    /\ cutoff = 0
    /\ tx = [t \in Task |-> NoTx]
    /\ request = [q \in ApiRequest |-> NoRequest]
    /\ folded = [m \in Firing |-> {}]
    /\ overlapped = {}
    /\ triaged = 0

-----------------------------------------------------------------------------
Exists(a) == alert[a].status # "none"

(* The open alerts of a key seen within the dedup window, and of those the *)
(* one seen last.                                                          *)
Duplicates(m) == {a \in Firing : /\ alert[a].status \in OPEN_STATUSES
                                 /\ DedupKey[a] = DedupKey[m]
                                 /\ alert[a].last_seen > cutoff}

Latest(S, a) == a \in S /\ \A b \in S : alert[b].last_seen <= alert[a].last_seen

(* Mutant of RowLocked: find_duplicate's SELECT takes no lock. *)
NeverLocked(t, a) == FALSE

(* SELECT ... FOR UPDATE: the row belongs to another task's transaction. *)
RowLocked(t, a) == \E s \in Task \ {t} : tx[s].phase = "fold" /\ tx[s].alert = a

(* find_duplicate for firing m: waits for the row's lock, then holds it. *)
find_duplicate(t, m) ==
    /\ tx[t].phase = "none"
    /\ now' = now + 1
    /\ \/ \E a \in Firing :
            /\ Latest(Duplicates(m), a)
            /\ ~RowLocked(t, a)
            /\ tx' = [tx EXCEPT ![t] = [phase |-> "fold", alert |-> a, now |-> now + 1,
                                        number |-> alert[a].count]]
       \/ /\ Duplicates(m) = {}
          /\ tx' = [tx EXCEPT ![t] = [phase |-> "create", alert |-> m, now |-> now + 1,
                                      number |-> 0]]
    /\ UNCHANGED <<alert, last_number, cutoff, request, folded, overlapped, triaged>>

(* The repeat is folded in and committed: the count that was read plus     *)
(* one, the worse of the two risks.                                        *)
Fold(t, m) ==
    /\ tx[t].phase = "fold"
    /\ alert' = [alert EXCEPT ![tx[t].alert].count = tx[t].number + 1,
                              ![tx[t].alert].last_seen = tx[t].now,
                              ![tx[t].alert].risk = IF RiskScore[m] > @ THEN RiskScore[m] ELSE @]
    /\ folded' = [folded EXCEPT ![tx[t].alert] = @ \cup {m}]
    /\ tx' = [tx EXCEPT ![t] = NoTx]
    /\ UNCHANGED <<last_number, now, cutoff, request, overlapped, triaged>>

(* Mutant of next_display_id: the counter is read without FOR UPDATE. *)
NumberUnlocked(t) ==
    /\ tx[t].phase = "create"
    /\ tx' = [tx EXCEPT ![t].phase = "numbered", ![t].number = last_number + 1]
    /\ UNCHANGED <<alert, last_number, now, cutoff, request, folded, overlapped, triaged>>

(* next_display_id: the counter row is created if missing, then locked     *)
(* until the transaction ends.                                             *)
next_display_id(t) ==
    /\ tx[t].phase = "create"
    /\ \A s \in Task : tx[s].phase # "numbered"
    /\ tx' = [tx EXCEPT ![t].phase = "numbered", ![t].number = last_number + 1]
    /\ UNCHANGED <<alert, last_number, now, cutoff, request, folded, overlapped, triaged>>

(* The new alert, its number and its first history row are committed. *)
Create(t, m) ==
    /\ tx[t].phase = "numbered"
    /\ alert' = [alert EXCEPT ![m] = [status |-> "NEW", number |-> tx[t].number, count |-> 1,
                                      last_seen |-> tx[t].now, risk |-> RiskScore[m],
                                      acknowledged |-> FALSE, closed |-> FALSE,
                                      analyst |-> Nobody]]
    /\ last_number' = tx[t].number
    /\ folded' = [folded EXCEPT ![m] = {m}]
    /\ tx' = [tx EXCEPT ![t] = NoTx]
    /\ UNCHANGED <<now, cutoff, request, overlapped, triaged>>

(* The task dies before its commit. *)
Rollback(t) ==
    /\ tx' = [tx EXCEPT ![t] = NoTx]
    /\ UNCHANGED <<alert, last_number, now, cutoff, request, folded, overlapped, triaged>>

(* The dedup window moves past everything seen so far. *)
Elapse ==
    /\ cutoff # now
    /\ cutoff' = now
    /\ UNCHANGED <<alert, last_number, now, tx, request, folded, overlapped, triaged>>

-----------------------------------------------------------------------------
(* transition up to its checks: the alert is read without a lock, and its  *)
(* status is tested against TRANSITIONS. A request for the status the      *)
(* alert already has changes nothing.                                      *)
Transition(q, u, a, target) ==
    /\ request[q].phase = "idle"
    /\ triaged < MaxTriage
    /\ Exists(a)
    /\ target \in TRANSITIONS[alert[a].status]
    /\ request' = [request EXCEPT ![q] = [phase |-> "read", alert |-> a, actor |-> u,
                                          target |-> target, row |-> alert[a]]]
    /\ overlapped' = IF \E p \in ApiRequest : request[p].phase = "read" /\ request[p].alert = a
                     THEN overlapped \cup {a} ELSE overlapped
    /\ triaged' = triaged + 1
    /\ UNCHANGED <<alert, last_number, now, cutoff, tx, folded>>

(* Mutant of Triaged: leaving a closing status does not clear closed_at. *)
TriagedStaysClosed(row, seen, target, actor) ==
    [row EXCEPT
        !.status = target,
        !.acknowledged = IF target = "IN_PROGRESS" /\ ~seen.acknowledged THEN TRUE ELSE @,
        !.closed = IF target \in CLOSING THEN TRUE ELSE @,
        !.analyst = IF seen.analyst = Nobody /\ target # "NEW" THEN actor ELSE @]

(* The row after transition's UPDATE, which names the columns whose value  *)
(* differs from the one that was loaded (seen) and overwrites them.        *)
Triaged(row, seen, target, actor) ==
    [row EXCEPT
        !.status = target,
        !.acknowledged = IF target = "IN_PROGRESS" /\ ~seen.acknowledged THEN TRUE ELSE @,
        !.closed = IF target \in CLOSING THEN TRUE ELSE IF seen.closed THEN FALSE ELSE @,
        !.analyst = IF seen.analyst = Nobody /\ target # "NEW" THEN actor ELSE @]

(* The UPDATE waits for the row's lock and is committed with the history row. *)
CommitTransition(q) ==
    LET a == request[q].alert IN
    /\ request[q].phase = "read"
    /\ ~RowLocked(Nobody, a)
    /\ alert' = [alert EXCEPT ![a] =
                    Triaged(@, request[q].row, request[q].target, request[q].actor)]
    /\ request' = [request EXCEPT ![q] = NoRequest]
    /\ UNCHANGED <<last_number, now, cutoff, tx, folded, overlapped, triaged>>

(* The request's transaction is rolled back. *)
AbortTransition(q) ==
    /\ request[q].phase = "read"
    /\ request' = [request EXCEPT ![q] = NoRequest]
    /\ UNCHANGED <<alert, last_number, now, cutoff, tx, folded, overlapped, triaged>>

(* assign writes the one column it reads. *)
assign(a, u) ==
    /\ triaged < MaxTriage
    /\ Exists(a)
    /\ ~RowLocked(Nobody, a)
    /\ alert' = [alert EXCEPT ![a].analyst = u]
    /\ triaged' = triaged + 1
    /\ UNCHANGED <<last_number, now, cutoff, tx, request, folded, overlapped>>
=============================================================================
