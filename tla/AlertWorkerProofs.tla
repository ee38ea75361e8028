-------------------------- MODULE AlertWorkerProofs --------------------------
(***************************************************************************)
(* Proofs about AlertWorker, for every number of tasks, firings, analysts, *)
(* requests and faults and every assignment of dedup keys and risks.       *)
(***************************************************************************)
EXTENDS AlertWorker, FiniteSetTheorems, TLAPS

(* A message is in one task's batch at most, and unacked while it is. *)
BatchesApart ==
    /\ \A t \in Task : batch[t] \subseteq pel
    /\ \A s, t \in Task : s # t => batch[s] \cap batch[t] = {}

(* A transaction is open exactly while the task stores its message. *)
StagesAgree ==
    \A t \in Task : /\ stage[t] = "store" <=> tx[t].phase # "none"
                    /\ stage[t] = "idle" => batch[t] = {}

(* What a transaction has read is still so: the row it locked has the      *)
(* count it read, and the counter it locked is one behind its number.      *)
FoldsLocked ==
    /\ \A t \in Task : tx[t].phase = "fold" =>
            /\ tx[t].alert \in Msg /\ Exists(tx[t].alert)
            /\ tx[t].number = alert[tx[t].alert].count
    /\ \A s, t \in Task : /\ s # t
                          /\ tx[s].phase = "fold" /\ tx[t].phase = "fold"
                          => tx[s].alert # tx[t].alert

CounterLocked ==
    /\ \A t \in Task : tx[t].phase = "numbered" => tx[t].number = last_number + 1
    /\ \A s, t \in Task : tx[s].phase = "numbered" /\ tx[t].phase = "numbered" => s = t

(* The store has not seen firing m. *)
Untouched(m) ==
    ~Exists(m) /\ published[m] = 0 /\ \A a \in Msg : m \notin folded[a]

(* Task t has stored its current message m. *)
IsStored(t, m) == IsCurrent(t, m) /\ stage[t] \in {"publish", "ack"}

HandledOnce ==
    /\ \A m \in Msg : m > cursor => Untouched(m)
    /\ \A t \in Task : \A m \in batch[t] : IsStored(t, m) \/ Untouched(m)

Accounted(m) ==
    \/ m \in Undecodable /\ m \in deadletter
    \/ m \in Ignored
    \/ /\ \E a \in Msg : m \in folded[a]
       /\ Exists(m) => published[m] = 1

(* What the stages after the transaction may rely on. *)
StagesTrue ==
    \A t \in Task : \A m \in Msg : IsCurrent(t, m) =>
        /\ stage[t] = "publish" => Exists(m) /\ m \in folded[m] /\ published[m] = 0
        /\ stage[t] = "ack" => Accounted(m)

(* An alert that does not exist stands for nothing. *)
UnbornEmpty == \A a \in Msg : ~Exists(a) => folded[a] = {}

(* A request is about an existing alert; if it is alone on it, the row it  *)
(* loaded still has the closed_at it saw.                                  *)
RequestsRead ==
    /\ \A q \in ApiRequest : request[q].phase = "read" =>
            /\ request[q].alert \in Msg /\ Exists(request[q].alert)
            /\ request[q].alert \notin overlapped =>
                    (request[q].row.closed <=> alert[request[q].alert].closed)
    /\ \A p, q \in ApiRequest :
            /\ p # q /\ request[p].phase = "read" /\ request[q].phase = "read"
            /\ request[p].alert = request[q].alert
            => request[p].alert \in overlapped

AlertInv ==
    /\ TypeOK
    /\ BatchesApart /\ StagesAgree /\ FoldsLocked /\ CounterLocked /\ HandledOnce
    /\ StagesTrue /\ UnbornEmpty /\ RequestsRead
    /\ DisplayIdsGapless /\ RepeatsCounted /\ AckedIsAccountedFor /\ ClosedAtMatchesStatusAlone

-----------------------------------------------------------------------------
(* A repeat rewrites the row its transaction holds, and that row alone. *)
LEMMA FoldEffect ==
    ASSUME TypeOK, NEW t \in Task, NEW m \in Msg, tx[t].alert \in Msg, Fold(t, m)
    PROVE  LET x == tx[t].alert IN
           /\ alert' \in [Firing -> AlertRow]
           /\ \A a \in Msg \ {x} : alert'[a] = alert[a]
           /\ alert'[x].status = alert[x].status /\ alert'[x].number = alert[x].number
           /\ alert'[x].closed = alert[x].closed /\ alert'[x].count = tx[t].number + 1
           /\ alert'[x].risk = IF RiskScore[m] > alert[x].risk THEN RiskScore[m] ELSE alert[x].risk
<1> DEFINE x == tx[t].alert
           risk == IF RiskScore[m] > alert[x].risk THEN RiskScore[m] ELSE alert[x].risk
<1>1. /\ alert \in [Firing -> AlertRow] /\ tx[t] \in TxState /\ Firing = Msg
      /\ RiskScore[m] \in 0..100
      BY AlertConstants, AlertWorkerConstants DEF TypeOK, AlertsTypeOK
<1>2. tx[t].number + 1 \in Nat /\ tx[t].now \in Nat
      BY <1>1 DEF TxState
<1>3. alert[x] \in AlertRow /\ alert[x].risk \in 0..100
      BY <1>1 DEF AlertRow
<1>4. risk \in 0..100
      BY <1>1, <1>3
<1> DEFINE row == [alert[x] EXCEPT !.count = tx[t].number + 1, !.last_seen = tx[t].now, !.risk = risk]
<1>5. alert' = [alert EXCEPT ![x] = row]
      BY <1>1, <1>3 DEF Fold
<1> HIDE DEF risk
<1>6. /\ row \in AlertRow /\ row.status = alert[x].status /\ row.number = alert[x].number
      /\ row.closed = alert[x].closed /\ row.count = tx[t].number + 1 /\ row.risk = risk
      BY <1>2, <1>3, <1>4 DEF AlertRow
<1> HIDE DEF row
<1>7. alert'[x] = row /\ alert' \in [Firing -> AlertRow] /\ \A a \in Msg \ {x} : alert'[a] = alert[a]
      BY <1>1, <1>5, <1>6
<1> QED BY <1>6, <1>7 DEF risk

(* A transition rewrites the status and what depends on it. *)
LEMMA TriagedRow ==
    ASSUME NEW row \in AlertRow, NEW seen \in AlertRow, NEW target \in ALERT_STATUSES,
           NEW actor \in Analyst \cup {Nobody}, NEW r, r = Triaged(row, seen, target, actor)
    PROVE  /\ r \in AlertRow /\ r.status = target /\ r.number = row.number
           /\ r.count = row.count /\ r.risk = row.risk
           /\ r.closed <=> (target \in CLOSING \/ (~seen.closed /\ row.closed))
<1> DEFINE ackd == IF target = "IN_PROGRESS" /\ ~seen.acknowledged THEN TRUE ELSE row.acknowledged
           clsd == IF target \in CLOSING THEN TRUE ELSE IF seen.closed THEN FALSE ELSE row.closed
           anst == IF seen.analyst = Nobody /\ target # "NEW" THEN actor ELSE row.analyst
<1>1. ackd \in BOOLEAN /\ clsd \in BOOLEAN /\ anst \in Analyst \cup {Nobody}
      BY DEF AlertRow
<1>2. r = [row EXCEPT !.status = target, !.acknowledged = ackd, !.closed = clsd, !.analyst = anst]
      BY Zenon DEF Triaged
<1> HIDE DEF ackd, clsd, anst
<1>3. /\ r \in AlertRow /\ r.status = target /\ r.number = row.number
      /\ r.count = row.count /\ r.risk = row.risk /\ r.closed = clsd
      BY <1>1, <1>2 DEF AlertRow
<1> QED BY <1>3 DEF clsd

(* Delivery counters stay numbers when a batch is delivered. *)
LEMMA DeliveredType ==
    ASSUME BusTypeOK, NEW B
    PROVE  Delivered(B) \in [Msg -> Nat]
BY DEF BusTypeOK, Delivered

(* What XREADGROUP returns is new to the group, and moves the cursor over it. *)
LEMMA ReadFacts ==
    ASSUME BusTypeOK, xreadgroup
    PROVE  /\ BusTypeOK' /\ Settled' = Settled /\ pel' = pel \cup Unread
           /\ Unread \subseteq Msg /\ Unread \cap pel = {}
           /\ \A m \in Unread : m > cursor
           /\ \A m \in Msg : m > cursor' => m > cursor
<1>1. /\ cursor \in Nat /\ stream \in Nat /\ cursor <= stream /\ stream <= MaxMsgs
      /\ cursor' = ReadUpTo /\ ReadUpTo \in Nat /\ cursor <= ReadUpTo /\ ReadUpTo <= stream
      /\ stream' = stream
      BY BusConstants DEF BusTypeOK, xreadgroup, ReadUpTo
<1>2. pel' = pel \cup Unread /\ idle' = idle
      BY DEF xreadgroup
<1>3. /\ Unread \subseteq Msg
      /\ Unread \cap (1..cursor) = {}
      /\ 1..cursor' = (1..cursor) \cup Unread
      /\ \A m \in Unread : m > cursor
      BY <1>1, BusConstants DEF Unread, Msg
<1>4. deliveries' \in [Msg -> Nat]
      BY DeliveredType DEF xreadgroup
<1>5. BusTypeOK'
      <2>1. stream' \in 0..MaxMsgs /\ cursor' \in 0..stream'
            BY <1>1, BusConstants
      <2>2. pel' \subseteq 1..cursor' /\ idle' \subseteq pel'
            BY <1>2, <1>3 DEF BusTypeOK
      <2> QED BY <1>4, <2>1, <2>2 DEF BusTypeOK
<1>6. Settled' = Settled
      BY <1>2, <1>3 DEF Settled, BusTypeOK
<1>7. Unread \cap pel = {}
      BY <1>3 DEF BusTypeOK
<1>8. \A m \in Msg : m > cursor' => m > cursor
      BY <1>1 DEF Msg
<1> QED BY <1>2, <1>3, <1>5, <1>6, <1>7, <1>8

(* Entries the group has read are messages. *)
LEMMA SettledIsRead ==
    BusTypeOK => /\ Settled \subseteq Msg /\ \A m \in Settled : ~(m > cursor)
                 /\ pel \subseteq Msg /\ \A m \in pel : ~(m > cursor)
<1> SUFFICES ASSUME BusTypeOK PROVE 1..cursor \subseteq Msg /\ \A m \in 1..cursor : ~(m > cursor)
    BY DEF BusTypeOK, Settled
<1>1. cursor \in Nat /\ cursor <= MaxMsgs
      BY BusConstants DEF BusTypeOK
<1> QED BY <1>1, BusConstants DEF Msg

(* The alert rows and counters that the invariants count are as they were. *)
SameStore ==
    /\ folded' = folded /\ last_number' = last_number
    /\ alert' \in [Firing -> AlertRow]
    /\ \A a \in Msg : /\ Exists(a)' <=> Exists(a)
                      /\ alert'[a].number = alert[a].number
                      /\ alert'[a].count = alert[a].count
                      /\ alert'[a].risk = alert[a].risk

(* What the dedup window and the analysts do leaves the tasks, the topic   *)
(* and every count alone.                                                  *)
LEMMA TriageEffect ==
    ASSUME TypeOK, RequestsRead, Triage
    PROVE  /\ SameStore
           /\ UNCHANGED <<busVars, taskVars, tx, now>>
           /\ cutoff' \in 0..now /\ request' \in [ApiRequest -> RequestState]
           /\ overlapped \subseteq overlapped' /\ overlapped' \subseteq Firing
           /\ triaged' \in 0..MaxTriage
<1>1. /\ alert \in [Firing -> AlertRow] /\ now \in Nat /\ cutoff \in 0..now
      /\ request \in [ApiRequest -> RequestState] /\ overlapped \subseteq Firing
      /\ triaged \in 0..MaxTriage /\ MaxTriage \in Nat /\ Firing = Msg
      BY AlertConstants, AlertWorkerConstants DEF TypeOK, AlertsTypeOK
<1>2. UNCHANGED <<busVars, taskVars, tx, now, folded, last_number>>
      BY DEF Triage, Elapse, CommitTransition, AbortTransition, Transition, assign
<1>3. CASE Elapse
      BY <1>1, <1>2, <1>3 DEF Elapse, SameStore, Exists
<1>4. NoRequest \in RequestState
      BY DEF NoRequest, RequestState, NoAlert, AlertRow, ALERT_STATUSES, OPEN_STATUSES
<1>5. ASSUME NEW q \in ApiRequest, CommitTransition(q) PROVE SameStore
      <2> DEFINE a == request[q].alert
                 r == Triaged(alert[a], request[q].row, request[q].target, request[q].actor)
      <2>1. /\ request[q].phase = "read" /\ alert' = [alert EXCEPT ![a] = r]
            BY <1>5 DEF CommitTransition
      <2>2. a \in Msg /\ Exists(a)
            BY <2>1 DEF RequestsRead
      <2>3. /\ request[q].row \in AlertRow /\ request[q].target \in ALERT_STATUSES
            /\ request[q].actor \in Analyst \cup {Nobody} /\ alert[a] \in AlertRow
            BY <1>1, <2>2 DEF RequestState
      <2>4. /\ r \in AlertRow /\ r.status = request[q].target /\ r.number = alert[a].number
            /\ r.count = alert[a].count /\ r.risk = alert[a].risk
            <3>1. PICK old \in AlertRow, seen \in AlertRow, target \in ALERT_STATUSES,
                       actor \in Analyst \cup {Nobody} :
                        /\ old = alert[a] /\ seen = request[q].row
                        /\ target = request[q].target /\ actor = request[q].actor
                  BY <2>3
            <3>2. r = Triaged(old, seen, target, actor)
                  BY <3>1
            <3> HIDE DEF r
            <3>3. PICK w : w = r
                  OBVIOUS
            <3>4. /\ w \in AlertRow /\ w.status = target /\ w.number = old.number
                  /\ w.count = old.count /\ w.risk = old.risk
                  BY <3>2, <3>3, TriagedRow
            <3> QED BY <3>1, <3>3, <3>4
      <2>5. r.status # "none"
            BY <2>3, <2>4 DEF ALERT_STATUSES, OPEN_STATUSES, CLOSING
      <2> HIDE DEF r
      <2>6. alert'[a] = r /\ alert' \in [Firing -> AlertRow] /\ \A b \in Msg \ {a} : alert'[b] = alert[b]
            BY <1>1, <2>1, <2>2, <2>4
      <2> QED BY <1>2, <2>2, <2>4, <2>5, <2>6 DEF SameStore, Exists
<1>6. ASSUME NEW q \in ApiRequest, CommitTransition(q) \/ AbortTransition(q)
      PROVE  /\ request' \in [ApiRequest -> RequestState]
             /\ UNCHANGED <<cutoff, overlapped, triaged>>
      BY <1>1, <1>4, <1>6 DEF CommitTransition, AbortTransition
<1>7. ASSUME NEW q \in ApiRequest, AbortTransition(q) PROVE SameStore
      BY <1>1, <1>2, <1>7 DEF AbortTransition, SameStore, Exists
<1>8. ASSUME NEW q \in ApiRequest, NEW u \in Analyst, NEW a \in Msg, NEW s \in ALERT_STATUSES,
             Transition(q, u, a, s)
      PROVE  /\ SameStore /\ request' \in [ApiRequest -> RequestState] /\ cutoff' = cutoff
             /\ overlapped \subseteq overlapped' /\ overlapped' \subseteq Firing
             /\ triaged' \in 0..MaxTriage
      <2> DEFINE w == [phase |-> "read", alert |-> a, actor |-> u, target |-> s, row |-> alert[a]]
      <2>1. w \in RequestState
            BY <1>1 DEF RequestState
      <2>2. request' = [request EXCEPT ![q] = w]
            BY <1>8 DEF Transition
      <2> HIDE DEF w
      <2>3. request' \in [ApiRequest -> RequestState]
            BY <1>1, <2>1, <2>2
      <2>4. SameStore
            BY <1>1, <1>2, <1>8 DEF Transition, SameStore, Exists
      <2> QED BY <1>1, <1>8, <2>3, <2>4 DEF Transition
<1>9. ASSUME NEW a \in Msg, NEW u \in Analyst \cup {Nobody}, assign(a, u)
      PROVE  /\ SameStore /\ UNCHANGED <<request, cutoff, overlapped>> /\ triaged' \in 0..MaxTriage
      <2> DEFINE r == [alert[a] EXCEPT !.analyst = u]
      <2>1. /\ r \in AlertRow /\ r.status = alert[a].status /\ r.number = alert[a].number
            /\ r.count = alert[a].count /\ r.risk = alert[a].risk
            BY <1>1 DEF AlertRow
      <2>2. alert' = [alert EXCEPT ![a] = r]
            BY <1>9 DEF assign
      <2> HIDE DEF r
      <2>3. alert'[a] = r /\ alert' \in [Firing -> AlertRow] /\ \A b \in Msg \ {a} : alert'[b] = alert[b]
            BY <1>1, <2>1, <2>2
      <2>4. SameStore
            BY <1>2, <2>1, <2>3 DEF SameStore, Exists
      <2> QED BY <1>1, <1>9, <2>4 DEF assign
<1> QED BY <1>1, <1>2, <1>3, <1>5, <1>6, <1>7, <1>8, <1>9 DEF Triage

-----------------------------------------------------------------------------
(* The effect of each step on the store, the tasks and the topic. Each     *)
(* lemma also gives the types of what it changes.                          *)
TaskTypes ==
    /\ stage' \in [Task -> {"idle", "accept", "store", "publish", "ack"}]
    /\ batch' \in [Task -> SUBSET Msg]
    /\ published' \in [Msg -> Nat]
    /\ deadletter' \subseteq Msg
    /\ faults' \in 0..MaxFaults

StoreTypes ==
    /\ alert' \in [Firing -> AlertRow] /\ last_number' \in Nat /\ now' \in Nat
    /\ cutoff' \in 0..now' /\ tx' \in [Task -> TxState]
    /\ request' \in [ApiRequest -> RequestState] /\ folded' \in [Firing -> SUBSET Firing]
    /\ overlapped' \subseteq Firing /\ triaged' \in 0..MaxTriage

(* The typing of the bus, the alert store and the workers make the whole. *)
LEMMA TypeParts == BusTypeOK' /\ StoreTypes /\ TaskTypes => TypeOK'
BY DEF TypeOK, AlertsTypeOK, StoreTypes, TaskTypes

(* A step that leaves the alert table alone keeps it typed. *)
LEMMA StoreUnchanged ==
    ASSUME TypeOK, UNCHANGED alertVars
    PROVE  SameStore /\ StoreTypes
<1>1. AlertsTypeOK
      BY DEF TypeOK
<1> QED BY <1>1 DEF AlertsTypeOK, alertVars, SameStore, StoreTypes, Exists

(* What the type invariant says, in the form the proofs below use. *)
LEMMA TypeFacts ==
    TypeOK => /\ BusTypeOK /\ Firing = Msg
              /\ alert \in [Msg -> AlertRow] /\ tx \in [Task -> TxState]
              /\ folded \in [Msg -> SUBSET Msg] /\ last_number \in Nat /\ now \in Nat
              /\ request \in [ApiRequest -> RequestState]
              /\ stage \in [Task -> {"idle", "accept", "store", "publish", "ack"}]
              /\ batch \in [Task -> SUBSET Msg] /\ published \in [Msg -> Nat]
              /\ deadletter \subseteq Msg /\ overlapped \subseteq Msg
              /\ \A a \in Msg : /\ alert[a].status \in ALERT_STATUSES \cup {"none"}
                                /\ alert[a].number \in Nat /\ alert[a].count \in Nat
                                /\ alert[a].risk \in 0..100
BY AlertWorkerConstants DEF TypeOK, AlertsTypeOK, AlertRow

(* A worker outside a transaction is in a typed state. *)
LEMMA NoTxTyped == NoTx \in TxState /\ NoTx.phase = "none"
BY DEF NoTx, TxState

(* find_duplicate opens a transaction, on the newest open duplicate that   *)
(* no other transaction holds, or to create an alert.                      *)
LEMMA FindEffect ==
    ASSUME TypeOK, NEW t \in Task, NEW m \in Msg, find_duplicate(t, m)
    PROVE  /\ SameStore /\ StoreTypes
           /\ UNCHANGED <<alert, request, overlapped>>
           /\ \A s \in Task \ {t} : tx'[s] = tx[s]
           /\ \/ /\ tx'[t].phase = "fold" /\ tx'[t].alert \in Msg /\ Exists(tx'[t].alert)
                 /\ tx'[t].number = alert[tx'[t].alert].count
                 /\ ~RowLocked(t, tx'[t].alert)
              \/ tx'[t].phase = "create"
<1>1. /\ AlertsTypeOK /\ Firing = Msg /\ now \in Nat /\ now + 1 \in Nat
      /\ \A a \in Msg : alert[a].count \in Nat
      BY TypeFacts DEF TypeOK
<1>2. /\ now' = now + 1
      /\ UNCHANGED <<alert, last_number, cutoff, request, folded, overlapped, triaged>>
      BY DEF find_duplicate
<1>3. SameStore
      BY <1>1, <1>2 DEF SameStore, Exists, AlertsTypeOK
<1>4. cutoff' \in 0..now'
      BY <1>1, <1>2 DEF AlertsTypeOK
<1>5. ASSUME tx' \in [Task -> TxState] PROVE StoreTypes
      BY <1>1, <1>2, <1>4, <1>5 DEF StoreTypes, AlertsTypeOK
<1>6. CASE \E a \in Firing :
            /\ Latest(Duplicates(m), a)
            /\ ~RowLocked(t, a)
            /\ tx' = [tx EXCEPT ![t] = [phase |-> "fold", alert |-> a, now |-> now + 1,
                                        number |-> alert[a].count]]
      <2>1. PICK a \in Msg :
                /\ Latest(Duplicates(m), a) /\ ~RowLocked(t, a)
                /\ tx' = [tx EXCEPT ![t] = [phase |-> "fold", alert |-> a, now |-> now + 1,
                                            number |-> alert[a].count]]
            BY <1>1, <1>6
      <2>2. [phase |-> "fold", alert |-> a, now |-> now + 1, number |-> alert[a].count] \in TxState
            BY <1>1 DEF TxState
      <2>3. tx' \in [Task -> TxState] /\ \A s \in Task \ {t} : tx'[s] = tx[s]
            BY <1>1, <2>1, <2>2 DEF AlertsTypeOK
      <2>4. tx'[t] = [phase |-> "fold", alert |-> a, now |-> now + 1, number |-> alert[a].count]
            BY <1>1, <2>1 DEF AlertsTypeOK
      <2>5. tx'[t].phase = "fold" /\ tx'[t].alert = a /\ tx'[t].number = alert[a].count
            BY <2>4
      <2>6. Exists(a)
            BY <2>1 DEF Latest, Duplicates, Exists, OPEN_STATUSES
      <2> QED BY <1>2, <1>3, <1>5, <2>1, <2>3, <2>5, <2>6
<1>7. CASE tx' = [tx EXCEPT ![t] = [phase |-> "create", alert |-> m, now |-> now + 1, number |-> 0]]
      <2>1. [phase |-> "create", alert |-> m, now |-> now + 1, number |-> 0] \in TxState
            BY <1>1 DEF TxState
      <2>2. tx' \in [Task -> TxState] /\ \A s \in Task \ {t} : tx'[s] = tx[s]
            BY <1>1, <1>7, <2>1 DEF AlertsTypeOK
      <2>3. tx'[t].phase = "create"
            BY <1>1, <1>7 DEF AlertsTypeOK
      <2> QED BY <1>2, <1>3, <1>5, <2>2, <2>3
<1> QED BY <1>6, <1>7 DEF find_duplicate

(* Create commits one new row, under the number its transaction took. *)
LEMMA CreateEffect ==
    ASSUME TypeOK, NEW t \in Task, NEW m \in Msg, Create(t, m)
    PROVE  /\ StoreTypes
           /\ UNCHANGED <<request, overlapped>>
           /\ tx[t].phase = "numbered" /\ tx' = [tx EXCEPT ![t] = NoTx]
           /\ last_number' = tx[t].number /\ folded' = [folded EXCEPT ![m] = {m}]
           /\ \A a \in Msg \ {m} : alert'[a] = alert[a]
           /\ alert'[m].status = "NEW" /\ alert'[m].number = tx[t].number
           /\ alert'[m].count = 1 /\ alert'[m].risk = RiskScore[m] /\ ~alert'[m].closed
<1> DEFINE r == [status |-> "NEW", number |-> tx[t].number, count |-> 1,
                 last_seen |-> tx[t].now, risk |-> RiskScore[m],
                 acknowledged |-> FALSE, closed |-> FALSE, analyst |-> Nobody]
<1>1. /\ AlertsTypeOK /\ Firing = Msg /\ RiskScore[m] \in 0..100
      /\ tx[t].number \in Nat /\ tx[t].now \in Nat
      BY TypeFacts, AlertConstants DEF TypeOK, TxState
<1>2. /\ tx[t].phase = "numbered" /\ tx' = [tx EXCEPT ![t] = NoTx]
      /\ alert' = [alert EXCEPT ![m] = r]
      /\ last_number' = tx[t].number /\ folded' = [folded EXCEPT ![m] = {m}]
      /\ UNCHANGED <<now, cutoff, request, overlapped, triaged>>
      BY DEF Create
<1>3. /\ r \in AlertRow /\ r.status = "NEW" /\ r.number = tx[t].number
      /\ r.count = 1 /\ r.risk = RiskScore[m] /\ ~r.closed
      BY <1>1 DEF AlertRow, ALERT_STATUSES, OPEN_STATUSES
<1> HIDE DEF r
<1>4. /\ alert' \in [Firing -> AlertRow] /\ alert'[m] = r
      /\ \A a \in Msg \ {m} : alert'[a] = alert[a]
      BY <1>1, <1>2, <1>3 DEF AlertsTypeOK
<1>5. StoreTypes
      BY <1>1, <1>2, <1>4, NoTxTyped DEF StoreTypes, AlertsTypeOK
<1> QED BY <1>2, <1>3, <1>4, <1>5

(* Counting a repeat into an alert keeps the table typed. *)
LEMMA FoldTypes ==
    ASSUME TypeOK, NEW t \in Task, NEW m \in Msg, tx[t].alert \in Msg, Fold(t, m)
    PROVE  StoreTypes
<1>1. AlertsTypeOK /\ Firing = Msg /\ alert' \in [Firing -> AlertRow]
      BY TypeFacts, FoldEffect DEF TypeOK
<1> QED BY <1>1, NoTxTyped DEF Fold, StoreTypes, AlertsTypeOK

(* A rolled-back transaction leaves no trace. *)
LEMMA RollbackEffect ==
    ASSUME TypeOK, NEW t \in Task, Rollback(t)
    PROVE  SameStore /\ StoreTypes
<1>1. AlertsTypeOK
      BY DEF TypeOK
<1> QED BY <1>1, NoTxTyped DEF Rollback, SameStore, StoreTypes, AlertsTypeOK, Exists

(* The counter row is locked by one transaction at a time. *)
LEMMA NumberEffect ==
    ASSUME TypeOK, NEW t \in Task, next_display_id(t)
    PROVE  /\ SameStore /\ StoreTypes /\ UNCHANGED <<alert, request, overlapped>>
           /\ \A s \in Task : tx[s].phase # "numbered"
           /\ \A s \in Task \ {t} : tx'[s] = tx[s]
           /\ tx[t].phase = "create" /\ tx'[t].phase = "numbered"
           /\ tx'[t].number = last_number + 1
<1>1. AlertsTypeOK /\ tx[t] \in TxState /\ last_number + 1 \in Nat
      BY TypeFacts DEF TypeOK
<1> DEFINE x == [tx[t] EXCEPT !.phase = "numbered", !.number = last_number + 1]
<1>2. x \in TxState /\ x.phase = "numbered" /\ x.number = last_number + 1
      BY <1>1 DEF TxState
<1>3. tx' = [tx EXCEPT ![t] = x]
      BY <1>1 DEF next_display_id, AlertsTypeOK
<1> HIDE DEF x
<1>4. tx' \in [Task -> TxState] /\ tx'[t] = x /\ \A s \in Task \ {t} : tx'[s] = tx[s]
      BY <1>1, <1>2, <1>3 DEF AlertsTypeOK
<1>5. SameStore /\ StoreTypes
      BY <1>1, <1>4 DEF next_display_id, SameStore, StoreTypes, AlertsTypeOK, Exists
<1> QED BY <1>2, <1>4, <1>5 DEF next_display_id

(* An acked entry leaves the pending list for good. *)
LEMMA AckFacts ==
    ASSUME BusTypeOK, NEW m \in Msg, m \in pel, ack(m)
    PROVE  /\ BusTypeOK' /\ pel' = pel \ {m} /\ cursor' = cursor
           /\ Settled' = Settled \cup {m}
<1>1. /\ stream' = stream /\ cursor' = cursor /\ deliveries' = deliveries
      /\ pel' = pel \ {m} /\ idle' = idle \ {m}
      BY DEF ack
<1>2. BusTypeOK'
      BY <1>1 DEF BusTypeOK
<1>3. Settled' = Settled \cup {m}
      BY <1>1 DEF Settled, BusTypeOK
<1> QED BY <1>1, <1>2, <1>3

(* A task has one current message. *)
LEMMA CurrentIsOne ==
    ASSUME TypeOK, NEW t \in Task, NEW m \in Msg, NEW n \in Msg, IsCurrent(t, m), IsCurrent(t, n)
    PROVE  m = n
BY BusConstants DEF IsCurrent, Msg

-----------------------------------------------------------------------------
(* Type correctness of one step. *)
LEMMA TypeStep == TypeOK /\ BatchesApart /\ FoldsLocked /\ RequestsRead /\ [Next]_vars => TypeOK'
<1> SUFFICES ASSUME TypeOK, BatchesApart, FoldsLocked, RequestsRead, [Next]_vars
             PROVE  TypeOK'
    OBVIOUS
<1>1. /\ BusTypeOK /\ Firing = Msg
      /\ stage \in [Task -> {"idle", "accept", "store", "publish", "ack"}]
      /\ batch \in [Task -> SUBSET Msg] /\ published \in [Msg -> Nat]
      /\ deadletter \subseteq Msg /\ faults \in 0..MaxFaults /\ MaxFaults \in Nat
      BY TypeFacts, AlertWorkerConstants DEF TypeOK
<1>2. UNCHANGED busVars => BusTypeOK'
      BY <1>1 DEF busVars, BusTypeOK
<1>3. UNCHANGED taskVars => TaskTypes
      BY <1>1 DEF taskVars, TaskTypes
<1>4. CASE UNCHANGED vars
      <2>1. UNCHANGED <<busVars, alertVars, taskVars>>
            BY <1>4 DEF vars, busVars, alertVars, taskVars
      <2> QED BY <1>2, <1>3, <2>1, StoreUnchanged, TypeParts
<1>5. CASE Fire
      <2>1. stream' \in 0..MaxMsgs /\ cursor' \in 0..stream'
            BY <1>1, <1>5, BusConstants DEF Fire, publish, BusTypeOK
      <2>2. BusTypeOK'
            BY <1>1, <1>5, <2>1 DEF Fire, publish, BusTypeOK
      <2>3. UNCHANGED <<alertVars, taskVars>>
            BY <1>5 DEF Fire
      <2> QED BY <1>3, <2>2, <2>3, StoreUnchanged, TypeParts
<1>6. CASE Triage
      <2>1. UNCHANGED <<busVars, taskVars>>
            BY <1>6 DEF Triage
      <2>2. SameStore /\ UNCHANGED <<tx, now>>
            /\ cutoff' \in 0..now /\ request' \in [ApiRequest -> RequestState]
            /\ overlapped' \subseteq Firing /\ triaged' \in 0..MaxTriage
            BY <1>6, TriageEffect
      <2>3. StoreTypes
            BY <2>2, TypeFacts, <1>1 DEF StoreTypes, SameStore
      <2> QED BY <1>2, <1>3, <2>1, <2>3, TypeParts
<1>7. ASSUME NEW t \in Task, Subscribe(t) PROVE TypeOK'
      <2>1. BusTypeOK' /\ Unread \subseteq Msg
            BY <1>1, <1>7, ReadFacts DEF Subscribe
      <2>2. TaskTypes /\ UNCHANGED alertVars
            BY <1>1, <1>7, <2>1 DEF Subscribe, Goto, TaskTypes
      <2> QED BY <2>1, <2>2, StoreUnchanged, TypeParts
<1>8. ASSUME NEW t \in Task, Accept(t) PROVE TypeOK'
      <2>1. TaskTypes /\ UNCHANGED busVars
            BY <1>1, <1>8 DEF Accept, Goto, TaskTypes
      <2>2. StoreTypes
            BY <1>8, StoreUnchanged, FindEffect DEF Accept
      <2> QED BY <1>2, <2>1, <2>2, TypeParts
<1>9. ASSUME NEW t \in Task, FoldRepeat(t) PROVE TypeOK'
      <2>1. TaskTypes /\ UNCHANGED busVars
            BY <1>1, <1>9 DEF FoldRepeat, Goto, TaskTypes
      <2>2. StoreTypes
            BY <1>9, FoldTypes DEF FoldRepeat, Fold, FoldsLocked
      <2> QED BY <1>2, <2>1, <2>2, TypeParts
<1>10. ASSUME NEW t \in Task, TakeNumber(t) PROVE TypeOK'
      <2>1. UNCHANGED <<busVars, taskVars>> /\ StoreTypes
            BY <1>10, NumberEffect DEF TakeNumber
      <2> QED BY <1>2, <1>3, <2>1, TypeParts
<1>11. ASSUME NEW t \in Task, CreateAlert(t) PROVE TypeOK'
      <2>1. TaskTypes /\ UNCHANGED busVars
            BY <1>1, <1>11 DEF CreateAlert, Goto, TaskTypes
      <2>2. StoreTypes
            BY <1>11, CreateEffect DEF CreateAlert
      <2> QED BY <1>2, <2>1, <2>2, TypeParts
<1>12. ASSUME NEW t \in Task, PublishAlert(t) PROVE TypeOK'
      <2>1. UNCHANGED <<busVars, alertVars>>
            BY <1>12 DEF PublishAlert
      <2>2. published' \in [Msg -> Nat]
            BY <1>1, <1>12 DEF PublishAlert
      <2>3. TaskTypes
            BY <1>1, <1>12, <2>2 DEF PublishAlert, Goto, TaskTypes
      <2> QED BY <1>2, <2>1, <2>3, StoreUnchanged, TypeParts
<1>13. ASSUME NEW t \in Task, Ack(t) PROVE TypeOK'
      <2>1. PICK m \in Msg : /\ IsCurrent(t, m) /\ ack(m)
                             /\ batch' = [batch EXCEPT ![t] = @ \ {m}]
                             /\ Goto(t, IF batch[t] = {m} THEN "idle" ELSE "accept")
            BY <1>13 DEF Ack
      <2>2. BusTypeOK'
            BY <1>1, <2>1, AckFacts DEF BatchesApart, IsCurrent
      <2>3. TaskTypes /\ UNCHANGED alertVars
            BY <1>1, <1>13, <2>1 DEF Ack, Goto, TaskTypes
      <2> QED BY <2>2, <2>3, StoreUnchanged, TypeParts
<1>14. ASSUME NEW t \in Task, Crash(t) PROVE TypeOK'
      <2>1. TaskTypes /\ UNCHANGED busVars
            BY <1>1, <1>14 DEF Crash, Goto, TaskTypes
      <2>2. StoreTypes
            BY <1>14, RollbackEffect DEF Crash
      <2> QED BY <1>2, <2>1, <2>2, TypeParts
<1> QED BY <1>4, <1>5, <1>6, <1>7, <1>8, <1>9, <1>10, <1>11, <1>12, <1>13, <1>14 DEF Next

-----------------------------------------------------------------------------
(* What the invariants count is unchanged when the counts are. *)
LEMMA StoreFrame ==
    ASSUME TypeOK, SameStore, DisplayIdsGapless, RepeatsCounted, UnbornEmpty
    PROVE  DisplayIdsGapless' /\ RepeatsCounted' /\ UnbornEmpty'
<1>1. {a \in Msg : Exists(a)}' = {a \in Msg : Exists(a)}
      BY DEF SameStore
<1>2. {alert[a].number : a \in {b \in Msg : Exists(b)}}' = {alert[a].number : a \in {b \in Msg : Exists(b)}}
      BY <1>1 DEF SameStore
<1>3. DisplayIdsGapless'
      BY <1>1, <1>2 DEF DisplayIdsGapless, SameStore
<1>4. UnbornEmpty'
      BY DEF UnbornEmpty, SameStore
<1>5. RepeatsCounted'
      BY DEF RepeatsCounted, SameStore
<1> QED BY <1>3, <1>4, <1>5

(* Whether a firing was handled, and whether it is accounted for, is seen  *)
(* in the store, the announcements and the dead letters alone.             *)
LEMMA HandledFrame ==
    ASSUME TypeOK, SameStore, published' = published, deadletter \subseteq deadletter'
    PROVE  \A m \in Msg : /\ Untouched(m)' <=> Untouched(m)
                          /\ Accounted(m) => Accounted(m)'
BY DEF SameStore, Untouched, Accounted

(* AckedIsAccountedFor in terms of Accounted, before and after a step. *)
LEMMA AckedForm ==
    /\ AckedIsAccountedFor <=> /\ \A a \in Msg : published[a] <= IF Exists(a) THEN 1 ELSE 0
                               /\ \A m \in Settled : Accounted(m)
    /\ AckedIsAccountedFor' <=> /\ \A a \in Msg : published'[a] <= IF Exists(a)' THEN 1 ELSE 0
                                /\ \A m \in Settled' : Accounted(m)'
BY DEF AckedIsAccountedFor, Accounted

(* The tasks' invariants hold on when nothing they read has changed. *)
LEMMA TasksFrame ==
    ASSUME AlertInv, SameStore, UNCHANGED <<tx, stage, batch, published, deadletter, cursor, pel>>
    PROVE  /\ BatchesApart' /\ StagesAgree' /\ FoldsLocked' /\ CounterLocked' /\ HandledOnce'
           /\ StagesTrue' /\ AckedIsAccountedFor'
<1>1. \A m \in Msg : (Untouched(m)' <=> Untouched(m)) /\ (Accounted(m) => Accounted(m)')
      BY HandledFrame DEF AlertInv
<1>2. \A m \in Msg : \A t \in Task : IsCurrent(t, m)' <=> IsCurrent(t, m)
      BY DEF IsCurrent
<1>3. batch \in [Task -> SUBSET Msg]
      BY TypeFacts DEF AlertInv
<1>4. BatchesApart' /\ StagesAgree'
      BY DEF AlertInv, BatchesApart, StagesAgree
<1>5. FoldsLocked' /\ CounterLocked'
      BY DEF AlertInv, FoldsLocked, CounterLocked, SameStore
<1>6. HandledOnce'
      BY <1>1, <1>2, <1>3 DEF AlertInv, HandledOnce, IsStored
<1>7. StagesTrue'
      BY <1>1, <1>2 DEF AlertInv, StagesTrue, SameStore
<1>8. AckedIsAccountedFor'
      <2>1. Settled' = Settled /\ Settled \subseteq Msg
            BY SettledIsRead, TypeFacts DEF AlertInv, Settled
      <2> QED BY <1>1, <2>1, AckedForm DEF AlertInv, SameStore
<1> QED BY <1>4, <1>5, <1>6, <1>7, <1>8

(* So do the analysts' when no row, request or overlap has. *)
LEMMA RequestsFrame ==
    ASSUME AlertInv, UNCHANGED <<alert, request, overlapped>>
    PROVE  RequestsRead' /\ ClosedAtMatchesStatusAlone'
BY DEF AlertInv, RequestsRead, ClosedAtMatchesStatusAlone, Exists

-----------------------------------------------------------------------------
(* The invariant is kept, one action after the other. *)
LEMMA FireKeeps == ASSUME AlertInv, TypeOK', Fire PROVE AlertInv'
<1>1. UNCHANGED <<alertVars, taskVars, cursor, pel>>
      BY DEF Fire, publish
<1>2. SameStore
      BY <1>1, StoreUnchanged DEF AlertInv
<1>3. DisplayIdsGapless' /\ RepeatsCounted' /\ UnbornEmpty'
      BY <1>2, StoreFrame DEF AlertInv
<1>4. /\ BatchesApart' /\ StagesAgree' /\ FoldsLocked' /\ CounterLocked' /\ HandledOnce'
      /\ StagesTrue' /\ AckedIsAccountedFor'
      BY <1>1, <1>2, TasksFrame DEF alertVars, taskVars
<1>5. RequestsRead' /\ ClosedAtMatchesStatusAlone'
      BY <1>1, RequestsFrame DEF alertVars
<1> QED BY <1>3, <1>4, <1>5 DEF AlertInv

(* closed_at follows the status: a request that is alone on its alert saw  *)
(* the row it overwrites.                                                  *)
LEMMA TriageRequests ==
    ASSUME AlertInv, Triage
    PROVE  RequestsRead' /\ ClosedAtMatchesStatusAlone'
<1>1. /\ TypeOK /\ RequestsRead /\ ClosedAtMatchesStatusAlone /\ Firing = Msg
      /\ alert \in [Msg -> AlertRow] /\ request \in [ApiRequest -> RequestState]
      BY TypeFacts DEF AlertInv
<1>2. SameStore /\ overlapped \subseteq overlapped'
      BY <1>1, TriageEffect
<1>3. CASE Elapse
      BY <1>3, RequestsFrame DEF Elapse
<1>4. NoRequest.phase = "idle"
      BY DEF NoRequest
<1>5. ASSUME NEW q \in ApiRequest, AbortTransition(q)
      PROVE  RequestsRead' /\ ClosedAtMatchesStatusAlone'
      <2>1. /\ alert' = alert /\ overlapped' = overlapped
            /\ request'[q].phase = "idle" /\ \A p \in ApiRequest \ {q} : request'[p] = request[p]
            BY <1>1, <1>4, <1>5 DEF AbortTransition
      <2> QED BY <1>1, <2>1 DEF RequestsRead, ClosedAtMatchesStatusAlone, Exists
<1>6. ASSUME NEW q \in ApiRequest, NEW u \in Analyst, NEW a \in Msg, NEW s \in ALERT_STATUSES,
             Transition(q, u, a, s)
      PROVE  RequestsRead' /\ ClosedAtMatchesStatusAlone'
      <2>1. /\ alert' = alert /\ Exists(a)
            /\ request'[q] = [phase |-> "read", alert |-> a, actor |-> u, target |-> s,
                              row |-> alert[a]]
            /\ \A p \in ApiRequest \ {q} : request'[p] = request[p]
            /\ overlapped' = IF \E p \in ApiRequest : request[p].phase = "read" /\ request[p].alert = a
                             THEN overlapped \cup {a} ELSE overlapped
            BY <1>1, <1>6 DEF Transition
      <2>2. request'[q].phase = "read" /\ request'[q].alert = a /\ request'[q].row = alert[a]
            BY <2>1
      <2>3. ClosedAtMatchesStatusAlone'
            BY <1>1, <1>2, <2>1 DEF ClosedAtMatchesStatusAlone
      <2>4. \A p \in ApiRequest \ {q} : request[p].phase = "read" /\ request[p].alert = a => a \in overlapped'
            BY <2>1
      <2>5. RequestsRead'
            <3>1. \A p \in ApiRequest : request'[p].phase = "read" =>
                        /\ request'[p].alert \in Msg /\ Exists(request'[p].alert)
                        /\ request'[p].alert \notin overlapped' =>
                                (request'[p].row.closed <=> alert[request'[p].alert].closed)
                  BY <1>1, <1>2, <2>1, <2>2 DEF RequestsRead
            <3>2. \A p, r \in ApiRequest :
                        /\ p # r /\ request'[p].phase = "read" /\ request'[r].phase = "read"
                        /\ request'[p].alert = request'[r].alert
                        => request'[p].alert \in overlapped'
                  BY <1>1, <1>2, <2>1, <2>2, <2>4 DEF RequestsRead
            <3> QED BY <2>1, <3>1, <3>2 DEF RequestsRead, Exists
      <2> QED BY <2>3, <2>5
<1>7. ASSUME NEW a \in Msg, NEW u \in Analyst \cup {Nobody}, assign(a, u)
      PROVE  RequestsRead' /\ ClosedAtMatchesStatusAlone'
      <2>1. /\ request' = request /\ overlapped' = overlapped
            /\ alert' = [alert EXCEPT ![a] = [alert[a] EXCEPT !.analyst = u]]
            BY <1>7 DEF assign
      <2>2. PICK r : r = [alert[a] EXCEPT !.analyst = u]
            OBVIOUS
      <2>3. r.closed = alert[a].closed /\ r.status = alert[a].status
            BY <1>1, <2>2 DEF AlertRow
      <2>4. \A b \in Msg : alert'[b].closed = alert[b].closed /\ alert'[b].status = alert[b].status
            BY <1>1, <2>1, <2>2, <2>3
      <2> QED BY <1>1, <2>1, <2>4 DEF RequestsRead, ClosedAtMatchesStatusAlone, Exists
<1>8. ASSUME NEW q \in ApiRequest, CommitTransition(q)
      PROVE  RequestsRead' /\ ClosedAtMatchesStatusAlone'
      <2>1. PICK a \in Msg, old \in AlertRow, seen \in AlertRow, target \in ALERT_STATUSES,
                 actor \in Analyst \cup {Nobody} :
                    /\ a = request[q].alert /\ old = alert[a] /\ seen = request[q].row
                    /\ target = request[q].target /\ actor = request[q].actor
                    /\ Exists(a)
            BY <1>1, <1>8 DEF CommitTransition, RequestsRead, RequestState
      <2>2. PICK r : r = Triaged(old, seen, target, actor)
            OBVIOUS
      <2>3. /\ r.status = target
            /\ r.closed <=> (target \in CLOSING \/ (~seen.closed /\ old.closed))
            BY <2>2, TriagedRow
      <2>4. /\ overlapped' = overlapped /\ request[q].phase = "read"
            /\ alert' = [alert EXCEPT ![a] = r] /\ request' = [request EXCEPT ![q] = NoRequest]
            BY <1>8, <2>1, <2>2 DEF CommitTransition
      <2>5. /\ alert'[a] = r /\ \A b \in Msg \ {a} : alert'[b] = alert[b]
            /\ request'[q].phase = "idle" /\ \A p \in ApiRequest \ {q} : request'[p] = request[p]
            BY <1>1, <1>4, <2>4
      <2>6. a \notin overlapped => (seen.closed <=> old.closed)
            BY <1>1, <2>1, <2>4 DEF RequestsRead
      <2>7. a \notin overlapped => (r.closed <=> r.status \in CLOSING)
            BY <2>3, <2>6
      <2>8. ClosedAtMatchesStatusAlone'
            BY <1>1, <2>4, <2>5, <2>7 DEF ClosedAtMatchesStatusAlone
      <2>9. \A p \in ApiRequest \ {q} : request[p].phase = "read" /\ request[p].alert = a => a \in overlapped
            BY <1>1, <2>1, <2>4 DEF RequestsRead
      <2>10. \A b \in Msg : Exists(b)' <=> Exists(b)
            BY <1>2 DEF SameStore
      <2>11. RequestsRead'
            BY <1>1, <2>4, <2>5, <2>9, <2>10 DEF RequestsRead
      <2> QED BY <2>8, <2>11
<1> QED BY <1>3, <1>5, <1>6, <1>7, <1>8 DEF Triage

(* An analyst's status change keeps the invariant. *)
LEMMA TriageKeeps == ASSUME AlertInv, TypeOK', Triage PROVE AlertInv'
<1>1. SameStore /\ UNCHANGED <<busVars, taskVars, tx>>
      BY TriageEffect DEF AlertInv
<1>2. DisplayIdsGapless' /\ RepeatsCounted' /\ UnbornEmpty'
      BY <1>1, StoreFrame DEF AlertInv
<1>3. /\ BatchesApart' /\ StagesAgree' /\ FoldsLocked' /\ CounterLocked' /\ HandledOnce'
      /\ StagesTrue' /\ AckedIsAccountedFor'
      BY <1>1, TasksFrame DEF busVars, taskVars
<1> QED BY <1>2, <1>3, TriageRequests DEF AlertInv

(* What a task does to its own stage and batch is nothing to the others. *)
OthersKeep(t) ==
    \A s \in Task \ {t} : /\ stage'[s] = stage[s] /\ batch'[s] = batch[s]
                          /\ \A m \in Msg : (IsCurrent(s, m)' <=> IsCurrent(s, m))

(* A step of one worker leaves what every other worker holds. *)
LEMMA OthersFrame ==
    ASSUME TypeOK, NEW t \in Task, NEW g, NEW B,
           stage' = [stage EXCEPT ![t] = g], batch' = [batch EXCEPT ![t] = B]
    PROVE  OthersKeep(t) /\ stage'[t] = g /\ batch'[t] = B
BY TypeFacts DEF OthersKeep, IsCurrent

(* Reading a batch from the stream keeps the invariant. *)
LEMMA SubscribeKeeps == ASSUME AlertInv, TypeOK', NEW t \in Task, Subscribe(t) PROVE AlertInv'
<1>1. /\ stage[t] = "idle" /\ UNCHANGED <<alertVars, published, deadletter>> /\ xreadgroup
      /\ batch' = [batch EXCEPT ![t] = Unread] /\ stage' = [stage EXCEPT ![t] = "accept"]
      BY DEF Subscribe, Goto
<1>2. SameStore
      BY <1>1, StoreUnchanged DEF AlertInv
<1>3. DisplayIdsGapless' /\ RepeatsCounted' /\ UnbornEmpty'
      BY <1>2, StoreFrame DEF AlertInv
<1>4. RequestsRead' /\ ClosedAtMatchesStatusAlone'
      BY <1>1, RequestsFrame DEF alertVars
<1>5. OthersKeep(t) /\ stage'[t] = "accept" /\ batch'[t] = Unread
      BY <1>1, OthersFrame DEF AlertInv
<1>6. /\ Settled' = Settled /\ pel' = pel \cup Unread /\ Unread \subseteq Msg
      /\ Unread \cap pel = {} /\ (\A m \in Unread : m > cursor)
      /\ \A m \in Msg : m > cursor' => m > cursor
      BY <1>1, ReadFacts, TypeFacts DEF AlertInv
<1>7. \A m \in Msg : (Untouched(m)' <=> Untouched(m)) /\ (Accounted(m) => Accounted(m)')
      BY <1>1, <1>2, HandledFrame DEF AlertInv
<1>8. tx' = tx /\ tx[t].phase = "none"
      BY <1>1 DEF AlertInv, StagesAgree, alertVars
<1>9. BatchesApart'
      BY <1>5, <1>6 DEF AlertInv, BatchesApart, OthersKeep
<1>10. StagesAgree'
      BY <1>5, <1>8 DEF AlertInv, StagesAgree, OthersKeep
<1>11. FoldsLocked' /\ CounterLocked'
      BY <1>2, <1>8 DEF AlertInv, FoldsLocked, CounterLocked, SameStore
<1>12. batch \in [Task -> SUBSET Msg]
      BY TypeFacts DEF AlertInv
<1>13. HandledOnce'
      <2>1. \A m \in Msg : m > cursor' => Untouched(m)'
            BY <1>6, <1>7 DEF AlertInv, HandledOnce
      <2>2. \A m \in batch'[t] : Untouched(m)'
            BY <1>5, <1>6, <1>7 DEF AlertInv, HandledOnce
      <2>3. \A s \in Task \ {t} : \A m \in batch'[s] : IsStored(s, m)' \/ Untouched(m)'
            BY <1>5, <1>7, <1>12 DEF AlertInv, HandledOnce, IsStored, OthersKeep
      <2> QED BY <2>1, <2>2, <2>3 DEF HandledOnce
<1>14. StagesTrue'
      BY <1>1, <1>2, <1>5, <1>7 DEF AlertInv, StagesTrue, OthersKeep, SameStore
<1>15. AckedIsAccountedFor'
      <2>1. Settled \subseteq Msg
            BY SettledIsRead, TypeFacts DEF AlertInv
      <2> QED BY <1>1, <1>2, <1>6, <1>7, <2>1, AckedForm DEF AlertInv, SameStore
<1> QED BY <1>3, <1>4, <1>9, <1>10, <1>11, <1>13, <1>14, <1>15 DEF AlertInv

(* Acknowledging a firing keeps the invariant: it was counted before. *)
LEMMA AckKeeps == ASSUME AlertInv, TypeOK', NEW t \in Task, Ack(t) PROVE AlertInv'
<1>1. PICK m \in Msg : /\ IsCurrent(t, m) /\ ack(m)
                       /\ batch' = [batch EXCEPT ![t] = @ \ {m}]
                       /\ Goto(t, IF batch[t] = {m} THEN "idle" ELSE "accept")
      BY DEF Ack
<1>2. /\ stage[t] = "ack" /\ UNCHANGED <<alertVars, published, deadletter>>
      BY DEF Ack
<1>3. PICK B, g : B = batch[t] \ {m} /\ g = IF batch[t] = {m} THEN "idle" ELSE "accept"
      OBVIOUS
<1>4. batch' = [batch EXCEPT ![t] = B] /\ stage' = [stage EXCEPT ![t] = g]
      BY <1>1, <1>3 DEF Goto
<1>5. OthersKeep(t) /\ stage'[t] = g /\ batch'[t] = B
      BY <1>4, OthersFrame DEF AlertInv
<1>6. SameStore
      BY <1>2, StoreUnchanged DEF AlertInv
<1>7. DisplayIdsGapless' /\ RepeatsCounted' /\ UnbornEmpty'
      BY <1>6, StoreFrame DEF AlertInv
<1>8. RequestsRead' /\ ClosedAtMatchesStatusAlone'
      BY <1>2, RequestsFrame DEF alertVars
<1>9. /\ pel' = pel \ {m} /\ cursor' = cursor /\ Settled' = Settled \cup {m}
      BY <1>1, AckFacts, TypeFacts DEF AlertInv, BatchesApart, IsCurrent
<1>10. \A k \in Msg : (Untouched(k)' <=> Untouched(k)) /\ (Accounted(k) => Accounted(k)')
      BY <1>2, <1>6, HandledFrame DEF AlertInv
<1>11. tx' = tx /\ tx[t].phase = "none"
      BY <1>2 DEF AlertInv, StagesAgree, alertVars
<1>12. batch \in [Task -> SUBSET Msg]
      BY TypeFacts DEF AlertInv
<1>13. m \in batch[t] /\ \A s \in Task \ {t} : m \notin batch[s]
      BY <1>1, <1>12 DEF AlertInv, BatchesApart, IsCurrent
<1>14. BatchesApart'
      BY <1>3, <1>5, <1>9, <1>13 DEF AlertInv, BatchesApart, OthersKeep
<1>15. StagesAgree'
      <2>1. g # "store" /\ (g = "idle" => B = {})
            BY <1>3
      <2> QED BY <1>5, <1>11, <2>1 DEF AlertInv, StagesAgree, OthersKeep
<1>16. FoldsLocked' /\ CounterLocked'
      BY <1>6, <1>11 DEF AlertInv, FoldsLocked, CounterLocked, SameStore
<1>17. HandledOnce'
      <2>1. \A k \in Msg : k > cursor' => Untouched(k)'
            BY <1>9, <1>10 DEF AlertInv, HandledOnce
      <2>2. ASSUME NEW k \in batch'[t] PROVE Untouched(k)'
            <3>1. k \in Msg /\ k \in batch[t] /\ k # m
                  BY <1>3, <1>5, <1>12
            <3>2. ~IsCurrent(t, k)
                  BY <1>1, <3>1, CurrentIsOne DEF AlertInv
            <3> QED BY <1>10, <3>1, <3>2 DEF AlertInv, HandledOnce, IsStored
      <2>3. \A s \in Task \ {t} : \A k \in batch'[s] : IsStored(s, k)' \/ Untouched(k)'
            BY <1>5, <1>10, <1>12 DEF AlertInv, HandledOnce, IsStored, OthersKeep
      <2> QED BY <2>1, <2>2, <2>3 DEF HandledOnce
<1>18. StagesTrue'
      <2>1. g \notin {"publish", "ack"}
            BY <1>3
      <2> QED BY <1>2, <1>5, <1>6, <1>10, <2>1 DEF AlertInv, StagesTrue, OthersKeep, SameStore
<1>19. AckedIsAccountedFor'
      <2>1. Settled \subseteq Msg
            BY SettledIsRead, TypeFacts DEF AlertInv
      <2>2. Accounted(m)
            BY <1>1, <1>2 DEF AlertInv, StagesTrue
      <2> QED BY <1>2, <1>6, <1>9, <1>10, <2>1, <2>2, AckedForm DEF AlertInv, SameStore
<1> QED BY <1>7, <1>8, <1>14, <1>15, <1>16, <1>17, <1>18, <1>19 DEF AlertInv

(* A crash, which rolls back the open transaction, keeps the invariant. *)
LEMMA CrashKeeps == ASSUME AlertInv, TypeOK', NEW t \in Task, Crash(t) PROVE AlertInv'
<1>1. /\ UNCHANGED <<busVars, published, deadletter>> /\ Rollback(t)
      /\ batch' = [batch EXCEPT ![t] = {}] /\ stage' = [stage EXCEPT ![t] = "idle"]
      BY DEF Crash, Goto
<1>2. SameStore
      BY <1>1, RollbackEffect DEF AlertInv
<1>3. DisplayIdsGapless' /\ RepeatsCounted' /\ UnbornEmpty'
      BY <1>2, StoreFrame DEF AlertInv
<1>4. RequestsRead' /\ ClosedAtMatchesStatusAlone'
      BY <1>1, RequestsFrame DEF Rollback
<1>5. OthersKeep(t) /\ stage'[t] = "idle" /\ batch'[t] = {}
      BY <1>1, OthersFrame DEF AlertInv
<1>6. /\ tx'[t].phase = "none" /\ \A s \in Task \ {t} : tx'[s] = tx[s]
      BY <1>1, NoTxTyped, TypeFacts DEF Rollback, AlertInv
<1>7. \A m \in Msg : (Untouched(m)' <=> Untouched(m)) /\ (Accounted(m) => Accounted(m)')
      BY <1>1, <1>2, HandledFrame DEF AlertInv
<1>8. cursor' = cursor /\ pel' = pel /\ Settled' = Settled /\ Settled \subseteq Msg
      BY <1>1, SettledIsRead, TypeFacts DEF AlertInv, busVars, Settled
<1>9. batch \in [Task -> SUBSET Msg]
      BY TypeFacts DEF AlertInv
<1>10. BatchesApart'
      BY <1>5, <1>8 DEF AlertInv, BatchesApart, OthersKeep
<1>11. StagesAgree'
      BY <1>5, <1>6 DEF AlertInv, StagesAgree, OthersKeep
<1>12. FoldsLocked' /\ CounterLocked'
      BY <1>2, <1>6 DEF AlertInv, FoldsLocked, CounterLocked, SameStore
<1>13. HandledOnce'
      BY <1>5, <1>7, <1>8, <1>9 DEF AlertInv, HandledOnce, IsStored, OthersKeep
<1>14. StagesTrue'
      BY <1>1, <1>2, <1>5, <1>7 DEF AlertInv, StagesTrue, OthersKeep, SameStore
<1>15. AckedIsAccountedFor'
      BY <1>1, <1>2, <1>7, <1>8, AckedForm DEF AlertInv, SameStore
<1> QED BY <1>3, <1>4, <1>10, <1>11, <1>12, <1>13, <1>14, <1>15 DEF AlertInv

(* Decoding the next firing, or dead-lettering it, keeps the invariant. *)
LEMMA AcceptKeeps == ASSUME AlertInv, TypeOK', NEW t \in Task, Accept(t) PROVE AlertInv'
<1>1. PICK m \in Msg :
        /\ IsCurrent(t, m)
        /\ \/ /\ m \in Undecodable /\ deadletter' = deadletter \cup {m}
              /\ Goto(t, "ack") /\ UNCHANGED alertVars
           \/ m \in Ignored \ Undecodable /\ Goto(t, "ack") /\ UNCHANGED <<alertVars, deadletter>>
           \/ find_duplicate(t, m) /\ Goto(t, "store") /\ UNCHANGED deadletter
      BY DEF Accept
<1>2. stage[t] = "accept" /\ UNCHANGED <<busVars, batch, published>>
      BY DEF Accept
<1>3. /\ SameStore /\ UNCHANGED <<alert, request, overlapped>> /\ deadletter \subseteq deadletter'
      BY <1>1, FindEffect, StoreUnchanged DEF AlertInv, alertVars
<1>4. PICK g : /\ stage' = [stage EXCEPT ![t] = g] /\ g \in {"store", "ack"}
               /\ g = "ack" => tx' = tx /\ (m \in Ignored \/ (m \in Undecodable /\ m \in deadletter'))
               /\ g = "store" => find_duplicate(t, m)
      BY <1>1 DEF Goto, alertVars
<1>5. batch \in [Task -> SUBSET Msg]
      BY TypeFacts DEF AlertInv
<1>6. OthersKeep(t) /\ stage'[t] = g /\ batch' = batch
      <2>1. batch' = [batch EXCEPT ![t] = batch[t]]
            BY <1>2, <1>5
      <2>2. PICK B : B = batch[t]
            OBVIOUS
      <2> QED BY <1>2, <1>4, <2>1, <2>2, OthersFrame DEF AlertInv
<1>7. DisplayIdsGapless' /\ RepeatsCounted' /\ UnbornEmpty'
      BY <1>3, StoreFrame DEF AlertInv
<1>8. RequestsRead' /\ ClosedAtMatchesStatusAlone'
      BY <1>3, RequestsFrame
<1>9. \A k \in Msg : (Untouched(k)' <=> Untouched(k)) /\ (Accounted(k) => Accounted(k)')
      BY <1>2, <1>3, HandledFrame DEF AlertInv
<1>10. cursor' = cursor /\ pel' = pel /\ Settled' = Settled /\ Settled \subseteq Msg
      BY <1>2, SettledIsRead, TypeFacts DEF AlertInv, busVars, Settled
<1>11. tx[t].phase = "none"
      BY <1>2 DEF AlertInv, StagesAgree
<1>12. /\ \A s \in Task \ {t} : tx'[s] = tx[s]
       /\ \/ g = "ack" /\ tx'[t].phase = "none"
          \/ /\ g = "store" /\ tx'[t].phase = "fold" /\ tx'[t].alert \in Msg /\ Exists(tx'[t].alert)
             /\ tx'[t].number = alert[tx'[t].alert].count
             /\ ~RowLocked(t, tx'[t].alert)
          \/ g = "store" /\ tx'[t].phase = "create"
      BY <1>4, <1>11, FindEffect DEF AlertInv
<1>13. BatchesApart'
      BY <1>6, <1>10 DEF AlertInv, BatchesApart
<1>14. StagesAgree'
      BY <1>6, <1>12 DEF AlertInv, StagesAgree, OthersKeep
<1>15. FoldsLocked'
      <2>1. FoldsLocked!1'
            BY <1>3, <1>12 DEF AlertInv, FoldsLocked, SameStore
      <2>2. FoldsLocked!2'
            BY <1>12 DEF AlertInv, FoldsLocked, RowLocked
      <2> QED BY <2>1, <2>2 DEF FoldsLocked
<1>16. CounterLocked'
      BY <1>3, <1>12 DEF AlertInv, CounterLocked, SameStore
<1>17. HandledOnce'
      <2>1. \A k \in batch[t] : Untouched(k)
            BY <1>2 DEF AlertInv, HandledOnce, IsStored
      <2> QED BY <1>5, <1>6, <1>9, <1>10, <2>1 DEF AlertInv, HandledOnce, IsStored, OthersKeep
<1>18. StagesTrue'
      <2>1. \A k \in Msg : IsCurrent(t, k)' => k = m
            BY <1>1, <1>6, CurrentIsOne DEF AlertInv, IsCurrent
      <2>2. g = "ack" => Accounted(m)'
            BY <1>4 DEF Accounted
      <2> QED BY <1>2, <1>3, <1>4, <1>6, <1>9, <2>1, <2>2 DEF AlertInv, StagesTrue, OthersKeep, SameStore
<1>19. AckedIsAccountedFor'
      BY <1>2, <1>3, <1>9, <1>10, AckedForm DEF AlertInv, SameStore
<1> QED BY <1>7, <1>8, <1>13, <1>14, <1>15, <1>16, <1>17, <1>18, <1>19 DEF AlertInv

(* Locking the counter row and reading the next number keeps the invariant. *)
LEMMA TakeNumberKeeps == ASSUME AlertInv, TypeOK', NEW t \in Task, TakeNumber(t) PROVE AlertInv'
<1>1. stage[t] = "store" /\ next_display_id(t) /\ UNCHANGED <<busVars, taskVars>>
      BY DEF TakeNumber
<1>2. /\ SameStore /\ UNCHANGED <<alert, request, overlapped>>
      /\ \A s \in Task : tx[s].phase # "numbered"
      /\ \A s \in Task \ {t} : tx'[s] = tx[s]
      /\ tx[t].phase = "create" /\ tx'[t].phase = "numbered"
      /\ tx'[t].number = last_number + 1
      BY <1>1, NumberEffect DEF AlertInv
<1>3. DisplayIdsGapless' /\ RepeatsCounted' /\ UnbornEmpty'
      BY <1>2, StoreFrame DEF AlertInv
<1>4. RequestsRead' /\ ClosedAtMatchesStatusAlone'
      BY <1>2, RequestsFrame
<1>5. stage' = stage /\ batch' = batch /\ published' = published /\ deadletter' = deadletter
      BY <1>1 DEF taskVars
<1>6. \A k \in Msg : (Untouched(k)' <=> Untouched(k)) /\ (Accounted(k) => Accounted(k)')
      BY <1>2, <1>5, HandledFrame DEF AlertInv
<1>7. cursor' = cursor /\ pel' = pel /\ Settled' = Settled /\ Settled \subseteq Msg
      BY <1>1, SettledIsRead, TypeFacts DEF AlertInv, busVars, Settled
<1>8. batch \in [Task -> SUBSET Msg]
      BY TypeFacts DEF AlertInv
<1>9. \A s \in Task : \A k \in Msg : IsCurrent(s, k)' <=> IsCurrent(s, k)
      BY <1>5 DEF IsCurrent
<1>10. BatchesApart'
      BY <1>5, <1>7 DEF AlertInv, BatchesApart
<1>11. StagesAgree'
      BY <1>1, <1>2, <1>5 DEF AlertInv, StagesAgree
<1>12. FoldsLocked'
      BY <1>2 DEF AlertInv, FoldsLocked, SameStore
<1>13. CounterLocked'
      BY <1>2 DEF AlertInv, CounterLocked, SameStore
<1>14. HandledOnce'
      BY <1>5, <1>6, <1>7, <1>8, <1>9 DEF AlertInv, HandledOnce, IsStored
<1>15. StagesTrue'
      BY <1>2, <1>5, <1>6, <1>9 DEF AlertInv, StagesTrue, SameStore
<1>16. AckedIsAccountedFor'
      BY <1>2, <1>5, <1>6, <1>7, AckedForm DEF AlertInv, SameStore
<1> QED BY <1>3, <1>4, <1>10, <1>11, <1>12, <1>13, <1>14, <1>15, <1>16 DEF AlertInv

(* Handling the current message m of task t disturbs no other message. *)
LEMMA HandledStep ==
    ASSUME AlertInv, NEW t \in Task, NEW m \in Msg, IsCurrent(t, m), NEW g \in {"publish", "ack"},
           UNCHANGED <<busVars, batch>>, stage' = [stage EXCEPT ![t] = g],
           \A k \in Msg \ {m} : Untouched(k) => Untouched(k)',
           \A k \in Msg \ {m} : Accounted(k) => Accounted(k)'
    PROVE  /\ BatchesApart' /\ HandledOnce' /\ OthersKeep(t) /\ stage'[t] = g /\ batch' = batch
           /\ m \notin Settled /\ Settled \subseteq Msg /\ Settled' = Settled
           /\ \A k \in Settled' : Accounted(k)'
           /\ \A k \in Msg : IsCurrent(t, k)' => k = m
           /\ \A s \in Task \ {t} : \A k \in Msg : IsCurrent(s, k)' => k # m
<1>1. batch \in [Task -> SUBSET Msg] /\ batch' = batch /\ cursor' = cursor /\ pel' = pel
      BY TypeFacts DEF AlertInv, busVars
<1>2. OthersKeep(t) /\ stage'[t] = g
      <2>1. batch' = [batch EXCEPT ![t] = batch[t]]
            BY <1>1
      <2>2. PICK B : B = batch[t]
            OBVIOUS
      <2> QED BY <2>1, <2>2, OthersFrame DEF AlertInv
<1>3. BatchesApart'
      BY <1>1 DEF AlertInv, BatchesApart
<1>4. m \in pel /\ m \in batch[t] /\ \A s \in Task \ {t} : m \notin batch[s]
      BY DEF AlertInv, BatchesApart, IsCurrent
<1>5. Settled' = Settled /\ Settled \subseteq Msg /\ m \notin Settled /\ ~(m > cursor)
      BY <1>1, <1>4, SettledIsRead, TypeFacts DEF AlertInv, Settled
<1>6. \A k \in Settled' : Accounted(k)'
      BY <1>5, AckedForm DEF AlertInv
<1>7. \A k \in Msg : IsCurrent(t, k)' => k = m
      BY <1>1, CurrentIsOne DEF AlertInv, IsCurrent
<1>8. \A s \in Task \ {t} : \A k \in Msg : IsCurrent(s, k)' => k # m
      BY <1>1, <1>4 DEF IsCurrent
<1>9. HandledOnce'
      <2>1. \A k \in Msg : k > cursor' => Untouched(k)'
            BY <1>1, <1>5 DEF AlertInv, HandledOnce
      <2>2. IsStored(t, m)'
            BY <1>1, <1>2 DEF IsStored, IsCurrent
      <2>3. ASSUME NEW k \in batch[t], k # m PROVE Untouched(k)'
            <3>1. ~IsCurrent(t, k) /\ k \in Msg
                  BY <1>1, <2>3, CurrentIsOne DEF AlertInv
            <3> QED BY <2>3, <3>1 DEF AlertInv, HandledOnce, IsStored
      <2>4. \A s \in Task \ {t} : \A k \in batch'[s] : IsStored(s, k)' \/ Untouched(k)'
            BY <1>1, <1>2, <1>4 DEF AlertInv, HandledOnce, IsStored, OthersKeep
      <2> QED BY <1>1, <2>1, <2>2, <2>3, <2>4 DEF HandledOnce
<1> QED BY <1>1, <1>2, <1>3, <1>5, <1>6, <1>7, <1>8, <1>9

(* Publishing the alert a firing made or met keeps the invariant. *)
LEMMA PublishKeeps == ASSUME AlertInv, TypeOK', NEW t \in Task, PublishAlert(t) PROVE AlertInv'
<1>1. PICK m \in Msg : IsCurrent(t, m) /\ published' = [published EXCEPT ![m] = @ + 1]
      BY DEF PublishAlert
<1>2. /\ stage[t] = "publish" /\ stage' = [stage EXCEPT ![t] = "ack"]
      /\ UNCHANGED <<busVars, alertVars, batch, deadletter>>
      BY DEF PublishAlert, Goto
<1>3. Exists(m) /\ m \in folded[m] /\ published[m] = 0
      BY <1>1, <1>2 DEF AlertInv, StagesTrue
<1>4. published'[m] = 1 /\ \A k \in Msg \ {m} : published'[k] = published[k]
      BY <1>1, <1>3, TypeFacts DEF AlertInv
<1>5. SameStore
      BY <1>2, StoreUnchanged DEF AlertInv
<1>6. DisplayIdsGapless' /\ RepeatsCounted' /\ UnbornEmpty'
      BY <1>5, StoreFrame DEF AlertInv
<1>7. RequestsRead' /\ ClosedAtMatchesStatusAlone'
      BY <1>2, RequestsFrame DEF alertVars
<1>8. \A k \in Msg \ {m} : (Untouched(k) => Untouched(k)') /\ (Accounted(k) => Accounted(k)')
      BY <1>2, <1>4, <1>5 DEF Untouched, Accounted, SameStore
<1>9. /\ BatchesApart' /\ HandledOnce' /\ OthersKeep(t) /\ stage'[t] = "ack" /\ batch' = batch
      /\ \A k \in Settled' : Accounted(k)'
      /\ \A k \in Msg : IsCurrent(t, k)' => k = m
      /\ \A s \in Task \ {t} : \A k \in Msg : IsCurrent(s, k)' => k # m
      BY <1>1, <1>2, <1>8, HandledStep
<1>10. tx' = tx /\ tx[t].phase = "none"
      BY <1>2 DEF AlertInv, StagesAgree, alertVars
<1>11. StagesAgree'
      BY <1>9, <1>10 DEF AlertInv, StagesAgree, OthersKeep
<1>12. FoldsLocked' /\ CounterLocked'
      BY <1>5, <1>10 DEF AlertInv, FoldsLocked, CounterLocked, SameStore
<1>13. StagesTrue'
      <2>1. Accounted(m)'
            BY <1>3, <1>4, <1>5 DEF Accounted, SameStore
      <2> QED BY <1>4, <1>5, <1>8, <1>9, <2>1 DEF AlertInv, StagesTrue, OthersKeep, SameStore
<1>14. AckedIsAccountedFor'
      <2>1. \A a \in Msg : published'[a] <= IF Exists(a)' THEN 1 ELSE 0
            BY <1>3, <1>4, <1>5, AckedForm DEF AlertInv, SameStore
      <2> QED BY <1>9, <2>1, AckedForm
<1> QED BY <1>6, <1>7, <1>9, <1>11, <1>12, <1>13, <1>14 DEF AlertInv

(* Sets of firings are finite, so they can be counted. *)
LEMMA MsgsAreFinite == \A S : S \subseteq Msg => IsFiniteSet(S)
<1>1. IsFiniteSet(Msg)
      BY BusConstants, FS_Interval DEF Msg
<1> QED BY <1>1, FS_Subset

(* A message still to be stored is untouched. *)
LEMMA CurrentUntouched ==
    ASSUME AlertInv, NEW t \in Task, NEW m \in Msg, IsCurrent(t, m), stage[t] = "store"
    PROVE  Untouched(m)
BY DEF AlertInv, HandledOnce, IsStored, IsCurrent

(* Folding a repeat counts it: the count that was read is the number of    *)
(* firings folded so far, because the row is locked.                       *)
LEMMA FoldCounts ==
    ASSUME AlertInv, NEW t \in Task, NEW m \in Msg, IsCurrent(t, m), stage[t] = "store", Fold(t, m)
    PROVE  RepeatsCounted'
<1>1. /\ TypeOK /\ Untouched(m) /\ tx[t].phase = "fold"
      /\ folded \in [Msg -> SUBSET Msg] /\ RiskScore[m] \in 0..100
      /\ \A a \in Msg : alert[a].risk \in 0..100 /\ alert[a].count \in Nat
      BY CurrentUntouched, TypeFacts, AlertConstants DEF AlertInv, Fold
<1>2. PICK x \in Msg : x = tx[t].alert /\ Exists(x) /\ tx[t].number = alert[x].count
      BY <1>1 DEF AlertInv, FoldsLocked
<1>3. /\ \A a \in Msg \ {x} : alert'[a] = alert[a]
      /\ alert'[x].status = alert[x].status /\ alert'[x].count = alert[x].count + 1
      /\ alert'[x].risk = IF RiskScore[m] > alert[x].risk THEN RiskScore[m] ELSE alert[x].risk
      BY <1>1, <1>2, FoldEffect
<1>4. folded'[x] = folded[x] \cup {m} /\ \A a \in Msg \ {x} : folded'[a] = folded[a]
      BY <1>1, <1>2 DEF Fold
<1>5. \A a \in Msg : m \notin folded[a]
      BY <1>1 DEF Untouched
<1>6. \A a, b \in Msg : a # b => folded'[a] \cap folded'[b] = {}
      BY <1>4, <1>5 DEF AlertInv, RepeatsCounted
<1>7. alert'[x].count = Cardinality(folded'[x])
      <2>1. IsFiniteSet(folded[x])
            BY <1>1, MsgsAreFinite
      <2>2. PICK S : S = folded[x]
            OBVIOUS
      <2>3. Cardinality(S \cup {m}) = Cardinality(S) + 1
            BY <1>5, <2>1, <2>2, FS_AddElement
      <2> QED BY <1>2, <1>3, <1>4, <2>2, <2>3 DEF AlertInv, RepeatsCounted
<1>8. /\ \A k \in folded'[x] : RiskScore[k] <= alert'[x].risk
      /\ \E k \in folded'[x] : RiskScore[k] = alert'[x].risk
      <2>1. /\ \A k \in folded[x] : RiskScore[k] <= alert[x].risk
            /\ \E k \in folded[x] : RiskScore[k] = alert[x].risk
            BY <1>2 DEF AlertInv, RepeatsCounted
      <2>2. \A k \in folded[x] : RiskScore[k] \in 0..100
            BY <1>1, AlertConstants, TypeFacts
      <2>3. PICK old \in 0..100, new \in 0..100 :
                /\ old = alert[x].risk /\ new = alert'[x].risk
                /\ new = IF RiskScore[m] > old THEN RiskScore[m] ELSE old
            BY <1>1, <1>3
      <2>4. old <= new /\ RiskScore[m] <= new
            <3>1. PICK r \in 0..100 : r = RiskScore[m]
                  BY AlertConstants, AlertWorkerConstants
            <3>2. new = IF r > old THEN r ELSE old
                  BY <2>3, <3>1
            <3>3. old <= new /\ r <= new
                  BY <3>2
            <3> QED BY <3>1, <3>3
      <2>5. ASSUME NEW k \in folded[x] PROVE RiskScore[k] <= new
            <3>1. RiskScore[k] <= old
                  BY <2>1, <2>3
            <3>2. RiskScore[k] \in 0..100
                  BY <2>2
            <3> QED BY <2>4, <3>1, <3>2
      <2>6. \E k \in folded[x] \cup {m} : RiskScore[k] = new
            BY <2>1, <2>3
      <2> QED BY <1>4, <2>3, <2>4, <2>5, <2>6
<1>9. \A a \in Msg \ {x} : Exists(a)' <=> Exists(a)
      BY <1>3 DEF Exists
<1>10. ASSUME NEW a \in Msg, a # x, Exists(a)'
       PROVE  /\ alert'[a].count = Cardinality(folded'[a])
              /\ \A k \in folded'[a] : RiskScore[k] <= alert'[a].risk
              /\ \E k \in folded'[a] : RiskScore[k] = alert'[a].risk
       <2>1. Exists(a) /\ alert'[a] = alert[a] /\ folded'[a] = folded[a]
             BY <1>3, <1>4, <1>9, <1>10
       <2> QED BY <2>1 DEF AlertInv, RepeatsCounted
<1> QED BY <1>6, <1>7, <1>8, <1>10 DEF RepeatsCounted

(* Committing a repeat into its alert keeps the invariant. *)
LEMMA FoldKeeps == ASSUME AlertInv, TypeOK', NEW t \in Task, FoldRepeat(t) PROVE AlertInv'
<1>1. PICK m \in Msg : IsCurrent(t, m) /\ Fold(t, m)
      BY DEF FoldRepeat
<1>2. /\ stage[t] = "store" /\ stage' = [stage EXCEPT ![t] = "ack"]
      /\ UNCHANGED <<busVars, batch, published, deadletter>>
      BY DEF FoldRepeat, Goto
<1>3. /\ TypeOK /\ Untouched(m) /\ tx[t].phase = "fold"
      /\ folded \in [Msg -> SUBSET Msg] /\ tx \in [Task -> TxState]
      BY <1>1, <1>2, CurrentUntouched, TypeFacts DEF AlertInv, Fold
<1>4. PICK x \in Msg : x = tx[t].alert /\ Exists(x)
      BY <1>3 DEF AlertInv, FoldsLocked
<1>5. /\ \A a \in Msg \ {x} : alert'[a] = alert[a]
      /\ alert'[x].status = alert[x].status /\ alert'[x].number = alert[x].number
      /\ alert'[x].closed = alert[x].closed
      BY <1>1, <1>3, <1>4, FoldEffect
<1>6. /\ folded'[x] = folded[x] \cup {m} /\ \A a \in Msg \ {x} : folded'[a] = folded[a]
      /\ tx'[t].phase = "none" /\ \A s \in Task \ {t} : tx'[s] = tx[s]
      /\ UNCHANGED <<last_number, request, overlapped>>
      BY <1>1, <1>3, <1>4, NoTxTyped DEF Fold
<1>7. \A a \in Msg : (Exists(a)' <=> Exists(a)) /\ alert'[a].number = alert[a].number
                     /\ alert'[a].closed = alert[a].closed /\ alert'[a].status = alert[a].status
      BY <1>4, <1>5 DEF Exists
<1>8. \A k \in Msg \ {m} : (Untouched(k) => Untouched(k)') /\ (Accounted(k) => Accounted(k)')
      BY <1>2, <1>6, <1>7 DEF Untouched, Accounted
<1>9. /\ BatchesApart' /\ HandledOnce' /\ OthersKeep(t) /\ stage'[t] = "ack" /\ batch' = batch
      /\ \A k \in Settled' : Accounted(k)'
      /\ \A k \in Msg : IsCurrent(t, k)' => k = m
      /\ \A s \in Task \ {t} : \A k \in Msg : IsCurrent(s, k)' => k # m
      BY <1>1, <1>2, <1>8, HandledStep
<1>10. StagesAgree'
      BY <1>6, <1>9 DEF AlertInv, StagesAgree, OthersKeep
<1>11. FoldsLocked'
      <2>1. \A s \in Task \ {t} : tx[s].phase = "fold" => tx[s].alert # x
            BY <1>3, <1>4 DEF AlertInv, FoldsLocked
      <2> QED BY <1>5, <1>6, <1>7, <2>1 DEF AlertInv, FoldsLocked
<1>12. CounterLocked'
      BY <1>6 DEF AlertInv, CounterLocked
<1>13. StagesTrue'
      <2>1. Accounted(m)'
            BY <1>3, <1>4, <1>6, <1>7 DEF Accounted, Untouched
      <2>2. \A k \in Msg : k \in folded[k] => k \in folded'[k]
            BY <1>6
      <2> QED BY <1>2, <1>7, <1>8, <1>9, <2>1, <2>2 DEF AlertInv, StagesTrue, OthersKeep
<1>14. UnbornEmpty'
      BY <1>4, <1>6, <1>7 DEF AlertInv, UnbornEmpty
<1>15. RequestsRead' /\ ClosedAtMatchesStatusAlone'
      BY <1>6, <1>7 DEF AlertInv, RequestsRead, ClosedAtMatchesStatusAlone
<1>16. DisplayIdsGapless'
      <2>1. {a \in Msg : Exists(a)}' = {a \in Msg : Exists(a)}
            BY <1>7
      <2>2. {alert[a].number : a \in {b \in Msg : Exists(b)}}' = {alert[a].number : a \in {b \in Msg : Exists(b)}}
            BY <1>7, <2>1
      <2> QED BY <1>6, <2>1, <2>2 DEF AlertInv, DisplayIdsGapless
<1>17. RepeatsCounted'
      BY <1>1, <1>2, FoldCounts
<1>18. AckedIsAccountedFor'
      BY <1>2, <1>7, <1>9, AckedForm DEF AlertInv
<1> QED BY <1>9, <1>10, <1>11, <1>12, <1>13, <1>14, <1>15, <1>16, <1>17, <1>18 DEF AlertInv

(* Creating an alert takes the next number, because the counter is locked. *)
LEMMA CreateCounts ==
    ASSUME AlertInv, NEW t \in Task, NEW m \in Msg, IsCurrent(t, m), stage[t] = "store", Create(t, m)
    PROVE  DisplayIdsGapless' /\ RepeatsCounted'
<1>1. /\ TypeOK /\ Untouched(m) /\ folded \in [Msg -> SUBSET Msg] /\ last_number \in Nat
      /\ RiskScore[m] \in 0..100
      BY CurrentUntouched, TypeFacts, AlertConstants DEF AlertInv
<1>2. /\ tx[t].phase = "numbered" /\ last_number' = tx[t].number
      /\ folded' = [folded EXCEPT ![m] = {m}]
      /\ \A a \in Msg \ {m} : alert'[a] = alert[a]
      /\ alert'[m].status = "NEW" /\ alert'[m].number = tx[t].number
      /\ alert'[m].count = 1 /\ alert'[m].risk = RiskScore[m]
      BY <1>1, CreateEffect
<1>3. last_number' = last_number + 1 /\ alert'[m].number = last_number + 1
      BY <1>2 DEF AlertInv, CounterLocked
<1>4. ~Exists(m) /\ Exists(m)' /\ \A a \in Msg \ {m} : Exists(a)' <=> Exists(a)
      BY <1>1, <1>2 DEF Untouched, Exists
<1>5. DisplayIdsGapless'
      <2> DEFINE E == {a \in Msg : Exists(a)}
      <2>1. PICK S : S = E
            OBVIOUS
      <2>2. E' = S \cup {m} /\ m \notin S /\ S \subseteq Msg
            BY <1>4, <2>1
      <2>3. IsFiniteSet(S)
            BY <2>2, MsgsAreFinite
      <2>4. Cardinality(S \cup {m}) = Cardinality(S) + 1
            BY <2>2, <2>3, FS_AddElement
      <2>5. Cardinality(S) = last_number /\ {alert[a].number : a \in S} = 1..last_number
            BY <2>1 DEF AlertInv, DisplayIdsGapless
      <2>6. {alert'[a].number : a \in S \cup {m}} = {alert[a].number : a \in S} \cup {last_number + 1}
            BY <1>2, <1>3, <2>2
      <2>7. (1..last_number) \cup {last_number + 1} = 1..(last_number + 1)
            BY <1>1
      <2>8. Cardinality(E') = last_number' /\ {alert'[a].number : a \in E'} = 1..last_number'
            BY <1>3, <2>2, <2>4, <2>5, <2>6, <2>7
      <2> QED BY <2>8 DEF DisplayIdsGapless
<1>6. folded'[m] = {m} /\ \A a \in Msg \ {m} : folded'[a] = folded[a] /\ m \notin folded[a]
      BY <1>1, <1>2 DEF Untouched
<1>7. \A a, b \in Msg : a # b => folded'[a] \cap folded'[b] = {}
      BY <1>6 DEF AlertInv, RepeatsCounted
<1>8. /\ alert'[m].count = Cardinality(folded'[m])
      /\ \A k \in folded'[m] : RiskScore[k] <= alert'[m].risk
      /\ \E k \in folded'[m] : RiskScore[k] = alert'[m].risk
      <2>1. Cardinality({m}) = 1
            BY FS_Singleton
      <2> QED BY <1>1, <1>2, <1>6, <2>1
<1>9. ASSUME NEW a \in Msg, a # m, Exists(a)'
      PROVE  /\ alert'[a].count = Cardinality(folded'[a])
             /\ \A k \in folded'[a] : RiskScore[k] <= alert'[a].risk
             /\ \E k \in folded'[a] : RiskScore[k] = alert'[a].risk
      <2>1. Exists(a) /\ alert'[a] = alert[a] /\ folded'[a] = folded[a]
            BY <1>2, <1>4, <1>6, <1>9
      <2> QED BY <2>1 DEF AlertInv, RepeatsCounted
<1>10. RepeatsCounted'
      BY <1>7, <1>8, <1>9 DEF RepeatsCounted
<1> QED BY <1>5, <1>10

(* Committing a new alert under its number keeps the invariant. *)
LEMMA CreateKeeps == ASSUME AlertInv, TypeOK', NEW t \in Task, CreateAlert(t) PROVE AlertInv'
<1>1. PICK m \in Msg : IsCurrent(t, m) /\ Create(t, m)
      BY DEF CreateAlert
<1>2. /\ stage[t] = "store" /\ stage' = [stage EXCEPT ![t] = "publish"]
      /\ UNCHANGED <<busVars, batch, published, deadletter>>
      BY DEF CreateAlert, Goto
<1>3. /\ TypeOK /\ Untouched(m) /\ folded \in [Msg -> SUBSET Msg] /\ tx \in [Task -> TxState]
      BY <1>1, <1>2, CurrentUntouched, TypeFacts DEF AlertInv
<1>4. /\ tx[t].phase = "numbered" /\ UNCHANGED <<request, overlapped>>
      /\ tx' = [tx EXCEPT ![t] = NoTx] /\ folded' = [folded EXCEPT ![m] = {m}]
      /\ \A a \in Msg \ {m} : alert'[a] = alert[a]
      /\ alert'[m].status = "NEW" /\ ~alert'[m].closed
      BY <1>1, <1>3, CreateEffect
<1>5. /\ ~Exists(m) /\ Exists(m)' /\ \A a \in Msg \ {m} : Exists(a)' <=> Exists(a)
      /\ published[m] = 0 /\ \A a \in Msg : m \notin folded[a]
      BY <1>3, <1>4 DEF Untouched, Exists
<1>6. /\ folded[m] = {} /\ folded'[m] = {m} /\ \A a \in Msg \ {m} : folded'[a] = folded[a]
      /\ tx'[t].phase = "none" /\ \A s \in Task \ {t} : tx'[s] = tx[s]
      BY <1>3, <1>4, <1>5, NoTxTyped DEF AlertInv, UnbornEmpty
<1>7. \A k \in Msg \ {m} : (Untouched(k) => Untouched(k)') /\ (Accounted(k) => Accounted(k)')
      BY <1>2, <1>5, <1>6 DEF Untouched, Accounted
<1>8. /\ BatchesApart' /\ HandledOnce' /\ OthersKeep(t) /\ stage'[t] = "publish" /\ batch' = batch
      /\ \A k \in Settled' : Accounted(k)'
      /\ \A k \in Msg : IsCurrent(t, k)' => k = m
      /\ \A s \in Task \ {t} : \A k \in Msg : IsCurrent(s, k)' => k # m
      BY <1>1, <1>2, <1>7, HandledStep
<1>9. StagesAgree'
      BY <1>6, <1>8 DEF AlertInv, StagesAgree, OthersKeep
<1>10. FoldsLocked'
      BY <1>4, <1>5, <1>6 DEF AlertInv, FoldsLocked
<1>11. CounterLocked'
      BY <1>4, <1>6 DEF AlertInv, CounterLocked
<1>12. StagesTrue'
      <2>1. ASSUME NEW s \in Task, NEW k \in Msg, IsCurrent(s, k)', s # t
            PROVE  /\ stage'[s] = "publish" => Exists(k)' /\ k \in folded'[k] /\ published'[k] = 0
                   /\ stage'[s] = "ack" => Accounted(k)'
            <3>1. k # m /\ IsCurrent(s, k) /\ stage'[s] = stage[s]
                  BY <1>8, <2>1 DEF OthersKeep
            <3> QED BY <1>2, <1>5, <1>6, <1>7, <3>1 DEF AlertInv, StagesTrue
      <2>2. ASSUME NEW k \in Msg, IsCurrent(t, k)'
            PROVE  Exists(k)' /\ k \in folded'[k] /\ published'[k] = 0
            BY <1>2, <1>5, <1>6, <1>8, <2>2
      <2> QED BY <1>8, <2>1, <2>2 DEF StagesTrue
<1>13. UnbornEmpty'
      BY <1>5, <1>6 DEF AlertInv, UnbornEmpty
<1>14. RequestsRead'
      BY <1>4, <1>5 DEF AlertInv, RequestsRead
<1>15. ClosedAtMatchesStatusAlone'
      BY <1>4 DEF AlertInv, ClosedAtMatchesStatusAlone, CLOSING
<1>16. DisplayIdsGapless' /\ RepeatsCounted'
      BY <1>1, <1>2, CreateCounts
<1>17. AckedIsAccountedFor'
      <2>1. \A a \in Msg : published'[a] <= IF Exists(a)' THEN 1 ELSE 0
            BY <1>2, <1>5, AckedForm DEF AlertInv
      <2> QED BY <1>8, <2>1, AckedForm
<1> QED BY <1>8, <1>9, <1>10, <1>11, <1>12, <1>13, <1>14, <1>15, <1>16, <1>17 DEF AlertInv

(* The invariant holds of the empty store, before any firing. *)
LEMMA AlertInit == Init => AlertInv
<1> SUFFICES ASSUME Init PROVE AlertInv
    OBVIOUS
<1>1. Firing = Msg /\ Nobody \notin Msg
      BY AlertWorkerConstants, AlertConstants
<1>2. NoAlert \in AlertRow /\ NoAlert.status = "none" /\ ~NoAlert.closed
      BY DEF NoAlert, AlertRow
<1>3. NoRequest \in RequestState /\ NoRequest.phase = "idle"
      BY <1>2 DEF NoRequest, RequestState, ALERT_STATUSES, OPEN_STATUSES
<1>4. /\ \A a \in Msg : alert[a] = NoAlert /\ folded[a] = {} /\ published[a] = 0
      /\ \A t \in Task : tx[t] = NoTx /\ stage[t] = "idle" /\ batch[t] = {}
      /\ \A q \in ApiRequest : request[q] = NoRequest
      BY <1>1 DEF Init, AlertsInit
<1>5. TypeOK
      <2>1. BusTypeOK
            BY BusConstants DEF Init, BusInit, BusTypeOK
      <2>2. AlertsTypeOK
            BY <1>2, <1>3, NoTxTyped, AlertConstants DEF Init, AlertsInit, AlertsTypeOK
      <2> QED BY <2>1, <2>2, AlertWorkerConstants DEF Init, TypeOK
<1>6. \A a \in Msg : ~Exists(a) /\ Untouched(a)
      BY <1>2, <1>4 DEF Exists, Untouched
<1>7. BatchesApart /\ StagesAgree /\ FoldsLocked /\ CounterLocked /\ HandledOnce
      BY <1>4, <1>6, NoTxTyped DEF BatchesApart, StagesAgree, FoldsLocked, CounterLocked, HandledOnce
<1>8. StagesTrue /\ UnbornEmpty
      BY <1>4 DEF StagesTrue, UnbornEmpty
<1>9. RequestsRead /\ ClosedAtMatchesStatusAlone
      BY <1>2, <1>3, <1>4 DEF RequestsRead, ClosedAtMatchesStatusAlone, CLOSING
<1>10. RepeatsCounted
      BY <1>4, <1>6 DEF RepeatsCounted
<1>11. DisplayIdsGapless
      <2>1. {a \in Msg : Exists(a)} = {}
            BY <1>6
      <2>2. {alert[a].number : a \in {b \in Msg : Exists(b)}} = {}
            BY <2>1
      <2>3. last_number = 0 /\ 1..0 = {}
            BY DEF Init, AlertsInit
      <2> QED BY <2>1, <2>2, <2>3, FS_EmptySet DEF DisplayIdsGapless
<1>12. AckedIsAccountedFor
      <2>1. Settled = {}
            BY DEF Init, BusInit, Settled
      <2> QED BY <1>4, <1>6, <2>1, AckedForm
<1> QED BY <1>5, <1>7, <1>8, <1>9, <1>10, <1>11, <1>12 DEF AlertInv

(* The invariant is inductive. *)
LEMMA AlertNext == AlertInv /\ [Next]_vars => AlertInv'
<1> SUFFICES ASSUME AlertInv, [Next]_vars PROVE AlertInv'
    OBVIOUS
<1>1. TypeOK'
      BY TypeStep DEF AlertInv
<1>2. CASE UNCHANGED vars
      <2>1. UNCHANGED <<alertVars, tx, stage, batch, published, deadletter, cursor, pel,
                        alert, request, overlapped>>
            BY <1>2 DEF vars, alertVars
      <2>2. SameStore
            BY <2>1, StoreUnchanged DEF AlertInv
      <2> QED BY <1>1, <2>1, <2>2, StoreFrame, TasksFrame, RequestsFrame DEF AlertInv
<1> QED BY <1>1, <1>2, FireKeeps, TriageKeeps, SubscribeKeeps, AcceptKeeps, FoldKeeps,
           TakeNumberKeeps, CreateKeeps, PublishKeeps, AckKeeps, CrashKeeps DEF Next

(* The inductive invariant holds of every reachable state. *)
LEMMA AlertInvariant == Spec => []AlertInv
BY AlertInit, AlertNext, PTL DEF Spec

-----------------------------------------------------------------------------
(* The store's rows, the tasks' transactions and the requests in flight    *)
(* have the fields and the ranges alerts.py gives them.                    *)
THEOREM AlertTypeCorrect == Spec => []TypeOK
BY AlertInvariant, PTL DEF AlertInv

(* Display ids are unique and gapless (next_display_id, alerts.py:115),    *)
(* however many tasks create alerts, roll back or crash at once.           *)
THEOREM DisplayIdsGaplessHolds == Spec => []DisplayIdsGapless
BY AlertInvariant, PTL DEF AlertInv

(* Repeats are counted exactly and carry the worst risk (create_or_update, *)
(* alerts.py): no concurrent fold, triage or crash loses or doubles one.   *)
THEOREM RepeatsCountedHolds == Spec => []RepeatsCounted
BY AlertInvariant, PTL DEF AlertInv

(* A firing is acked only once it is accounted for, and an alert announced *)
(* at most once (alert_worker.py), at whatever line a task dies.           *)
THEOREM AckedIsAccountedForHolds == Spec => []AckedIsAccountedFor
BY AlertInvariant, PTL DEF AlertInv

(* closed_at is set exactly in the closing statuses (transition,           *)
(* alerts.py), for alerts whose requests never overlapped, whatever the    *)
(* worker folds into them meanwhile.                                       *)
THEOREM ClosedAtMatchesStatusAloneHolds == Spec => []ClosedAtMatchesStatusAlone
BY AlertInvariant, PTL DEF AlertInv
-----------------------------------------------------------------------------
(* The delivery contract. A message that a task holds was accepted and not *)
(* settled.                                                                *)
LEMMA HeldAccepted ==
    ASSUME AlertInv, NEW t \in Task, NEW m \in Msg, IsCurrent(t, m)
    PROVE  m \in pel /\ m \in 1..stream
<1>1. m \in pel
      BY DEF AlertInv, BatchesApart, IsCurrent
<1>2. m \in 1..cursor /\ cursor \in 0..stream /\ stream \in 0..MaxMsgs
      BY <1>1, TypeFacts DEF AlertInv, BusTypeOK
<1> QED BY <1>1, <1>2, BusConstants

(* A step that leaves the store, the announcements and the dead letters as *)
(* they were changes no outcome.                                           *)
LEMMA OutcomesFrame ==
    ASSUME SameStore, UNCHANGED <<published, deadletter>>
    PROVE  \A k \in Msg : Durable(k)' <=> Durable(k)
BY DEF SameStore, Durable

(* The outcome of the message a task holds becomes durable: the contract   *)
(* calls that producing it.                                                *)
LEMMA OutcomeProduces ==
    ASSUME AlertInv, NEW t \in Task, NEW m \in Msg, IsCurrent(t, m), UNCHANGED busVars,
           Durable(m)', \A k \in Msg \ {m} : Durable(k)' <=> Durable(k)
    PROVE  DC!Next
<1>1. {k \in Msg : Durable(k)}' = {k \in Msg : Durable(k)} \cup {m}
      OBVIOUS
<1>2. {m} \subseteq 1..stream
      BY HeldAccepted
<1>3. UNCHANGED <<1..stream, Settled>>
      BY DEF busVars, Settled
<1>4. DC!Produce({m})
      BY <1>1, <1>2, <1>3 DEF DC!Produce
<1>5. {m} \in SUBSET Msg
      OBVIOUS
<1> QED BY <1>4, <1>5 DEF DC!Next

(* Every step of the alerting stage is a step of the delivery contract, or *)
(* none.                                                                   *)
LEMMA AlertContractStep ==
    ASSUME AlertInv, [Next]_vars
    PROVE  [DC!Next]_(DC!vars)
<1>0. TypeOK /\ BusTypeOK /\ RequestsRead
      BY TypeFacts DEF AlertInv
<1> DEFINE produced == {m \in Msg : Durable(m)}
(* A step that leaves the topic and the outcomes alone is none. *)
<1>1. ASSUME UNCHANGED <<stream, Settled>>, \A k \in Msg : Durable(k)' <=> Durable(k)
      PROVE  UNCHANGED DC!vars
      <2>1. produced' = produced
            BY <1>1
      <2> QED BY <1>1, <2>1 DEF DC!vars
<1>2. ASSUME SameStore, UNCHANGED <<busVars, published, deadletter>> PROVE UNCHANGED DC!vars
      <2>1. UNCHANGED <<stream, Settled>>
            BY <1>2 DEF busVars, Settled
      <2>2. \A k \in Msg : Durable(k)' <=> Durable(k)
            BY <1>2, OutcomesFrame
      <2> QED BY <1>1, <2>1, <2>2
<1>3. CASE Fire
      <2>1. stream \in Nat /\ stream + 1 \in Msg
            BY <1>0, <1>3, BusConstants DEF Fire, publish, Msg, BusTypeOK
      <2>2. 1..stream' = (1..stream) \cup {stream + 1}
            BY <1>3, <2>1 DEF Fire, publish
      <2>3. UNCHANGED <<alertVars, published, deadletter, Settled>>
            BY <1>3 DEF Fire, publish, taskVars, Settled
      <2>4. \A k \in Msg : Durable(k)' <=> Durable(k)
            BY <1>0, <2>3, StoreUnchanged, OutcomesFrame
      <2>5. produced' = produced
            BY <2>4
      <2>6. DC!Accept(stream + 1)
            BY <2>2, <2>3, <2>5 DEF DC!Accept
      <2> QED BY <2>1, <2>6 DEF DC!Next
<1>4. ASSUME NEW t \in Task, Subscribe(t) PROVE UNCHANGED DC!vars
      <2>1. xreadgroup /\ UNCHANGED <<alertVars, published, deadletter>>
            BY <1>4 DEF Subscribe
      <2>2. Settled' = Settled /\ stream' = stream
            BY <1>0, <2>1, ReadFacts DEF xreadgroup
      <2>3. \A k \in Msg : Durable(k)' <=> Durable(k)
            BY <1>0, <2>1, StoreUnchanged, OutcomesFrame
      <2> QED BY <1>1, <2>2, <2>3
<1>5. ASSUME NEW t \in Task, Accept(t) PROVE [DC!Next]_(DC!vars)
      <2>1. PICK m \in Msg : /\ IsCurrent(t, m)
                             /\ \/ UNCHANGED alertVars /\ deadletter' = deadletter \cup {m}
                                \/ UNCHANGED alertVars /\ deadletter' = deadletter
                                \/ find_duplicate(t, m) /\ deadletter' = deadletter
            BY <1>5 DEF Accept
      <2>2. UNCHANGED <<busVars, published>>
            BY <1>5 DEF Accept
      <2>3. CASE UNCHANGED alertVars /\ deadletter' = deadletter \cup {m}
            <3>1. SameStore
                  BY <1>0, <2>3, StoreUnchanged
            <3>2. Durable(m)' /\ \A k \in Msg \ {m} : Durable(k)' <=> Durable(k)
                  BY <2>2, <2>3, <3>1 DEF Durable, SameStore
            <3> QED BY <2>1, <2>2, <3>2, OutcomeProduces
      <2>4. CASE UNCHANGED alertVars /\ deadletter' = deadletter
            BY <1>0, <1>2, <2>2, <2>4, StoreUnchanged
      <2>5. CASE find_duplicate(t, m) /\ deadletter' = deadletter
            BY <1>0, <1>2, <2>1, <2>2, <2>5, FindEffect
      <2> QED BY <2>1, <2>3, <2>4, <2>5
(* A repeat is durable once it is counted: it creates no alert. *)
<1>6. ASSUME NEW t \in Task, FoldRepeat(t) PROVE DC!Next
      <2>1. PICK m \in Msg : IsCurrent(t, m) /\ Fold(t, m)
            BY <1>6 DEF FoldRepeat
      <2>2. stage[t] = "store" /\ UNCHANGED <<busVars, published, deadletter>>
            BY <1>6 DEF FoldRepeat
      <2>3. Untouched(m) /\ tx[t].phase = "fold" /\ folded \in [Msg -> SUBSET Msg]
            BY <1>0, <2>1, <2>2, CurrentUntouched, TypeFacts DEF Fold
      <2>4. PICK x \in Msg : x = tx[t].alert /\ Exists(x)
            BY <2>3 DEF AlertInv, FoldsLocked
      <2>5. /\ \A a \in Msg \ {x} : alert'[a] = alert[a]
            /\ alert'[x].status = alert[x].status
            BY <1>0, <2>1, <2>4, FoldEffect
      <2>6. folded'[x] = folded[x] \cup {m} /\ \A a \in Msg \ {x} : folded'[a] = folded[a]
            BY <2>1, <2>3, <2>4 DEF Fold
      <2>7. \A a \in Msg : Exists(a)' <=> Exists(a)
            BY <2>5 DEF Exists
      <2>8. Durable(m)'
            BY <2>3, <2>6, <2>7 DEF Durable, Untouched
      <2>9. \A k \in Msg \ {m} : Durable(k)' <=> Durable(k)
            BY <2>2, <2>6, <2>7 DEF Durable
      <2> QED BY <2>1, <2>2, <2>8, <2>9, OutcomeProduces
<1>7. ASSUME NEW t \in Task, TakeNumber(t) PROVE UNCHANGED DC!vars
      <2>1. next_display_id(t) /\ UNCHANGED <<busVars, published, deadletter>>
            BY <1>7 DEF TakeNumber, taskVars
      <2> QED BY <1>0, <1>2, <2>1, NumberEffect
(* A new alert is no outcome yet: it has still to be announced. *)
<1>8. ASSUME NEW t \in Task, CreateAlert(t) PROVE UNCHANGED DC!vars
      <2>1. PICK m \in Msg : IsCurrent(t, m) /\ Create(t, m)
            BY <1>8 DEF CreateAlert
      <2>2. stage[t] = "store" /\ UNCHANGED <<busVars, published, deadletter>>
            BY <1>8 DEF CreateAlert
      <2>3. Untouched(m) /\ folded \in [Msg -> SUBSET Msg]
            BY <1>0, <2>1, <2>2, CurrentUntouched, TypeFacts
      <2>4. /\ folded' = [folded EXCEPT ![m] = {m}] /\ alert'[m].status = "NEW"
            /\ \A a \in Msg \ {m} : alert'[a] = alert[a]
            BY <1>0, <2>1, <2>3, CreateEffect
      <2>5. /\ Exists(m)' /\ \A a \in Msg \ {m} : Exists(a)' <=> Exists(a)
            /\ published[m] = 0 /\ \A a \in Msg : m \notin folded[a]
            BY <2>3, <2>4 DEF Untouched, Exists
      <2>6. folded[m] = {} /\ folded'[m] = {m} /\ \A a \in Msg \ {m} : folded'[a] = folded[a]
            BY <2>3, <2>4 DEF AlertInv, UnbornEmpty, Untouched
      <2>7. \A k \in Msg \ {m} : Durable(k)' <=> Durable(k)
            BY <2>2, <2>5, <2>6 DEF Durable
      <2>8. Durable(m)' <=> Durable(m)
            BY <2>2, <2>5, <2>6 DEF Durable
      <2>9. UNCHANGED <<stream, Settled>>
            BY <2>2 DEF busVars, Settled
      <2> QED BY <1>1, <2>7, <2>8, <2>9
<1>9. ASSUME NEW t \in Task, PublishAlert(t) PROVE DC!Next
      <2>1. PICK m \in Msg : IsCurrent(t, m) /\ published' = [published EXCEPT ![m] = @ + 1]
            BY <1>9 DEF PublishAlert
      <2>2. stage[t] = "publish" /\ UNCHANGED <<busVars, alertVars, deadletter>>
            BY <1>9 DEF PublishAlert
      <2>3. m \in folded[m] /\ published[m] = 0
            BY <2>1, <2>2 DEF AlertInv, StagesTrue
      <2>4. published'[m] = 1 /\ \A k \in Msg \ {m} : published'[k] = published[k]
            BY <1>0, <2>1, <2>3, TypeFacts
      <2>5. SameStore
            BY <1>0, <2>2, StoreUnchanged
      <2>6. Durable(m)'
            BY <2>3, <2>4, <2>5 DEF Durable, SameStore
      <2>7. \A k \in Msg \ {m} : Durable(k)' <=> Durable(k)
            BY <2>2, <2>4, <2>5 DEF Durable, SameStore
      <2> QED BY <2>1, <2>2, <2>6, <2>7, OutcomeProduces
<1>10. ASSUME NEW t \in Task, Ack(t) PROVE DC!Next
      <2>1. PICK m \in Msg : IsCurrent(t, m) /\ ack(m)
            BY <1>10 DEF Ack
      <2>2. stage[t] = "ack" /\ UNCHANGED <<alertVars, published, deadletter>>
            BY <1>10 DEF Ack
      <2>3. m \in pel /\ m \in 1..stream
            BY <2>1, HeldAccepted
      <2>4. Settled' = Settled \cup {m} /\ stream' = stream
            BY <1>0, <2>1, <2>3, AckFacts DEF ack
      <2>5. Durable(m) \/ m \in Ignored
            BY <2>1, <2>2 DEF AlertInv, StagesTrue, Accounted, Durable
      <2>6. \A k \in Msg : Durable(k)' <=> Durable(k)
            BY <1>0, <2>2, StoreUnchanged, OutcomesFrame
      <2>7. produced' = produced
            BY <2>6
      <2>8. DC!Settle(m)
            BY <2>3, <2>4, <2>5, <2>7 DEF DC!Settle
      <2> QED BY <2>8 DEF DC!Next
(* A crash rolls back what was no outcome, and analysts change none. *)
<1>11. ASSUME NEW t \in Task, Crash(t) PROVE UNCHANGED DC!vars
      <2>1. Rollback(t) /\ UNCHANGED <<busVars, published, deadletter>>
            BY <1>11 DEF Crash
      <2> QED BY <1>0, <1>2, <2>1, RollbackEffect
<1>12. CASE Triage
      BY <1>0, <1>2, <1>12, TriageEffect DEF taskVars
<1>13. CASE UNCHANGED vars
      <2>1. UNCHANGED <<busVars, alertVars, published, deadletter>>
            BY <1>13 DEF vars, busVars, alertVars
      <2> QED BY <1>0, <1>2, <2>1, StoreUnchanged
<1> QED BY <1>3, <1>4, <1>5, <1>6, <1>7, <1>8, <1>9, <1>10, <1>11, <1>12, <1>13 DEF Next

(* The alerting stage implements the safety part of the delivery contract: *)
(* read as accepted, produced and settled firings, every step of its       *)
(* tasks, their rollbacks and crashes and the analysts' work included, is  *)
(* a step of the contract or none. A firing that creates an alert counts   *)
(* as produced only once the alert is announced (alert_worker.py, _publish *)
(* before ack); one that is not to become an alert is settled as it comes. *)
THEOREM AlertsRefineDeliveryContract == Spec => DC!SafeSpec
<1>1. Init => DC!Init
      <2> SUFFICES ASSUME Init PROVE DC!Init
          OBVIOUS
      <2>1. 1..stream = {} /\ Settled = {}
            BY DEF Init, BusInit, Settled
      <2>2. \A k \in Msg : ~Durable(k)
            BY AlertWorkerConstants DEF Init, AlertsInit, Durable
      <2>3. {m \in Msg : Durable(m)} = {}
            BY <2>2
      <2> QED BY <2>1, <2>3 DEF DC!Init
<1>2. AlertInv /\ [Next]_vars => [DC!Next]_(DC!vars)
      BY AlertContractStep
<1> QED BY <1>1, <1>2, AlertInvariant, PTL DEF Spec, DC!SafeSpec
=============================================================================
