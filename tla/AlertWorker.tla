---------------------------- MODULE AlertWorker -----------------------------
(***************************************************************************)
(* The alerting stage (backend/app/workers/alert_worker.py): tasks read    *)
(* firings, store each in one transaction, publish alerts.created when the *)
(* transaction created an alert, and ack. A replica runs one task per      *)
(* input topic; the topics are merged into one here. No task ever calls    *)
(* claim_stale.                                                            *)
(***************************************************************************)
EXTENDS EventBus, Alerts

CONSTANTS
    Undecodable,   \* firings whose payload is not a JSON object
    Ignored,       \* dry-run detections, and scores below alert_min_risk_score
    MaxFaults      \* bound: crashes and shutdowns

ASSUME AlertWorkerConstants == Firing = Msg /\ MaxFaults \in Nat

VARIABLES
    stage,         \* what each task does with its current message
    batch,         \* the messages each task has still to finish
    published,     \* alerts.created entries, per alert
    deadletter,    \* dead-lettered firings
    faults         \* faults so far

taskVars == <<stage, batch, published, deadletter, faults>>
vars == <<stream, cursor, pel, idle, deliveries, alert, last_number, now, cutoff, tx, request,
          folded, overlapped, triaged, stage, batch, published, deadletter, faults>>

TypeOK ==
    /\ BusTypeOK
    /\ AlertsTypeOK
    /\ stage \in [Task -> {"idle", "accept", "store", "publish", "ack"}]
    /\ batch \in [Task -> SUBSET Msg]
    /\ published \in [Msg -> Nat]
    /\ deadletter \subseteq Msg
    /\ faults \in 0..MaxFaults

Init ==
    /\ BusInit
    /\ AlertsInit
    /\ stage = [t \in Task |-> "idle"]
    /\ batch = [t \in Task |-> {}]
    /\ published = [m \in Msg |-> 0]
    /\ deadletter = {}
    /\ faults = 0

-----------------------------------------------------------------------------
IsCurrent(t, m) == m \in batch[t] /\ \A k \in batch[t] : m <= k

Goto(t, s) == stage' = [stage EXCEPT ![t] = s]

(* A detection or correlation worker publishes a firing. *)
Fire ==
    /\ publish
    /\ UNCHANGED <<alertVars, taskVars>>

Subscribe(t) ==
    /\ stage[t] = "idle"
    /\ xreadgroup
    /\ batch' = [batch EXCEPT ![t] = Unread]
    /\ Goto(t, "accept")
    /\ UNCHANGED <<alertVars, published, deadletter, faults>>

(* accept: an undecodable payload is dead-lettered, one that is not to     *)
(* become an alert is only acked, any other opens a transaction.           *)
Accept(t) ==
    /\ stage[t] = "accept"
    /\ \E m \in Msg :
        /\ IsCurrent(t, m)
        /\ \/ /\ m \in Undecodable
              /\ deadletter' = deadletter \cup {m}
              /\ Goto(t, "ack")
              /\ UNCHANGED alertVars
           \/ /\ m \in Ignored \ Undecodable
              /\ Goto(t, "ack")
              /\ UNCHANGED <<alertVars, deadletter>>
           \/ /\ m \notin Undecodable \cup Ignored
              /\ find_duplicate(t, m)
              /\ Goto(t, "store")
              /\ UNCHANGED deadletter
    /\ UNCHANGED <<busVars, batch, published, faults>>

(* Mutant of FoldRepeat: every occurrence is announced. *)
FoldAnnounced(t) ==
    /\ stage[t] = "store"
    /\ \E m \in Msg : /\ IsCurrent(t, m)
                      /\ published' = [published EXCEPT ![tx[t].alert] = @ + 1]
                      /\ Fold(t, m)
    /\ Goto(t, "ack")
    /\ UNCHANGED <<busVars, batch, deadletter, faults>>

FoldRepeat(t) ==
    /\ stage[t] = "store"
    /\ \E m \in Msg : IsCurrent(t, m) /\ Fold(t, m)
    /\ Goto(t, "ack")
    /\ UNCHANGED <<busVars, batch, published, deadletter, faults>>

TakeNumber(t) ==
    /\ stage[t] = "store"
    /\ next_display_id(t)
    /\ UNCHANGED <<busVars, taskVars>>

CreateAlert(t) ==
    /\ stage[t] = "store"
    /\ \E m \in Msg : IsCurrent(t, m) /\ Create(t, m)
    /\ Goto(t, "publish")
    /\ UNCHANGED <<busVars, batch, published, deadletter, faults>>

(* _publish: the new alert is announced on alerts.created. *)
PublishAlert(t) ==
    /\ stage[t] = "publish"
    /\ \E m \in Msg : IsCurrent(t, m) /\ published' = [published EXCEPT ![m] = @ + 1]
    /\ Goto(t, "ack")
    /\ UNCHANGED <<busVars, alertVars, batch, deadletter, faults>>

Ack(t) ==
    /\ stage[t] = "ack"
    /\ \E m \in Msg :
        /\ IsCurrent(t, m)
        /\ ack(m)
        /\ batch' = [batch EXCEPT ![t] = @ \ {m}]
        /\ Goto(t, IF batch[t] = {m} THEN "idle" ELSE "accept")
    /\ UNCHANGED <<alertVars, published, deadletter, faults>>

(* The task ends, by an exception, a kill or a cancellation, and a new one *)
(* takes its place: its transaction is rolled back and its messages stay   *)
(* pending. A shutdown between two messages of a batch is a case of this.  *)
Crash(t) ==
    /\ faults < MaxFaults
    /\ faults' = faults + 1
    /\ stage[t] # "idle"
    /\ Rollback(t)
    /\ batch' = [batch EXCEPT ![t] = {}]
    /\ Goto(t, "idle")
    /\ UNCHANGED <<busVars, published, deadletter>>

(* The dedup window elapses, and analysts work the queue, on their own time. *)
Triage ==
    /\ \/ Elapse
       \/ \E q \in ApiRequest : \/ CommitTransition(q)
                                \/ AbortTransition(q)
                                \/ \E u \in Analyst, a \in Msg, s \in ALERT_STATUSES :
                                        Transition(q, u, a, s)
       \/ \E a \in Msg, u \in Analyst \cup {Nobody} : assign(a, u)
    /\ UNCHANGED <<busVars, taskVars>>

Next ==
    \/ Fire
    \/ \E t \in Task : \/ Subscribe(t)
                       \/ Accept(t)
                       \/ FoldRepeat(t)
                       \/ TakeNumber(t)
                       \/ CreateAlert(t)
                       \/ PublishAlert(t)
                       \/ Ack(t)
                       \/ Crash(t)
    \/ Triage

Spec == Init /\ [][Next]_vars

(* Live tasks keep running. Crashes, analysts and new firings are never required. *)
Fairness == \A t \in Task : /\ WF_vars(Subscribe(t))
                            /\ WF_vars(Accept(t))
                            /\ WF_vars(FoldRepeat(t))
                            /\ WF_vars(TakeNumber(t))
                            /\ WF_vars(CreateAlert(t))
                            /\ WF_vars(PublishAlert(t))
                            /\ WF_vars(Ack(t))

FairSpec == Spec /\ Fairness

-----------------------------------------------------------------------------
(* Display ids are "unique and gapless per tenant per year" (alerts.py:115): *)
(* whatever races and rolls back, the alerts carry exactly the numbers       *)
(* 1..last_number, each once.                                                *)
DisplayIdsGapless ==
    /\ {alert[a].number : a \in {b \in Msg : Exists(b)}} = 1..last_number
    /\ Cardinality({a \in Msg : Exists(a)}) = last_number

(* "Repeats are counted and timestamped, never discarded" (alerts.py:9-10):  *)
(* no firing is counted by two alerts, every alert's count is the number of  *)
(* firings folded into it and its risk the worst of theirs, also when tasks  *)
(* fold into one alert at once or an analyst works on it.                    *)
RepeatsCounted ==
    /\ \A a, b \in Msg : a # b => folded[a] \cap folded[b] = {}
    /\ \A a \in Msg : Exists(a) =>
        /\ alert[a].count = Cardinality(folded[a])
        /\ \A m \in folded[a] : RiskScore[m] <= alert[a].risk
        /\ \E m \in folded[a] : RiskScore[m] = alert[a].risk

(* "Only genuinely new alerts are published" (alert_worker.py:15-17), and an *)
(* acked firing is accounted for: dead-lettered, ignored, or counted by an   *)
(* alert, which has been announced if the firing created it.                 *)
AckedIsAccountedFor ==
    /\ \A a \in Msg : published[a] <= IF Exists(a) THEN 1 ELSE 0
    /\ \A m \in Settled :
        \/ m \in Undecodable /\ m \in deadletter
        \/ m \in Ignored
        \/ /\ \E a \in Msg : m \in folded[a]
           /\ Exists(m) => published[m] = 1

(* closed_at is set exactly while the alert is in a closing status (it is  *)
(* what MTTR is computed from), if its transition requests never           *)
(* overlapped: folding repeats into the alert meanwhile does no harm.      *)
ClosedAtMatchesStatusAlone ==
    \A a \in Msg \ overlapped : alert[a].closed <=> alert[a].status \in CLOSING

(* "A repeat inside the dedup window updates the existing alert instead of   *)
(* creating another" (alerts.py:8-9): no alert is created for a key that     *)
(* has an open alert in the window.                                          *)
RepeatsUpdateExisting ==
    [][\A a \in Msg : ~Exists(a) /\ Exists(a)' => Duplicates(a) = {}]_vars

(* "An unacked message is redelivered ... never silently lose an event"    *)
(* (eventbus.py:81-84): every published firing is acked in the end.        *)
EveryFiringSettles == \A m \in Msg : (m <= stream) ~> (m \in Settled)

(* The outcome of a firing is durable: its dead letter, or the alert that  *)
(* counts it, announced if the firing created it.                          *)
Durable(m) ==
    \/ m \in deadletter
    \/ /\ \E a \in Msg : m \in folded[a]
       /\ Exists(m) => published[m] > 0

(* The stage as its callers see it: a firing that is not to become an      *)
(* alert is acked and leaves no trace.                                     *)
DC == INSTANCE DeliveryContract WITH
        Message  <- Msg,
        Exempt   <- Ignored,
        accepted <- 1..stream,
        produced <- {m \in Msg : Durable(m)},
        settled  <- Settled
=============================================================================
