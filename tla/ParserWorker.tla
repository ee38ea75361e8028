---------------------------- MODULE ParserWorker ----------------------------
(***************************************************************************)
(* The parser stage (backend/app/workers/parser_worker.py): replicas of    *)
(* ParserWorker read events.raw, process each message, publish the         *)
(* document to events.normalized or dead-letter the message, then ack.     *)
(*                                                                         *)
(* Every replica runs two asyncio tasks that both call handle(): the       *)
(* subscribe loop and the reclaim loop. A task's batch holds the messages  *)
(* it has still to finish; it works on the lowest id, first emitting its   *)
(* outcome, then acking it, with an await (so any other step) in between.  *)
(***************************************************************************)
EXTENDS EventBus

CONSTANTS
    Worker,       \* the replicas of the parser deployment
    Malformed,    \* the messages parsing or normalization refuses
    MaxFaults     \* bound: crashes, signals, failed sweeps and stalls together

ASSUME WorkerConstants == IsFiniteSet(Worker) /\ MaxFaults \in Nat

VARIABLES
    status,       \* a replica's process: "up", "stopping" (SIGTERM seen) or "down"
    stage,        \* what each of its tasks does next
    batch,        \* the messages each task has still to finish
    normalized,   \* documents published to events.normalized, per raw message
    deadletter,   \* entries published to events.raw.deadletter, per raw message
    faults        \* faults so far

workerVars == <<status, stage, batch>>
vars == <<stream, cursor, pel, idle, deliveries, status, stage, batch,
          normalized, deadletter, faults>>

Loop == {"subscribe", "reclaim"}

TypeOK ==
    /\ BusTypeOK
    /\ status \in [Worker -> {"up", "stopping", "down"}]
    /\ stage \in [Worker -> [Loop -> {"idle", "emit", "ack", "done"}]]
    /\ batch \in [Worker -> [Loop -> SUBSET Msg]]
    /\ normalized \in [Msg -> Nat]
    /\ deadletter \in [Msg -> Nat]
    /\ faults \in 0..MaxFaults

Init ==
    /\ BusInit
    /\ status = [w \in Worker |-> "up"]
    /\ stage = [w \in Worker |-> [l \in Loop |-> "idle"]]
    /\ batch = [w \in Worker |-> [l \in Loop |-> {}]]
    /\ normalized = [m \in Msg |-> 0]
    /\ deadletter = [m \in Msg |-> 0]
    /\ faults = 0

-----------------------------------------------------------------------------
(* The message a task is working on: ids are handled in the order returned. *)
IsCurrent(w, l, m) == m \in batch[w][l] /\ \A k \in batch[w][l] : m <= k

Held(m) == \E w \in Worker, l \in Loop : m \in batch[w][l]

Outcomes(m) == normalized[m] + deadletter[m]

(* EventProcessor.process never raises: every payload has one of two outcomes, *)
(* and processing a payload again gives the same one.                          *)
process(m) == IF m \in Malformed THEN "failure" ELSE "success"

Take(w, l, B) ==
    /\ batch' = [batch EXCEPT ![w][l] = B]
    /\ stage' = [stage EXCEPT ![w][l] = "emit"]

(* The process is gone: its tasks vanish with whatever they held. *)
Down(w) ==
    /\ status' = [status EXCEPT ![w] = "down"]
    /\ batch' = [batch EXCEPT ![w] = [l \in Loop |-> {}]]
    /\ stage' = [stage EXCEPT ![w] = [l \in Loop |-> "idle"]]

(* Ingestion's XADD to events.raw. *)
Publish ==
    /\ publish
    /\ UNCHANGED <<workerVars, normalized, deadletter, faults>>

(* The subscribe generator blocks in XREADGROUP until there is something   *)
(* to read. It does so without looking at the stop event: a stopping       *)
(* replica still takes the next batch.                                     *)
Subscribe(w) ==
    /\ status[w] # "down"
    /\ stage[w]["subscribe"] = "idle"
    /\ xreadgroup
    /\ Take(w, "subscribe", Unread)
    /\ UNCHANGED <<status, normalized, deadletter, faults>>

(* Mutant of Emit: a processing failure is logged and not dead-lettered. *)
EmitLogsFailures(w, l) ==
    /\ stage[w][l] = "emit"
    /\ \E m \in Msg :
        /\ IsCurrent(w, l, m)
        /\ normalized' = [normalized EXCEPT ![m] = @ + (IF process(m) = "failure" THEN 0 ELSE 1)]
    /\ stage' = [stage EXCEPT ![w][l] = "ack"]
    /\ UNCHANGED <<busVars, status, batch, deadletter, faults>>

(* Mutant of Emit: the dead-lettered message is published onward as well. *)
EmitFallsThrough(w, l) ==
    /\ stage[w][l] = "emit"
    /\ \E m \in Msg :
        /\ IsCurrent(w, l, m)
        /\ normalized' = [normalized EXCEPT ![m] = @ + 1]
        /\ deadletter' = [deadletter EXCEPT ![m] = @ + (IF process(m) = "failure" THEN 1 ELSE 0)]
    /\ stage' = [stage EXCEPT ![w][l] = "ack"]
    /\ UNCHANGED <<busVars, status, batch, faults>>

(* handle, first half: one XADD, onward or to the dead-letter topic. *)
Emit(w, l) ==
    /\ stage[w][l] = "emit"
    /\ \E m \in Msg :
        /\ IsCurrent(w, l, m)
        /\ IF process(m) = "failure"
           THEN /\ deadletter' = [deadletter EXCEPT ![m] = @ + 1]
                /\ UNCHANGED normalized
           ELSE /\ normalized' = [normalized EXCEPT ![m] = @ + 1]
                /\ UNCHANGED deadletter
    /\ stage' = [stage EXCEPT ![w][l] = "ack"]
    /\ UNCHANGED <<busVars, status, batch, faults>>

(* After a message is acked: the next of the batch, or the end of the batch. *)
(* The reclaim loop tests the stop event only then.                          *)
NextMessage(w, l, B) ==
    /\ batch' = [batch EXCEPT ![w][l] = B]
    /\ stage' = [stage EXCEPT ![w][l] =
                    IF B # {} THEN "emit"
                    ELSE IF l = "reclaim" /\ status[w] = "stopping" THEN "done"
                    ELSE "idle"]
    /\ UNCHANGED status

(* handle, second half: XACK. run() breaks out after any message once the  *)
(* stop event is set: the rest of the batch stays pending and the reclaim  *)
(* task is cancelled wherever it is.                                       *)
Ack(w, l) ==
    /\ stage[w][l] = "ack"
    /\ \E m \in Msg :
        /\ IsCurrent(w, l, m)
        /\ ack(m)
        /\ IF l = "subscribe" /\ status[w] = "stopping"
           THEN Down(w)
           ELSE NextMessage(w, l, batch[w][l] \ {m})
    /\ UNCHANGED <<normalized, deadletter, faults>>

(* Mutant of ClaimStale: the loop's test of the stop event is inverted. *)
ClaimStaleInverted(w) ==
    /\ status[w] = "stopping"
    /\ stage[w]["reclaim"] = "idle"
    /\ idle # {}
    /\ claim_stale
    /\ Take(w, "reclaim", Stale)
    /\ UNCHANGED <<status, normalized, deadletter, faults>>

(* _reclaim_loop wakes up. Finding nothing it sleeps again, or ends when   *)
(* the stop event was set during the sleep.                                *)
ClaimStale(w) ==
    /\ status[w] # "down"
    /\ stage[w]["reclaim"] = "idle"
    /\ \/ /\ idle # {}
          /\ claim_stale
          /\ Take(w, "reclaim", Stale)
       \/ /\ idle = {}
          /\ status[w] = "stopping"
          /\ stage' = [stage EXCEPT ![w]["reclaim"] = "done"]
          /\ UNCHANGED <<busVars, batch>>
    /\ UNCHANGED <<status, normalized, deadletter, faults>>

-----------------------------------------------------------------------------
Fault == faults < MaxFaults /\ faults' = faults + 1

(* A bus call of the reclaim task raises, before or after Redis applied it: *)
(* the sweep is logged and abandoned, the worker lives on.                  *)
SweepFails(w) ==
    /\ Fault
    /\ stage[w]["reclaim"] \in {"emit", "ack"}
    /\ batch' = [batch EXCEPT ![w]["reclaim"] = {}]
    /\ stage' = [stage EXCEPT ![w]["reclaim"] =
                    IF status[w] = "stopping" THEN "done" ELSE "idle"]
    /\ UNCHANGED <<busVars, status, normalized, deadletter>>

(* The process dies: killed, or a bus call of the subscribe loop raised,   *)
(* which ends run(). Redis may or may not have applied that call: a crash  *)
(* after Emit or Ack is the first case, one before it the second.          *)
Crash(w) ==
    /\ Fault
    /\ status[w] # "down"
    /\ Down(w)
    /\ UNCHANGED <<busVars, normalized, deadletter>>

(* SIGTERM or SIGINT sets the stop event. *)
Sigterm(w) ==
    /\ Fault
    /\ status[w] = "up"
    /\ status' = [status EXCEPT ![w] = "stopping"]
    /\ UNCHANGED <<busVars, stage, batch, normalized, deadletter>>

(* A stopping replica blocked on an empty stream never sees its stop event: *)
(* the orchestrator kills it when the grace period ends.                    *)
Kill(w) ==
    /\ status[w] = "stopping"
    /\ Down(w)
    /\ UNCHANGED <<busVars, normalized, deadletter, faults>>

(* The container's restart policy (unless-stopped, or the Deployment). *)
Restart(w) ==
    /\ status[w] = "down"
    /\ status' = [status EXCEPT ![w] = "up"]
    /\ UNCHANGED <<busVars, stage, batch, normalized, deadletter, faults>>

(* RECLAIM_MIN_IDLE_MS pass: for a message nobody works on that is only a  *)
(* matter of time, for one that a live task still holds it takes a stall.  *)
Expire(m) ==
    /\ ~Held(m)
    /\ GoIdle(m)
    /\ UNCHANGED <<workerVars, normalized, deadletter, faults>>

Stall(m) ==
    /\ Fault
    /\ Held(m)
    /\ GoIdle(m)
    /\ UNCHANGED <<workerVars, normalized, deadletter>>

Next ==
    \/ Publish
    \/ \E w \in Worker : \/ Subscribe(w)
                         \/ ClaimStale(w)
                         \/ SweepFails(w)
                         \/ Crash(w)
                         \/ Sigterm(w)
                         \/ Kill(w)
                         \/ Restart(w)
    \/ \E w \in Worker, l \in Loop : Emit(w, l) \/ Ack(w, l)
    \/ \E m \in Msg : Expire(m) \/ Stall(m)

Spec == Init /\ [][Next]_vars

(* Tasks of a live replica keep running, dead replicas are restarted,      *)
(* stopping ones are killed in the end, and time passes. Faults and new    *)
(* messages are never required.                                            *)
Fairness ==
    /\ \A w \in Worker : /\ WF_vars(Subscribe(w))
                         /\ WF_vars(ClaimStale(w))
                         /\ WF_vars(Kill(w))
                         /\ WF_vars(Restart(w))
    /\ \A w \in Worker, l \in Loop : WF_vars(Emit(w, l)) /\ WF_vars(Ack(w, l))
    /\ \A m \in Msg : WF_vars(Expire(m))

FairSpec == Spec /\ Fairness

-----------------------------------------------------------------------------
(* "A message is never acked without one of those two outcomes having      *)
(* durably happened" (parser_worker.py:5-9), and the outcome is the one    *)
(* its payload calls for, however often and by whomever it was handled.    *)
AckedOnlyWithOutcome ==
    \A m \in Settled :
        IF m \in Malformed
        THEN deadletter[m] > 0 /\ normalized[m] = 0
        ELSE normalized[m] > 0 /\ deadletter[m] = 0

(* Duplicates come from redelivery alone: two tasks, replicas and sweeps   *)
(* that share a message never emit it more often than the broker handed    *)
(* it out. (Each document gets a fresh event_id, so nothing downstream     *)
(* merges the copies.)                                                     *)
OneOutcomePerDelivery == \A m \in Msg : Outcomes(m) <= deliveries[m]

(* The stage as its callers see it. *)
DC == INSTANCE DeliveryContract WITH
        Message  <- Msg,
        Exempt   <- {},
        accepted <- 1..stream,
        produced <- {m \in Msg : Outcomes(m) > 0},
        settled  <- Settled

(* The parser stage keeps the delivery contract, its liveness included:    *)
(* whatever crashes, stalls or is restarted, every published message is    *)
(* parsed or dead-lettered and then acked.                                 *)
KeepsDeliveryContract == DC!Spec
=============================================================================
