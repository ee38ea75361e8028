--------------------------- MODULE IndexerWorker ----------------------------
(***************************************************************************)
(* The indexing stage (backend/app/workers/indexer_worker.py): replicas    *)
(* bootstrap the indices, then read events.normalized, enrich documents    *)
(* into a pending list and write the list to OpenSearch in bulk, when it   *)
(* is full or when the interval flusher finds it. Messages are acked after *)
(* the bulk request. Nobody calls claim_stale.                             *)
(*                                                                         *)
(* A replica runs two asyncio tasks that both call flush(): the consumer   *)
(* and the interval flusher. The detection indexer is the same class on    *)
(* another topic, so one topic is enough.                                  *)
(***************************************************************************)
EXTENDS EventBus, IndexManagement

CONSTANTS
    BatchSize,     \* batch_size
    Unusable,      \* messages that do not decode to a document with an id
    Conflicting,   \* documents OpenSearch refuses (a mapping conflict)
    Scenario       \* bounds, one record of which each behaviour picks

ASSUME IndexerConstants ==
    /\ BatchSize \in Nat \ {0}
    /\ Scenario \subseteq [replicas : SUBSET Replica, messages : 0..MaxMsgs, faults : Nat,
                           deployed : 1..MaxVersion, rollovers : 0..MaxRollovers]

VARIABLES
    limits,        \* the behaviour's bounds
    stopping,      \* replicas whose stop event is set
    consumer,      \* where each replica's consumer task is
    batch,         \* the messages it has read and not yet accepted
    pending,       \* _pending: messages whose documents wait to be written
    flushing,      \* each task's flush() in progress
    stored,        \* documents in the index, by message
    deadletter,    \* entries on the dead-letter topic, per message
    abandoned,     \* history: messages a crash, an error or a stop left behind
    faults         \* faults so far

workerVars == <<stopping, consumer, batch, pending, flushing>>
outcomeVars == <<stored, deadletter>>
historyVars == <<limits, abandoned, faults>>
vars == <<stream, cursor, pel, idle, deliveries, boot, version, policy, template, index,
          rollovers, regressed, unpoliced, refused, limits, stopping, consumer, batch, pending, flushing,
          stored, deadletter, abandoned, faults>>

Flusher == {"consumer", "interval"}

FlushState == [stage : {"idle", "bulk", "settle", "ack"},
               batch : SUBSET Msg,
               rejected : SUBSET Msg]

NoFlush == [stage |-> "idle", batch |-> {}, rejected |-> {}]

TypeOK ==
    /\ BusTypeOK
    /\ IndexTypeOK
    /\ limits \in Scenario
    /\ stopping \subseteq Replica
    /\ consumer \in [Replica -> {"read", "accept", "enrich", "reject", "flush", "last"}]
    /\ batch \in [Replica -> SUBSET Msg]
    /\ pending \in [Replica -> SUBSET Msg]
    /\ flushing \in [Replica -> [Flusher -> FlushState]]
    /\ stored \subseteq Msg
    /\ deadletter \in [Msg -> Nat]
    /\ abandoned \subseteq Msg
    /\ faults \in Nat

Init ==
    /\ BusInit
    /\ IndexInit
    /\ limits \in Scenario
    /\ stopping = {}
    /\ consumer = [r \in Replica |-> "read"]
    /\ batch = [r \in Replica |-> {}]
    /\ pending = [r \in Replica |-> {}]
    /\ flushing = [r \in Replica |-> [f \in Flusher |-> NoFlush]]
    /\ stored = {}
    /\ deadletter = [m \in Msg |-> 0]
    /\ abandoned = {}
    /\ faults = 0

-----------------------------------------------------------------------------
First(S, m) == m \in S /\ \A k \in S : m <= k

InFlush(r) == UNION {flushing[r][f].batch : f \in Flusher}

Held(r) == batch[r] \cup pending[r] \cup InFlush(r)

Goto(r, s) == consumer' = [consumer EXCEPT ![r] = s]

SetFlush(r, f, s) == flushing' = [flushing EXCEPT ![r][f] = s]

DeadLetter(m) == deadletter' = [deadletter EXCEPT ![m] = @ + 1]

(* The parser stage publishes a document. *)
Publish ==
    /\ stream < limits.messages
    /\ publish
    /\ UNCHANGED <<indexVars, workerVars, outcomeVars, historyVars>>

(* run(): the process starts and bootstraps before it consumes. *)
Start(r) ==
    /\ r \in limits.replicas
    /\ \E v \in 1..limits.deployed : StartReplica(r, v)
    /\ UNCHANGED <<busVars, workerVars, outcomeVars, historyVars>>

BootstrapStep(r) ==
    /\ Bootstrap(r)
    /\ UNCHANGED <<busVars, workerVars, outcomeVars, historyVars>>

Rolls ==
    /\ rollovers < limits.rollovers
    /\ Rollover
    /\ UNCHANGED <<busVars, workerVars, outcomeVars, historyVars>>

Subscribe(r) ==
    /\ Ready(r)
    /\ consumer[r] = "read"
    /\ xreadgroup
    /\ batch' = [batch EXCEPT ![r] = Unread]
    /\ Goto(r, "accept")
    /\ UNCHANGED <<indexVars, stopping, pending, flushing, outcomeVars, historyVars>>

(* accept up to its first await: the payload is rejected or enriched. *)
Accept(r) ==
    /\ consumer[r] = "accept"
    /\ \E m \in Msg :
        /\ First(batch[r], m)
        /\ IF m \in Unusable
           THEN DeadLetter(m) /\ Goto(r, "reject")
           ELSE UNCHANGED deadletter /\ Goto(r, "enrich")
    /\ UNCHANGED <<busVars, indexVars, stopping, batch, pending, flushing, stored, historyVars>>

(* run()'s finally: the flusher is cancelled wherever it is, which may be  *)
(* inside a bulk request, and what is pending is flushed once more.        *)
Finally(r, p) ==
    /\ batch' = [batch EXCEPT ![r] = {}]
    /\ pending' = [pending EXCEPT ![r] = {}]
    /\ flushing' = [flushing EXCEPT ![r] =
            [f \in Flusher |->
                IF f = "consumer" THEN [stage |-> "bulk", batch |-> p, rejected |-> {}]
                                  ELSE NoFlush]]
    /\ Goto(r, "last")

(* After a message: the next one of those read, or out of the loop when    *)
(* the stop event is set. The messages read after it stay behind, and so   *)
(* do those of the flush that is cancelled.                                *)
Loop(r, left, p) ==
    IF r \in stopping
    THEN /\ Finally(r, p)
         /\ abandoned' = abandoned \cup left \cup flushing[r]["interval"].batch
    ELSE /\ batch' = [batch EXCEPT ![r] = left]
         /\ pending' = [pending EXCEPT ![r] = p]
         /\ Goto(r, IF left = {} THEN "read" ELSE "accept")
         /\ UNCHANGED <<flushing, abandoned>>

(* _reject's second half. *)
AckRejected(r) ==
    /\ consumer[r] = "reject"
    /\ \E m \in Msg : /\ First(batch[r], m)
                      /\ ack(m)
                      /\ Loop(r, batch[r] \ {m}, pending[r])
    /\ UNCHANGED <<indexVars, stopping, outcomeVars, limits, faults>>

(* accept after enrichment, which never raises: the document joins the     *)
(* pending list, and a full list is flushed at once.                       *)
Enqueue(r) ==
    /\ consumer[r] = "enrich"
    /\ \E m \in Msg :
        LET p == pending[r] \cup {m}  left == batch[r] \ {m} IN
        /\ First(batch[r], m)
        /\ IF Cardinality(p) < BatchSize
           THEN Loop(r, left, p)
           ELSE /\ batch' = [batch EXCEPT ![r] = left]
                /\ pending' = [pending EXCEPT ![r] = {}]
                /\ SetFlush(r, "consumer", [stage |-> "bulk", batch |-> p, rejected |-> {}])
                /\ Goto(r, "flush")
                /\ UNCHANGED <<abandoned>>
    /\ UNCHANGED <<busVars, indexVars, stopping, outcomeVars, limits, faults>>

(* Mutant of FlushOnInterval: the list is copied and cleared after the write. *)
FlushKeepsPending(r) ==
    /\ Ready(r) /\ consumer[r] # "last"
    /\ flushing[r]["interval"].stage = "idle"
    /\ pending[r] # {}
    /\ SetFlush(r, "interval", [stage |-> "bulk", batch |-> pending[r], rejected |-> {}])
    /\ UNCHANGED <<busVars, indexVars, stopping, consumer, batch, pending, outcomeVars,
                   historyVars>>

(* Mutant of FlushOnInterval: only a full list is flushed. *)
FlushOnlyFull(r) ==
    /\ Ready(r) /\ consumer[r] # "last"
    /\ flushing[r]["interval"].stage = "idle"
    /\ Cardinality(pending[r]) = BatchSize
    /\ SetFlush(r, "interval", [stage |-> "bulk", batch |-> pending[r], rejected |-> {}])
    /\ pending' = [pending EXCEPT ![r] = {}]
    /\ UNCHANGED <<busVars, indexVars, stopping, consumer, batch, outcomeVars, historyVars>>

(* The interval flusher wakes up and takes the pending list, while the     *)
(* consumer may be anywhere, its own flush included.                       *)
FlushOnInterval(r) ==
    /\ Ready(r) /\ consumer[r] # "last"
    /\ flushing[r]["interval"].stage = "idle"
    /\ pending[r] # {}
    /\ SetFlush(r, "interval", [stage |-> "bulk", batch |-> pending[r], rejected |-> {}])
    /\ pending' = [pending EXCEPT ![r] = {}]
    /\ UNCHANGED <<busVars, indexVars, stopping, consumer, batch, outcomeVars, historyVars>>

(* Mutant of _interpret: a 200 is taken for success. *)
InterpretTrusts(B) == {}

(* _interpret: the items of the response that carry an error. *)
_interpret(B) == B \cap Conflicting

(* index_batch: the bulk request and its per-item verdicts. *)
Bulk(r, f) ==
    LET s == flushing[r][f] IN
    /\ s.stage = "bulk"
    /\ stored' = stored \cup (s.batch \ Conflicting)
    /\ SetFlush(r, f, [s EXCEPT !.stage = "settle", !.rejected = _interpret(s.batch)])
    /\ UNCHANGED <<busVars, indexVars, stopping, consumer, batch, pending, deadletter,
                   historyVars>>

(* The request fails on the way there or on the way back: everything is    *)
(* reported as rejected, whether or not OpenSearch wrote it.               *)
BulkFails(r, f) ==
    LET s == flushing[r][f] IN
    /\ faults < limits.faults
    /\ s.stage = "bulk" /\ s.batch # {}
    /\ stored' \in {stored, stored \cup (s.batch \ Conflicting)}
    /\ SetFlush(r, f, [s EXCEPT !.stage = "settle", !.rejected = s.batch])
    /\ faults' = faults + 1
    /\ UNCHANGED <<busVars, indexVars, stopping, consumer, batch, pending, deadletter,
                   limits, abandoned>>

(* flush's loop over the batch: a rejected document is dead-lettered. *)
Reject(r, f) ==
    LET s == flushing[r][f] IN
    /\ s.stage = "settle"
    /\ \E m \in s.rejected : First(s.batch, m) /\ DeadLetter(m)
    /\ SetFlush(r, f, [s EXCEPT !.stage = "ack"])
    /\ UNCHANGED <<busVars, indexVars, stopping, consumer, batch, pending, stored, historyVars>>

(* ... and acked, as an indexed one is. *)
Ack(r, f) ==
    LET s == flushing[r][f] IN
    /\ \E m \in s.batch :
        /\ First(s.batch, m)
        /\ s.stage = "ack" \/ (s.stage = "settle" /\ m \notin s.rejected)
        /\ ack(m)
        /\ SetFlush(r, f, [s EXCEPT !.stage = "settle", !.batch = @ \ {m}])
    /\ UNCHANGED <<indexVars, stopping, consumer, batch, pending, outcomeVars, historyVars>>

(* flush() returns to the task that called it. *)
Flushed(r, f) ==
    LET s == flushing[r][f] IN
    /\ s.stage = "settle" /\ s.batch = {}
    /\ IF f = "consumer" /\ consumer[r] = "flush"
       THEN IF r \in stopping
            THEN Loop(r, batch[r], pending[r])
            ELSE /\ SetFlush(r, f, NoFlush)
                 /\ Goto(r, IF batch[r] = {} THEN "read" ELSE "accept")
                 /\ UNCHANGED <<batch, pending, abandoned>>
       ELSE /\ SetFlush(r, f, NoFlush)
            /\ UNCHANGED <<consumer, batch, pending, abandoned>>
    /\ UNCHANGED <<busVars, indexVars, stopping, outcomeVars, limits, faults>>

-----------------------------------------------------------------------------
Fault == faults < limits.faults /\ faults' = faults + 1

(* The process is gone, and with it everything it held. *)
Ended(r) ==
    /\ stopping' = stopping \ {r}
    /\ consumer' = [consumer EXCEPT ![r] = "read"]
    /\ batch' = [batch EXCEPT ![r] = {}]
    /\ pending' = [pending EXCEPT ![r] = {}]
    /\ flushing' = [flushing EXCEPT ![r] = [f \in Flusher |-> NoFlush]]
    /\ StopReplica(r)

(* run() returns after its last flush. *)
Exit(r) ==
    /\ consumer[r] = "last"
    /\ flushing[r]["consumer"].stage = "idle"
    /\ Ended(r)
    /\ UNCHANGED <<busVars, outcomeVars, historyVars>>

(* A bus call of the interval flusher raises: logged, and the rest of its  *)
(* batch is no longer in any list.                                         *)
IntervalFlushFails(r) ==
    /\ Fault
    /\ flushing[r]["interval"].stage \in {"settle", "ack"}
    /\ flushing[r]["interval"].batch # {}
    /\ abandoned' = abandoned \cup flushing[r]["interval"].batch
    /\ SetFlush(r, "interval", NoFlush)
    /\ UNCHANGED <<busVars, indexVars, stopping, consumer, batch, pending, outcomeVars,
                   limits>>

(* A bus call of the consumer raises, or the process's other consumer has  *)
(* failed and this one is cancelled: run() ends through its finally.       *)
ConsumerFails(r) ==
    /\ Fault
    /\ Ready(r)
    /\ consumer[r] # "last"
    /\ Finally(r, pending[r])
    /\ abandoned' = abandoned \cup batch[r] \cup InFlush(r)
    /\ UNCHANGED <<busVars, indexVars, stopping, outcomeVars, limits>>

(* The process is killed, or dies during its bootstrap. *)
Crash(r) ==
    /\ Fault
    /\ Ended(r)
    /\ abandoned' = abandoned \cup Held(r)
    /\ UNCHANGED <<busVars, outcomeVars, limits>>

(* SIGTERM or SIGINT sets the stop event. *)
Sigterm(r) ==
    /\ Fault
    /\ Ready(r) /\ r \notin stopping
    /\ stopping' = stopping \cup {r}
    /\ UNCHANGED <<busVars, indexVars, consumer, batch, pending, flushing, outcomeVars,
                   limits, abandoned>>

(* A stopping replica whose consumer waits for messages never gets to its  *)
(* finally: it is killed when the grace period ends.                       *)
Kill(r) ==
    /\ r \in stopping
    /\ Ended(r)
    /\ abandoned' = abandoned \cup Held(r)
    /\ UNCHANGED <<busVars, outcomeVars, limits, faults>>

Next ==
    \/ Publish
    \/ Rolls
    \/ \E r \in Replica : \/ Start(r)
                          \/ BootstrapStep(r)
                          \/ Subscribe(r)
                          \/ Accept(r)
                          \/ AckRejected(r)
                          \/ Enqueue(r)
                          \/ FlushOnInterval(r)
                          \/ Exit(r)
                          \/ IntervalFlushFails(r)
                          \/ ConsumerFails(r)
                          \/ Crash(r)
                          \/ Sigterm(r)
                          \/ Kill(r)
    \/ \E r \in Replica, f \in Flusher : \/ Bulk(r, f)
                                         \/ BulkFails(r, f)
                                         \/ Reject(r, f)
                                         \/ Ack(r, f)
                                         \/ Flushed(r, f)

Spec == Init /\ [][Next]_vars

(* Tasks of a live replica keep running, the flusher's timer included, and *)
(* replicas are started again. Faults, kills and messages are never        *)
(* required.                                                               *)
Fairness ==
    /\ \A r \in Replica : /\ WF_vars(Start(r))
                          /\ WF_vars(BootstrapStep(r))
                          /\ WF_vars(Subscribe(r))
                          /\ WF_vars(Accept(r))
                          /\ WF_vars(AckRejected(r))
                          /\ WF_vars(Enqueue(r))
                          /\ WF_vars(FlushOnInterval(r))
                          /\ WF_vars(Exit(r))
                          /\ WF_vars(Kill(r))
    /\ \A r \in Replica, f \in Flusher : /\ WF_vars(Bulk(r, f))
                                         /\ WF_vars(Reject(r, f))
                                         /\ WF_vars(Ack(r, f))
                                         /\ WF_vars(Flushed(r, f))

FairSpec == Spec /\ Fairness

-----------------------------------------------------------------------------
(* flush() takes the list it finds and installs an empty one before its    *)
(* first await, so that two flushes and an accept in progress never share  *)
(* or drop a message: what is unacked is in exactly one place of one live  *)
(* replica, unless a fault or a stop left it behind.                       *)
HeldOnce ==
    /\ \A m \in pel \ abandoned : \E r \in Replica : m \in Held(r)
    /\ \A r \in Replica : /\ batch[r] \cap pending[r] = {}
                          /\ (batch[r] \cup pending[r]) \cap InFlush(r) = {}
                          /\ flushing[r]["consumer"].batch \cap flushing[r]["interval"].batch = {}
                          /\ \A q \in Replica \ {r} : Held(r) \cap Held(q) = {}

Durable(m) == m \in stored \/ deadletter[m] > 0

(* "Messages are acked only after the batch containing them is durably     *)
(* written" (indexer_worker.py:6-7), rejected documents after they are     *)
(* dead-lettered, whichever task flushed them and however the request went. *)
AckedIsDurable == \A m \in Settled : Durable(m)

(* "A partially-filled batch during a lull would sit unindexed             *)
(* indefinitely" without the flusher (indexer_worker.py:162-164): every    *)
(* message read is acked in the end, unless a fault or a stop left it      *)
(* behind.                                                                 *)
EveryDocumentSettles == \A m \in Msg : (m <= stream) ~> (m \in Settled \cup abandoned)

(* The stage as its callers see it. *)
DC == INSTANCE DeliveryContract WITH
        Message  <- Msg,
        Exempt   <- {},
        accepted <- 1..stream,
        produced <- {m \in Msg : Durable(m)},
        settled  <- Settled
=============================================================================
