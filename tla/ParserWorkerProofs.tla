------------------------- MODULE ParserWorkerProofs -------------------------
EXTENDS ParserWorker, FiniteSetTheorems, TLAPS

(* The oldest n messages of a set are among it. *)
LEMMA OldestIsSubset ==
    ASSUME NEW S, NEW n
    PROVE  Oldest(S, n) \subseteq S
BY DEF Oldest

(* Counting a delivery keeps the delivery counters natural numbers. *)
LEMMA DeliveredType ==
    ASSUME BusTypeOK, NEW B
    PROVE  Delivered(B) \in [Msg -> Nat]
BY DEF BusTypeOK, Delivered

(* Pending and idle entries are messages of the stream. *)
LEMMA PendingIsMsg == BusTypeOK => pel \subseteq Msg /\ idle \subseteq Msg
<1> SUFFICES ASSUME BusTypeOK PROVE 1..cursor \subseteq Msg
  BY DEF BusTypeOK
<1>1. cursor \in Nat /\ cursor <= MaxMsgs
  BY BusConstants DEF BusTypeOK
<1> QED BY <1>1, BusConstants DEF Msg

(* Adding to the stream keeps it typed. *)
LEMMA PublishBus == BusTypeOK /\ publish => BusTypeOK'
BY BusConstants DEF BusTypeOK, publish

(* Reading new entries for the group keeps the stream typed. *)
LEMMA ReadBus == BusTypeOK /\ xreadgroup => BusTypeOK'
<1> SUFFICES ASSUME BusTypeOK, xreadgroup PROVE BusTypeOK'
  OBVIOUS
<1>1. deliveries' \in [Msg -> Nat]
  BY DeliveredType DEF xreadgroup
<1>2. stream' \in 0..MaxMsgs /\ cursor' \in 0..stream' /\ cursor <= cursor'
  BY BusConstants DEF BusTypeOK, xreadgroup, ReadUpTo
<1>3. pel' \subseteq 1..cursor'
  BY <1>2, BusConstants DEF BusTypeOK, xreadgroup, Unread, ReadUpTo
<1>4. idle' \subseteq pel'
  BY DEF BusTypeOK, xreadgroup
<1> QED BY <1>1, <1>2, <1>3, <1>4 DEF BusTypeOK

(* Acknowledging keeps the stream typed. *)
LEMMA AckBus == ASSUME NEW m PROVE BusTypeOK /\ ack(m) => BusTypeOK'
BY DEF BusTypeOK, ack

(* Claiming idle entries keeps the stream typed. *)
LEMMA ClaimBus == BusTypeOK /\ claim_stale => BusTypeOK'
BY DeliveredType DEF BusTypeOK, claim_stale

(* An entry going idle keeps the stream typed. *)
LEMMA IdleBus == ASSUME NEW m PROVE BusTypeOK /\ GoIdle(m) => BusTypeOK'
BY DEF BusTypeOK, GoIdle

(* The type invariant is inductive. *)
LEMMA TypeStep == TypeOK /\ [Next]_vars => TypeOK'
<1> SUFFICES ASSUME TypeOK, [Next]_vars PROVE TypeOK'
  OBVIOUS
<1> USE DEF TypeOK
<1>1. CASE Publish
  BY <1>1, PublishBus DEF Publish, workerVars
<1>2. ASSUME NEW w \in Worker, Subscribe(w) PROVE TypeOK'
  <2>1. Unread \subseteq Msg
    BY BusConstants DEF BusTypeOK, Unread, ReadUpTo, Msg
  <2> QED BY <1>2, <2>1, ReadBus DEF Subscribe, Take, Loop
<1>3. ASSUME NEW w \in Worker, NEW l \in Loop, Emit(w, l) PROVE TypeOK'
  <2>1. BusTypeOK'
    BY <1>3 DEF Emit, busVars, BusTypeOK
  <2>2. PICK m \in Msg :
          \/ deadletter' = [deadletter EXCEPT ![m] = @ + 1] /\ UNCHANGED normalized
          \/ normalized' = [normalized EXCEPT ![m] = @ + 1] /\ UNCHANGED deadletter
    BY <1>3 DEF Emit
  <2>3. normalized' \in [Msg -> Nat] /\ deadletter' \in [Msg -> Nat]
    BY <2>2
  <2> QED BY <1>3, <2>1, <2>3 DEF Emit
<1>4. ASSUME NEW w \in Worker, NEW l \in Loop, Ack(w, l) PROVE TypeOK'
  <2>1. PICK m \in Msg :
          /\ ack(m)
          /\ Down(w) \/ NextMessage(w, l, batch[w][l] \ {m})
    BY <1>4 DEF Ack
  <2>2. BusTypeOK'
    BY <2>1, AckBus
  <2>3. UNCHANGED <<normalized, deadletter, faults>>
    BY <1>4 DEF Ack
  <2>4. CASE Down(w)
    BY <2>2, <2>3, <2>4 DEF Down
  <2>5. CASE NextMessage(w, l, batch[w][l] \ {m})
    <3>1. batch[w][l] \ {m} \in SUBSET Msg
      OBVIOUS
    <3> QED BY <2>2, <2>3, <2>5, <3>1 DEF NextMessage
  <2> QED BY <2>1, <2>4, <2>5
<1>5. ASSUME NEW w \in Worker, ClaimStale(w) PROVE TypeOK'
  <2>1. Stale \subseteq Msg
    BY OldestIsSubset, PendingIsMsg DEF Stale
  <2>2. CASE claim_stale /\ Take(w, "reclaim", Stale)
    BY <1>5, <2>1, <2>2, ClaimBus DEF ClaimStale, Take, Loop
  <2>3. CASE UNCHANGED <<busVars, batch>>
            /\ stage' = [stage EXCEPT ![w]["reclaim"] = "done"]
    <3>1. BusTypeOK'
      BY <2>3 DEF busVars, BusTypeOK
    <3> QED BY <1>5, <2>3, <3>1 DEF ClaimStale, Loop
  <2> QED BY <1>5, <2>2, <2>3 DEF ClaimStale
<1>6. ASSUME NEW w \in Worker, SweepFails(w) PROVE TypeOK'
  <2>1. BusTypeOK'
    BY <1>6 DEF SweepFails, busVars, BusTypeOK
  <2> QED BY <1>6, <2>1, WorkerConstants DEF SweepFails, Fault, Loop
<1>7. ASSUME NEW w \in Worker, Crash(w) \/ Kill(w) PROVE TypeOK'
  <2>1. BusTypeOK'
    BY <1>7 DEF Crash, Kill, busVars, BusTypeOK
  <2>2. Down(w) /\ UNCHANGED <<normalized, deadletter>>
    BY <1>7 DEF Crash, Kill
  <2>3. faults' \in 0..MaxFaults
    BY <1>7, WorkerConstants DEF Crash, Kill, Fault
  <2> QED BY <2>1, <2>2, <2>3 DEF Down
<1>8. ASSUME NEW w \in Worker, Sigterm(w) \/ Restart(w) PROVE TypeOK'
  <2>1. BusTypeOK'
    BY <1>8 DEF Sigterm, Restart, busVars, BusTypeOK
  <2> QED BY <1>8, <2>1, WorkerConstants DEF Sigterm, Restart, Fault
<1>9. ASSUME NEW m \in Msg, Expire(m) \/ Stall(m) PROVE TypeOK'
  BY <1>9, IdleBus, WorkerConstants DEF Expire, Stall, Fault, workerVars
<1>10. CASE UNCHANGED vars
  BY <1>10 DEF vars, BusTypeOK
<1> QED
  BY <1>1, <1>2, <1>3, <1>4, <1>5, <1>6, <1>7, <1>8, <1>9, <1>10 DEF Next

(* Every variable keeps its type, for any number of messages, replicas,    *)
(* batch sizes and faults.                                                 *)
THEOREM TypeCorrect == Spec => []TypeOK
<1>1. Init => TypeOK
  BY BusConstants, WorkerConstants
     DEF Init, BusInit, TypeOK, BusTypeOK
<1> QED BY <1>1, TypeStep, PTL DEF Spec

-----------------------------------------------------------------------------
(* AckedOnlyWithOutcome is not inductive: an ack is safe because the task   *)
(* that sends it has emitted the outcome before, so the invariant must      *)
(* follow the outcome through the task's stage, and say which kind of       *)
(* outcome a message can have at all.                                       *)

Durable(m) == IF m \in Malformed THEN deadletter[m] > 0 ELSE normalized[m] > 0

(* Nothing is emitted to the topic its payload does not call for. *)
RightKind ==
    \A m \in Msg : /\ m \in Malformed => normalized[m] = 0
                   /\ m \notin Malformed => deadletter[m] = 0

(* Tasks hold what the group has delivered, and hold nothing between batches. *)
BatchesDelivered ==
    \A w \in Worker, l \in Loop :
        /\ batch[w][l] \subseteq 1..cursor
        /\ stage[w][l] \in {"idle", "done"} => batch[w][l] = {}

(* A task about to ack has emitted. *)
EmittedBeforeAck ==
    \A w \in Worker, l \in Loop, m \in Msg :
        stage[w][l] = "ack" /\ IsCurrent(w, l, m) => Durable(m)

SettledDurable == \A m \in Settled : Durable(m)

DeliveryInv ==
    /\ TypeOK
    /\ RightKind
    /\ BatchesDelivered
    /\ EmittedBeforeAck
    /\ SettledDurable

(* One step per variable group keeps the facts that do not mention it. *)
LEMMA SettledIsMsg == BusTypeOK => Settled \subseteq Msg
<1> SUFFICES ASSUME BusTypeOK PROVE 1..cursor \subseteq Msg
  BY DEF Settled
<1>1. cursor \in Nat /\ cursor <= MaxMsgs
  BY BusConstants DEF BusTypeOK
<1> QED BY <1>1, BusConstants DEF Msg

(* Reading new entries settles nothing. *)
LEMMA ReadKeepsSettled == BusTypeOK /\ xreadgroup => Settled' = Settled
<1> SUFFICES ASSUME BusTypeOK, xreadgroup PROVE Settled' = Settled
  OBVIOUS
<1>1. cursor \in Nat /\ cursor' \in Nat /\ cursor <= cursor' /\ cursor' = ReadUpTo
  BY BusConstants DEF BusTypeOK, xreadgroup, ReadUpTo
<1>2. pel' = pel \cup ((cursor + 1)..cursor')
  BY <1>1 DEF xreadgroup, Unread
<1>3. (1..cursor') \ ((cursor + 1)..cursor') = 1..cursor
  BY <1>1
<1> QED BY <1>2, <1>3 DEF Settled

(* The delivery invariant is inductive. *)
LEMMA DeliveryStep == DeliveryInv /\ [Next]_vars => DeliveryInv'
<1> SUFFICES ASSUME DeliveryInv, [Next]_vars PROVE DeliveryInv'
  OBVIOUS
<1>0. TypeOK /\ TypeOK'
  BY TypeStep DEF DeliveryInv
<1> USE DEF DeliveryInv
<1>1. CASE Publish
  BY <1>0, <1>1
     DEF Publish, publish, workerVars, RightKind, BatchesDelivered, EmittedBeforeAck,
         SettledDurable, Settled, Durable, IsCurrent
<1>2. ASSUME NEW w \in Worker, Subscribe(w) PROVE DeliveryInv'
  <2>1. Settled' = Settled
    BY <1>0, <1>2, ReadKeepsSettled DEF Subscribe, TypeOK
  <2>2. cursor \in Nat /\ cursor' \in Nat /\ cursor <= cursor' /\ cursor' = ReadUpTo
    BY <1>0, <1>2, BusConstants DEF Subscribe, TypeOK, BusTypeOK, xreadgroup, ReadUpTo
  <2>3. BatchesDelivered'
    <3>1. Unread \subseteq 1..cursor' /\ 1..cursor \subseteq 1..cursor'
      BY <2>2 DEF Unread
    <3> QED BY <1>0, <1>2, <3>1 DEF Subscribe, Take, BatchesDelivered, TypeOK, Loop
  <2>4. EmittedBeforeAck'
    BY <1>0, <1>2 DEF Subscribe, Take, EmittedBeforeAck, IsCurrent, Durable, TypeOK, Loop
  <2> QED BY <1>0, <1>2, <2>1, <2>3, <2>4 DEF Subscribe, RightKind, SettledDurable, Durable
<1>3. ASSUME NEW w \in Worker, NEW l \in Loop, Emit(w, l) PROVE DeliveryInv'
  <2>1. PICK m \in Msg :
          /\ IsCurrent(w, l, m)
          /\ IF process(m) = "failure"
             THEN /\ deadletter' = [deadletter EXCEPT ![m] = @ + 1]
                  /\ UNCHANGED normalized
             ELSE /\ normalized' = [normalized EXCEPT ![m] = @ + 1]
                  /\ UNCHANGED deadletter
    BY <1>3 DEF Emit
  <2>2. /\ \A k \in Msg : Durable(k) => Durable(k)'
        /\ Durable(m)'
        /\ RightKind'
    <3>1. CASE m \in Malformed
      <4>1. deadletter' = [deadletter EXCEPT ![m] = @ + 1] /\ normalized' = normalized
        BY <2>1, <3>1 DEF process
      <4>2. deadletter \in [Msg -> Nat]
        BY <1>0 DEF TypeOK
      <4>3. deadletter'[m] > 0 /\ \A k \in Msg : k # m => deadletter'[k] = deadletter[k]
        BY <4>1, <4>2
      <4> QED BY <3>1, <4>1, <4>3 DEF Durable, RightKind
    <3>2. CASE m \notin Malformed
      <4>1. normalized' = [normalized EXCEPT ![m] = @ + 1] /\ deadletter' = deadletter
        BY <2>1, <3>2 DEF process
      <4>2. normalized \in [Msg -> Nat]
        BY <1>0 DEF TypeOK
      <4>3. normalized'[m] > 0 /\ \A k \in Msg : k # m => normalized'[k] = normalized[k]
        BY <4>1, <4>2
      <4> QED BY <3>2, <4>1, <4>3 DEF Durable, RightKind
    <3> QED BY <3>1, <3>2
  <2>3. BatchesDelivered'
    <3>1. UNCHANGED <<batch, cursor>>
      BY <1>3 DEF Emit, busVars
    <3>2. \A w1 \in Worker, l1 \in Loop :
             stage'[w1][l1] = stage[w1][l1] \/ stage'[w1][l1] = "ack"
      BY <1>0, <1>3 DEF Emit, TypeOK
    <3> QED BY <3>1, <3>2 DEF BatchesDelivered
  <2>4. EmittedBeforeAck'
    <3> SUFFICES ASSUME NEW w1 \in Worker, NEW l1 \in Loop, NEW k \in Msg,
                        stage'[w1][l1] = "ack", IsCurrent(w1, l1, k)'
                 PROVE  Durable(k)'
      BY DEF EmittedBeforeAck
    <3>1. IsCurrent(w1, l1, k)
      BY <1>3 DEF Emit, IsCurrent
    <3>2. CASE w1 = w /\ l1 = l
      <4>1. k = m
        BY <2>1, <3>1, <3>2 DEF IsCurrent, Msg
      <4> QED BY <4>1, <2>2
    <3>3. CASE ~(w1 = w /\ l1 = l)
      <4>1. stage[w1][l1] = "ack"
        BY <1>0, <1>3, <3>3 DEF Emit, TypeOK
      <4> QED BY <3>1, <4>1, <2>2 DEF EmittedBeforeAck
    <3> QED BY <3>2, <3>3
  <2>5. SettledDurable'
    BY <1>0, <1>3, <2>2, SettledIsMsg DEF Emit, busVars, Settled, SettledDurable, TypeOK
  <2> QED BY <1>0, <2>2, <2>3, <2>4, <2>5
<1>4. ASSUME NEW w \in Worker, NEW l \in Loop, Ack(w, l) PROVE DeliveryInv'
  <2>1. PICK m \in Msg :
          /\ IsCurrent(w, l, m)
          /\ ack(m)
          /\ Down(w) \/ NextMessage(w, l, batch[w][l] \ {m})
    BY <1>4 DEF Ack
  <2>2. UNCHANGED <<cursor, normalized, deadletter>>
    BY <1>4, <2>1 DEF Ack, ack
  <2>3. Durable(m) /\ \A k \in Msg : Durable(k) => Durable(k)'
    BY <1>4, <2>1, <2>2 DEF Ack, EmittedBeforeAck, Durable
  <2>4. RightKind'
    BY <2>2 DEF RightKind
  <2>5. SettledDurable'
    <3>1. Settled' \subseteq Settled \cup {m}
      BY <2>1 DEF ack, Settled
    <3> QED BY <1>0, <2>3, <3>1, SettledIsMsg DEF SettledDurable, TypeOK
  <2>6. BatchesDelivered' /\ EmittedBeforeAck'
    <3>1. CASE Down(w)
      BY <1>0, <2>2, <2>3, <3>1
         DEF Down, BatchesDelivered, EmittedBeforeAck, IsCurrent, TypeOK, Durable
    <3>2. CASE NextMessage(w, l, batch[w][l] \ {m})
      <4>1. \A w1 \in Worker, l1 \in Loop :
               /\ batch'[w1][l1] \subseteq batch[w1][l1]
               /\ stage'[w1][l1] \in {"idle", "done"} => batch'[w1][l1] = {}
               /\ stage'[w1][l1] = "ack" => /\ stage[w1][l1] = "ack"
                                            /\ batch'[w1][l1] = batch[w1][l1]
        <5>1. stage' = [stage EXCEPT ![w][l] = stage'[w][l]]
          BY <1>0, <3>2 DEF NextMessage, TypeOK
        <5>2. stage'[w][l] # "ack"
                /\ (stage'[w][l] \in {"idle", "done"} => batch[w][l] \ {m} = {})
          BY <1>0, <3>2 DEF NextMessage, TypeOK
        <5>3. batch' = [batch EXCEPT ![w][l] = batch[w][l] \ {m}]
          BY <3>2 DEF NextMessage
        <5> QED BY <1>0, <5>1, <5>2, <5>3 DEF TypeOK, BatchesDelivered
      <4>2. BatchesDelivered'
        BY <2>2, <4>1 DEF BatchesDelivered
      <4>3. EmittedBeforeAck'
        BY <4>1, <2>3 DEF EmittedBeforeAck, IsCurrent
      <4> QED BY <4>2, <4>3
    <3> QED BY <2>1, <3>1, <3>2
  <2> QED BY <1>0, <2>4, <2>5, <2>6
<1>5. ASSUME NEW w \in Worker, ClaimStale(w) PROVE DeliveryInv'
  <2>1. /\ UNCHANGED <<cursor, pel, normalized, deadletter>>
        /\ RightKind'
        /\ SettledDurable'
    BY <1>5 DEF ClaimStale, claim_stale, busVars, RightKind, SettledDurable, Settled, Durable
  <2>2. CASE claim_stale /\ Take(w, "reclaim", Stale)
    <3>1. Stale \subseteq 1..cursor
      BY <1>0, OldestIsSubset DEF TypeOK, BusTypeOK, Stale
    <3>2. BatchesDelivered'
      BY <1>0, <2>1, <2>2, <3>1 DEF Take, BatchesDelivered, TypeOK, Loop
    <3>3. EmittedBeforeAck'
      BY <1>0, <2>1, <2>2 DEF Take, EmittedBeforeAck, IsCurrent, Durable, TypeOK, Loop
    <3> QED BY <1>0, <2>1, <3>2, <3>3
  <2>3. CASE /\ UNCHANGED batch
             /\ stage' = [stage EXCEPT ![w]["reclaim"] = "done"]
    BY <1>0, <1>5, <2>1, <2>3
       DEF ClaimStale, BatchesDelivered, EmittedBeforeAck, IsCurrent, Durable, TypeOK, Loop
  <2> QED BY <1>5, <2>2, <2>3 DEF ClaimStale
<1>6. ASSUME NEW w \in Worker, SweepFails(w) PROVE DeliveryInv'
  <2>1. BatchesDelivered' /\ EmittedBeforeAck'
    BY <1>0, <1>6
       DEF SweepFails, busVars, BatchesDelivered, EmittedBeforeAck, IsCurrent, Durable,
           TypeOK, Loop
  <2> QED BY <1>0, <1>6, <2>1
             DEF SweepFails, busVars, RightKind, SettledDurable, Settled, Durable
<1>7. ASSUME NEW w \in Worker, Crash(w) \/ Kill(w) PROVE DeliveryInv'
  <2>1. Down(w) /\ UNCHANGED <<busVars, normalized, deadletter>>
    BY <1>7 DEF Crash, Kill
  <2>2. BatchesDelivered' /\ EmittedBeforeAck'
    BY <1>0, <2>1
       DEF Down, busVars, BatchesDelivered, EmittedBeforeAck, IsCurrent, Durable, TypeOK
  <2> QED BY <1>0, <2>1, <2>2 DEF busVars, RightKind, SettledDurable, Settled, Durable
<1>8. ASSUME NEW w \in Worker, Sigterm(w) \/ Restart(w) PROVE DeliveryInv'
  BY <1>0, <1>8
     DEF Sigterm, Restart, busVars, RightKind, BatchesDelivered, EmittedBeforeAck,
         SettledDurable, Settled, Durable, IsCurrent
<1>9. ASSUME NEW m \in Msg, Expire(m) \/ Stall(m) PROVE DeliveryInv'
  BY <1>0, <1>9
     DEF Expire, Stall, GoIdle, workerVars, RightKind, BatchesDelivered, EmittedBeforeAck,
         SettledDurable, Settled, Durable, IsCurrent
<1>10. CASE UNCHANGED vars
  BY <1>0, <1>10
     DEF vars, RightKind, BatchesDelivered, EmittedBeforeAck, SettledDurable, Settled,
         Durable, IsCurrent
<1> QED
  BY <1>1, <1>2, <1>3, <1>4, <1>5, <1>6, <1>7, <1>8, <1>9, <1>10 DEF Next

(* The delivery invariant holds of every reachable state. *)
LEMMA DeliveryInvariant == Spec => []DeliveryInv
<1>1. Init => DeliveryInv
  <2> SUFFICES ASSUME Init PROVE DeliveryInv
    OBVIOUS
  <2>1. TypeOK
    BY BusConstants, WorkerConstants DEF Init, BusInit, TypeOK, BusTypeOK
  <2> QED BY <2>1 DEF Init, BusInit, DeliveryInv, RightKind, BatchesDelivered,
                      EmittedBeforeAck, SettledDurable, Settled
<1> QED BY <1>1, DeliveryStep, PTL DEF Spec

(* No message is acked before its outcome is durable, and the outcome is   *)
(* the one its payload calls for, whatever the number of replicas, the     *)
(* batch sizes and the crashes, stalls, signals and failed sweeps.         *)
THEOREM AckedOnlyWithOutcomeHolds == Spec => []AckedOnlyWithOutcome
<1>1. DeliveryInv => AckedOnlyWithOutcome
  BY SettledIsMsg
     DEF DeliveryInv, SettledDurable, RightKind, AckedOnlyWithOutcome, Durable, TypeOK
<1> QED BY <1>1, DeliveryInvariant, PTL

-----------------------------------------------------------------------------
(* Every step of the parser is a step of the delivery contract, or none. *)
LEMMA ContractStep ==
    ASSUME DeliveryInv, [Next]_vars
    PROVE  [DC!Next]_(DC!vars)
<1> DEFINE produced == {m \in Msg : Outcomes(m) > 0}
<1>0. TypeOK /\ TypeOK'
  BY TypeStep DEF DeliveryInv
<1> USE DEF DC!vars
<1>1. CASE Publish
  <2>1. stream \in Nat /\ stream + 1 \in Msg
    BY <1>0, <1>1, BusConstants DEF Publish, publish, Msg, TypeOK, BusTypeOK
  <2>2. 1..stream' = (1..stream) \cup {stream + 1}
    BY <1>1, <2>1 DEF Publish, publish
  <2>3. UNCHANGED <<produced, Settled>>
    BY <1>1 DEF Publish, publish, Outcomes, Settled
  <2>4. DC!Accept(stream + 1)
    BY <2>2, <2>3 DEF DC!Accept
  <2> QED BY <2>1, <2>4 DEF DC!Next
<1>2. ASSUME NEW w \in Worker, Subscribe(w) PROVE UNCHANGED DC!vars
  <2>1. Settled' = Settled
    BY <1>0, <1>2, ReadKeepsSettled DEF Subscribe, TypeOK
  <2> QED BY <1>2, <2>1 DEF Subscribe, xreadgroup, Outcomes
<1>3. ASSUME NEW w \in Worker, NEW l \in Loop, Emit(w, l) PROVE DC!Next
  <2>1. PICK m \in Msg :
          /\ IsCurrent(w, l, m)
          /\ \/ /\ deadletter' = [deadletter EXCEPT ![m] = @ + 1]
                /\ UNCHANGED normalized
             \/ /\ normalized' = [normalized EXCEPT ![m] = @ + 1]
                /\ UNCHANGED deadletter
    BY <1>3 DEF Emit
  <2>2. m \in 1..stream
    <3>1. m \in 1..cursor
      BY <2>1 DEF IsCurrent, DeliveryInv, BatchesDelivered
    <3> QED BY <1>0, <3>1, BusConstants DEF TypeOK, BusTypeOK
  <2>3. normalized \in [Msg -> Nat] /\ deadletter \in [Msg -> Nat]
    BY <1>0 DEF TypeOK
  <2>4. /\ Outcomes(m)' > 0
        /\ \A k \in Msg : k # m => Outcomes(k)' = Outcomes(k)
    BY <2>1, <2>3 DEF Outcomes
  <2>5. produced' = produced \cup {m}
    BY <2>4
  <2>6. UNCHANGED <<1..stream, Settled>>
    BY <1>3 DEF Emit, busVars, Settled
  <2>7. DC!Produce({m})
    BY <2>2, <2>5, <2>6 DEF DC!Produce
  <2> QED BY <2>7 DEF DC!Next
<1>4. ASSUME NEW w \in Worker, NEW l \in Loop, Ack(w, l) PROVE DC!Next
  <2>1. PICK m \in Msg : IsCurrent(w, l, m) /\ ack(m)
    BY <1>4 DEF Ack
  <2>2. m \in 1..cursor
    BY <2>1 DEF IsCurrent, DeliveryInv, BatchesDelivered
  <2>3. Durable(m)
    BY <1>4, <2>1 DEF Ack, DeliveryInv, EmittedBeforeAck
  <2>4. m \in produced
    BY <1>0, <2>3 DEF Durable, Outcomes, TypeOK
  <2>5. Settled' = Settled \cup {m}
    BY <2>1, <2>2 DEF ack, Settled
  <2>6. UNCHANGED <<1..stream, produced>>
    BY <1>4, <2>1 DEF Ack, ack, Outcomes
  <2>7. DC!Settle(m)
    BY <2>4, <2>5, <2>6 DEF DC!Settle
  <2> QED BY <2>7 DEF DC!Next
<1>5. ASSUME NEW w \in Worker, ClaimStale(w) PROVE UNCHANGED DC!vars
  BY <1>5 DEF ClaimStale, claim_stale, busVars, Outcomes, Settled
<1>6. ASSUME NEW w \in Worker, SweepFails(w) \/ Crash(w) \/ Sigterm(w) \/ Kill(w) \/ Restart(w)
      PROVE  UNCHANGED DC!vars
  BY <1>6 DEF SweepFails, Crash, Sigterm, Kill, Restart, busVars, Outcomes, Settled
<1>7. ASSUME NEW m \in Msg, Expire(m) \/ Stall(m) PROVE UNCHANGED DC!vars
  BY <1>7 DEF Expire, Stall, GoIdle, Outcomes, Settled
<1>8. CASE UNCHANGED vars
  BY <1>8 DEF vars, Outcomes, Settled
<1> QED BY <1>1, <1>2, <1>3, <1>4, <1>5, <1>6, <1>7, <1>8 DEF Next

(* The parser stage implements the safety part of the delivery contract:   *)
(* read as accepted, produced and settled messages, every step of the      *)
(* replicas is a step of the contract or none.                             *)
THEOREM RefinesDeliveryContract == Spec => DC!SafeSpec
<1>1. Init => DC!Init
  <2> SUFFICES ASSUME Init PROVE DC!Init
    OBVIOUS
  <2>1. 1..stream = {} /\ Settled = {}
    BY DEF Init, BusInit, Settled
  <2>2. {m \in Msg : Outcomes(m) > 0} = {}
    BY DEF Init, Outcomes
  <2> QED BY <2>1, <2>2 DEF DC!Init
<1>2. DeliveryInv /\ [Next]_vars => [DC!Next]_(DC!vars)
  BY ContractStep
<1> QED BY <1>1, <1>2, DeliveryInvariant, PTL DEF Spec, DC!SafeSpec

-----------------------------------------------------------------------------
(* For OneOutcomePerDelivery the outcomes still to come must be counted    *)
(* too: a task owes an outcome for every message of its batch except the   *)
(* one it has emitted and not yet acked.                                   *)

Owes(w, l, m) ==
    m \in batch[w][l] /\ ~(stage[w][l] = "ack" /\ \A k \in batch[w][l] : m <= k)

Owing(m) == {p \in Worker \X Loop : Owes(p[1], p[2], m)}

OutcomesCounted ==
    \A m \in Msg : Outcomes(m) + Cardinality(Owing(m)) <= deliveries[m]

(* The loops that owe an outcome for a message can be counted. *)
LEMMA OwingFinite ==
    \A m : IsFiniteSet(Owing(m)) /\ Cardinality(Owing(m)) \in Nat
<1>1. IsFiniteSet(Loop)
  <2>1. IsFiniteSet({} \cup {"subscribe"})
    BY FS_EmptySet, FS_AddElement
  <2>2. IsFiniteSet(({} \cup {"subscribe"}) \cup {"reclaim"})
    BY <2>1, FS_AddElement
  <2>3. Loop = ({} \cup {"subscribe"}) \cup {"reclaim"}
    BY DEF Loop
  <2> QED BY <2>2, <2>3
<1>2. IsFiniteSet(Worker \X Loop)
  BY <1>1, WorkerConstants, FS_Product
<1> QED BY <1>2, FS_Subset, FS_CardinalityType DEF Owing

(* If none comes to owe an outcome, their number does not grow. *)
LEMMA OwingStep ==
    ASSUME NEW m \in Msg, Owing(m)' \subseteq Owing(m)
    PROVE  Cardinality(Owing(m)') <= Cardinality(Owing(m))
BY OwingFinite, FS_Subset

(* If one comes to owe an outcome, their number grows by at most one. *)
LEMMA OwingTake ==
    ASSUME NEW m \in Msg, NEW p, Owing(m)' \subseteq Owing(m) \cup {p}
    PROVE  /\ Cardinality(Owing(m)') \in Nat
           /\ Cardinality(Owing(m)') <= Cardinality(Owing(m)) + 1
<1>1. /\ IsFiniteSet(Owing(m) \cup {p})
      /\ Cardinality(Owing(m) \cup {p}) <= Cardinality(Owing(m)) + 1
  <2>1. IsFiniteSet(Owing(m)) /\ Cardinality(Owing(m)) \in Nat
    BY OwingFinite
  <2>2. /\ IsFiniteSet(Owing(m) \cup {p})
        /\ Cardinality(Owing(m) \cup {p}) =
             IF p \in Owing(m) THEN Cardinality(Owing(m)) ELSE Cardinality(Owing(m)) + 1
    BY <2>1, FS_AddElement
  <2>3. CASE p \in Owing(m)
    BY <2>1, <2>2, <2>3
  <2>4. CASE p \notin Owing(m)
    BY <2>1, <2>2, <2>4
  <2> QED BY <2>3, <2>4
<1> QED BY <1>1, OwingFinite, FS_Subset, FS_CardinalityType

(* If one pays, their number falls by at least one. *)
LEMMA OwingEmit ==
    ASSUME NEW m \in Msg, NEW p \in Owing(m), Owing(m)' \subseteq Owing(m) \ {p}
    PROVE  /\ Cardinality(Owing(m)') \in Nat
           /\ Cardinality(Owing(m)') + 1 <= Cardinality(Owing(m))
<1>1. /\ IsFiniteSet(Owing(m) \ {p})
      /\ Cardinality(Owing(m) \ {p}) = Cardinality(Owing(m)) - 1
  BY OwingFinite, FS_RemoveElement
<1> QED BY <1>1, OwingFinite, FS_Subset, FS_CardinalityType

(* Outcomes stay within deliveries: the count is inductive. *)
LEMMA CountStep ==
    ASSUME DeliveryInv, OutcomesCounted, [Next]_vars
    PROVE  OutcomesCounted'
<1>0. TypeOK /\ TypeOK' /\ BatchesDelivered
  BY TypeStep DEF DeliveryInv
<1>1. /\ normalized \in [Msg -> Nat] /\ deadletter \in [Msg -> Nat]
      /\ deliveries \in [Msg -> Nat] /\ deliveries' \in [Msg -> Nat]
  BY <1>0 DEF TypeOK, BusTypeOK
<1>2. \A m \in Msg : Outcomes(m) \in Nat
  BY <1>1 DEF Outcomes
<1>3. SUFFICES ASSUME NEW m \in Msg
               PROVE  Outcomes(m)' + Cardinality(Owing(m)') <= deliveries'[m]
  BY DEF OutcomesCounted
<1>4. /\ Outcomes(m) \in Nat /\ deliveries[m] \in Nat
      /\ Cardinality(Owing(m)) \in Nat
      /\ Outcomes(m) + Cardinality(Owing(m)) <= deliveries[m]
  BY <1>1, <1>2, OwingFinite DEF OutcomesCounted
(* A step that neither emits nor delivers, and gives no task more to do. *)
<1>5. ASSUME UNCHANGED <<normalized, deadletter, deliveries>>, Owing(m)' \subseteq Owing(m)
      PROVE  Outcomes(m)' + Cardinality(Owing(m)') <= deliveries'[m]
  <2>1. Cardinality(Owing(m)') <= Cardinality(Owing(m))
    BY <1>5, OwingStep
  <2>2. Cardinality(Owing(m)') \in Nat
    BY <1>5, OwingFinite, FS_Subset, FS_CardinalityType
  <2>3. Outcomes(m)' = Outcomes(m) /\ deliveries'[m] = deliveries[m]
    BY <1>5 DEF Outcomes
  <2> QED BY <1>4, <2>1, <2>2, <2>3
(* A batch handed to an idle task. *)
<1>6. ASSUME NEW w \in Worker, NEW l \in Loop, NEW B, Take(w, l, B), stage[w][l] = "idle",
             UNCHANGED <<normalized, deadletter>>, deliveries' = Delivered(B)
      PROVE  Outcomes(m)' + Cardinality(Owing(m)') <= deliveries'[m]
  <2>1. Outcomes(m)' = Outcomes(m)
    BY <1>6 DEF Outcomes
  <2>2. \A p \in Worker \X Loop :
           p # <<w, l>> => (Owes(p[1], p[2], m)' <=> Owes(p[1], p[2], m))
    <3> SUFFICES ASSUME NEW u \in Worker, NEW k \in Loop, <<u, k>> # <<w, l>>
                 PROVE  Owes(u, k, m)' <=> Owes(u, k, m)
      OBVIOUS
    <3>1. batch'[u][k] = batch[u][k] /\ stage'[u][k] = stage[u][k]
      BY <1>0, <1>6 DEF Take, TypeOK
    <3> QED BY <3>1 DEF Owes
  <2>3. Owes(w, l, m)' => m \in B
    BY <1>0, <1>6 DEF Take, Owes, TypeOK
  <2>4. CASE m \in B
    <3>1. Owing(m)' \subseteq Owing(m) \cup {<<w, l>>}
      BY <2>2 DEF Owing
    <3>2. deliveries'[m] = deliveries[m] + 1
      BY <1>1, <1>6, <2>4 DEF Delivered
    <3> QED BY <1>4, <2>1, <3>1, <3>2, OwingTake
  <2>5. CASE m \notin B
    <3>1. Owing(m)' \subseteq Owing(m)
      BY <2>2, <2>3, <2>5 DEF Owing
    <3>2. deliveries'[m] = deliveries[m]
      BY <1>1, <1>6, <2>5 DEF Delivered
    <3>3. Cardinality(Owing(m)') <= Cardinality(Owing(m))
      BY <3>1, OwingStep
    <3>4. Cardinality(Owing(m)') \in Nat
      BY <3>1, OwingFinite, FS_Subset, FS_CardinalityType
    <3> QED BY <1>4, <2>1, <3>2, <3>3, <3>4
  <2> QED BY <2>4, <2>5
<1>7. CASE Publish
  BY <1>5, <1>7 DEF Publish, publish, workerVars, Owing, Owes
<1>8. ASSUME NEW w \in Worker, Subscribe(w)
      PROVE  Outcomes(m)' + Cardinality(Owing(m)') <= deliveries'[m]
  BY <1>6, <1>8 DEF Subscribe, xreadgroup, Loop
<1>9. ASSUME NEW w \in Worker, NEW l \in Loop, Emit(w, l)
      PROVE  Outcomes(m)' + Cardinality(Owing(m)') <= deliveries'[m]
  <2>1. PICK e \in Msg :
          /\ IsCurrent(w, l, e)
          /\ \/ /\ deadletter' = [deadletter EXCEPT ![e] = @ + 1]
                /\ UNCHANGED normalized
             \/ /\ normalized' = [normalized EXCEPT ![e] = @ + 1]
                /\ UNCHANGED deadletter
    BY <1>9 DEF Emit
  <2>2. deliveries' = deliveries /\ batch' = batch
    BY <1>9 DEF Emit, busVars
  <2>3. Owing(m)' \subseteq Owing(m)
    <3> SUFFICES ASSUME NEW u \in Worker, NEW k \in Loop, Owes(u, k, m)'
                 PROVE  Owes(u, k, m)
      BY DEF Owing
    <3>1. CASE u = w /\ k = l
      BY <1>9, <2>2, <3>1 DEF Emit, Owes
    <3>2. CASE ~(u = w /\ k = l)
      <4>1. stage'[u][k] = stage[u][k]
        BY <1>0, <1>9, <3>2 DEF Emit, TypeOK
      <4> QED BY <2>2, <4>1 DEF Owes
    <3> QED BY <3>1, <3>2
  <2>4. CASE m = e
    <3>1. Outcomes(m)' = Outcomes(m) + 1
      BY <1>1, <2>1, <2>4 DEF Outcomes
    <3>2. <<w, l>> \in Owing(m) /\ <<w, l>> \notin Owing(m)'
      <4>1. stage[w][l] = "emit" /\ stage'[w][l] = "ack"
        BY <1>0, <1>9 DEF Emit, TypeOK
      <4> QED BY <2>1, <2>2, <2>4, <4>1 DEF Owing, Owes, IsCurrent
    <3> QED BY <1>4, <2>2, <2>3, <3>1, <3>2, OwingEmit
  <2>5. CASE m # e
    <3>1. Outcomes(m)' = Outcomes(m)
      BY <1>1, <2>1, <2>5 DEF Outcomes
    <3>2. Cardinality(Owing(m)') <= Cardinality(Owing(m))
      BY <2>3, OwingStep
    <3>3. Cardinality(Owing(m)') \in Nat
      BY <2>3, OwingFinite, FS_Subset, FS_CardinalityType
    <3> QED BY <1>4, <2>2, <3>1, <3>2, <3>3
  <2> QED BY <2>4, <2>5
<1>10. ASSUME NEW w \in Worker, NEW l \in Loop, Ack(w, l)
      PROVE  Outcomes(m)' + Cardinality(Owing(m)') <= deliveries'[m]
  <2>1. PICK e \in Msg :
          /\ IsCurrent(w, l, e)
          /\ ack(e)
          /\ Down(w) \/ NextMessage(w, l, batch[w][l] \ {e})
    BY <1>10 DEF Ack
  <2>2. UNCHANGED <<normalized, deadletter, deliveries>>
    BY <1>10, <2>1 DEF Ack, ack
  <2>3. Owing(m)' \subseteq Owing(m)
    <3> SUFFICES ASSUME NEW u \in Worker, NEW k \in Loop, Owes(u, k, m)'
                 PROVE  Owes(u, k, m)
      BY DEF Owing
    <3>1. CASE Down(w)
      BY <1>0, <3>1 DEF Down, Owes, TypeOK
    <3>2. CASE NextMessage(w, l, batch[w][l] \ {e})
      <4>1. CASE u = w /\ k = l
        <5>1. batch'[w][l] = batch[w][l] \ {e}
          BY <1>0, <3>2 DEF NextMessage, TypeOK
        <5>2. m \in batch[w][l] /\ m # e
          BY <4>1, <5>1 DEF Owes
        <5>3. e \in batch[w][l] /\ e <= m
          BY <2>1, <5>2 DEF IsCurrent
        <5>4. ~(m <= e)
          BY <5>2, <5>3 DEF Msg
        <5> QED BY <4>1, <5>2, <5>3, <5>4 DEF Owes
      <4>2. CASE ~(u = w /\ k = l)
        <5>1. batch'[u][k] = batch[u][k] /\ stage'[u][k] = stage[u][k]
          BY <1>0, <3>2, <4>2 DEF NextMessage, TypeOK
        <5> QED BY <5>1 DEF Owes
      <4> QED BY <4>1, <4>2
    <3> QED BY <2>1, <3>1, <3>2
  <2> QED BY <1>5, <2>2, <2>3
<1>11. ASSUME NEW w \in Worker, ClaimStale(w)
      PROVE  Outcomes(m)' + Cardinality(Owing(m)') <= deliveries'[m]
  <2>1. CASE claim_stale /\ Take(w, "reclaim", Stale)
    BY <1>6, <1>11, <2>1 DEF ClaimStale, claim_stale, Loop
  <2>2. CASE /\ UNCHANGED <<busVars, batch>>
             /\ stage' = [stage EXCEPT ![w]["reclaim"] = "done"]
    <3>1. Owing(m)' \subseteq Owing(m)
      <4> SUFFICES ASSUME NEW u \in Worker, NEW k \in Loop, Owes(u, k, m)'
                   PROVE  Owes(u, k, m)
        BY DEF Owing
      <4>1. batch'[u][k] = batch[u][k]
        BY <2>2
      <4>2. stage[u][k] # "ack" \/ stage'[u][k] = stage[u][k]
        BY <1>0, <1>11, <2>2 DEF ClaimStale, TypeOK, Loop
      <4> QED BY <4>1, <4>2 DEF Owes
    <3> QED BY <1>5, <1>11, <2>2, <3>1 DEF ClaimStale, busVars
  <2> QED BY <1>11, <2>1, <2>2 DEF ClaimStale
<1>12. ASSUME NEW w \in Worker, SweepFails(w)
      PROVE  Outcomes(m)' + Cardinality(Owing(m)') <= deliveries'[m]
  <2>1. Owing(m)' \subseteq Owing(m)
    <3> SUFFICES ASSUME NEW u \in Worker, NEW k \in Loop, Owes(u, k, m)'
                 PROVE  Owes(u, k, m)
      BY DEF Owing
    <3>1. CASE u = w /\ k = "reclaim"
      BY <1>0, <1>12, <3>1 DEF SweepFails, Owes, TypeOK, Loop
    <3>2. CASE ~(u = w /\ k = "reclaim")
      <4>1. batch'[u][k] = batch[u][k] /\ stage'[u][k] = stage[u][k]
        BY <1>0, <1>12, <3>2 DEF SweepFails, TypeOK, Loop
      <4> QED BY <4>1 DEF Owes
    <3> QED BY <3>1, <3>2
  <2> QED BY <1>5, <1>12, <2>1 DEF SweepFails, busVars
<1>13. ASSUME NEW w \in Worker, Crash(w) \/ Kill(w)
      PROVE  Outcomes(m)' + Cardinality(Owing(m)') <= deliveries'[m]
  <2>1. Down(w) /\ UNCHANGED <<busVars, normalized, deadletter>>
    BY <1>13 DEF Crash, Kill
  <2>2. Owing(m)' \subseteq Owing(m)
    BY <1>0, <2>1 DEF Down, Owing, Owes, TypeOK
  <2> QED BY <1>5, <2>1, <2>2 DEF busVars
<1>14. ASSUME NEW w \in Worker, Sigterm(w) \/ Restart(w)
      PROVE  Outcomes(m)' + Cardinality(Owing(m)') <= deliveries'[m]
  BY <1>5, <1>14 DEF Sigterm, Restart, busVars, Owing, Owes
<1>15. ASSUME NEW k \in Msg, Expire(k) \/ Stall(k)
      PROVE  Outcomes(m)' + Cardinality(Owing(m)') <= deliveries'[m]
  BY <1>5, <1>15 DEF Expire, Stall, GoIdle, workerVars, Owing, Owes
<1>16. CASE UNCHANGED vars
  BY <1>5, <1>16 DEF vars, Owing, Owes
<1> QED
  BY <1>7, <1>8, <1>9, <1>10, <1>11, <1>12, <1>13, <1>14, <1>15, <1>16 DEF Next

(* Duplicates come from redelivery alone, whatever the number of replicas  *)
(* and however their subscribe and reclaim loops share the messages.       *)
THEOREM OneOutcomePerDeliveryHolds == Spec => []OneOutcomePerDelivery
<1>1. Init => OutcomesCounted
  <2> SUFFICES ASSUME Init, NEW m \in Msg
               PROVE  Outcomes(m) + Cardinality(Owing(m)) <= deliveries[m]
    BY DEF OutcomesCounted
  <2>1. Owing(m) = {}
    BY DEF Init, Owing, Owes
  <2> QED BY <2>1, FS_EmptySet DEF Init, BusInit, Outcomes
<1>2. DeliveryInv /\ OutcomesCounted /\ [Next]_vars => OutcomesCounted'
  BY CountStep
<1>3. DeliveryInv /\ OutcomesCounted => OneOutcomePerDelivery
  <2> SUFFICES ASSUME DeliveryInv, OutcomesCounted, NEW m \in Msg
               PROVE  Outcomes(m) <= deliveries[m]
    BY DEF OneOutcomePerDelivery
  <2>1. /\ Outcomes(m) \in Nat /\ deliveries[m] \in Nat
        /\ Cardinality(Owing(m)) \in Nat
    BY OwingFinite DEF DeliveryInv, TypeOK, BusTypeOK, Outcomes
  <2> QED BY <2>1 DEF OutcomesCounted
<1> QED BY <1>1, <1>2, <1>3, DeliveryInvariant, PTL DEF Spec
=============================================================================
