------------------------- MODULE IndexerWorkerProofs -------------------------
(***************************************************************************)
(* Proofs about IndexerWorker and the IndexManagement it bootstraps with,  *)
(* for every number of replicas, messages, versions and rollovers and      *)
(* every batch size.                                                       *)
(***************************************************************************)
EXTENDS IndexerWorker, TLAPS

(* Every bounds record a behaviour may pick has the fields Next reads. *)
LEMMA ScenarioFields ==
    \A s \in Scenario : /\ s.messages \in 0..MaxMsgs /\ s.faults \in Nat
                        /\ s.deployed \in 1..MaxVersion /\ s.rollovers \in 0..MaxRollovers
BY IndexerConstants

(* Delivery counters stay numbers when a batch is delivered. *)
LEMMA DeliveredType ==
    ASSUME BusTypeOK, NEW B
    PROVE  Delivered(B) \in [Msg -> Nat]
BY DEF BusTypeOK, Delivered

(* What XREADGROUP returns is new to the group, and moves the cursor over it. *)
LEMMA ReadFacts ==
    ASSUME BusTypeOK, xreadgroup
    PROVE  /\ BusTypeOK'
           /\ Unread \subseteq Msg
           /\ Unread \cap (1..cursor) = {}
           /\ Settled' = Settled
<1>1. /\ cursor \in Nat /\ stream \in Nat /\ cursor <= stream /\ stream <= MaxMsgs
      /\ cursor' = ReadUpTo /\ ReadUpTo \in Nat /\ cursor <= ReadUpTo /\ ReadUpTo <= stream
      /\ stream' = stream
      BY BusConstants DEF BusTypeOK, xreadgroup, ReadUpTo
<1>2. pel' = pel \cup Unread /\ idle' = idle
      BY DEF xreadgroup
<1>3. /\ Unread \subseteq Msg
      /\ Unread \cap (1..cursor) = {}
      /\ 1..cursor' = (1..cursor) \cup Unread
      BY <1>1, BusConstants DEF Unread, Msg
<1>4. deliveries' \in [Msg -> Nat]
      BY DeliveredType DEF xreadgroup
<1>5. BusTypeOK'
      <2>1. stream' \in 0..MaxMsgs /\ cursor' \in 0..stream'
            BY <1>1, BusConstants
      <2>2. pel' \subseteq 1..cursor' /\ idle' \subseteq pel'
            BY <1>2, <1>3 DEF BusTypeOK
      <2> QED BY <1>4, <2>1, <2>2 DEF BusTypeOK
<1>6. Settled' = Settled
      BY <1>2, <1>3 DEF Settled, BusTypeOK
<1> QED BY <1>3, <1>5, <1>6

(* An ack settles the message and nothing else. *)
LEMMA AckFacts ==
    ASSUME BusTypeOK, NEW m, ack(m)
    PROVE  BusTypeOK' /\ Settled' \subseteq Settled \cup {m}
BY DEF BusTypeOK, ack, Settled

-----------------------------------------------------------------------------
IndexStep ==
    \/ \E r \in Replica, v \in 1..MaxVersion : StartReplica(r, v)
    \/ \E r \in Replica : Bootstrap(r) \/ StopReplica(r)
    \/ Rollover
    \/ UNCHANGED indexVars

(* Whatever the worker does, the indices see a bootstrap step, the end of  *)
(* a process, a rollover or nothing.                                       *)
LEMMA IndexSteps == limits \in Scenario /\ [Next]_vars => IndexStep
<1> SUFFICES ASSUME limits \in Scenario, [Next]_vars PROVE IndexStep
    OBVIOUS
<1>1. limits.deployed \in 1..MaxVersion
      BY ScenarioFields
<1>2. ASSUME NEW r \in Replica, Start(r) PROVE IndexStep
      BY <1>1, <1>2, IndexConstants DEF Start, IndexStep
<1>3. ASSUME NEW r \in Replica, BootstrapStep(r) \/ Exit(r) \/ Crash(r) \/ Kill(r) PROVE IndexStep
      BY <1>3 DEF BootstrapStep, Exit, Crash, Kill, Ended, IndexStep
<1>4. ASSUME Rolls PROVE IndexStep
      BY <1>4 DEF Rolls, IndexStep
<1>5. ASSUME NEW r \in Replica, Subscribe(r) \/ Accept(r) \/ AckRejected(r) \/ Enqueue(r)
                                \/ FlushOnInterval(r) \/ IntervalFlushFails(r)
                                \/ ConsumerFails(r) \/ Sigterm(r)
      PROVE  UNCHANGED indexVars
      BY <1>5 DEF Subscribe, Accept, AckRejected, Enqueue, FlushOnInterval, IntervalFlushFails,
                  ConsumerFails, Sigterm
<1>6. ASSUME NEW r \in Replica, NEW f \in Flusher,
             Bulk(r, f) \/ BulkFails(r, f) \/ Reject(r, f) \/ Ack(r, f) \/ Flushed(r, f)
      PROVE  UNCHANGED indexVars
      BY <1>6 DEF Bulk, BulkFails, Reject, Ack, Flushed
<1>7. Publish \/ UNCHANGED vars => UNCHANGED indexVars
      BY DEF Publish, vars, indexVars
<1> QED BY <1>2, <1>3, <1>4, <1>5, <1>6, <1>7 DEF Next, IndexStep

PastTemplate == {"exists_alias", "create", "put_mapping", "ready"}

(* The alias, once there, stays on an index that can be rolled over, or    *)
(* the policy was missing.                                                 *)
AliasKept == index = NoIndex \/ (index.number > 0 /\ (index.managed \/ unpoliced))

(* A replica past _put_ism_policy finds the policy, unless that call failed *)
(* silently for some replica.                                              *)
PolicyEnsured ==
    \A r \in Replica : boot[r] \in PastTemplate \cup {"template"} => policy \/ unpoliced

(* A replica past put_index_template finds the template at least as new    *)
(* as its own mapping, unless an older version wrote over it.              *)
TemplateCovers ==
    \A r \in Replica : boot[r] \in PastTemplate => regressed \/ version[r] <= template

(* A replica past _ensure_write_index finds the write index. *)
IndexEnsured ==
    \A r \in Replica : boot[r] \in {"put_mapping", "ready"} => index.number > 0

FieldsDeclared ==
    \A r \in Replica : Ready(r) =>
        regressed \/ version[r] <= index.fields \/ version[r] \in refused

IndexInv == /\ IndexTypeOK /\ AliasKept /\ PolicyEnsured /\ TemplateCovers /\ IndexEnsured
            /\ FieldsDeclared

(* bootstrap_indices is safe on every start, concurrently and over         *)
(* rollovers: each call leaves what the earlier ones established.          *)
LEMMA IndexInductive == IndexInv /\ IndexStep => IndexInv'
<1> SUFFICES ASSUME IndexInv, IndexStep PROVE IndexInv'
    OBVIOUS
<1> USE DEF IndexInv
<1>0. MaxVersion \in Nat /\ MaxVersion >= 1 /\ NoIndex \in Index
      /\ index.fields \in 0..MaxVersion /\ index.number \in Nat /\ index.managed \in BOOLEAN
      /\ template \in 0..MaxVersion /\ \A r \in Replica : version[r] \in 1..MaxVersion
      BY IndexConstants DEF NoIndex, Index, IndexTypeOK
<1>1. ASSUME NEW r \in Replica, NEW v \in 1..MaxVersion, StartReplica(r, v) PROVE IndexInv'
      BY <1>1, <1>0 DEF StartReplica, Proceed, At, Ready, IndexTypeOK, AliasKept, PolicyEnsured, TemplateCovers,
                  IndexEnsured, FieldsDeclared, PastTemplate, BOOT_STEPS
<1>2. ASSUME NEW r \in Replica, PutIsmPolicy(r) PROVE IndexInv'
      BY <1>2, <1>0 DEF PutIsmPolicy, Proceed, At, Ready, IndexTypeOK, AliasKept, PolicyEnsured, TemplateCovers,
                  IndexEnsured, FieldsDeclared, PastTemplate, BOOT_STEPS
<1>3. ASSUME NEW r \in Replica, PutIndexTemplate(r) PROVE IndexInv'
      <2>1. /\ boot' = [boot EXCEPT ![r] = "exists_alias"] /\ boot[r] = "template"
            /\ template' = version[r]
            /\ UNCHANGED <<version, policy, index, rollovers, unpoliced, refused>>
            BY <1>3 DEF PutIndexTemplate, Proceed, At
      <2>2. regressed' \in BOOLEAN /\ (regressed => regressed')
            BY <1>3 DEF PutIndexTemplate, IndexTypeOK
      <2>3. ~regressed' => ~(version[r] < template)
            BY <1>3 DEF PutIndexTemplate
      <2>4. IndexTypeOK'
            BY <2>1, <2>2, <1>0 DEF IndexTypeOK, BOOT_STEPS
      <2>5. TemplateCovers'
            <3> SUFFICES ASSUME NEW q \in Replica, boot'[q] \in PastTemplate, ~regressed'
                         PROVE  version[q] <= version[r]
                BY <2>1 DEF TemplateCovers
            <3>1. CASE q = r
                  BY <3>1, <1>0
            <3>2. CASE q # r
                  <4>1. boot[q] \in PastTemplate
                        BY <2>1, <3>2 DEF IndexTypeOK
                  <4>2. version[q] <= template
                        BY <4>1, <2>2 DEF TemplateCovers
                  <4> QED BY <2>3, <4>2, <1>0
            <3> QED BY <3>1, <3>2
      <2>6. IndexEnsured' /\ AliasKept' /\ PolicyEnsured' /\ FieldsDeclared'
            BY <2>1, <2>2, <1>0 DEF IndexEnsured, AliasKept, PolicyEnsured, FieldsDeclared, Ready,
                  IndexTypeOK, PastTemplate
      <2> QED BY <2>4, <2>5, <2>6
<1>4. ASSUME NEW r \in Replica, ExistsAlias(r) PROVE IndexInv'
      BY <1>4, <1>0 DEF ExistsAlias, Proceed, At, Ready, IndexTypeOK, AliasKept, PolicyEnsured, TemplateCovers,
                  IndexEnsured, FieldsDeclared, PastTemplate, BOOT_STEPS
<1>5. ASSUME NEW r \in Replica, CreateWriteIndex(r) PROVE IndexInv'
      <2>1. boot' = [boot EXCEPT ![r] = "put_mapping"] /\ At(r, "create")
            /\ UNCHANGED <<version, policy, template, rollovers, regressed, unpoliced, refused>>
            BY <1>5 DEF CreateWriteIndex, Proceed
      <2>2. CASE index = NoIndex
            <3>1. index' = [fields |-> template, number |-> 1, managed |-> policy]
                  BY <1>5, <2>2 DEF CreateWriteIndex
            <3>2. \A q \in Replica : ~Ready(q)
                  BY <2>2 DEF IndexEnsured, NoIndex, Ready
            <3> QED BY <2>1, <3>1, <3>2, <1>0 DEF At, Ready, IndexTypeOK, AliasKept, PolicyEnsured, TemplateCovers,
                  IndexEnsured, FieldsDeclared, PastTemplate, BOOT_STEPS, Index
      <2>3. CASE index # NoIndex
            <3>1. index' = index /\ index.number > 0
                  BY <1>5, <2>3 DEF CreateWriteIndex, AliasKept
            <3> QED BY <2>1, <3>1, <1>0 DEF At, Ready, IndexTypeOK, AliasKept, PolicyEnsured, TemplateCovers,
                  IndexEnsured, FieldsDeclared, PastTemplate, BOOT_STEPS
      <2> QED BY <2>2, <2>3
<1>6. ASSUME NEW r \in Replica, PutMapping(r) PROVE IndexInv'
      <2>1. boot' = [boot EXCEPT ![r] = "ready"] /\ boot[r] = "put_mapping"
            /\ UNCHANGED <<version, policy, template, rollovers, regressed, unpoliced>>
            BY <1>6 DEF PutMapping, Proceed, At
      <2>2. /\ index' \in Index /\ index'.number = index.number /\ index'.managed = index.managed
            /\ index'.fields >= index.fields
            /\ refused' \subseteq 1..MaxVersion
            /\ \/ index'.fields >= version[r] /\ refused \ {version[r]} \subseteq refused'
               \/ refused' = refused \cup {version[r]}
            BY <1>6, <1>0 DEF PutMapping, IndexTypeOK, Index, MaxOf
      <2>3. index.number > 0 /\ (index.managed \/ unpoliced)
            BY <2>1 DEF IndexEnsured, AliasKept, NoIndex
      <2> QED BY <2>1, <2>2, <2>3, <1>0 DEF Ready, IndexTypeOK, AliasKept, PolicyEnsured, TemplateCovers,
                  IndexEnsured, FieldsDeclared, PastTemplate, BOOT_STEPS, Index
<1>7. ASSUME NEW r \in Replica, StopReplica(r) PROVE IndexInv'
      BY <1>7, <1>0 DEF StopReplica, Proceed, At, Ready, IndexTypeOK, AliasKept, PolicyEnsured, TemplateCovers,
                  IndexEnsured, FieldsDeclared, PastTemplate, BOOT_STEPS
<1>8. ASSUME Rollover PROVE IndexInv'
      <2>0. index.managed /\ index' = [index EXCEPT !.number = @ + 1, !.fields = template]
            BY <1>8 DEF Rollover
      <2>1. /\ index' \in Index /\ index'.number = index.number + 1
            /\ index'.managed = index.managed /\ index'.fields = template
            <3>1. index' = [fields |-> template, number |-> index.number + 1,
                            managed |-> index.managed]
                  BY <2>0 DEF IndexTypeOK, Index
            <3> QED BY <3>1, <1>0 DEF Index
      <2>2. UNCHANGED <<boot, version, policy, template, regressed, unpoliced>> /\ refused' = {}
            /\ rollovers' \in 0..MaxRollovers
            BY <1>8, IndexConstants DEF Rollover, IndexTypeOK
      <2> QED BY <2>0, <2>1, <2>2, <1>0 DEF Ready, IndexTypeOK, AliasKept, PolicyEnsured, TemplateCovers,
                  IndexEnsured, FieldsDeclared, PastTemplate, BOOT_STEPS
<1>9. ASSUME UNCHANGED indexVars PROVE IndexInv'
      BY <1>9 DEF indexVars, Ready, IndexTypeOK, AliasKept, PolicyEnsured, TemplateCovers, IndexEnsured,
                  FieldsDeclared
<1> QED BY <1>1, <1>2, <1>3, <1>4, <1>5, <1>6, <1>7, <1>8, <1>9 DEF IndexStep, Bootstrap

-----------------------------------------------------------------------------
(* Where the two tasks of a replica are agrees with what they hold and     *)
(* with what is durable: only a task inside flush() has a batch there; the *)
(* message a task is about to ack is dead-lettered or stored; once run()   *)
(* is in its finally nothing else is held.                                 *)
FlushCoherent(s) ==
    /\ s.stage = "idle" => s.batch = {}
    /\ s.stage \in {"settle", "ack"} => s.batch \ s.rejected \subseteq stored
    /\ s.stage = "ack" => \A m \in Msg : First(s.batch, m) => deadletter[m] > 0

Coherent(r) ==
    /\ \A f \in Flusher : FlushCoherent(flushing[r][f])
    /\ consumer[r] \notin {"flush", "last"} => flushing[r]["consumer"].stage = "idle"
    /\ consumer[r] = "last" => /\ batch[r] = {} /\ pending[r] = {}
                               /\ flushing[r]["interval"].stage = "idle"
    /\ consumer[r] = "read" => batch[r] = {}
    /\ consumer[r] = "reject" => \A m \in Msg : First(batch[r], m) => deadletter[m] > 0

(* The three places of a replica share no message. *)
Apart(r) ==
    /\ batch[r] \cap pending[r] = {}
    /\ (batch[r] \cup pending[r]) \cap InFlush(r) = {}
    /\ flushing[r]["consumer"].batch \cap flushing[r]["interval"].batch = {}

(* A message is held only as long as it is unacked. *)
HeldUnacked == \A r \in Replica : Held(r) \subseteq pel

DeliveryInv ==
    /\ TypeOK /\ HeldOnce /\ HeldUnacked /\ AckedIsDurable
    /\ \A r \in Replica : Coherent(r)

(* Replicas other than r keep what they hold. *)
Others(r) ==
    \A q \in Replica \ {r} : /\ consumer'[q] = consumer[q] /\ batch'[q] = batch[q]
                             /\ pending'[q] = pending[q] /\ flushing'[q] = flushing[q]

(* A step of replica r that takes fresh unread messages and acks done. *)
StepOf(r, fresh, done) ==
    /\ TypeOK'
    /\ Others(r)
    /\ Coherent(r)'
    /\ Apart(r)'
    /\ fresh \cap pel = {} /\ done \subseteq Held(r)
    /\ pel' = (pel \cup fresh) \ done
    /\ Held(r)' \subseteq (Held(r) \cup fresh) \ done
    /\ (Held(r) \cup fresh) \ done \subseteq Held(r)' \cup abandoned'
    /\ abandoned \subseteq abandoned'
    /\ stored \subseteq stored'
    /\ \A m \in Msg : deadletter[m] > 0 => deadletter'[m] > 0
    /\ \A m \in done : Durable(m)
    /\ Settled' \subseteq Settled \cup done

-----------------------------------------------------------------------------
(* What a replica holds, place by place, before and after a step. *)
LEMMA HeldPlaces ==
    \A r \in Replica :
        /\ InFlush(r) = flushing[r]["consumer"].batch \cup flushing[r]["interval"].batch
        /\ InFlush(r)' = flushing'[r]["consumer"].batch \cup flushing'[r]["interval"].batch
        /\ Held(r) = batch[r] \cup pending[r] \cup flushing[r]["consumer"].batch
                        \cup flushing[r]["interval"].batch
        /\ Held(r)' = batch'[r] \cup pending'[r] \cup flushing'[r]["consumer"].batch
                        \cup flushing'[r]["interval"].batch
BY DEF InFlush, Held, Flusher

(* A step of one replica keeps the invariant: the messages it takes are    *)
(* nobody's, the ones it acks were its own and durable, and the ones it    *)
(* lets go of are recorded as left behind.                                 *)
LEMMA StepOfKeeps ==
    ASSUME DeliveryInv, NEW r \in Replica, NEW fresh, NEW done, StepOf(r, fresh, done)
    PROVE  DeliveryInv'
<1> USE DEF StepOf
<1>1. ASSUME NEW q \in Replica \ {r} PROVE Held(q)' = Held(q) /\ (Apart(q) => Apart(q)')
      <2>1. /\ batch'[q] = batch[q] /\ pending'[q] = pending[q] /\ flushing'[q] = flushing[q]
            BY DEF Others
      <2>2. Held(q)' = Held(q) /\ InFlush(q)' = InFlush(q)
            BY <2>1, HeldPlaces
      <2> QED BY <2>1, <2>2 DEF Apart
<1>2. ASSUME NEW q \in Replica, NEW p \in Replica \ {q} PROVE Held(q) \cap Held(p) = {}
      BY <1>2 DEF DeliveryInv, HeldOnce
<1>3. \A q \in Replica : Held(q) \subseteq pel /\ Apart(q)
      BY DEF DeliveryInv, HeldUnacked, HeldOnce, Apart
<1>4. HeldUnacked'
      <2> SUFFICES ASSUME NEW q \in Replica PROVE Held(q)' \subseteq pel'
          BY DEF HeldUnacked
      <2>1. CASE q = r
            BY <2>1, <1>3
      <2>2. CASE q # r
            <3>1. Held(q)' = Held(q) /\ Held(q) \cap Held(r) = {}
                  BY <2>2, <1>1, <1>2
            <3> QED BY <3>1, <1>3
      <2> QED BY <2>1, <2>2
<1>5. ASSUME NEW q \in Replica, NEW p \in Replica \ {q} PROVE Held(q)' \cap Held(p)' = {}
      <2>1. CASE q = r
            <3>1. Held(p)' = Held(p) /\ Held(p) \cap Held(r) = {}
                  BY <2>1, <1>1, <1>2
            <3> QED BY <2>1, <3>1, <1>3
      <2>2. CASE p = r
            <3>1. Held(q)' = Held(q) /\ Held(q) \cap Held(r) = {}
                  BY <2>2, <1>1, <1>2
            <3> QED BY <2>2, <3>1, <1>3
      <2>3. CASE q # r /\ p # r
            BY <2>3, <1>1, <1>2
      <2> QED BY <2>1, <2>2, <2>3
<1>6. ASSUME NEW m \in pel' \ abandoned' PROVE \E q \in Replica : m \in Held(q)'
      <2>1. CASE m \in (Held(r) \cup fresh) \ done
            BY <2>1
      <2>2. CASE m \in pel \ abandoned /\ m \notin Held(r)
            <3>1. PICK q \in Replica : m \in Held(q)
                  BY <2>2 DEF DeliveryInv, HeldOnce
            <3> QED BY <3>1, <2>2, <1>1
      <2> QED BY <2>1, <2>2
<1>7. HeldOnce'
      <2>1. \A q \in Replica : Apart(q)'
            BY <1>1, <1>3
      <2> QED BY <2>1, <1>5, <1>6 DEF HeldOnce, Apart
<1>8. AckedIsDurable'
      <2>1. \A m \in Settled' : m \in Msg
            <3>1. TypeOK'
                  OBVIOUS
            <3> QED BY <3>1, BusConstants DEF TypeOK, BusTypeOK, Settled, Msg
      <2>2. \A m \in Settled' : Durable(m)
            BY DEF DeliveryInv, AckedIsDurable
      <2> QED BY <2>1, <2>2 DEF AckedIsDurable, Durable
<1>9. ASSUME NEW q \in Replica PROVE Coherent(q)'
      <2>1. CASE q = r
            BY <2>1
      <2>2. CASE q # r
            <3>1. Coherent(q)
                  BY DEF DeliveryInv
            <3>2. /\ consumer'[q] = consumer[q] /\ batch'[q] = batch[q]
                  /\ pending'[q] = pending[q] /\ flushing'[q] = flushing[q]
                  BY <2>2 DEF Others
            <3>3. \A f \in Flusher : FlushCoherent(flushing[q][f])'
                  BY <3>1, <3>2 DEF Coherent, FlushCoherent, First
            <3> QED BY <3>1, <3>2, <3>3 DEF Coherent, First
      <2> QED BY <2>1, <2>2
<1> QED BY <1>4, <1>7, <1>8, <1>9 DEF DeliveryInv

(* flush() of one task changes that task's record alone. *)
LEMMA SetFlushFacts ==
    ASSUME flushing \in [Replica -> [Flusher -> FlushState]],
           NEW r \in Replica, NEW f \in Flusher, NEW s \in FlushState, SetFlush(r, f, s)
    PROVE  /\ flushing' \in [Replica -> [Flusher -> FlushState]]
           /\ flushing'[r][f] = s
           /\ \A g \in Flusher \ {f} : flushing'[r][g] = flushing[r][g]
           /\ \A q \in Replica \ {r} : flushing'[q] = flushing[q]
BY DEF SetFlush

(* run()'s finally leaves nothing but the last flush. *)
LEMMA FinallyFacts ==
    ASSUME TypeOK, NEW r \in Replica, NEW p \in SUBSET Msg, Finally(r, p)
    PROVE  /\ batch' \in [Replica -> SUBSET Msg] /\ pending' \in [Replica -> SUBSET Msg]
           /\ flushing' \in [Replica -> [Flusher -> FlushState]]
           /\ consumer' \in [Replica -> {"read", "accept", "enrich", "reject", "flush", "last"}]
           /\ Others(r)
           /\ batch'[r] = {} /\ pending'[r] = {} /\ consumer'[r] = "last"
           /\ flushing'[r]["consumer"] = [stage |-> "bulk", batch |-> p, rejected |-> {}]
           /\ flushing'[r]["interval"] = NoFlush
<1>1. NoFlush \in FlushState /\ [stage |-> "bulk", batch |-> p, rejected |-> {}] \in FlushState
      BY DEF NoFlush, FlushState
<1>2. /\ flushing' \in [Replica -> [Flusher -> FlushState]]
      /\ flushing'[r]["consumer"] = [stage |-> "bulk", batch |-> p, rejected |-> {}]
      /\ flushing'[r]["interval"] = NoFlush
      /\ \A q \in Replica \ {r} : flushing'[q] = flushing[q]
      BY <1>1 DEF Finally, TypeOK, Flusher
<1> QED BY <1>1, <1>2 DEF Finally, TypeOK, Others, Goto

(* A process that ends holds nothing any more. *)
LEMMA EndedFacts ==
    ASSUME TypeOK, NEW r \in Replica, Ended(r)
    PROVE  /\ batch' \in [Replica -> SUBSET Msg] /\ pending' \in [Replica -> SUBSET Msg]
           /\ flushing' \in [Replica -> [Flusher -> FlushState]]
           /\ consumer' \in [Replica -> {"read", "accept", "enrich", "reject", "flush", "last"}]
           /\ stopping' \subseteq Replica
           /\ Others(r)
           /\ batch'[r] = {} /\ pending'[r] = {} /\ consumer'[r] = "read"
           /\ flushing'[r]["consumer"] = NoFlush /\ flushing'[r]["interval"] = NoFlush
<1>1. NoFlush \in FlushState
      BY DEF NoFlush, FlushState
<1>2. /\ flushing' \in [Replica -> [Flusher -> FlushState]]
      /\ flushing'[r]["consumer"] = NoFlush /\ flushing'[r]["interval"] = NoFlush
      /\ \A q \in Replica \ {r} : flushing'[q] = flushing[q]
      BY <1>1 DEF Ended, TypeOK, Flusher
<1> QED BY <1>1, <1>2 DEF Ended, TypeOK, Others

-----------------------------------------------------------------------------
(* The variables of the invariant that a step does not touch keep their    *)
(* types; the bus and the indices have lemmas of their own.                *)
TypesKept ==
    /\ limits' \in Scenario
    /\ stopping' \subseteq Replica
    /\ stored' \subseteq Msg
    /\ deadletter' \in [Msg -> Nat]
    /\ abandoned' \subseteq Msg
    /\ faults' \in Nat

LocalTypes ==
    /\ batch' \in [Replica -> SUBSET Msg] /\ pending' \in [Replica -> SUBSET Msg]
    /\ flushing' \in [Replica -> [Flusher -> FlushState]]
    /\ consumer' \in [Replica -> {"read", "accept", "enrich", "reject", "flush", "last"}]

(* The typing of the bus, the index and the replicas make the whole. *)
LEMMA TypeParts == BusTypeOK' /\ IndexTypeOK' /\ TypesKept /\ LocalTypes => TypeOK'
BY DEF TypeOK, TypesKept, LocalTypes

(* A step that leaves the stream alone keeps its bookkeeping. *)
LEMMA BusUnchanged == BusTypeOK /\ UNCHANGED busVars => BusTypeOK' /\ Settled' = Settled /\ pel' = pel
BY DEF BusTypeOK, busVars, Settled

(* What a replica holds, in its buffers and its flushes, are messages. *)
LEMMA HeldIsMsg ==
    ASSUME TypeOK, NEW r \in Replica
    PROVE  /\ batch[r] \subseteq Msg /\ pending[r] \subseteq Msg
           /\ \A f \in Flusher : /\ flushing[r][f] \in FlushState
                                 /\ flushing[r][f].batch \subseteq Msg
           /\ Held(r) \subseteq Msg /\ InFlush(r) \subseteq Msg
<1>1. /\ batch[r] \subseteq Msg /\ pending[r] \subseteq Msg
      /\ \A f \in Flusher : flushing[r][f] \in FlushState
      BY DEF TypeOK
<1>2. \A f \in Flusher : flushing[r][f].batch \subseteq Msg
      BY <1>1 DEF FlushState
<1>3. "consumer" \in Flusher /\ "interval" \in Flusher
      BY DEF Flusher
<1> QED BY <1>1, <1>2, <1>3, HeldPlaces

(* A dead letter is counted, and counts never shrink. *)
LEMMA DeadLetterFacts ==
    ASSUME deadletter \in [Msg -> Nat], NEW m \in Msg, DeadLetter(m)
    PROVE  /\ deadletter' \in [Msg -> Nat]
           /\ deadletter'[m] > 0
           /\ \A k \in Msg : deadletter[k] > 0 => deadletter'[k] > 0
BY DEF DeadLetter

(* Reading from the stream moves messages into the replica's hands. *)
LEMMA ReadIsStep ==
    ASSUME DeliveryInv, IndexTypeOK', NEW r \in Replica, Subscribe(r)
    PROVE  \E fresh, done : StepOf(r, fresh, done)
<1> USE DEF DeliveryInv
<1>1. /\ consumer[r] = "read" /\ xreadgroup
      /\ batch' = [batch EXCEPT ![r] = Unread]
      /\ consumer' = [consumer EXCEPT ![r] = "accept"]
      /\ UNCHANGED <<stopping, pending, flushing, stored, deadletter, limits, abandoned, faults>>
      BY DEF Subscribe, Goto, outcomeVars, historyVars
<1>2. BusTypeOK /\ Coherent(r) /\ Apart(r) /\ Held(r) \subseteq pel
      BY DEF TypeOK, HeldOnce, Apart, HeldUnacked
<1>3. /\ BusTypeOK' /\ Unread \subseteq Msg /\ Unread \cap (1..cursor) = {}
      /\ Settled' = Settled /\ pel' = pel \cup Unread /\ pel \subseteq 1..cursor
      BY <1>1, <1>2, ReadFacts DEF xreadgroup, BusTypeOK
<1>4. LocalTypes /\ TypesKept
      BY <1>1, <1>3 DEF TypeOK, LocalTypes, TypesKept
<1>5. TypeOK'
      BY <1>3, <1>4, TypeParts
<1>6. Others(r) /\ batch'[r] = Unread /\ consumer'[r] = "accept" /\ batch[r] = {}
      BY <1>1, <1>2 DEF Others, TypeOK, Coherent
<1>7. Coherent(r)'
      <2>1. \A f \in Flusher : FlushCoherent(flushing[r][f])'
            BY <1>1, <1>2 DEF Coherent, FlushCoherent
      <2> QED BY <1>1, <1>2, <1>6, <2>1 DEF Coherent
<1>8. Apart(r)' /\ Held(r)' = Held(r) \cup Unread
      BY <1>1, <1>2, <1>3, <1>6, HeldPlaces DEF Apart
<1>9. StepOf(r, Unread, {})
      BY <1>1, <1>3, <1>5, <1>6, <1>7, <1>8 DEF StepOf
<1> QED BY <1>9

(* Buffering or settling the next message is a step of its replica alone. *)
LEMMA AcceptIsStep ==
    ASSUME DeliveryInv, IndexTypeOK', NEW r \in Replica, Accept(r)
    PROVE  \E fresh, done : StepOf(r, fresh, done)
<1> USE DEF DeliveryInv
<1>1. PICK m \in Msg :
        /\ First(batch[r], m) /\ consumer[r] = "accept"
        /\ \/ DeadLetter(m) /\ consumer' = [consumer EXCEPT ![r] = "reject"]
           \/ deadletter' = deadletter /\ consumer' = [consumer EXCEPT ![r] = "enrich"]
        /\ UNCHANGED <<busVars, stopping, batch, pending, flushing, stored, limits, abandoned, faults>>
      BY DEF Accept, Goto, historyVars
<1>2. BusTypeOK /\ Coherent(r) /\ Apart(r) /\ deadletter \in [Msg -> Nat]
      BY DEF TypeOK, HeldOnce, Apart
<1>3. /\ \A k \in Msg : deadletter[k] > 0 => deadletter'[k] > 0
      /\ consumer'[r] = "reject" => deadletter'[m] > 0
      /\ consumer'[r] \in {"reject", "enrich"}
      /\ deadletter' \in [Msg -> Nat]
      <2>1. CASE DeadLetter(m) /\ consumer' = [consumer EXCEPT ![r] = "reject"]
            BY <1>2, <2>1, DeadLetterFacts DEF TypeOK
      <2>2. CASE deadletter' = deadletter /\ consumer' = [consumer EXCEPT ![r] = "enrich"]
            BY <1>2, <2>2 DEF TypeOK
      <2> QED BY <1>1, <2>1, <2>2
<1>4. BusTypeOK' /\ Settled' = Settled /\ pel' = pel
      BY <1>1, <1>2, BusUnchanged
<1>5. TypeOK'
      <2>1. LocalTypes /\ TypesKept
            BY <1>1, <1>3 DEF TypeOK, LocalTypes, TypesKept
      <2> QED BY <1>4, <2>1, TypeParts
<1>6. Others(r)
      BY <1>1 DEF Others, TypeOK
<1>7. Coherent(r)'
      <2>1. \A f \in Flusher : FlushCoherent(flushing[r][f])'
            BY <1>1, <1>2, <1>3 DEF Coherent, FlushCoherent
      <2>2. \A k \in Msg : First(batch[r], k) => k = m
            BY <1>1 DEF First, Msg
      <2>3. batch'[r] = batch[r] /\ \A k : First(batch'[r], k) <=> First(batch[r], k)
            BY <1>1
      <2>4. flushing'[r]["consumer"].stage = "idle"
            BY <1>1, <1>2 DEF Coherent
      <2> QED BY <1>3, <2>1, <2>2, <2>3, <2>4 DEF Coherent, First
<1>8. Apart(r)' /\ Held(r)' = Held(r)
      BY <1>1, <1>2, HeldPlaces DEF Apart
<1>9. StepOf(r, {}, {})
      BY <1>1, <1>3, <1>4, <1>5, <1>6, <1>7, <1>8 DEF StepOf
<1> QED BY <1>9

(* What the end of a turn of the consumer's loop does to its replica,      *)
(* whether the loop goes on or the stop event ends it.                     *)
LEMMA LoopEffect ==
    ASSUME TypeOK, NEW r \in Replica, Coherent(r), Apart(r), UNCHANGED <<stored, deadletter>>,
           flushing[r]["consumer"].batch = {},
           r \notin stopping => flushing[r]["consumer"].stage = "idle",
           NEW left \in SUBSET Msg, NEW p \in SUBSET Msg, left \cap p = {},
           left \cup p \subseteq batch[r] \cup pending[r], Loop(r, left, p)
    PROVE  /\ LocalTypes /\ Others(r) /\ Coherent(r)' /\ Apart(r)'
           /\ Held(r)' \subseteq left \cup p \cup InFlush(r)
           /\ left \cup p \cup InFlush(r) \subseteq Held(r)' \cup abandoned'
           /\ abandoned \subseteq abandoned' /\ abandoned' \subseteq Msg
<1>1. /\ flushing[r]["interval"].batch \subseteq Msg /\ abandoned \subseteq Msg
      /\ "interval" \in Flusher /\ "consumer" \in Flusher
      BY HeldIsMsg DEF TypeOK, Flusher
<1>2. InFlush(r) = flushing[r]["interval"].batch
      BY HeldPlaces
<1>3. CASE r \in stopping
      <2>1. Finally(r, p) /\ abandoned' = abandoned \cup left \cup flushing[r]["interval"].batch
            BY <1>3 DEF Loop
      <2>2. /\ LocalTypes /\ Others(r)
            /\ batch'[r] = {} /\ pending'[r] = {} /\ consumer'[r] = "last"
            /\ flushing'[r]["consumer"] = [stage |-> "bulk", batch |-> p, rejected |-> {}]
            /\ flushing'[r]["interval"] = NoFlush
            BY <2>1, FinallyFacts DEF LocalTypes
      <2>3. /\ flushing'[r]["consumer"].stage = "bulk" /\ flushing'[r]["consumer"].batch = p
            /\ flushing'[r]["interval"].stage = "idle" /\ flushing'[r]["interval"].batch = {}
            BY <2>2 DEF NoFlush
      <2>4. Held(r)' = p /\ InFlush(r)' = p
            BY <2>2, <2>3, HeldPlaces
      <2>5. Apart(r)'
            BY <2>2, <2>3, <2>4 DEF Apart
      <2>6. \A f \in Flusher : FlushCoherent(flushing[r][f])'
            BY <2>3 DEF FlushCoherent, Flusher
      <2>7. Coherent(r)'
            BY <2>2, <2>3, <2>6 DEF Coherent
      <2> QED BY <1>1, <1>2, <2>1, <2>2, <2>4, <2>5, <2>7
<1>4. CASE r \notin stopping
      <2>1. /\ batch' = [batch EXCEPT ![r] = left] /\ pending' = [pending EXCEPT ![r] = p]
            /\ consumer' = [consumer EXCEPT ![r] = IF left = {} THEN "read" ELSE "accept"]
            /\ UNCHANGED <<flushing, abandoned>>
            BY <1>4 DEF Loop, Goto
      <2>2. LocalTypes /\ Others(r)
            BY <2>1 DEF LocalTypes, Others, TypeOK
      <2>3. /\ batch'[r] = left /\ pending'[r] = p /\ consumer'[r] \in {"read", "accept"}
            /\ consumer'[r] = "read" => left = {}
            BY <2>1 DEF TypeOK
      <2>4. Held(r)' = left \cup p \cup InFlush(r) /\ InFlush(r)' = InFlush(r)
            BY <2>1, <2>3, HeldPlaces
      <2>5. Apart(r)'
            BY <2>1, <2>3, <2>4, HeldPlaces DEF Apart
      <2>6. \A f \in Flusher : FlushCoherent(flushing[r][f])'
            BY <2>1 DEF Coherent, FlushCoherent
      <2>7. Coherent(r)'
            BY <1>4, <2>1, <2>3, <2>6 DEF Coherent
      <2> QED BY <1>1, <2>1, <2>2, <2>4, <2>5, <2>7
<1> QED BY <1>3, <1>4

(* _reject acks what is on the dead-letter topic. *)
LEMMA AckRejectedIsStep ==
    ASSUME DeliveryInv, IndexTypeOK', NEW r \in Replica, AckRejected(r)
    PROVE  \E fresh, done : StepOf(r, fresh, done)
<1> USE DEF DeliveryInv
<1>1. PICK m \in Msg : /\ First(batch[r], m) /\ consumer[r] = "reject" /\ ack(m)
                       /\ Loop(r, batch[r] \ {m}, pending[r])
                       /\ UNCHANGED <<stopping, stored, deadletter, limits, faults>>
      BY DEF AckRejected, outcomeVars
<1>2. TypeOK /\ BusTypeOK /\ Coherent(r) /\ Apart(r) /\ m \in batch[r]
      BY <1>1 DEF TypeOK, HeldOnce, Apart, First
<1>3. /\ flushing[r]["consumer"].stage = "idle" /\ flushing[r]["consumer"].batch = {}
      /\ deadletter[m] > 0
      BY <1>1, <1>2 DEF Coherent, FlushCoherent, Flusher
<1>4. /\ batch[r] \subseteq Msg /\ pending[r] \subseteq Msg
      /\ Held(r) = batch[r] \cup pending[r] \cup InFlush(r)
      BY HeldIsMsg DEF Held
<1> DEFINE left == batch[r] \ {m}
           keep == pending[r]
<1>5. left \in SUBSET Msg /\ keep \in SUBSET Msg /\ left \cap keep = {}
      /\ left \cup keep \subseteq batch[r] \cup pending[r]
      BY <1>2, <1>4 DEF Apart
<1>6. /\ LocalTypes /\ Others(r) /\ Coherent(r)' /\ Apart(r)'
      /\ Held(r)' \subseteq left \cup keep \cup InFlush(r)
      /\ left \cup keep \cup InFlush(r) \subseteq Held(r)' \cup abandoned'
      /\ abandoned \subseteq abandoned' /\ abandoned' \subseteq Msg
      <2> HIDE DEF left, keep
      <2>1. PICK x \in SUBSET Msg, y \in SUBSET Msg : x = left /\ y = keep
            BY <1>5
      <2>2. Loop(r, x, y)
            BY <1>1, <2>1 DEF left, keep
      <2> QED BY <1>1, <1>2, <1>3, <1>5, <2>1, <2>2, LoopEffect
<1>7. left \cup keep \cup InFlush(r) = Held(r) \ {m}
      BY <1>2, <1>4 DEF Apart
<1>8. BusTypeOK' /\ Settled' \subseteq Settled \cup {m} /\ pel' = pel \ {m}
      BY <1>1, <1>2, AckFacts DEF ack
<1>9. TypeOK'
      <2>1. TypesKept
            BY <1>1, <1>6 DEF TypeOK, TypesKept
      <2> QED BY <1>6, <1>8, <2>1, TypeParts
<1>10. StepOf(r, {}, {m})
      BY <1>1, <1>2, <1>3, <1>4, <1>6, <1>7, <1>8, <1>9 DEF StepOf, Durable
<1> QED BY <1>10

(* accept moves the document to the pending list, or a full list to a flush. *)
LEMMA EnqueueIsStep ==
    ASSUME DeliveryInv, IndexTypeOK', NEW r \in Replica, Enqueue(r)
    PROVE  \E fresh, done : StepOf(r, fresh, done)
<1> USE DEF DeliveryInv
<1>1. PICK m \in Msg :
        /\ First(batch[r], m) /\ consumer[r] = "enrich"
        /\ \/ Loop(r, batch[r] \ {m}, pending[r] \cup {m})
           \/ /\ batch' = [batch EXCEPT ![r] = batch[r] \ {m}]
              /\ pending' = [pending EXCEPT ![r] = {}]
              /\ SetFlush(r, "consumer",
                          [stage |-> "bulk", batch |-> pending[r] \cup {m}, rejected |-> {}])
              /\ consumer' = [consumer EXCEPT ![r] = "flush"]
              /\ UNCHANGED <<abandoned>>
        /\ UNCHANGED <<busVars, stopping, stored, deadletter, limits, faults>>
      BY DEF Enqueue, outcomeVars, Goto
<1>2. TypeOK /\ BusTypeOK /\ Coherent(r) /\ Apart(r) /\ m \in batch[r]
      BY <1>1 DEF TypeOK, HeldOnce, Apart, First
<1>3. flushing[r]["consumer"].stage = "idle" /\ flushing[r]["consumer"].batch = {}
      BY <1>1, <1>2 DEF Coherent, FlushCoherent, Flusher
<1>4. /\ batch[r] \subseteq Msg /\ pending[r] \subseteq Msg
      /\ Held(r) = batch[r] \cup pending[r] \cup InFlush(r)
      BY HeldIsMsg DEF Held
<1>5. BusTypeOK' /\ Settled' = Settled /\ pel' = pel
      BY <1>1, <1>2, BusUnchanged
<1> DEFINE left == batch[r] \ {m}
           p == pending[r] \cup {m}
<1>6. left \in SUBSET Msg /\ p \in SUBSET Msg /\ left \cap p = {}
      /\ left \cup p = batch[r] \cup pending[r]
      BY <1>2, <1>4 DEF Apart
<1>7. CASE Loop(r, left, p)
      <2>1. /\ LocalTypes /\ Others(r) /\ Coherent(r)' /\ Apart(r)'
            /\ Held(r)' \subseteq left \cup p \cup InFlush(r)
            /\ left \cup p \cup InFlush(r) \subseteq Held(r)' \cup abandoned'
            /\ abandoned \subseteq abandoned' /\ abandoned' \subseteq Msg
            <3> HIDE DEF left, p
            <3>1. PICK x \in SUBSET Msg, y \in SUBSET Msg : x = left /\ y = p
                  BY <1>6
            <3>2. Loop(r, x, y)
                  BY <1>7, <3>1
            <3> QED BY <1>1, <1>2, <1>3, <1>6, <3>1, <3>2, LoopEffect
      <2>2. left \cup p \cup InFlush(r) = Held(r)
            BY <1>4, <1>6
      <2>3. TypeOK'
            <3>1. TypesKept
                  BY <1>1, <2>1 DEF TypeOK, TypesKept
            <3> QED BY <1>5, <2>1, <3>1, TypeParts
      <2>4. StepOf(r, {}, {})
            BY <1>1, <1>5, <2>1, <2>2, <2>3 DEF StepOf
      <2> QED BY <2>4
<1>8. CASE /\ batch' = [batch EXCEPT ![r] = left]
           /\ pending' = [pending EXCEPT ![r] = {}]
           /\ SetFlush(r, "consumer", [stage |-> "bulk", batch |-> p, rejected |-> {}])
           /\ consumer' = [consumer EXCEPT ![r] = "flush"]
           /\ UNCHANGED <<abandoned>>
      <2> DEFINE s == [stage |-> "bulk", batch |-> p, rejected |-> {}]
      <2>1. s \in FlushState /\ s.batch = p /\ s.stage = "bulk"
            BY <1>6 DEF FlushState
      <2>2. /\ flushing' \in [Replica -> [Flusher -> FlushState]]
            /\ flushing'[r]["consumer"] = s
            /\ flushing'[r]["interval"] = flushing[r]["interval"]
            /\ \A q \in Replica \ {r} : flushing'[q] = flushing[q]
            <3> HIDE DEF s
            <3>1. PICK t \in FlushState : t = s
                  BY <2>1
            <3>2. SetFlush(r, "consumer", t)
                  BY <1>8, <3>1 DEF s
            <3> QED BY <1>2, <3>1, <3>2, SetFlushFacts DEF TypeOK, Flusher
      <2>3. LocalTypes /\ Others(r)
            BY <1>6, <1>8, <2>2 DEF LocalTypes, Others, TypeOK
      <2>4. TypeOK'
            <3>1. TypesKept
                  BY <1>1, <1>8 DEF TypeOK, TypesKept
            <3> QED BY <1>5, <2>3, <3>1, TypeParts
      <2>5. batch'[r] = left /\ pending'[r] = {} /\ consumer'[r] = "flush"
            BY <1>8 DEF TypeOK
      <2>6. Held(r)' = Held(r) /\ Apart(r)'
            BY <1>2, <1>3, <1>4, <1>6, <2>1, <2>2, <2>5, HeldPlaces DEF Apart
      <2>7. \A f \in Flusher : FlushCoherent(flushing[r][f])'
            BY <1>1, <1>2, <2>1, <2>2 DEF Coherent, FlushCoherent, Flusher
      <2>8. Coherent(r)'
            BY <2>5, <2>7 DEF Coherent
      <2>9. StepOf(r, {}, {})
            BY <1>1, <1>5, <1>8, <2>3, <2>4, <2>6, <2>8 DEF StepOf
      <2> QED BY <2>9
<1> QED BY <1>1, <1>7, <1>8

(* A step that changes one task's flush and no list. *)
LEMMA FlushIsStep ==
    ASSUME DeliveryInv, IndexTypeOK', BusTypeOK', TypesKept,
           NEW r \in Replica, NEW f \in Flusher, NEW t \in FlushState, SetFlush(r, f, t),
           UNCHANGED <<batch, pending, consumer>>,
           abandoned \subseteq abandoned', stored \subseteq stored',
           \A m \in Msg : deadletter[m] > 0 => deadletter'[m] > 0,
           FlushCoherent(t)',
           consumer[r] \notin {"flush", "last"} /\ f = "consumer" => t.stage = "idle",
           consumer[r] = "last" /\ f = "interval" => t.stage = "idle",
           NEW done \in SUBSET flushing[r][f].batch, t.batch \subseteq flushing[r][f].batch \ done,
           flushing[r][f].batch \ done \subseteq t.batch \cup abandoned',
           \A m \in done : Durable(m), pel' = pel \ done, Settled' \subseteq Settled \cup done
    PROVE  StepOf(r, {}, done)
<1> USE DEF DeliveryInv
<1>1. TypeOK /\ Coherent(r) /\ Apart(r)
      BY DEF HeldOnce, Apart
<1>2. /\ flushing' \in [Replica -> [Flusher -> FlushState]]
      /\ flushing'[r][f] = t
      /\ \A g \in Flusher \ {f} : flushing'[r][g] = flushing[r][g]
      /\ \A q \in Replica \ {r} : flushing'[q] = flushing[q]
      BY <1>1, SetFlushFacts DEF TypeOK
<1>3. LocalTypes /\ Others(r)
      BY <1>2 DEF LocalTypes, Others, TypeOK
<1>4. TypeOK'
      BY <1>3, TypeParts
<1>5. /\ f = "consumer" \/ f = "interval"
      /\ "consumer" \in Flusher /\ "interval" \in Flusher
      BY DEF Flusher
<1>6. /\ Apart(r)' /\ done \subseteq Held(r)
      /\ Held(r)' \subseteq Held(r) \ done
      /\ Held(r) \ done \subseteq Held(r)' \cup abandoned'
      <2>1. CASE f = "consumer"
            BY <1>1, <1>2, <2>1, <1>5, HeldPlaces DEF Apart
      <2>2. CASE f = "interval"
            BY <1>1, <1>2, <2>2, <1>5, HeldPlaces DEF Apart
      <2> QED BY <1>5, <2>1, <2>2
<1>7. \A g \in Flusher : FlushCoherent(flushing[r][g])'
      <2> SUFFICES ASSUME NEW g \in Flusher PROVE FlushCoherent(flushing[r][g])'
          OBVIOUS
      <2>1. CASE g = f
            BY <1>2, <2>1 DEF FlushCoherent
      <2>2. CASE g # f
            BY <1>1, <1>2, <2>2 DEF FlushCoherent, Coherent
      <2> QED BY <2>1, <2>2
<1>8. Coherent(r)'
      <2>1. consumer'[r] = consumer[r] /\ batch'[r] = batch[r] /\ pending'[r] = pending[r]
            OBVIOUS
      <2>2. consumer[r] \notin {"flush", "last"} => flushing'[r]["consumer"].stage = "idle"
            BY <1>1, <1>2, <1>5 DEF Coherent
      <2>3. consumer[r] = "last" => flushing'[r]["interval"].stage = "idle"
            BY <1>1, <1>2, <1>5 DEF Coherent
      <2> QED BY <1>1, <1>7, <2>1, <2>2, <2>3 DEF Coherent, First
<1> QED BY <1>3, <1>4, <1>6, <1>8 DEF StepOf

(* The interval flusher takes the list it finds and installs an empty one. *)
LEMMA IntervalIsStep ==
    ASSUME DeliveryInv, IndexTypeOK', NEW r \in Replica, FlushOnInterval(r)
    PROVE  \E fresh, done : StepOf(r, fresh, done)
<1> USE DEF DeliveryInv
<1> DEFINE s == [stage |-> "bulk", batch |-> pending[r], rejected |-> {}]
<1>1. /\ consumer[r] # "last" /\ flushing[r]["interval"].stage = "idle"
      /\ SetFlush(r, "interval", s)
      /\ pending' = [pending EXCEPT ![r] = {}]
      /\ UNCHANGED <<busVars, stopping, consumer, batch, stored, deadletter, limits, abandoned,
                     faults>>
      BY DEF FlushOnInterval, outcomeVars, historyVars
<1>2. TypeOK /\ BusTypeOK /\ Coherent(r) /\ Apart(r)
      BY DEF TypeOK, HeldOnce, Apart
<1>3. flushing[r]["interval"].batch = {} /\ pending[r] \subseteq Msg
      BY <1>1, <1>2, HeldIsMsg DEF Coherent, FlushCoherent, Flusher
<1>4. s \in FlushState /\ s.batch = pending[r] /\ s.stage = "bulk"
      BY <1>3 DEF FlushState
<1>5. /\ flushing' \in [Replica -> [Flusher -> FlushState]]
      /\ flushing'[r]["interval"] = s
      /\ flushing'[r]["consumer"] = flushing[r]["consumer"]
      /\ \A q \in Replica \ {r} : flushing'[q] = flushing[q]
      <2> HIDE DEF s
      <2>1. PICK t \in FlushState : t = s
            BY <1>4
      <2>2. SetFlush(r, "interval", t)
            BY <1>1, <2>1
      <2> QED BY <1>2, <2>1, <2>2, SetFlushFacts DEF TypeOK, Flusher
<1>6. LocalTypes /\ Others(r) /\ TypesKept
      BY <1>1, <1>5 DEF LocalTypes, Others, TypeOK, TypesKept
<1>7. BusTypeOK' /\ Settled' = Settled /\ pel' = pel
      BY <1>1, <1>2, BusUnchanged
<1>8. TypeOK'
      BY <1>6, <1>7, TypeParts
<1>9. pending'[r] = {} /\ batch'[r] = batch[r] /\ consumer'[r] = consumer[r]
      BY <1>1 DEF TypeOK
<1>10. Held(r)' = Held(r) /\ Apart(r)'
      BY <1>2, <1>3, <1>4, <1>5, <1>9, HeldPlaces DEF Apart
<1>11. \A f \in Flusher : FlushCoherent(flushing[r][f])'
      BY <1>1, <1>2, <1>4, <1>5 DEF Coherent, FlushCoherent, Flusher
<1>12. Coherent(r)'
      BY <1>1, <1>2, <1>5, <1>9, <1>11 DEF Coherent, First
<1>13. StepOf(r, {}, {})
      BY <1>1, <1>6, <1>7, <1>8, <1>10, <1>12 DEF StepOf
<1> QED BY <1>13

(* index_batch: what is not among the rejected items is in the index,      *)
(* whether the request was answered or not.                                *)
LEMMA BulkIsStep ==
    ASSUME DeliveryInv, IndexTypeOK', NEW r \in Replica, NEW f \in Flusher,
           Bulk(r, f) \/ BulkFails(r, f)
    PROVE  \E fresh, done : StepOf(r, fresh, done)
<1> USE DEF DeliveryInv
<1> DEFINE b == flushing[r][f].batch
<1>1. PICK t \in FlushState :
        /\ SetFlush(r, f, t) /\ t.stage = "settle" /\ t.batch = b
        /\ t.batch \ t.rejected \subseteq stored'
      <2>1. flushing[r][f] \in FlushState /\ b \subseteq Msg
            BY HeldIsMsg
      <2>2. CASE Bulk(r, f)
            <3> DEFINE t == [flushing[r][f] EXCEPT !.stage = "settle", !.rejected = _interpret(b)]
            <3>1. t \in FlushState /\ t.stage = "settle" /\ t.batch = b /\ t.rejected = b \cap Conflicting
                  BY <2>1 DEF FlushState, _interpret
            <3>2. SetFlush(r, f, t) /\ stored' = stored \cup (b \ Conflicting)
                  BY <2>2 DEF Bulk
            <3> HIDE DEF t
            <3> QED BY <3>1, <3>2
      <2>3. CASE BulkFails(r, f)
            <3> DEFINE t == [flushing[r][f] EXCEPT !.stage = "settle", !.rejected = b]
            <3>1. t \in FlushState /\ t.stage = "settle" /\ t.batch = b /\ t.rejected = b
                  BY <2>1 DEF FlushState
            <3>2. SetFlush(r, f, t)
                  BY <2>3 DEF BulkFails
            <3> HIDE DEF t
            <3> QED BY <3>1, <3>2
      <2> QED BY <2>2, <2>3
<1>2. /\ flushing[r][f].stage = "bulk"
      /\ UNCHANGED <<busVars, stopping, consumer, batch, pending, deadletter, limits, abandoned>>
      /\ stored \subseteq stored' /\ stored' \subseteq stored \cup b
      /\ faults' \in {faults, faults + 1}
      BY DEF Bulk, BulkFails, historyVars
<1>3. TypeOK /\ BusTypeOK /\ Coherent(r) /\ b \subseteq Msg
      BY HeldIsMsg DEF TypeOK
<1>4. BusTypeOK' /\ Settled' = Settled /\ pel' = pel
      BY <1>2, <1>3, BusUnchanged
<1>5. TypesKept
      BY <1>2, <1>3 DEF TypeOK, TypesKept
<1>6. FlushCoherent(t)'
      BY <1>1 DEF FlushCoherent
<1>7. /\ ~(consumer[r] \notin {"flush", "last"} /\ f = "consumer")
      /\ ~(consumer[r] = "last" /\ f = "interval")
      BY <1>2, <1>3 DEF Coherent
<1>8. StepOf(r, {}, {})
      <2>1. UNCHANGED <<batch, pending, consumer>> /\ abandoned \subseteq abandoned'
            /\ \A m \in Msg : deadletter[m] > 0 => deadletter'[m] > 0
            BY <1>2
      <2> QED BY <1>1, <1>2, <1>4, <1>5, <1>6, <1>7, <2>1, FlushIsStep
<1> QED BY <1>8

(* flush() dead-letters the rejected document it is at. *)
LEMMA RejectIsStep ==
    ASSUME DeliveryInv, IndexTypeOK', NEW r \in Replica, NEW f \in Flusher, Reject(r, f)
    PROVE  \E fresh, done : StepOf(r, fresh, done)
<1> USE DEF DeliveryInv
<1> DEFINE b == flushing[r][f].batch
<1>1. flushing[r][f] \in FlushState /\ b \subseteq Msg /\ flushing[r][f].rejected \subseteq Msg
      BY HeldIsMsg DEF FlushState
<1>2. PICK m \in Msg : First(b, m) /\ DeadLetter(m)
      BY <1>1 DEF Reject
<1>3. PICK t \in FlushState : /\ SetFlush(r, f, t) /\ t.stage = "ack" /\ t.batch = b
                              /\ t.rejected = flushing[r][f].rejected
      <2> DEFINE t == [flushing[r][f] EXCEPT !.stage = "ack"]
      <2>1. t \in FlushState /\ t.stage = "ack" /\ t.batch = b /\ t.rejected = flushing[r][f].rejected
            BY <1>1 DEF FlushState
      <2>2. SetFlush(r, f, t)
            BY DEF Reject
      <2> HIDE DEF t
      <2> QED BY <2>1, <2>2
<1>4. /\ flushing[r][f].stage = "settle"
      /\ UNCHANGED <<busVars, stopping, consumer, batch, pending, stored, limits, abandoned, faults>>
      BY DEF Reject, historyVars
<1>5. TypeOK /\ BusTypeOK /\ Coherent(r) /\ deadletter \in [Msg -> Nat]
      BY DEF TypeOK
<1>6. /\ deadletter' \in [Msg -> Nat] /\ deadletter'[m] > 0
      /\ \A k \in Msg : deadletter[k] > 0 => deadletter'[k] > 0
      BY <1>2, <1>5, DeadLetterFacts
<1>7. BusTypeOK' /\ Settled' = Settled /\ pel' = pel
      BY <1>4, <1>5, BusUnchanged
<1>8. TypesKept
      BY <1>4, <1>5, <1>6 DEF TypeOK, TypesKept
<1>9. FlushCoherent(t)'
      <2>1. \A k \in Msg : First(b, k) => k = m
            BY <1>2 DEF First, Msg
      <2>2. b \ t.rejected \subseteq stored
            BY <1>3, <1>4, <1>5 DEF Coherent, FlushCoherent
      <2> QED BY <1>3, <1>4, <1>6, <2>1, <2>2 DEF FlushCoherent
<1>10. /\ ~(consumer[r] \notin {"flush", "last"} /\ f = "consumer")
       /\ ~(consumer[r] = "last" /\ f = "interval")
      BY <1>4, <1>5 DEF Coherent
<1>11. StepOf(r, {}, {})
      <2>1. UNCHANGED <<batch, pending, consumer>> /\ abandoned \subseteq abandoned'
            /\ stored \subseteq stored'
            BY <1>4
      <2> QED BY <1>3, <1>6, <1>7, <1>8, <1>9, <1>10, <2>1, FlushIsStep
<1> QED BY <1>11

(* flush() acks a document that is stored or dead-lettered by now. *)
LEMMA AckIsStep ==
    ASSUME DeliveryInv, IndexTypeOK', NEW r \in Replica, NEW f \in Flusher, Ack(r, f)
    PROVE  \E fresh, done : StepOf(r, fresh, done)
<1> USE DEF DeliveryInv
<1> DEFINE s == flushing[r][f]
<1>1. s \in FlushState /\ s.batch \subseteq Msg /\ TypeOK /\ BusTypeOK /\ Coherent(r)
      BY HeldIsMsg DEF TypeOK
<1>2. PICK m \in s.batch :
        /\ First(s.batch, m)
        /\ s.stage = "ack" \/ (s.stage = "settle" /\ m \notin s.rejected)
        /\ ack(m)
        /\ SetFlush(r, f, [s EXCEPT !.stage = "settle", !.batch = @ \ {m}])
      BY DEF Ack
<1>3. PICK t \in FlushState : /\ SetFlush(r, f, t) /\ t.stage = "settle"
                              /\ t.batch = s.batch \ {m} /\ t.rejected = s.rejected
      <2> DEFINE t == [s EXCEPT !.stage = "settle", !.batch = @ \ {m}]
      <2>1. t \in FlushState /\ t.stage = "settle" /\ t.batch = s.batch \ {m} /\ t.rejected = s.rejected
            BY <1>1 DEF FlushState
      <2> HIDE DEF t
      <2> QED BY <1>2, <2>1 DEF t
<1>4. UNCHANGED <<stopping, consumer, batch, pending, stored, deadletter, limits, abandoned, faults>>
      BY DEF Ack, outcomeVars, historyVars
<1>5. FlushCoherent(s) /\ m \in Msg
      BY <1>1, <1>2 DEF Coherent
<1>6. Durable(m) /\ s.batch \ s.rejected \subseteq stored
      BY <1>2, <1>5 DEF FlushCoherent, Durable
<1>7. FlushCoherent(t)'
      BY <1>3, <1>4, <1>6 DEF FlushCoherent
<1>8. BusTypeOK' /\ Settled' \subseteq Settled \cup {m} /\ pel' = pel \ {m}
      BY <1>1, <1>2, AckFacts DEF ack
<1>9. TypesKept
      BY <1>1, <1>4 DEF TypeOK, TypesKept
<1>10. /\ ~(consumer[r] \notin {"flush", "last"} /\ f = "consumer")
       /\ ~(consumer[r] = "last" /\ f = "interval")
      BY <1>1, <1>2 DEF Coherent
<1>11. StepOf(r, {}, {m})
      <2>1. /\ UNCHANGED <<batch, pending, consumer>> /\ abandoned \subseteq abandoned'
            /\ stored \subseteq stored' /\ \A k \in Msg : deadletter[k] > 0 => deadletter'[k] > 0
            BY <1>4
      <2>2. {m} \in SUBSET flushing[r][f].batch /\ \A k \in {m} : Durable(k)
            BY <1>2, <1>6
      <2>3. t.batch \subseteq flushing[r][f].batch \ {m}
            /\ flushing[r][f].batch \ {m} \subseteq t.batch \cup abandoned'
            BY <1>3
      <2> HIDE DEF s
      <2> QED BY <1>3, <1>7, <1>8, <1>9, <1>10, <2>1, <2>2, <2>3, FlushIsStep
<1> QED BY <1>11

(* flush() returns: its batch is empty, so nothing is let go of. *)
LEMMA FlushedIsStep ==
    ASSUME DeliveryInv, IndexTypeOK', NEW r \in Replica, NEW f \in Flusher, Flushed(r, f)
    PROVE  \E fresh, done : StepOf(r, fresh, done)
<1> USE DEF DeliveryInv
<1>1. /\ flushing[r][f].stage = "settle" /\ flushing[r][f].batch = {}
      /\ UNCHANGED <<busVars, stopping, stored, deadletter, limits, faults>>
      BY DEF Flushed, outcomeVars
<1>2. TypeOK /\ BusTypeOK /\ Coherent(r) /\ Apart(r)
      BY DEF TypeOK, HeldOnce, Apart
<1>3. /\ batch[r] \in SUBSET Msg /\ pending[r] \in SUBSET Msg
      /\ Held(r) = batch[r] \cup pending[r] \cup InFlush(r) /\ batch[r] \cap pending[r] = {}
      BY <1>2, HeldIsMsg DEF Held, Apart
<1>4. BusTypeOK' /\ Settled' = Settled /\ pel' = pel
      BY <1>1, <1>2, BusUnchanged
<1>5. /\ NoFlush \in FlushState /\ NoFlush.stage = "idle" /\ NoFlush.batch = {}
      /\ FlushCoherent(NoFlush)'
      BY DEF NoFlush, FlushState, FlushCoherent
<1>6. CASE f = "consumer" /\ consumer[r] = "flush" /\ r \in stopping
      <2>1. Loop(r, batch[r], pending[r])
            BY <1>6 DEF Flushed
      <2>2. PICK x \in SUBSET Msg, y \in SUBSET Msg : x = batch[r] /\ y = pending[r]
            BY <1>3
      <2>3. Loop(r, x, y)
            BY <2>1, <2>2
      <2>4. /\ LocalTypes /\ Others(r) /\ Coherent(r)' /\ Apart(r)'
            /\ Held(r)' \subseteq x \cup y \cup InFlush(r)
            /\ x \cup y \cup InFlush(r) \subseteq Held(r)' \cup abandoned'
            /\ abandoned \subseteq abandoned' /\ abandoned' \subseteq Msg
            BY <1>1, <1>2, <1>3, <1>6, <2>2, <2>3, LoopEffect
      <2>5. TypeOK'
            <3>1. TypesKept
                  BY <1>1, <2>4 DEF TypeOK, TypesKept
            <3> QED BY <1>4, <2>4, <3>1, TypeParts
      <2>6. StepOf(r, {}, {})
            BY <1>1, <1>3, <1>4, <2>2, <2>4, <2>5 DEF StepOf
      <2> QED BY <2>6
<1>7. CASE f = "consumer" /\ consumer[r] = "flush" /\ r \notin stopping
      <2>1. /\ SetFlush(r, f, NoFlush)
            /\ consumer' = [consumer EXCEPT ![r] = IF batch[r] = {} THEN "read" ELSE "accept"]
            /\ UNCHANGED <<batch, pending, abandoned>>
            BY <1>7 DEF Flushed, Goto
      <2>2. /\ flushing' \in [Replica -> [Flusher -> FlushState]]
            /\ flushing'[r]["consumer"] = NoFlush
            /\ flushing'[r]["interval"] = flushing[r]["interval"]
            /\ \A q \in Replica \ {r} : flushing'[q] = flushing[q]
            BY <1>2, <1>5, <1>7, <2>1, SetFlushFacts DEF TypeOK, Flusher
      <2>3. LocalTypes /\ Others(r) /\ TypesKept
            BY <1>1, <2>1, <2>2 DEF LocalTypes, Others, TypeOK, TypesKept
      <2>4. TypeOK'
            BY <1>4, <2>3, TypeParts
      <2>5. Held(r)' = Held(r) /\ Apart(r)'
            BY <1>1, <1>2, <1>5, <1>7, <2>1, <2>2, HeldPlaces DEF Apart
      <2>6. \A g \in Flusher : FlushCoherent(flushing[r][g])'
            BY <1>1, <1>2, <1>5, <2>2 DEF Coherent, FlushCoherent, Flusher
      <2>7. /\ consumer'[r] \in {"read", "accept"} /\ batch'[r] = batch[r]
            /\ consumer'[r] = "read" => batch[r] = {}
            BY <2>1 DEF TypeOK
      <2>8. Coherent(r)'
            BY <1>5, <2>2, <2>6, <2>7 DEF Coherent
      <2>9. StepOf(r, {}, {})
            BY <1>1, <1>4, <2>1, <2>3, <2>4, <2>5, <2>8 DEF StepOf
      <2> QED BY <2>9
<1>8. CASE ~(f = "consumer" /\ consumer[r] = "flush")
      <2>1. SetFlush(r, f, NoFlush) /\ UNCHANGED <<consumer, batch, pending, abandoned>>
            BY <1>8 DEF Flushed
      <2>2. TypesKept
            BY <1>1, <2>1 DEF TypeOK, TypesKept
      <2>3. StepOf(r, {}, {})
            <3>1. /\ UNCHANGED <<batch, pending, consumer>> /\ abandoned \subseteq abandoned'
                  /\ stored \subseteq stored'
                  /\ \A m \in Msg : deadletter[m] > 0 => deadletter'[m] > 0
                  BY <1>1, <2>1
            <3> QED BY <1>1, <1>4, <1>5, <2>1, <2>2, <3>1, FlushIsStep
      <2> QED BY <2>3
<1> QED BY <1>6, <1>7, <1>8

(* A bus error ends the interval flusher's flush, and what is left of its  *)
(* batch is left behind.                                                   *)
LEMMA IntervalFailsIsStep ==
    ASSUME DeliveryInv, IndexTypeOK', NEW r \in Replica, IntervalFlushFails(r)
    PROVE  \E fresh, done : StepOf(r, fresh, done)
<1> USE DEF DeliveryInv
<1>1. /\ SetFlush(r, "interval", NoFlush)
      /\ abandoned' = abandoned \cup flushing[r]["interval"].batch
      /\ faults' = faults + 1
      /\ UNCHANGED <<busVars, stopping, consumer, batch, pending, stored, deadletter, limits>>
      BY DEF IntervalFlushFails, Fault, outcomeVars
<1>2. TypeOK /\ BusTypeOK /\ flushing[r]["interval"].batch \subseteq Msg /\ "interval" \in Flusher
      BY HeldIsMsg DEF TypeOK, Flusher
<1>3. BusTypeOK' /\ Settled' = Settled /\ pel' = pel
      BY <1>1, <1>2, BusUnchanged
<1>4. TypesKept
      BY <1>1, <1>2 DEF TypeOK, TypesKept
<1>5. /\ NoFlush \in FlushState /\ NoFlush.stage = "idle" /\ NoFlush.batch = {}
      /\ FlushCoherent(NoFlush)'
      BY DEF NoFlush, FlushState, FlushCoherent
<1>6. StepOf(r, {}, {})
      <2>1. /\ UNCHANGED <<batch, pending, consumer>> /\ abandoned \subseteq abandoned'
            /\ stored \subseteq stored'
            /\ \A m \in Msg : deadletter[m] > 0 => deadletter'[m] > 0
            BY <1>1
      <2> QED BY <1>1, <1>2, <1>3, <1>4, <1>5, <2>1, FlushIsStep
<1> QED BY <1>6

(* The consumer's error goes through the finally: the pending list is      *)
(* flushed once more, the rest is left behind.                             *)
LEMMA ConsumerFailsIsStep ==
    ASSUME DeliveryInv, IndexTypeOK', NEW r \in Replica, ConsumerFails(r)
    PROVE  \E fresh, done : StepOf(r, fresh, done)
<1> USE DEF DeliveryInv
<1>1. /\ Finally(r, pending[r])
      /\ abandoned' = abandoned \cup batch[r] \cup InFlush(r)
      /\ faults' = faults + 1
      /\ UNCHANGED <<busVars, stopping, stored, deadletter, limits>>
      BY DEF ConsumerFails, Fault, outcomeVars
<1>2. TypeOK /\ BusTypeOK /\ batch[r] \subseteq Msg /\ pending[r] \in SUBSET Msg /\ InFlush(r) \subseteq Msg
      BY HeldIsMsg DEF TypeOK
<1>3. BusTypeOK' /\ Settled' = Settled /\ pel' = pel
      BY <1>1, <1>2, BusUnchanged
<1>4. TypesKept
      BY <1>1, <1>2 DEF TypeOK, TypesKept
<1>5. PICK p \in SUBSET Msg : p = pending[r]
      BY <1>2
<1>6. /\ LocalTypes /\ Others(r)
      /\ batch'[r] = {} /\ pending'[r] = {} /\ consumer'[r] = "last"
      /\ flushing'[r]["consumer"] = [stage |-> "bulk", batch |-> p, rejected |-> {}]
      /\ flushing'[r]["interval"] = NoFlush
      <2>1. Finally(r, p)
            BY <1>1, <1>5
      <2> QED BY <1>2, <2>1, FinallyFacts DEF LocalTypes
<1>7. /\ flushing'[r]["consumer"].stage = "bulk" /\ flushing'[r]["consumer"].batch = p
      /\ flushing'[r]["interval"].stage = "idle" /\ flushing'[r]["interval"].batch = {}
      BY <1>6 DEF NoFlush
<1>8. TypeOK'
      BY <1>3, <1>4, <1>6, TypeParts
<1>9. Held(r)' = pending[r] /\ Apart(r)' /\ Held(r) = batch[r] \cup pending[r] \cup InFlush(r)
      BY <1>5, <1>6, <1>7, HeldPlaces DEF Apart, Held
<1>10. \A f \in Flusher : FlushCoherent(flushing[r][f])'
      BY <1>7 DEF FlushCoherent, Flusher
<1>11. Coherent(r)'
      BY <1>6, <1>7, <1>10 DEF Coherent
<1>12. StepOf(r, {}, {})
      BY <1>1, <1>3, <1>6, <1>8, <1>9, <1>11 DEF StepOf
<1> QED BY <1>12

(* A process that ends lets go of what it held; one that returns from      *)
(* run() holds nothing by then.                                            *)
LEMMA EndIsStep ==
    ASSUME DeliveryInv, IndexTypeOK', NEW r \in Replica, Exit(r) \/ Crash(r) \/ Kill(r)
    PROVE  \E fresh, done : StepOf(r, fresh, done)
<1> USE DEF DeliveryInv
<1>1. /\ Ended(r)
      /\ UNCHANGED <<busVars, stored, deadletter, limits>>
      /\ faults' \in {faults, faults + 1}
      BY DEF Exit, Crash, Kill, Fault, outcomeVars, historyVars
<1>2. TypeOK /\ BusTypeOK /\ Held(r) \subseteq Msg /\ Coherent(r)
      BY HeldIsMsg DEF TypeOK
<1>3. /\ abandoned \subseteq abandoned' /\ abandoned' \subseteq abandoned \cup Held(r)
      /\ Held(r) \subseteq abandoned'
      <2>1. CASE Exit(r)
            <3>1. /\ consumer[r] = "last" /\ flushing[r]["consumer"].stage = "idle"
                  /\ abandoned' = abandoned
                  BY <2>1 DEF Exit, historyVars
            <3>2. /\ batch[r] = {} /\ pending[r] = {}
                  /\ flushing[r]["consumer"].batch = {} /\ flushing[r]["interval"].batch = {}
                  BY <1>2, <3>1 DEF Coherent, FlushCoherent, Flusher
            <3> QED BY <3>1, <3>2, HeldPlaces
      <2>2. CASE Crash(r) \/ Kill(r)
            BY <2>2 DEF Crash, Kill
      <2> QED BY <2>1, <2>2
<1>4. BusTypeOK' /\ Settled' = Settled /\ pel' = pel
      BY <1>1, <1>2, BusUnchanged
<1>5. /\ LocalTypes /\ Others(r) /\ stopping' \subseteq Replica
      /\ batch'[r] = {} /\ pending'[r] = {} /\ consumer'[r] = "read"
      /\ flushing'[r]["consumer"] = NoFlush /\ flushing'[r]["interval"] = NoFlush
      BY <1>1, <1>2, EndedFacts DEF LocalTypes
<1>6. TypesKept
      BY <1>1, <1>2, <1>3, <1>5 DEF TypeOK, TypesKept
<1>7. TypeOK'
      BY <1>4, <1>5, <1>6, TypeParts
<1>8. NoFlush.stage = "idle" /\ NoFlush.batch = {}
      BY DEF NoFlush
<1>9. Held(r)' = {} /\ Apart(r)'
      BY <1>5, <1>8, HeldPlaces DEF Apart
<1>10. \A f \in Flusher : FlushCoherent(flushing[r][f])'
      BY <1>5, <1>8 DEF FlushCoherent, Flusher
<1>11. Coherent(r)'
      BY <1>5, <1>8, <1>10 DEF Coherent
<1>12. StepOf(r, {}, {})
      BY <1>1, <1>3, <1>4, <1>5, <1>7, <1>9, <1>11 DEF StepOf
<1> QED BY <1>12

(* The other steps touch neither what is held nor what is acked. *)
LEMMA QuietSteps ==
    ASSUME DeliveryInv, IndexTypeOK', BusTypeOK', pel' = pel, Settled' = Settled, TypesKept,
           UNCHANGED <<consumer, batch, pending, flushing, stored, deadletter, abandoned>>
    PROVE  DeliveryInv'
<1> USE DEF DeliveryInv
<1>1. LocalTypes
      BY DEF LocalTypes, TypeOK
<1>2. TypeOK'
      BY <1>1, TypeParts
<1>3. \A r \in Replica : Held(r)' = Held(r) /\ InFlush(r)' = InFlush(r)
      BY HeldPlaces
<1>4. HeldOnce' /\ HeldUnacked'
      BY <1>3 DEF HeldOnce, HeldUnacked
<1>5. AckedIsDurable'
      BY DEF AckedIsDurable, Durable
<1>6. \A r \in Replica : Coherent(r)'
      BY DEF Coherent, FlushCoherent
<1> QED BY <1>2, <1>4, <1>5, <1>6

-----------------------------------------------------------------------------
(* The invariant of the indexing stage survives every step. *)
LEMMA DeliveryInductive == DeliveryInv /\ IndexTypeOK' /\ [Next]_vars => DeliveryInv'
<1> SUFFICES ASSUME DeliveryInv, IndexTypeOK', [Next]_vars PROVE DeliveryInv'
    OBVIOUS
<1>1. ASSUME NEW r \in Replica,
             Subscribe(r) \/ Accept(r) \/ AckRejected(r) \/ Enqueue(r) \/ FlushOnInterval(r)
                 \/ Exit(r) \/ IntervalFlushFails(r) \/ ConsumerFails(r) \/ Crash(r) \/ Kill(r)
      PROVE  DeliveryInv'
      <2>1. \E fresh, done : StepOf(r, fresh, done)
            BY <1>1, ReadIsStep, AcceptIsStep, AckRejectedIsStep, EnqueueIsStep, IntervalIsStep,
               EndIsStep, IntervalFailsIsStep, ConsumerFailsIsStep
      <2> QED BY <2>1, StepOfKeeps
<1>2. ASSUME NEW r \in Replica, NEW f \in Flusher,
             Bulk(r, f) \/ BulkFails(r, f) \/ Reject(r, f) \/ Ack(r, f) \/ Flushed(r, f)
      PROVE  DeliveryInv'
      <2>1. \E fresh, done : StepOf(r, fresh, done)
            BY <1>2, BulkIsStep, RejectIsStep, AckIsStep, FlushedIsStep
      <2> QED BY <2>1, StepOfKeeps
<1>3. TypeOK /\ BusTypeOK
      BY DEF DeliveryInv, TypeOK
<1>4. CASE Publish
      <2>1. BusTypeOK' /\ pel' = pel /\ Settled' = Settled
            BY <1>3, <1>4, BusConstants DEF Publish, publish, BusTypeOK, Settled
      <2>2. TypesKept /\ UNCHANGED <<consumer, batch, pending, flushing, stored, deadletter, abandoned>>
            BY <1>3, <1>4 DEF Publish, workerVars, outcomeVars, historyVars, TypesKept, TypeOK
      <2> QED BY <2>1, <2>2, QuietSteps
<1>5. CASE Rolls \/ (\E r \in Replica : Start(r) \/ BootstrapStep(r))
      <2>1. UNCHANGED <<busVars, workerVars, outcomeVars, historyVars>>
            BY <1>5 DEF Rolls, Start, BootstrapStep
      <2>2. BusTypeOK' /\ pel' = pel /\ Settled' = Settled
            BY <1>3, <2>1, BusUnchanged
      <2>3. TypesKept /\ UNCHANGED <<consumer, batch, pending, flushing, stored, deadletter, abandoned>>
            BY <1>3, <2>1 DEF workerVars, outcomeVars, historyVars, TypesKept, TypeOK
      <2> QED BY <2>2, <2>3, QuietSteps
<1>6. CASE \E r \in Replica : Sigterm(r)
      <2>1. /\ UNCHANGED <<busVars, consumer, batch, pending, flushing, outcomeVars, limits, abandoned>>
            /\ faults' = faults + 1 /\ stopping' \subseteq Replica
            BY <1>3, <1>6 DEF Sigterm, Fault, TypeOK
      <2>2. BusTypeOK' /\ pel' = pel /\ Settled' = Settled
            BY <1>3, <2>1, BusUnchanged
      <2>3. TypesKept /\ UNCHANGED <<consumer, batch, pending, flushing, stored, deadletter, abandoned>>
            BY <1>3, <2>1 DEF outcomeVars, TypesKept, TypeOK
      <2> QED BY <2>2, <2>3, QuietSteps
<1>7. CASE UNCHANGED vars
      <2>1. UNCHANGED <<busVars, workerVars, outcomeVars, historyVars>>
            BY <1>7 DEF vars, busVars, workerVars, outcomeVars, historyVars
      <2>2. BusTypeOK' /\ pel' = pel /\ Settled' = Settled
            BY <1>3, <2>1, BusUnchanged
      <2>3. TypesKept /\ UNCHANGED <<consumer, batch, pending, flushing, stored, deadletter, abandoned>>
            BY <1>3, <2>1 DEF workerVars, outcomeVars, historyVars, TypesKept, TypeOK
      <2> QED BY <2>2, <2>3, QuietSteps
<1> QED BY <1>1, <1>2, <1>4, <1>5, <1>6, <1>7 DEF Next

(* Both invariants hold before anything is published or started. *)
LEMMA IndexerInitially == Init => DeliveryInv /\ IndexInv
<1> SUFFICES ASSUME Init PROVE DeliveryInv /\ IndexInv
    OBVIOUS
<1>1. NoIndex \in Index /\ NoFlush \in FlushState /\ NoFlush.batch = {} /\ NoFlush.stage = "idle"
      BY IndexConstants DEF NoIndex, Index, NoFlush, FlushState
<1>2. IndexTypeOK /\ BusTypeOK /\ Settled = {}
      <2>1. IndexTypeOK
            <3>1. /\ policy \in BOOLEAN /\ regressed \in BOOLEAN /\ unpoliced \in BOOLEAN
                  /\ index \in Index /\ refused = {}
                  BY <1>1, Zenon DEF Init, IndexInit
            <3>2. 1 \in 1..MaxVersion /\ 0 \in 0..MaxVersion /\ 0 \in 0..MaxRollovers
                  BY IndexConstants
            <3>3. /\ boot \in [Replica -> BOOT_STEPS] /\ version \in [Replica -> 1..MaxVersion]
                  /\ template \in 0..MaxVersion /\ rollovers \in 0..MaxRollovers
                  BY <3>2 DEF Init, IndexInit, BOOT_STEPS
            <3> QED BY <3>1, <3>3 DEF IndexTypeOK
      <2>2. BusTypeOK
            BY BusConstants DEF Init, BusInit, BusTypeOK
      <2>3. Settled = {}
            BY DEF Init, BusInit, Settled
      <2> QED BY <2>1, <2>2, <2>3
<1>3. IndexInv
      BY <1>2 DEF Init, IndexInit, IndexInv, AliasKept, PolicyEnsured, TemplateCovers, IndexEnsured,
         FieldsDeclared, PastTemplate, Ready
<1>4. TypeOK
      BY <1>1, <1>2 DEF Init, TypeOK
<1>5. /\ pel = {}
      /\ \A r \in Replica : /\ batch[r] = {} /\ pending[r] = {} /\ consumer[r] = "read"
                            /\ flushing[r]["consumer"] = NoFlush /\ flushing[r]["interval"] = NoFlush
      BY DEF Init, BusInit, Flusher
<1>6. \A r \in Replica : Held(r) = {} /\ InFlush(r) = {}
      BY <1>1, <1>5, HeldPlaces
<1>7. HeldOnce /\ HeldUnacked /\ AckedIsDurable
      BY <1>1, <1>2, <1>5, <1>6 DEF HeldOnce, HeldUnacked, AckedIsDurable
<1>8. \A r \in Replica : Coherent(r)
      BY <1>1, <1>5 DEF Coherent, FlushCoherent, Flusher
<1> QED BY <1>3, <1>4, <1>7, <1>8 DEF DeliveryInv

(* Both invariants hold in every behaviour. *)
LEMMA IndexerInvariant == Spec => [](DeliveryInv /\ IndexInv)
<1>1. DeliveryInv /\ IndexInv /\ [Next]_vars => (DeliveryInv /\ IndexInv)'
      <2> SUFFICES ASSUME DeliveryInv, IndexInv, [Next]_vars PROVE (DeliveryInv /\ IndexInv)'
          OBVIOUS
      <2>1. limits \in Scenario
            BY DEF DeliveryInv, TypeOK
      <2>2. IndexInv'
            BY <2>1, IndexSteps, IndexInductive
      <2> QED BY <2>2, DeliveryInductive DEF IndexInv
<1> QED BY <1>1, IndexerInitially, PTL DEF Spec

(* The indexer's variables keep their types: in particular pending entries *)
(* are delivered ones, and batches are sets of messages.                   *)
THEOREM IndexerTypeCorrect == Spec => []TypeOK
<1>1. DeliveryInv => TypeOK
      BY DEF DeliveryInv
<1> QED BY <1>1, IndexerInvariant, PTL

(* No message is shared, dropped or flushed twice between the consumer,    *)
(* the pending list and the two flushes of any number of replicas          *)
(* (indexer_worker.py, flush): an unacked message is in exactly one place, *)
(* unless a fault or a stop left it behind.                                *)
THEOREM HeldOnceHolds == Spec => []HeldOnce
<1>1. DeliveryInv => HeldOnce
      BY DEF DeliveryInv
<1> QED BY <1>1, IndexerInvariant, PTL

(* A message is acked only after its document is in the index or on the    *)
(* dead-letter topic (indexer_worker.py:6-7).                              *)
THEOREM AckedIsDurableHolds == Spec => []AckedIsDurable
<1>1. DeliveryInv => AckedIsDurable
      BY DEF DeliveryInv
<1> QED BY <1>1, IndexerInvariant, PTL

(* bootstrap_indices may run on every start of every replica, concurrently *)
(* and over rollovers (index_management.py:262-263): a replica past it     *)
(* writes into an index that is managed and declares its fields, unless    *)
(* the code logged that the policy could not be put or the mapping was     *)
(* refused.                                                                *)
THEOREM ReadyMeansSearchableHolds == Spec => []ReadyMeansSearchable
<1>1. IndexInv => ReadyMeansSearchable
      <2> SUFFICES ASSUME IndexInv, NEW r \in Replica, Ready(r)
                   PROVE  /\ index.number > 0
                          /\ index.managed \/ unpoliced
                          /\ index.fields >= version[r] \/ version[r] \in refused \/ regressed
          BY DEF ReadyMeansSearchable
      <2>1. index.number > 0
            BY DEF IndexInv, IndexEnsured, Ready
      <2>2. index.managed \/ unpoliced
            BY <2>1 DEF IndexInv, AliasKept, NoIndex
      <2>3. index.fields \in Nat /\ version[r] \in Nat
            BY IndexConstants DEF IndexInv, IndexTypeOK, Index
      <2>4. version[r] <= index.fields \/ version[r] \in refused \/ regressed
            BY DEF IndexInv, FieldsDeclared
      <2> QED BY <2>1, <2>2, <2>3, <2>4
<1> QED BY <1>1, IndexerInvariant, PTL
-----------------------------------------------------------------------------
(* What a replica holds was published, and is not settled. *)
LEMMA HeldAccepted ==
    ASSUME DeliveryInv, NEW r \in Replica
    PROVE  /\ Held(r) \subseteq pel /\ Held(r) \subseteq 1..stream /\ Held(r) \subseteq 1..cursor
           /\ 1..stream \subseteq Msg
           /\ batch[r] \subseteq Held(r)
           /\ \A f \in Flusher : flushing[r][f].batch \subseteq Held(r)
<1>1. BusTypeOK /\ Held(r) \subseteq pel
      BY DEF DeliveryInv, TypeOK, HeldUnacked
<1>2. pel \subseteq 1..cursor /\ 1..cursor \subseteq 1..stream /\ 1..stream \subseteq Msg
      BY <1>1, BusConstants DEF BusTypeOK, Msg
<1>3. batch[r] \subseteq Held(r) /\ \A f \in Flusher : flushing[r][f].batch \subseteq Held(r)
      BY HeldPlaces DEF Flusher
<1> QED BY <1>1, <1>2, <1>3

(* A dead letter of a published message is its outcome. *)
LEMMA DeadLetterProduces ==
    ASSUME DeliveryInv, NEW m \in 1..stream, m \in Msg, DeadLetter(m), UNCHANGED <<busVars, stored>>
    PROVE  DC!Produce({m})
<1>1. deadletter \in [Msg -> Nat]
      BY DEF DeliveryInv, TypeOK
<1>2. deadletter'[m] > 0 /\ \A k \in Msg : k # m => deadletter'[k] = deadletter[k]
      BY <1>1 DEF DeadLetter
<1>3. {k \in Msg : Durable(k)}' = {k \in Msg : Durable(k)} \cup {m}
      BY <1>2 DEF Durable
<1>4. UNCHANGED <<1..stream, Settled>>
      BY DEF busVars, Settled
<1> QED BY <1>3, <1>4 DEF DC!Produce

(* Acking a durable message that is held settles it. *)
LEMMA AckSettles ==
    ASSUME DeliveryInv, NEW m \in Msg, m \in 1..cursor, Durable(m), ack(m),
           UNCHANGED <<stored, deadletter>>
    PROVE  DC!Settle(m)
<1>1. Settled' = Settled \cup {m}
      BY DEF ack, Settled
<1>2. UNCHANGED <<1..stream, {k \in Msg : Durable(k)}>>
      BY DEF ack, Durable
<1> QED BY <1>1, <1>2 DEF DC!Settle

(* Every step of the indexing stage is a step of the delivery contract, or *)
(* none.                                                                   *)
LEMMA IndexerContractStep ==
    ASSUME DeliveryInv, [Next]_vars
    PROVE  [DC!Next]_(DC!vars)
<1>0. TypeOK /\ BusTypeOK
      BY DEF DeliveryInv, TypeOK
<1> DEFINE produced == {m \in Msg : Durable(m)}
(* A step that leaves the stream and the outcomes alone is none. *)
<1>1. ASSUME UNCHANGED <<stream, Settled, stored, deadletter>> PROVE UNCHANGED DC!vars
      BY <1>1 DEF DC!vars, Durable
<1>2. CASE Publish
      <2>1. stream \in Nat /\ stream + 1 \in Msg
            BY <1>0, <1>2, BusConstants DEF Publish, publish, Msg, BusTypeOK
      <2>2. 1..stream' = (1..stream) \cup {stream + 1}
            BY <1>2, <2>1 DEF Publish, publish
      <2>3. UNCHANGED <<produced, Settled>>
            BY <1>2 DEF Publish, publish, outcomeVars, Durable, Settled
      <2>4. DC!Accept(stream + 1)
            BY <2>2, <2>3 DEF DC!Accept
      <2> QED BY <2>1, <2>4 DEF DC!Next
<1>3. ASSUME NEW r \in Replica, Subscribe(r) PROVE UNCHANGED DC!vars
      <2>1. xreadgroup /\ UNCHANGED <<stored, deadletter>>
            BY <1>3 DEF Subscribe, outcomeVars
      <2>2. Settled' = Settled /\ stream' = stream
            BY <1>0, <2>1, ReadFacts DEF xreadgroup
      <2> QED BY <1>1, <2>1, <2>2
<1>4. ASSUME NEW r \in Replica, Accept(r) PROVE [DC!Next]_(DC!vars)
      <2>1. PICK m \in Msg : /\ First(batch[r], m)
                             /\ DeadLetter(m) \/ deadletter' = deadletter
            BY <1>4 DEF Accept
      <2>2. UNCHANGED <<busVars, stored>>
            BY <1>4 DEF Accept
      <2>3. m \in 1..stream
            BY <2>1, HeldAccepted DEF First
      <2>4. CASE DeadLetter(m)
            <3>1. DC!Produce({m})
                  BY <2>2, <2>3, <2>4, DeadLetterProduces
            <3>2. {m} \in SUBSET Msg
                  OBVIOUS
            <3> QED BY <3>1, <3>2 DEF DC!Next
      <2>5. CASE deadletter' = deadletter
            BY <1>1, <2>2, <2>5 DEF busVars, Settled
      <2> QED BY <2>1, <2>4, <2>5
<1>5. ASSUME NEW r \in Replica, AckRejected(r) PROVE DC!Next
      <2>1. PICK m \in Msg : First(batch[r], m) /\ ack(m)
            BY <1>5 DEF AckRejected
      <2>2. consumer[r] = "reject" /\ UNCHANGED <<stored, deadletter>>
            BY <1>5 DEF AckRejected, outcomeVars
      <2>3. m \in 1..cursor
            BY <2>1, HeldAccepted DEF First
      <2>4. Durable(m)
            BY <2>1, <2>2 DEF DeliveryInv, Coherent, Durable
      <2>5. DC!Settle(m)
            BY <2>1, <2>2, <2>3, <2>4, AckSettles
      <2> QED BY <2>5 DEF DC!Next
<1>6. ASSUME NEW r \in Replica, NEW f \in Flusher, Bulk(r, f) \/ BulkFails(r, f)
      PROVE  [DC!Next]_(DC!vars)
      <2>1. PICK M : M = flushing[r][f].batch \ Conflicting
            OBVIOUS
      <2>2. /\ stored' = stored \/ stored' = stored \cup M
            /\ UNCHANGED <<busVars, deadletter>>
            BY <1>6, <2>1 DEF Bulk, BulkFails
      <2>3. M \subseteq 1..stream /\ M \in SUBSET Msg
            BY <2>1, HeldAccepted
      <2>4. UNCHANGED <<1..stream, Settled, stream>>
            BY <2>2 DEF busVars, Settled
      <2>5. CASE stored' = stored
            BY <1>1, <2>2, <2>4, <2>5
      <2>6. CASE stored' = stored \cup M
            <3>1. produced' = produced \cup M
                  BY <2>2, <2>3, <2>6 DEF Durable
            <3>2. DC!Produce(M)
                  BY <2>3, <2>4, <3>1 DEF DC!Produce
            <3> QED BY <2>3, <3>2 DEF DC!Next
      <2> QED BY <2>2, <2>5, <2>6
<1>7. ASSUME NEW r \in Replica, NEW f \in Flusher, Reject(r, f) PROVE DC!Next
      <2>1. PICK m \in flushing[r][f].rejected : First(flushing[r][f].batch, m) /\ DeadLetter(m)
            BY <1>7 DEF Reject
      <2>2. UNCHANGED <<busVars, stored>>
            BY <1>7 DEF Reject
      <2>3. m \in 1..stream /\ m \in Msg
            BY <2>1, HeldAccepted DEF First
      <2>4. DC!Produce({m})
            BY <2>1, <2>2, <2>3, DeadLetterProduces
      <2>5. {m} \in SUBSET Msg
            BY <2>3
      <2> QED BY <2>4, <2>5 DEF DC!Next
<1>8. ASSUME NEW r \in Replica, NEW f \in Flusher, Ack(r, f) PROVE DC!Next
      <2>1. PICK s : s = flushing[r][f]
            OBVIOUS
      <2>2. PICK m \in s.batch :
              /\ First(s.batch, m)
              /\ s.stage = "ack" \/ (s.stage = "settle" /\ m \notin s.rejected)
              /\ ack(m)
            BY <1>8, <2>1 DEF Ack
      <2>3. UNCHANGED <<stored, deadletter>>
            BY <1>8 DEF Ack, outcomeVars
      <2>4. m \in 1..cursor /\ m \in Msg
            BY <2>1, <2>2, HeldAccepted
      <2>5. FlushCoherent(s)
            BY <2>1 DEF DeliveryInv, Coherent
      <2>6. Durable(m)
            BY <2>2, <2>4, <2>5 DEF FlushCoherent, Durable
      <2>7. DC!Settle(m)
            BY <2>2, <2>3, <2>4, <2>6, AckSettles
      <2> QED BY <2>4, <2>7 DEF DC!Next
(* Everything else, faults and stops included, is invisible. *)
<1>9. ASSUME UNCHANGED <<busVars, outcomeVars>> PROVE UNCHANGED DC!vars
      <2>1. UNCHANGED <<stream, Settled, stored, deadletter>>
            BY <1>9 DEF busVars, outcomeVars, Settled
      <2> QED BY <1>1, <2>1
<1>10. ASSUME NEW r \in Replica,
              Start(r) \/ BootstrapStep(r) \/ Enqueue(r) \/ FlushOnInterval(r) \/ Exit(r)
                \/ IntervalFlushFails(r) \/ ConsumerFails(r) \/ Crash(r) \/ Sigterm(r) \/ Kill(r)
      PROVE  UNCHANGED DC!vars
      <2>1. UNCHANGED <<busVars, outcomeVars>>
            BY <1>10 DEF Start, BootstrapStep, Enqueue, FlushOnInterval, Exit, IntervalFlushFails,
                         ConsumerFails, Crash, Sigterm, Kill
      <2> QED BY <1>9, <2>1
<1>11. ASSUME NEW r \in Replica, NEW f \in Flusher, Flushed(r, f) PROVE UNCHANGED DC!vars
      <2>1. UNCHANGED <<busVars, outcomeVars>>
            BY <1>11 DEF Flushed
      <2> QED BY <1>9, <2>1
<1>12. CASE Rolls \/ UNCHANGED vars
      <2>1. UNCHANGED <<busVars, outcomeVars>>
            BY <1>12 DEF Rolls, vars, busVars, outcomeVars
      <2> QED BY <1>9, <2>1
<1> QED BY <1>2, <1>3, <1>4, <1>5, <1>6, <1>7, <1>8, <1>10, <1>11, <1>12 DEF Next

(* The indexing stage implements the safety part of the delivery contract: *)
(* read as accepted, produced and settled messages, every step of its      *)
(* replicas, the bulk writes and the faults included, is a step of the     *)
(* contract or none.                                                       *)
THEOREM IndexerRefinesDeliveryContract == Spec => DC!SafeSpec
<1>1. Init => DC!Init
      <2> SUFFICES ASSUME Init PROVE DC!Init
          OBVIOUS
      <2>1. 1..stream = {} /\ Settled = {}
            BY DEF Init, BusInit, Settled
      <2>2. {m \in Msg : Durable(m)} = {}
            BY DEF Init, Durable
      <2> QED BY <2>1, <2>2 DEF DC!Init
<1>2. DeliveryInv /\ [Next]_vars => [DC!Next]_(DC!vars)
      BY IndexerContractStep
<1> QED BY <1>1, <1>2, IndexerInvariant, PTL DEF Spec, DC!SafeSpec
=============================================================================
