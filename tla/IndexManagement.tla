-------------------------- MODULE IndexManagement ---------------------------
(***************************************************************************)
(* bootstrap_indices of backend/app/services/index_management.py for one   *)
(* index family: every replica applies the lifecycle policy, the index     *)
(* template, the write index behind the alias and the mapping, one         *)
(* OpenSearch call after the other, before it consumes anything.           *)
(*                                                                         *)
(* A version of the code stands for its mapping: a later one declares the  *)
(* fields of the earlier ones and more, and may give a field another type. *)
(* OpenSearch and its lifecycle plugin, which rolls the write index over,  *)
(* are external.                                                           *)
(***************************************************************************)
EXTENDS Integers, FiniteSets

CONSTANTS
    Replica,       \* processes that bootstrap: indexers and API replicas
    MaxVersion,    \* bound: code versions deployed during a behaviour
    MaxRollovers   \* bound: rollovers of the write index

ASSUME IndexConstants ==
    /\ IsFiniteSet(Replica)
    /\ MaxVersion \in Nat \ {0}
    /\ MaxRollovers \in Nat

VARIABLES
    boot,          \* the bootstrap call each replica makes next; "ready" after the last
    version,       \* the code version of each replica
    policy,        \* whether the lifecycle policy exists
    template,      \* the version whose mapping the index template holds, or 0
    index,         \* the write index behind the alias
    rollovers,     \* rollovers so far
    regressed,     \* history: an older version put its template over a newer one
    unpoliced,     \* history: a policy call returned and there was no policy
    refused        \* history: versions whose mapping was refused last, since the
                   \* write index was created

indexVars == <<boot, version, policy, template, index, rollovers, regressed, unpoliced, refused>>

BOOT_STEPS == {"down", "policy", "template", "exists_alias", "create", "put_mapping", "ready"}

(* fields: the version whose fields are declared (0: a guessed mapping);   *)
(* number: the rollover suffix, starting at 000001 (0: no index);          *)
(* managed: the lifecycle plugin will roll it over.                        *)
Index == [fields : 0..MaxVersion, number : Nat, managed : BOOLEAN]

NoIndex == [fields |-> 0, number |-> 0, managed |-> FALSE]

IndexTypeOK ==
    /\ boot \in [Replica -> BOOT_STEPS]
    /\ version \in [Replica -> 1..MaxVersion]
    /\ policy \in BOOLEAN
    /\ template \in 0..MaxVersion
    /\ index \in Index
    /\ rollovers \in 0..MaxRollovers
    /\ regressed \in BOOLEAN
    /\ unpoliced \in BOOLEAN
    /\ refused \subseteq 1..MaxVersion

(* A fresh cluster and replicas that have yet to start. *)
IndexInit ==
    /\ boot = [r \in Replica |-> "down"]
    /\ version = [r \in Replica |-> 1]
    /\ policy = FALSE
    /\ template = 0
    /\ index = NoIndex
    /\ rollovers = 0
    /\ regressed = FALSE
    /\ unpoliced = FALSE
    /\ refused = {}

-----------------------------------------------------------------------------
Ready(r) == boot[r] = "ready"

At(r, step) == boot[r] = step

Proceed(r, step) == boot' = [boot EXCEPT ![r] = step]

MaxOf(a, b) == IF a > b THEN a ELSE b

(* The container starts, with the code version deployed to it by then. *)
StartReplica(r, v) ==
    /\ At(r, "down")
    /\ v \in version[r]..MaxVersion
    /\ version' = [version EXCEPT ![r] = v]
    /\ Proceed(r, "policy")
    /\ UNCHANGED <<policy, template, index, rollovers, regressed, unpoliced, refused>>

(* _put_ism_policy: an existing policy is left as it is. A policy that is  *)
(* rejected (any 400) and a cluster without the plugin only cost a line in *)
(* the log.                                                                *)
PutIsmPolicy(r) ==
    /\ At(r, "policy")
    /\ policy' \in {TRUE, policy}
    /\ unpoliced' = (unpoliced \/ ~policy')
    /\ Proceed(r, "template")
    /\ UNCHANGED <<version, template, index, rollovers, regressed, refused>>

(* put_index_template overwrites whatever template is there. *)
PutIndexTemplate(r) ==
    /\ At(r, "template")
    /\ template' = version[r]
    /\ regressed' = (regressed \/ version[r] < template)
    /\ Proceed(r, "exists_alias")
    /\ UNCHANGED <<version, policy, index, rollovers, unpoliced, refused>>

(* Mutant of ExistsAlias: with the alias in place there is nothing left to do. *)
ExistsAliasSuffices(r) ==
    /\ At(r, "exists_alias")
    /\ Proceed(r, IF index = NoIndex THEN "create" ELSE "ready")
    /\ UNCHANGED <<version, policy, template, index, rollovers, regressed, unpoliced, refused>>

(* _ensure_write_index, the test. *)
ExistsAlias(r) ==
    /\ At(r, "exists_alias")
    /\ Proceed(r, IF index = NoIndex THEN "create" ELSE "put_mapping")
    /\ UNCHANGED <<version, policy, template, index, rollovers, regressed, unpoliced, refused>>

(* _ensure_write_index, the create: from the template of the moment, with  *)
(* is_write_index. The plugin manages it if the policy, whose ism_template *)
(* names the pattern, exists by then. Another replica may have been        *)
(* faster, and then resource_already_exists_exception is no error.         *)
CreateWriteIndex(r) ==
    /\ At(r, "create")
    /\ index' = IF index = NoIndex
                THEN [fields |-> template, number |-> 1, managed |-> policy]
                ELSE index
    /\ Proceed(r, "put_mapping")
    /\ UNCHANGED <<version, policy, template, rollovers, regressed, unpoliced, refused>>

(* _apply_mapping_to_existing: declares missing fields and removes none.   *)
(* OpenSearch refuses a mapping that gives a field another type than it    *)
(* has in some index behind the alias; the RequestError is logged, and the *)
(* replica goes on as if the fields were declared.                         *)
PutMapping(r) ==
    /\ At(r, "put_mapping")
    /\ \/ /\ index' = [index EXCEPT !.fields = MaxOf(@, version[r])]
          /\ refused' = refused \ {version[r]}
       \/ /\ refused' = refused \cup {version[r]}
          /\ UNCHANGED index
    /\ Proceed(r, "ready")
    /\ UNCHANGED <<version, policy, template, rollovers, regressed, unpoliced>>

(* The process ends, in the middle of its bootstrap or after it. *)
StopReplica(r) ==
    /\ ~At(r, "down")
    /\ Proceed(r, "down")
    /\ UNCHANGED <<version, policy, template, index, rollovers, regressed, unpoliced, refused>>

(* The lifecycle plugin moves the alias to a new index, created from the   *)
(* template: its fields do not depend on what was refused before.          *)
Rollover ==
    /\ rollovers < MaxRollovers
    /\ policy /\ index.managed
    /\ index' = [index EXCEPT !.number = @ + 1, !.fields = template]
    /\ refused' = {}
    /\ rollovers' = rollovers + 1
    /\ UNCHANGED <<boot, version, policy, template, regressed, unpoliced>>

Bootstrap(r) ==
    \/ PutIsmPolicy(r)
    \/ PutIndexTemplate(r)
    \/ ExistsAlias(r)
    \/ CreateWriteIndex(r)
    \/ PutMapping(r)

-----------------------------------------------------------------------------
(* "Idempotent: safe to run on every start of every worker and API         *)
(* replica, including concurrently" (index_management.py:262-263): a       *)
(* replica past its bootstrap writes into an index that can be rolled over *)
(* and that declares every field of the replica's mapping ("stored but     *)
(* silently unsearchable" otherwise, :371-373), however starts, crashes    *)
(* and rollovers interleave. What the code only logs is the exception: the *)
(* policy could not be put (:350-361), or this mapping was refused since   *)
(* the write index was created (:382-387). While versions are mixed it     *)
(* also needs that no older replica restarts after a newer one.            *)
ReadyMeansSearchable ==
    \A r \in Replica : Ready(r) =>
        /\ index.number > 0
        /\ index.managed \/ unpoliced
        /\ index.fields >= version[r] \/ version[r] \in refused \/ regressed
=============================================================================
