-------------------------- MODULE DeliveryContract --------------------------
(***************************************************************************)
(* What a pipeline stage promises about the messages of its input topic,   *)
(* with no word about batches, replicas, pending lists or crashes: a       *)
(* message is accepted, its outcome becomes durable, and only then is it   *)
(* settled. An outcome may be repeated (delivery is at least once), it is  *)
(* never undone, and every accepted message is settled in the end. Some    *)
(* messages call for no outcome: they may be settled as they come.         *)
(***************************************************************************)
EXTENDS Naturals

CONSTANTS
    Message,
    Exempt      \* messages that call for no outcome

VARIABLES
    accepted,   \* messages the stage has been given
    produced,   \* messages whose outcome is durable
    settled     \* messages that will never be delivered again

vars == <<accepted, produced, settled>>

TypeOK ==
    /\ accepted \subseteq Message
    /\ produced \subseteq Message
    /\ settled \subseteq Message

Init ==
    /\ accepted = {}
    /\ produced = {}
    /\ settled = {}

Accept(m) ==
    /\ accepted' = accepted \cup {m}
    /\ UNCHANGED <<produced, settled>>

(* The outcomes of several messages may become durable at once: a stage    *)
(* that writes in bulk is a stage too.                                     *)
Produce(M) ==
    /\ M \subseteq accepted
    /\ produced' = produced \cup M
    /\ UNCHANGED <<accepted, settled>>

Settle(m) ==
    /\ m \in produced \cup (Exempt \cap accepted)
    /\ settled' = settled \cup {m}
    /\ UNCHANGED <<accepted, produced>>

Next ==
    \/ \E m \in Message : Accept(m) \/ Settle(m)
    \/ \E M \in SUBSET Message : Produce(M)

SafeSpec == Init /\ [][Next]_vars

Spec ==
    /\ SafeSpec
    /\ \A m \in Message \ Exempt : WF_vars(Produce({m}))
    /\ \A m \in Message : WF_vars(Settle(m))
=============================================================================
