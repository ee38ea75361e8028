------------------------------ MODULE EventBus ------------------------------
(***************************************************************************)
(* One topic of the event bus as one consumer group sees it:               *)
(* RedisStreamsEventBus of backend/app/core/eventbus.py over a Redis       *)
(* stream. Entries are named by their position in the stream, so the       *)
(* broker's "last delivered id" is a number and an id range an interval.   *)
(* Payloads are left to the workers that read the topic.                   *)
(*                                                                         *)
(* Redis itself is external: XADD, XREADGROUP, XACK and XAUTOCLAIM are     *)
(* each one atomic step of the server, which keeps its data across crashes *)
(* of the workers (docker-compose.yml runs it with --appendonly yes).      *)
(***************************************************************************)
EXTENDS Integers, FiniteSets

CONSTANTS
    MaxMsgs,      \* bound: how many entries are ever published to the topic
    ReadCount,    \* XREADGROUP's count (10 in subscribe)
    ClaimCount    \* XAUTOCLAIM's count (100 in claim_stale)

ASSUME BusConstants ==
    /\ MaxMsgs \in Nat \ {0}
    /\ ReadCount \in Nat \ {0}
    /\ ClaimCount \in Nat \ {0}

VARIABLES
    stream,       \* number of entries in the stream: its ids are 1..stream
    cursor,       \* the group's last-delivered id
    pel,          \* the group's pending entries: delivered and not acked
    idle,         \* pending entries unclaimed for at least min_idle_ms
    deliveries    \* the broker's delivery counter of every entry

busVars == <<stream, cursor, pel, idle, deliveries>>

Msg == 1..MaxMsgs

BusTypeOK ==
    /\ stream \in 0..MaxMsgs
    /\ cursor \in 0..stream
    /\ pel \subseteq 1..cursor
    /\ idle \subseteq pel
    /\ deliveries \in [Msg -> Nat]

BusInit ==
    /\ stream = 0
    /\ cursor = 0
    /\ pel = {}
    /\ idle = {}
    /\ deliveries = [m \in Msg |-> 0]

-----------------------------------------------------------------------------
(* The n lowest ids of a set: replies list entries in id order, up to a count. *)
Oldest(S, n) == {m \in S : Cardinality({k \in S : k < m}) < n}

(* The last entry XREADGROUP with the id ">" returns now. *)
ReadUpTo == IF cursor + ReadCount < stream THEN cursor + ReadCount ELSE stream

(* The entries it returns: never delivered to the group before. *)
Unread == (cursor + 1)..ReadUpTo

(* What XAUTOCLAIM from id 0-0 returns now. *)
Stale == Oldest(idle, ClaimCount)

(* Entries the group has delivered and some consumer has acked. *)
Settled == (1..cursor) \ pel

Delivered(B) == [m \in Msg |-> IF m \in B THEN deliveries[m] + 1 ELSE deliveries[m]]

(* publish: XADD appends one entry. *)
publish ==
    /\ stream < MaxMsgs
    /\ stream' = stream + 1
    /\ UNCHANGED <<cursor, pel, idle, deliveries>>

(* subscribe's read: a batch of unread entries becomes pending. An entry   *)
(* already pending is never read again this way.                           *)
xreadgroup ==
    /\ Unread # {}
    /\ cursor' = ReadUpTo
    /\ pel' = pel \cup Unread
    /\ deliveries' = Delivered(Unread)
    /\ UNCHANGED <<stream, idle>>

(* Mutant of ack: the acked entry can still be claimed as stale. *)
AckStaysClaimable(m) ==
    /\ pel' = pel \ {m}
    /\ UNCHANGED <<stream, cursor, idle, deliveries>>

ack(m) ==
    /\ pel' = pel \ {m}
    /\ idle' = idle \ {m}
    /\ UNCHANGED <<stream, cursor, deliveries>>

(* claim_stale: XAUTOCLAIM takes over idle pending entries, whoever holds  *)
(* them, and restarts their idle clock.                                    *)
claim_stale ==
    /\ idle' = idle \ Stale
    /\ deliveries' = Delivered(Stale)
    /\ UNCHANGED <<stream, cursor, pel>>

(* The clock: a pending entry has not been claimed for min_idle_ms. *)
GoIdle(m) ==
    /\ m \in pel \ idle
    /\ idle' = idle \cup {m}
    /\ UNCHANGED <<stream, cursor, pel, deliveries>>
=============================================================================
