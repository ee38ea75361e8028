------------------------------ MODULE Ingestion ------------------------------
(***************************************************************************)
(* The ingestion service (backend/app/services/ingestion.py) behind the    *)
(* REST gateway and the syslog collectors: ingest() rate-limits an event,  *)
(* validates it, claims its idempotency key and publishes it to events.raw.*)
(* Collectors send an event again when they got no answer in time, so      *)
(* attempts at one event may overlap.                                      *)
(*                                                                         *)
(* One tenant. Events are named by their idempotency key: the hash of      *)
(* tenant, source type and payload. Every Redis call is one atomic step.   *)
(***************************************************************************)
EXTENDS Integers, FiniteSets

CONSTANTS
    Event,         \* distinct idempotency keys
    Invalid,       \* events with an empty or an oversized payload
    Attempt,       \* bound: calls of ingest() in flight at once
    IngestLimit,   \* ingest_rate_limit_per_minute
    MaxCalls,      \* bound: calls of ingest() altogether
    MaxBusFaults,  \* bound: failed bus calls and abandoned attempts
    NoEvent        \* no event

ASSUME IngestionConstants ==
    /\ Invalid \subseteq Event
    /\ IsFiniteSet(Attempt)
    /\ IngestLimit \in Nat /\ MaxCalls \in Nat /\ MaxBusFaults \in Nat
    /\ NoEvent \notin Event

VARIABLES
    attempt,       \* what each call is doing
    calls,         \* calls so far
    quota,         \* the counter of the current minute
    admitted,      \* history: calls let through in the current minute
    claimed,       \* idempotency keys that are set
    raw,           \* copies of each event on events.raw
    deadletter,    \* copies of each event on events.raw.deadletter
    dropped,       \* the silent-loss canary, events_dropped_total
    answers,       \* history: the outcomes reported for each event
    expired,       \* history: how often each key's TTL ran out
    unconfirmed,   \* history: publishes that raised although they were applied
    abandoned,     \* history: events whose claim's owner died before it was done
    busFaults      \* faults so far

ingestVars == <<attempt, calls, quota, admitted, claimed, raw, deadletter, dropped, answers,
                expired, unconfirmed, abandoned, busFaults>>

NoCall == [phase |-> "idle", event |-> NoEvent]

IngestInit ==
    /\ attempt = [a \in Attempt |-> NoCall]
    /\ quota = 0
    /\ admitted = 0
    /\ claimed = {}
    /\ raw = [e \in Event |-> 0]
    /\ deadletter = [e \in Event |-> 0]
    /\ dropped = [e \in Event |-> 0]
    /\ answers = [e \in Event |-> {}]
    /\ expired = [e \in Event |-> 0]
    /\ unconfirmed = [e \in Event |-> 0]
    /\ abandoned = {}
    /\ busFaults = 0

-----------------------------------------------------------------------------
At(a, phase) == attempt[a].phase = phase

Proceed(a, phase) == attempt' = [attempt EXCEPT ![a].phase = phase]

BusFault == busFaults < MaxBusFaults /\ busFaults' = busFaults + 1

(* ingest() returns an outcome to the collector. *)
Reply(a, outcome) ==
    /\ answers' = [answers EXCEPT ![attempt[a].event] = @ \cup {outcome}]
    /\ attempt' = [attempt EXCEPT ![a] = NoCall]

(* A collector sends an event, for the first time or again. *)
Send(a, e) ==
    /\ At(a, "idle")
    /\ calls < MaxCalls
    /\ calls' = calls + 1
    /\ attempt' = [attempt EXCEPT ![a] = [phase |-> "limit", event |-> e]]
    /\ UNCHANGED <<quota, admitted, claimed, raw, deadletter, dropped, answers, expired,
                   unconfirmed, abandoned, busFaults>>

(* The incremented counter is still within the quota. *)
WithinRateLimit == quota + 1 <= IngestLimit

(* _within_rate_limit, then _validate: only a valid event goes on to claim *)
(* its key.                                                                *)
CheckAndValidate(a) ==
    /\ At(a, "limit")
    /\ quota' = quota + 1
    /\ \/ /\ ~WithinRateLimit
          /\ Reply(a, "RATE_LIMITED")
          /\ UNCHANGED admitted
       \/ /\ WithinRateLimit
          /\ admitted' = admitted + 1
          /\ Proceed(a, IF attempt[a].event \in Invalid THEN "deadletter" ELSE "claim")
          /\ UNCHANGED answers
    /\ UNCHANGED <<calls, claimed, raw, deadletter, dropped, expired, unconfirmed, abandoned,
                   busFaults>>

(* The next minute has a counter of its own. *)
NextMinute ==
    /\ quota > 0
    /\ quota' = 0
    /\ admitted' = 0
    /\ UNCHANGED <<attempt, calls, claimed, raw, deadletter, dropped, answers, expired,
                   unconfirmed, abandoned, busFaults>>

(* Mutant of ClaimKey: the key is set unconditionally (no NX). *)
ClaimKeyAlways(a) ==
    /\ At(a, "claim")
    /\ claimed' = claimed \cup {attempt[a].event}
    /\ Proceed(a, "publish")
    /\ UNCHANGED answers
    /\ UNCHANGED <<calls, quota, admitted, raw, deadletter, dropped, expired, unconfirmed,
                   abandoned, busFaults>>

(* _claim_idempotency_key: SET NX EX. *)
ClaimKey(a) ==
    /\ At(a, "claim")
    /\ \/ /\ attempt[a].event \in claimed
          /\ Reply(a, "DUPLICATE")
          /\ UNCHANGED claimed
       \/ /\ attempt[a].event \notin claimed
          /\ claimed' = claimed \cup {attempt[a].event}
          /\ Proceed(a, "publish")
          /\ UNCHANGED answers
    /\ UNCHANGED <<calls, quota, admitted, raw, deadletter, dropped, expired, unconfirmed,
                   abandoned, busFaults>>

(* dedup_ttl_seconds pass. *)
KeyExpires(e) ==
    /\ e \in claimed
    /\ claimed' = claimed \ {e}
    /\ expired' = [expired EXCEPT ![e] = @ + 1]
    /\ UNCHANGED <<attempt, calls, quota, admitted, raw, deadletter, dropped, answers,
                   unconfirmed, abandoned, busFaults>>

PublishRaw(a) ==
    /\ At(a, "publish")
    /\ raw' = [raw EXCEPT ![attempt[a].event] = @ + 1]
    /\ Reply(a, "ACCEPTED")
    /\ UNCHANGED <<calls, quota, admitted, claimed, deadletter, dropped, expired, unconfirmed,
                   abandoned, busFaults>>

(* publish() raises. Redis may have applied it: only its answer was lost. *)
PublishRawFails(a) ==
    LET e == attempt[a].event IN
    /\ At(a, "publish")
    /\ BusFault
    /\ Proceed(a, "release")
    /\ \/ UNCHANGED <<raw, unconfirmed>>
       \/ /\ raw' = [raw EXCEPT ![e] = @ + 1]
          /\ unconfirmed' = [unconfirmed EXCEPT ![e] = @ + 1]
    /\ UNCHANGED <<calls, quota, admitted, claimed, deadletter, dropped, answers, expired,
                   abandoned>>

(* Mutant of ReleaseKey: the claim of an unpublished event is kept. *)
ReleaseNothing(a) ==
    /\ At(a, "release")
    /\ Proceed(a, "deadletter")
    /\ UNCHANGED <<calls, quota, admitted, claimed, raw, deadletter, dropped, answers, expired,
                   unconfirmed, abandoned, busFaults>>

(* _release_idempotency_key: DEL, whoever set the key by now. *)
ReleaseKey(a) ==
    /\ At(a, "release")
    /\ claimed' = claimed \ {attempt[a].event}
    /\ Proceed(a, "deadletter")
    /\ UNCHANGED <<calls, quota, admitted, raw, deadletter, dropped, answers, expired,
                   unconfirmed, abandoned, busFaults>>

DeadLetterRaw(a) ==
    /\ At(a, "deadletter")
    /\ deadletter' = [deadletter EXCEPT ![attempt[a].event] = @ + 1]
    /\ Reply(a, "DEAD_LETTERED")
    /\ UNCHANGED <<calls, quota, admitted, claimed, raw, dropped, expired, unconfirmed,
                   abandoned, busFaults>>

(* Mutant of DeadLetterFails: the failure is not told from a success. *)
DeadLetterSwallowed(a) ==
    /\ At(a, "deadletter")
    /\ BusFault
    /\ Reply(a, "DEAD_LETTERED")
    /\ UNCHANGED <<calls, quota, admitted, claimed, raw, deadletter, dropped, expired,
                   unconfirmed, abandoned>>

(* dead_letter() raises: the loss is counted and reported. *)
DeadLetterFails(a) ==
    /\ At(a, "deadletter")
    /\ BusFault
    /\ dropped' = [dropped EXCEPT ![attempt[a].event] = @ + 1]
    /\ Reply(a, "DROPPED")
    /\ UNCHANGED <<calls, quota, admitted, claimed, raw, deadletter, expired, unconfirmed,
                   abandoned>>

(* The process dies, or one of the Redis calls outside the try raises: the *)
(* collector gets an error or no answer. A call that was applied before it *)
(* raised is a failure one phase later.                                    *)
Abandon(a) ==
    /\ ~At(a, "idle")
    /\ BusFault
    /\ abandoned' = IF attempt[a].phase \in {"publish", "release", "deadletter"}
                    THEN abandoned \cup {attempt[a].event} ELSE abandoned
    /\ attempt' = [attempt EXCEPT ![a] = NoCall]
    /\ UNCHANGED <<calls, quota, admitted, claimed, raw, deadletter, dropped, answers, expired,
                   unconfirmed>>

IngestNext ==
    \/ \E a \in Attempt, e \in Event : Send(a, e)
    \/ \E a \in Attempt : \/ CheckAndValidate(a)
                          \/ ClaimKey(a)
                          \/ PublishRaw(a)
                          \/ PublishRawFails(a)
                          \/ ReleaseKey(a)
                          \/ DeadLetterRaw(a)
                          \/ DeadLetterFails(a)
                          \/ Abandon(a)
    \/ NextMinute
    \/ \E e \in Event : KeyExpires(e)

IngestSpec == IngestInit /\ calls \in 0..MaxCalls /\ [][IngestNext]_ingestVars

-----------------------------------------------------------------------------
(* A retry creates no second copy (ingestion.py:11-12): beyond the first   *)
(* copy of an event there is one at most for every time its key ran out    *)
(* and for every publish that failed only in appearance. Releasing a key   *)
(* that another attempt holds by now does no harm.                         *)
OneCopyPerClaim == \A e \in Event : raw[e] <= 1 + expired[e] + unconfirmed[e]

(* "A retry of it must not be mistaken for a duplicate and discarded"      *)
(* (ingestion.py:122-124): while a key is set its event is on events.raw,  *)
(* or the attempt that will put it there, or release the key, is still at  *)
(* work, or its owner was cut off.                                         *)
ClaimMeansIngested ==
    \A e \in claimed :
        \/ raw[e] > 0
        \/ \E a \in Attempt : attempt[a].event = e /\ attempt[a].phase \in {"publish", "release"}
        \/ e \in abandoned

(* "Never silently discarded" (ingestion.py:15-17): what the collector was *)
(* told is so, and no more calls than the limit were let through in one    *)
(* minute. An event answered as a duplicate is published, dead-lettered or *)
(* counted as lost, or another attempt at it is still at work; the only    *)
(* exception is an attempt that was cut off after it claimed the key.      *)
AnswersAreTrue ==
    /\ admitted <= IngestLimit
    /\ \A e \in Event :
           /\ "ACCEPTED" \in answers[e] => raw[e] > 0
           /\ "DEAD_LETTERED" \in answers[e] => deadletter[e] > 0
           /\ "DROPPED" \in answers[e] => dropped[e] > 0
           /\ "DUPLICATE" \in answers[e] =>
               \/ raw[e] > 0 \/ deadletter[e] > 0 \/ dropped[e] > 0
               \/ \E a \in Attempt : /\ attempt[a].event = e
                                     /\ attempt[a].phase \in {"publish", "release", "deadletter"}
               \/ e \in abandoned

(* The rule as the code states it, without the exception. *)
NeverSilentlyDiscarded ==
    \A e \in Event : "DUPLICATE" \in answers[e] =>
        \/ raw[e] > 0 \/ deadletter[e] > 0 \/ dropped[e] > 0
        \/ \E a \in Attempt : attempt[a].event = e
=============================================================================
