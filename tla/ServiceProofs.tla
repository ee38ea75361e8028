---------------------------- MODULE ServiceProofs ----------------------------
(***************************************************************************)
(* Proofs about the services behind the API, each as its module specifies  *)
(* it: Ingestion, for every set of events, every finite number of calls in *)
(* flight and every limit; Identity and Mitre, for every set of users,     *)
(* tokens, roles, rules and requests, and finitely many techniques;        *)
(* ThreatIntel, for every set of feeds and of requests; Scoring, for every *)
(* set of subjects and rules; HuntExports, for every set of tenants and    *)
(* queries, every quota and every finite number of exports in flight.      *)
(* (Incidents are in CaseProofs.)                                          *)
(***************************************************************************)
EXTENDS Ingestion, Identity, Mitre, ThreatIntel, Scoring, HuntExports, FiniteSetTheorems,
        SequenceTheorems, NaturalsInduction, WellFoundedInduction, TLAPS

-----------------------------------------------------------------------------
(* Ingestion. Its three properties hold although a failed publish deletes  *)
(* the key whoever set it by now: what makes the first one inductive is    *)
(* that a failed attempt still counts as a copy until it has deleted the   *)
(* key (CopiesAreClaimed).                                                 *)

(* Where a call is, and what it can answer. *)
IngestPhase == {"idle", "limit", "claim", "publish", "release", "deadletter"}

Outcome == {"RATE_LIMITED", "DUPLICATE", "ACCEPTED", "DEAD_LETTERED", "DROPPED"}

IngestTypeOK ==
    /\ attempt \in [Attempt -> [phase : IngestPhase, event : Event \cup {NoEvent}]]
    /\ \A a \in Attempt : attempt[a].phase # "idle" => attempt[a].event \in Event
    /\ quota \in Nat /\ admitted \in Nat /\ calls \in Nat /\ busFaults \in Nat
    /\ claimed \subseteq Event /\ abandoned \subseteq Event
    /\ raw \in [Event -> Nat] /\ deadletter \in [Event -> Nat] /\ dropped \in [Event -> Nat]
    /\ expired \in [Event -> Nat] /\ unconfirmed \in [Event -> Nat]
    /\ answers \in [Event -> SUBSET Outcome]

(* The attempts at e that own, or believe to own, its key. *)
Holders(e) == {a \in Attempt : /\ attempt[a].event = e
                               /\ attempt[a].phase \in {"publish", "release"}}

(* Every copy of e, published or still to come, was paid for: by the key   *)
(* that is set, by one that ran out, or by a publish that only seemed to   *)
(* fail. An attempt about to delete the key counts too, since the key it   *)
(* deletes may be another's, whose copy stays.                             *)
CopiesAreClaimed ==
    \A e \in Event :
        raw[e] + Cardinality(Holders(e))
            <= (IF e \in claimed THEN 1 ELSE 0) + expired[e] + unconfirmed[e]

AdmittedInQuota == admitted <= quota /\ admitted <= IngestLimit

IngestInv ==
    IngestTypeOK /\ CopiesAreClaimed /\ ClaimMeansIngested /\ AnswersAreTrue /\ AdmittedInQuota

(* One call moves on: to another phase of the same event, or back to idle. *)
Moves(a, phase) ==
    /\ attempt' \in [Attempt -> [phase : IngestPhase, event : Event \cup {NoEvent}]]
    /\ \A b \in Attempt \ {a} : attempt'[b] = attempt[b]
    /\ attempt'[a].phase = phase
    /\ phase # "idle" => attempt'[a].event = attempt[a].event
    /\ phase = "idle" => attempt'[a].event = NoEvent

-----------------------------------------------------------------------------
(* Going on to the next phase moves that call alone. *)
LEMMA ProceedMoves ==
    ASSUME IngestTypeOK, NEW a \in Attempt, NEW ph \in IngestPhase \ {"idle"}, Proceed(a, ph)
    PROVE  Moves(a, ph)
BY DEF IngestTypeOK, Proceed, Moves

(* A call that is dropped returns its slot, and no other. *)
LEMMA HangUpMoves ==
    ASSUME IngestTypeOK, NEW a \in Attempt, attempt' = [attempt EXCEPT ![a] = NoCall]
    PROVE  Moves(a, "idle")
BY DEF IngestTypeOK, NoCall, Moves, IngestPhase

(* An answer ends the call and is added to what its event was told. *)
LEMMA ReplyFacts ==
    ASSUME IngestTypeOK, NEW a \in Attempt, attempt[a].event \in Event,
           NEW o \in Outcome, Reply(a, o)
    PROVE  /\ Moves(a, "idle")
           /\ answers' \in [Event -> SUBSET Outcome]
           /\ \A e \in Event \ {attempt[a].event} : answers'[e] = answers[e]
           /\ answers'[attempt[a].event] = answers[attempt[a].event] \cup {o}
<1>1. Moves(a, "idle")
      BY HangUpMoves DEF Reply
<1> QED BY <1>1 DEF IngestTypeOK, Reply

(* A call that moves leaves or joins the holders of its own event alone. *)
LEMMA HoldersMove ==
    ASSUME IngestTypeOK, NEW a \in Attempt, attempt[a].event \in Event,
           NEW ph \in IngestPhase, Moves(a, ph), NEW e \in Event
    PROVE  /\ IsFiniteSet(Holders(e)) /\ Cardinality(Holders(e)) \in Nat
           /\ IsFiniteSet(Holders(e)') /\ Cardinality(Holders(e)') \in Nat
           /\ e # attempt[a].event => Cardinality(Holders(e)') = Cardinality(Holders(e))
           /\ e = attempt[a].event =>
                /\ a \in Holders(e) /\ ph \in {"publish", "release"} =>
                        Cardinality(Holders(e)') = Cardinality(Holders(e))
                /\ a \in Holders(e) /\ ph \notin {"publish", "release"} =>
                        Cardinality(Holders(e)') = Cardinality(Holders(e)) - 1
                /\ a \notin Holders(e) /\ ph \in {"publish", "release"} =>
                        Cardinality(Holders(e)') = Cardinality(Holders(e)) + 1
                /\ a \notin Holders(e) /\ ph \notin {"publish", "release"} =>
                        Cardinality(Holders(e)') = Cardinality(Holders(e))
<1> DEFINE H == Holders(e)
           G == {b \in Attempt : /\ attempt'[b].event = e
                                 /\ attempt'[b].phase \in {"publish", "release"}}
<1>1. Holders(e)' = G
      BY DEF Holders
<1>2. H \subseteq Attempt /\ G \subseteq Attempt
      BY DEF Holders
<1>3. IsFiniteSet(H) /\ IsFiniteSet(G)
      BY <1>2, IngestionConstants, FS_Subset
<1>4. Cardinality(H) \in Nat /\ Cardinality(G) \in Nat
      BY <1>3, FS_CardinalityType
<1>5. e # attempt[a].event => G = H
      BY IngestionConstants DEF Holders, Moves, IngestPhase, IngestTypeOK
<1>6. e = attempt[a].event => /\ a \in G <=> ph \in {"publish", "release"}
                              /\ G \ {a} = H \ {a}
      BY DEF Holders, Moves, IngestPhase, IngestTypeOK
<1>7. a \in H /\ a \in G /\ G \ {a} = H \ {a} => G = H
      OBVIOUS
<1>8. a \notin H /\ a \notin G /\ G \ {a} = H \ {a} => G = H
      OBVIOUS
<1>9. a \in H /\ a \notin G /\ G \ {a} = H \ {a} => Cardinality(G) = Cardinality(H) - 1
      <2> SUFFICES ASSUME a \in H, a \notin G, G \ {a} = H \ {a}
                   PROVE  Cardinality(G) = Cardinality(H) - 1
          OBVIOUS
      <2>1. G = H \ {a}
            OBVIOUS
      <2> QED BY <2>1, <1>3, FS_RemoveElement
<1>10. a \notin H /\ a \in G /\ G \ {a} = H \ {a} => Cardinality(G) = Cardinality(H) + 1
      <2> SUFFICES ASSUME a \notin H, a \in G, G \ {a} = H \ {a}
                   PROVE  Cardinality(G) = Cardinality(H) + 1
          OBVIOUS
      <2>1. G = H \cup {a}
            OBVIOUS
      <2> QED BY <2>1, <1>3, FS_AddElement
<1> HIDE DEF H, G
<1>11. Cardinality(Holders(e)) = Cardinality(H) /\ Cardinality(Holders(e)') = Cardinality(G)
      BY <1>1 DEF H
<1>12. IsFiniteSet(Holders(e)) /\ IsFiniteSet(Holders(e)') /\ (a \in Holders(e) <=> a \in H)
      BY <1>1, <1>3 DEF H
<1> QED BY <1>4, <1>5, <1>6, <1>7, <1>8, <1>9, <1>10, <1>11, <1>12

-----------------------------------------------------------------------------
(* The variables keep their types, whatever a call, the clock or a fault   *)
(* does next.                                                              *)
LEMMA IngestTypeInductive == IngestTypeOK /\ [IngestNext]_ingestVars => IngestTypeOK'
<1> SUFFICES ASSUME IngestTypeOK, [IngestNext]_ingestVars PROVE IngestTypeOK'
    OBVIOUS
<1> DEFINE Calls == [Attempt -> [phase : IngestPhase, event : Event \cup {NoEvent}]]
           Owned == \A a \in Attempt : attempt[a].phase # "idle" => attempt[a].event \in Event
<1>1. ASSUME NEW a \in Attempt, attempt[a].event \in Event, NEW ph \in IngestPhase, Moves(a, ph)
      PROVE  attempt' \in Calls /\ Owned'
      BY <1>1 DEF IngestTypeOK, Moves
<1>2. ASSUME NEW a \in Attempt, attempt[a].phase # "idle" PROVE attempt[a].event \in Event
      BY <1>2 DEF IngestTypeOK
<1>3. ASSUME NEW a \in Attempt, NEW e \in Event, Send(a, e) PROVE IngestTypeOK'
      <2>1. attempt' \in Calls /\ Owned'
            BY <1>3 DEF IngestTypeOK, Send, IngestPhase
      <2> QED BY <1>3, <2>1 DEF IngestTypeOK, Send
<1>4. ASSUME NEW a \in Attempt, CheckAndValidate(a) PROVE IngestTypeOK'
      <2>1. attempt[a].event \in Event
            BY <1>4, <1>2 DEF CheckAndValidate, At
      <2>2. CASE Reply(a, "RATE_LIMITED") /\ UNCHANGED admitted
            <3>1. attempt' \in Calls /\ Owned' /\ answers' \in [Event -> SUBSET Outcome]
                  BY <2>1, <2>2, <1>1, ReplyFacts DEF Outcome, IngestPhase
            <3> QED BY <1>4, <2>2, <3>1 DEF IngestTypeOK, CheckAndValidate
      <2>3. CASE \E ph \in {"deadletter", "claim"} : /\ Proceed(a, ph) /\ admitted' = admitted + 1
                                                     /\ UNCHANGED answers
            <3>1. attempt' \in Calls /\ Owned'
                  BY <2>1, <2>3, <1>1, ProceedMoves DEF IngestPhase
            <3> QED BY <1>4, <2>3, <3>1 DEF IngestTypeOK, CheckAndValidate
      <2> QED BY <1>4, <2>2, <2>3 DEF CheckAndValidate
<1>5. ASSUME NEW a \in Attempt, ClaimKey(a) PROVE IngestTypeOK'
      <2>1. attempt[a].event \in Event
            BY <1>5, <1>2 DEF ClaimKey, At
      <2>2. CASE Reply(a, "DUPLICATE") /\ UNCHANGED claimed
            <3>1. attempt' \in Calls /\ Owned' /\ answers' \in [Event -> SUBSET Outcome]
                  BY <2>1, <2>2, <1>1, ReplyFacts DEF Outcome, IngestPhase
            <3> QED BY <1>5, <2>2, <3>1 DEF IngestTypeOK, ClaimKey
      <2>3. CASE Proceed(a, "publish") /\ claimed' = claimed \cup {attempt[a].event}
                 /\ UNCHANGED answers
            <3>1. attempt' \in Calls /\ Owned'
                  BY <2>1, <2>3, <1>1, ProceedMoves DEF IngestPhase
            <3> QED BY <1>5, <2>1, <2>3, <3>1 DEF IngestTypeOK, ClaimKey
      <2> QED BY <1>5, <2>2, <2>3 DEF ClaimKey
<1>6. ASSUME NEW a \in Attempt, PublishRaw(a) PROVE IngestTypeOK'
      <2>1. attempt[a].event \in Event
            BY <1>6, <1>2 DEF PublishRaw, At
      <2>2. attempt' \in Calls /\ Owned' /\ answers' \in [Event -> SUBSET Outcome]
            BY <1>6, <2>1, <1>1, ReplyFacts DEF PublishRaw, Outcome, IngestPhase
      <2>3. raw' \in [Event -> Nat]
            BY <1>6, <2>1 DEF IngestTypeOK, PublishRaw
      <2> QED BY <1>6, <2>2, <2>3 DEF IngestTypeOK, PublishRaw
<1>7. ASSUME NEW a \in Attempt, PublishRawFails(a) PROVE IngestTypeOK'
      <2>1. attempt[a].event \in Event
            BY <1>7, <1>2 DEF PublishRawFails, At
      <2>2. attempt' \in Calls /\ Owned'
            BY <1>7, <2>1, <1>1, ProceedMoves DEF PublishRawFails, IngestPhase
      <2> QED BY <1>7, <2>2 DEF IngestTypeOK, PublishRawFails, BusFault
<1>8. ASSUME NEW a \in Attempt, ReleaseKey(a) PROVE IngestTypeOK'
      <2>1. attempt[a].event \in Event
            BY <1>8, <1>2 DEF ReleaseKey, At
      <2>2. attempt' \in Calls /\ Owned'
            BY <1>8, <2>1, <1>1, ProceedMoves DEF ReleaseKey, IngestPhase
      <2> QED BY <1>8, <2>2 DEF IngestTypeOK, ReleaseKey
<1>9. ASSUME NEW a \in Attempt, DeadLetterRaw(a) \/ DeadLetterFails(a) PROVE IngestTypeOK'
      <2>1. attempt[a].event \in Event
            BY <1>9, <1>2 DEF DeadLetterRaw, DeadLetterFails, At
      <2>2. attempt' \in Calls /\ Owned' /\ answers' \in [Event -> SUBSET Outcome]
            BY <1>9, <2>1, <1>1, ReplyFacts DEF DeadLetterRaw, DeadLetterFails, Outcome, IngestPhase
      <2> QED BY <1>9, <2>2 DEF IngestTypeOK, DeadLetterRaw, DeadLetterFails, BusFault
<1>10. ASSUME NEW a \in Attempt, Abandon(a) PROVE IngestTypeOK'
      <2>1. attempt[a].event \in Event
            BY <1>10, <1>2 DEF Abandon, At
      <2>2. attempt' \in Calls /\ Owned'
            BY <1>10, <2>1, <1>1, HangUpMoves DEF Abandon, IngestPhase
      <2> QED BY <1>10, <2>1, <2>2 DEF IngestTypeOK, Abandon, BusFault
<1>11. ASSUME NextMinute \/ (\E e \in Event : KeyExpires(e)) \/ UNCHANGED ingestVars
       PROVE  IngestTypeOK'
       BY <1>11 DEF IngestTypeOK, NextMinute, KeyExpires, ingestVars
<1> QED BY <1>3, <1>4, <1>5, <1>6, <1>7, <1>8, <1>9, <1>10, <1>11 DEF IngestNext

(* The bookkeeping of copies survives every step: what a call publishes it *)
(* had claimed, what it deletes it had given up, and what ran out or only  *)
(* seemed to fail is counted.                                              *)
LEMMA CopiesInductive ==
    IngestTypeOK /\ CopiesAreClaimed /\ [IngestNext]_ingestVars => CopiesAreClaimed'
<1> SUFFICES ASSUME IngestTypeOK, CopiesAreClaimed, [IngestNext]_ingestVars, NEW e \in Event
             PROVE  raw'[e] + Cardinality(Holders(e)')
                      <= (IF e \in claimed' THEN 1 ELSE 0) + expired'[e] + unconfirmed'[e]
    BY DEF CopiesAreClaimed
<1> DEFINE n == Cardinality(Holders(e))
           m == Cardinality(Holders(e)')
           Paid == (IF e \in claimed THEN 1 ELSE 0) + expired[e] + unconfirmed[e]
<1>1. /\ raw[e] \in Nat /\ expired[e] \in Nat /\ unconfirmed[e] \in Nat
      /\ raw[e] + n <= Paid
      BY DEF IngestTypeOK, CopiesAreClaimed
<1>2. \A a \in Attempt : attempt[a].phase # "idle" => attempt[a].event \in Event
      BY DEF IngestTypeOK
<1>3. n \in Nat
      <2>1. Holders(e) \subseteq Attempt
            BY DEF Holders
      <2> QED BY <2>1, IngestionConstants, FS_Subset, FS_CardinalityType
<1>4. ASSUME UNCHANGED <<claimed, raw, expired, unconfirmed>>, m <= n, m \in Nat
      PROVE  raw'[e] + m <= Paid'
      BY <1>1, <1>3, <1>4
<1>5. ASSUME NEW a \in Attempt, NEW x \in Event, Send(a, x) PROVE raw'[e] + m <= Paid'
      <2>1. Holders(e)' = Holders(e)
            <3>1. \A b \in Attempt \ {a} : attempt'[b] = attempt[b]
                  BY <1>5 DEF IngestTypeOK, Send
            <3>2. attempt[a].phase = "idle" /\ attempt'[a].phase = "limit"
                  BY <1>5 DEF IngestTypeOK, Send, At
            <3> QED BY <3>1, <3>2 DEF Holders
      <2> QED BY <1>3, <1>4, <1>5, <2>1 DEF Send
<1>6. ASSUME NEW a \in Attempt, CheckAndValidate(a) PROVE raw'[e] + m <= Paid'
      <2>1. attempt[a].event \in Event /\ attempt[a].phase = "limit"
            BY <1>2, <1>6 DEF CheckAndValidate, At
      <2>2. \E ph \in {"idle", "deadletter", "claim"} : Moves(a, ph)
            BY <1>6, <2>1, ReplyFacts, ProceedMoves DEF CheckAndValidate, IngestPhase, Outcome
      <2>3. m = n
            BY <2>1, <2>2, HoldersMove DEF IngestPhase, Holders
      <2> QED BY <1>3, <1>4, <1>6, <2>3 DEF CheckAndValidate
<1>7. ASSUME NEW a \in Attempt, ClaimKey(a) PROVE raw'[e] + m <= Paid'
      <2>1. attempt[a].event \in Event /\ attempt[a].phase = "claim"
            BY <1>2, <1>7 DEF ClaimKey, At
      <2>2. a \notin Holders(e)
            BY <2>1 DEF Holders
      <2>3. CASE Reply(a, "DUPLICATE") /\ UNCHANGED claimed
            <3>1. Moves(a, "idle")
                  BY <2>1, <2>3, ReplyFacts DEF Outcome
            <3>2. m = n
                  BY <2>1, <2>2, <3>1, HoldersMove DEF IngestPhase
            <3> QED BY <1>3, <1>4, <1>7, <2>3, <3>2 DEF ClaimKey
      <2>4. CASE /\ attempt[a].event \notin claimed
                 /\ claimed' = claimed \cup {attempt[a].event}
                 /\ Proceed(a, "publish")
            <3>1. Moves(a, "publish")
                  BY <2>4, ProceedMoves DEF IngestPhase
            <3>2. /\ e = attempt[a].event => m = n + 1
                  /\ e # attempt[a].event => m = n
                  BY <2>1, <2>2, <3>1, HoldersMove DEF IngestPhase
            <3>3. UNCHANGED <<raw, expired, unconfirmed>>
                  BY <1>7 DEF ClaimKey
            <3> QED BY <1>1, <1>3, <2>4, <3>2, <3>3
      <2> QED BY <1>7, <2>3, <2>4 DEF ClaimKey
<1>8. ASSUME NEW a \in Attempt, PublishRaw(a) PROVE raw'[e] + m <= Paid'
      <2>1. attempt[a].event \in Event /\ attempt[a].phase = "publish"
            BY <1>2, <1>8 DEF PublishRaw, At
      <2>2. Moves(a, "idle")
            BY <1>8, <2>1, ReplyFacts DEF PublishRaw, Outcome
      <2>3. /\ e = attempt[a].event => m = n - 1
            /\ e # attempt[a].event => m = n
            BY <2>1, <2>2, HoldersMove DEF IngestPhase, Holders
      <2>4. raw'[e] = IF e = attempt[a].event THEN raw[e] + 1 ELSE raw[e]
            BY <1>8, <2>1 DEF PublishRaw, IngestTypeOK
      <2>5. UNCHANGED <<claimed, expired, unconfirmed>>
            BY <1>8 DEF PublishRaw
      <2> QED BY <1>1, <1>3, <2>3, <2>4, <2>5
<1>9. ASSUME NEW a \in Attempt, PublishRawFails(a) PROVE raw'[e] + m <= Paid'
      <2>1. attempt[a].event \in Event /\ attempt[a].phase = "publish"
            BY <1>2, <1>9 DEF PublishRawFails, At
      <2>2. Moves(a, "release")
            BY <1>9, ProceedMoves DEF PublishRawFails, IngestPhase
      <2>3. m = n
            BY <2>1, <2>2, HoldersMove DEF IngestPhase, Holders
      <2>4. \/ UNCHANGED <<raw, unconfirmed>>
            \/ /\ raw'[e] = IF e = attempt[a].event THEN raw[e] + 1 ELSE raw[e]
               /\ unconfirmed'[e] = IF e = attempt[a].event THEN unconfirmed[e] + 1
                                                            ELSE unconfirmed[e]
            BY <1>9, <2>1 DEF PublishRawFails, IngestTypeOK
      <2>5. UNCHANGED <<claimed, expired>>
            BY <1>9 DEF PublishRawFails
      <2> QED BY <1>1, <1>3, <2>3, <2>4, <2>5
<1>10. ASSUME NEW a \in Attempt, ReleaseKey(a) PROVE raw'[e] + m <= Paid'
      <2>1. attempt[a].event \in Event /\ attempt[a].phase = "release"
            BY <1>2, <1>10 DEF ReleaseKey, At
      <2>2. Moves(a, "deadletter")
            BY <1>10, ProceedMoves DEF ReleaseKey, IngestPhase
      <2>3. /\ e = attempt[a].event => m = n - 1
            /\ e # attempt[a].event => m = n
            BY <2>1, <2>2, HoldersMove DEF IngestPhase, Holders
      <2>4. /\ UNCHANGED <<raw, unconfirmed, expired>>
            /\ claimed' = claimed \ {attempt[a].event}
            BY <1>10 DEF ReleaseKey
      <2> QED BY <1>1, <1>3, <2>3, <2>4
<1>11. ASSUME NEW a \in Attempt, DeadLetterRaw(a) \/ DeadLetterFails(a) \/ Abandon(a)
       PROVE  raw'[e] + m <= Paid'
      <2>1. attempt[a].event \in Event
            BY <1>2, <1>11 DEF DeadLetterRaw, DeadLetterFails, Abandon, At
      <2>2. Moves(a, "idle")
            BY <1>11, <2>1, ReplyFacts, HangUpMoves
               DEF DeadLetterRaw, DeadLetterFails, Abandon, Outcome
      <2>3. m \in Nat /\ (m = n \/ m = n - 1)
            BY <2>1, <2>2, HoldersMove DEF IngestPhase
      <2> QED BY <1>3, <1>4, <1>11, <2>3 DEF DeadLetterRaw, DeadLetterFails, Abandon
<1>12. ASSUME NEW x \in Event, KeyExpires(x) PROVE raw'[e] + m <= Paid'
      <2>1. m = n
            BY <1>12 DEF KeyExpires, Holders
      <2>2. /\ UNCHANGED <<raw, unconfirmed>> /\ x \in claimed /\ claimed' = claimed \ {x}
            /\ expired'[e] = IF e = x THEN expired[e] + 1 ELSE expired[e]
            BY <1>12 DEF KeyExpires, IngestTypeOK
      <2> QED BY <1>1, <1>3, <2>1, <2>2
<1>13. ASSUME NextMinute \/ UNCHANGED ingestVars PROVE raw'[e] + m <= Paid'
      <2>1. m = n
            BY <1>13 DEF NextMinute, ingestVars, Holders
      <2> QED BY <1>3, <1>4, <1>13, <2>1 DEF NextMinute, ingestVars
<1> QED BY <1>5, <1>6, <1>7, <1>8, <1>9, <1>10, <1>11, <1>12, <1>13 DEF IngestNext

(* Whoever sets a key goes on to publish or to delete it, unless it is cut *)
(* off: a deletion may hit another call's key, but never leaves one set    *)
(* behind an event nobody is at work on.                                   *)
LEMMA ClaimsInductive ==
    IngestTypeOK /\ ClaimMeansIngested /\ [IngestNext]_ingestVars => ClaimMeansIngested'
<1> SUFFICES ASSUME IngestTypeOK, ClaimMeansIngested, [IngestNext]_ingestVars
             PROVE  ClaimMeansIngested'
    OBVIOUS
<1> SUFFICES ASSUME NEW e \in Event, e \in claimed'
             PROVE  \/ raw'[e] > 0
                    \/ \E a \in Attempt : /\ attempt'[a].event = e
                                          /\ attempt'[a].phase \in {"publish", "release"}
                    \/ e \in abandoned'
    <2>1. claimed' \subseteq Event
          BY IngestTypeInductive DEF IngestTypeOK
    <2> QED BY <2>1 DEF ClaimMeansIngested
<1> DEFINE Owner(a) == attempt[a].event = e /\ attempt[a].phase \in {"publish", "release"}
           Good == raw[e] > 0 \/ (\E a \in Attempt : Owner(a)) \/ e \in abandoned
<1>1. e \in claimed => Good
      BY DEF ClaimMeansIngested
<1>2. raw \in [Event -> Nat]
      BY DEF IngestTypeOK
<1>3. \A a \in Attempt : attempt[a].phase # "idle" => attempt[a].event \in Event
      BY DEF IngestTypeOK
<1>4. ASSUME e \in claimed, raw'[e] = raw[e], abandoned \subseteq abandoned',
             NEW a \in Attempt, ~Owner(a), \A b \in Attempt \ {a} : attempt'[b] = attempt[b]
      PROVE  Good'
      BY <1>1, <1>4
<1>5. ASSUME NEW a \in Attempt, NEW x \in Event, Send(a, x) PROVE Good'
      <2>1. ~Owner(a) /\ \A b \in Attempt \ {a} : attempt'[b] = attempt[b]
            BY <1>5 DEF IngestTypeOK, Send, At
      <2> QED BY <1>4, <1>5, <2>1 DEF Send
<1>6. ASSUME NEW a \in Attempt, CheckAndValidate(a) PROVE Good'
      <2>1. attempt[a].event \in Event /\ ~Owner(a)
            BY <1>3, <1>6 DEF CheckAndValidate, At
      <2>2. \E ph \in {"idle", "deadletter", "claim"} : Moves(a, ph)
            BY <1>6, <2>1, ReplyFacts, ProceedMoves DEF CheckAndValidate, IngestPhase, Outcome
      <2> QED BY <1>4, <1>6, <2>1, <2>2 DEF CheckAndValidate, Moves
<1>7. ASSUME NEW a \in Attempt, ClaimKey(a) PROVE Good'
      <2>1. attempt[a].event \in Event /\ ~Owner(a)
            BY <1>3, <1>7 DEF ClaimKey, At
      <2>2. CASE Reply(a, "DUPLICATE") /\ UNCHANGED claimed
            <3>1. Moves(a, "idle")
                  BY <2>1, <2>2, ReplyFacts DEF Outcome
            <3> QED BY <1>4, <1>7, <2>1, <2>2, <3>1 DEF ClaimKey, Moves
      <2>3. CASE claimed' = claimed \cup {attempt[a].event} /\ Proceed(a, "publish")
            <3>1. Moves(a, "publish")
                  BY <2>3, ProceedMoves DEF IngestPhase
            <3>2. CASE e = attempt[a].event
                  BY <3>1, <3>2 DEF Moves
            <3>3. CASE e # attempt[a].event
                  BY <1>4, <1>7, <2>1, <2>3, <3>1, <3>3 DEF ClaimKey, Moves
            <3> QED BY <3>2, <3>3
      <2> QED BY <1>7, <2>2, <2>3 DEF ClaimKey
<1>8. ASSUME NEW a \in Attempt, PublishRaw(a) PROVE Good'
      <2>1. attempt[a].event \in Event
            BY <1>3, <1>8 DEF PublishRaw, At
      <2>2. Moves(a, "idle")
            BY <1>8, <2>1, ReplyFacts DEF PublishRaw, Outcome
      <2>3. CASE e = attempt[a].event
            BY <1>2, <1>8, <2>1, <2>3 DEF PublishRaw
      <2>4. CASE e # attempt[a].event
            BY <1>2, <1>4, <1>8, <2>1, <2>2, <2>4 DEF PublishRaw, Moves
      <2> QED BY <2>3, <2>4
<1>9. ASSUME NEW a \in Attempt, PublishRawFails(a) PROVE Good'
      <2>1. attempt[a].event \in Event
            BY <1>3, <1>9 DEF PublishRawFails, At
      <2>2. Moves(a, "release")
            BY <1>9, ProceedMoves DEF PublishRawFails, IngestPhase
      <2>3. CASE e = attempt[a].event
            BY <2>2, <2>3 DEF Moves
      <2>4. CASE e # attempt[a].event
            BY <1>2, <1>4, <1>9, <2>1, <2>2, <2>4 DEF PublishRawFails, Moves
      <2> QED BY <2>3, <2>4
<1>10. ASSUME NEW a \in Attempt, ReleaseKey(a) PROVE Good'
      <2>1. Moves(a, "deadletter")
            BY <1>10, ProceedMoves DEF ReleaseKey, IngestPhase
      <2>2. e # attempt[a].event
            BY <1>10 DEF ReleaseKey
      <2> QED BY <1>4, <1>10, <2>1, <2>2 DEF ReleaseKey, Moves
<1>11. ASSUME NEW a \in Attempt, DeadLetterRaw(a) \/ DeadLetterFails(a) PROVE Good'
      <2>1. attempt[a].event \in Event /\ ~Owner(a)
            BY <1>3, <1>11 DEF DeadLetterRaw, DeadLetterFails, At
      <2>2. Moves(a, "idle")
            BY <1>11, <2>1, ReplyFacts DEF DeadLetterRaw, DeadLetterFails, Outcome
      <2> QED BY <1>4, <1>11, <2>1, <2>2 DEF DeadLetterRaw, DeadLetterFails, Moves
<1>12. ASSUME NEW a \in Attempt, Abandon(a) PROVE Good'
      <2>1. Moves(a, "idle")
            BY <1>12, HangUpMoves DEF Abandon
      <2>2. CASE Owner(a)
            BY <1>12, <2>2 DEF Abandon
      <2>3. CASE ~Owner(a)
            BY <1>4, <1>12, <2>1, <2>3 DEF Abandon, Moves
      <2> QED BY <2>2, <2>3
<1>13. ASSUME NextMinute \/ (\E x \in Event : KeyExpires(x)) \/ UNCHANGED ingestVars PROVE Good'
       BY <1>1, <1>13 DEF NextMinute, KeyExpires, ingestVars
<1> QED BY <1>5, <1>6, <1>7, <1>8, <1>9, <1>10, <1>11, <1>12, <1>13 DEF IngestNext

(* The counter of the minute is never below what it let through. *)
LEMMA QuotaInductive ==
    IngestTypeOK /\ AdmittedInQuota /\ [IngestNext]_ingestVars => AdmittedInQuota'
<1> SUFFICES ASSUME IngestTypeOK, AdmittedInQuota, [IngestNext]_ingestVars
             PROVE  AdmittedInQuota'
    OBVIOUS
<1>1. /\ quota \in Nat /\ admitted \in Nat /\ IngestLimit \in Nat
      /\ admitted <= quota /\ admitted <= IngestLimit
      BY IngestionConstants DEF IngestTypeOK, AdmittedInQuota
<1>2. CASE \E a \in Attempt : CheckAndValidate(a)
      BY <1>1, <1>2 DEF CheckAndValidate, WithinRateLimit, AdmittedInQuota
<1>3. CASE NextMinute
      BY <1>1, <1>3 DEF NextMinute, AdmittedInQuota
<1>4. CASE UNCHANGED <<quota, admitted>>
      BY <1>4 DEF AdmittedInQuota
<1> QED BY <1>2, <1>3, <1>4 DEF IngestNext, Send, ClaimKey, PublishRaw, PublishRawFails, ReleaseKey,
           DeadLetterRaw, DeadLetterFails, Abandon, KeyExpires, ingestVars

(* An answer stays true: copies and counts never shrink, and a call behind *)
(* a duplicate ends on a stream, in the count of losses, or cut off.       *)
LEMMA AnswersInductive ==
    IngestInv /\ [IngestNext]_ingestVars /\ AdmittedInQuota' => AnswersAreTrue'
<1> SUFFICES ASSUME IngestInv, [IngestNext]_ingestVars, AdmittedInQuota'
             PROVE  AnswersAreTrue'
    OBVIOUS
<1> DEFINE Live(a, e) == /\ attempt[a].event = e
                         /\ attempt[a].phase \in {"publish", "release", "deadletter"}
           Traced(e) == \/ raw[e] > 0 \/ deadletter[e] > 0 \/ dropped[e] > 0
                        \/ \E a \in Attempt : Live(a, e)
                        \/ e \in abandoned
           True_(e) == /\ "ACCEPTED" \in answers[e] => raw[e] > 0
                       /\ "DEAD_LETTERED" \in answers[e] => deadletter[e] > 0
                       /\ "DROPPED" \in answers[e] => dropped[e] > 0
                       /\ "DUPLICATE" \in answers[e] => Traced(e)
<1> SUFFICES ASSUME NEW e \in Event PROVE True_(e)'
    BY DEF AnswersAreTrue, AdmittedInQuota
<1>1. True_(e)
      BY DEF IngestInv, AnswersAreTrue
<1>2. IngestTypeOK
      BY DEF IngestInv
<1>3. raw \in [Event -> Nat] /\ deadletter \in [Event -> Nat] /\ dropped \in [Event -> Nat]
      BY <1>2 DEF IngestTypeOK
<1>4. \A a \in Attempt : attempt[a].phase # "idle" => attempt[a].event \in Event
      BY <1>2 DEF IngestTypeOK
<1> DEFINE Grows == /\ raw'[e] \in Nat /\ raw'[e] >= raw[e]
                    /\ deadletter'[e] \in Nat /\ deadletter'[e] >= deadletter[e]
                    /\ dropped'[e] \in Nat /\ dropped'[e] >= dropped[e]
                    /\ abandoned \subseteq abandoned'
<1>5. ASSUME Grows, Traced(e),
             NEW a \in Attempt, ~Live(a, e) \/ Live(a, e)' \/ Traced(e)',
             \A b \in Attempt \ {a} : attempt'[b] = attempt[b]
      PROVE  Traced(e)'
      <2>1. CASE raw[e] > 0 \/ deadletter[e] > 0 \/ dropped[e] > 0
            BY <1>3, <1>5, <2>1
      <2>2. CASE e \in abandoned
            BY <1>5, <2>2
      <2>3. CASE \E b \in Attempt : Live(b, e)
            BY <1>5, <2>3
      <2> QED BY <1>5, <2>1, <2>2, <2>3
<1>6. ASSUME Grows, answers'[e] = answers[e],
             NEW a \in Attempt, ~Live(a, e) \/ Live(a, e)' \/ Traced(e)',
             \A b \in Attempt \ {a} : attempt'[b] = attempt[b]
      PROVE  True_(e)'
      <2>1. Traced(e) => Traced(e)'
            BY <1>5, <1>6
      <2> HIDE DEF Traced
      <2> QED BY <1>1, <1>3, <1>6, <2>1
<1>7. ASSUME NEW a \in Attempt, NEW x \in Event, Send(a, x) PROVE True_(e)'
      <2>1. ~Live(a, e) /\ \A b \in Attempt \ {a} : attempt'[b] = attempt[b]
            BY <1>2, <1>7 DEF IngestTypeOK, Send, At
      <2>2. Grows /\ answers'[e] = answers[e]
            BY <1>3, <1>7 DEF Send
      <2> HIDE DEF Grows, True_
      <2> QED BY <1>6, <2>1, <2>2
<1>8. ASSUME NEW a \in Attempt, CheckAndValidate(a) PROVE True_(e)'
      <2>1. attempt[a].event \in Event /\ ~Live(a, e)
            BY <1>4, <1>8 DEF CheckAndValidate, At
      <2>2. Grows
            BY <1>3, <1>8 DEF CheckAndValidate
      <2>3. CASE Reply(a, "RATE_LIMITED")
            <3>1. Moves(a, "idle") /\ answers'[e] \in {answers[e], answers[e] \cup {"RATE_LIMITED"}}
                  BY <1>2, <2>1, <2>3, ReplyFacts DEF Outcome
            <3>2. Traced(e) => Traced(e)'
                  BY <1>5, <2>1, <2>2, <3>1 DEF Moves
            <3> HIDE DEF Traced
            <3> QED BY <1>1, <1>3, <2>2, <3>1, <3>2
      <2>4. CASE (\E ph \in {"deadletter", "claim"} : Proceed(a, ph)) /\ UNCHANGED answers
            <3>1. \E ph \in {"deadletter", "claim"} : Moves(a, ph)
                  BY <1>2, <2>4, ProceedMoves DEF IngestPhase
            <3> HIDE DEF Grows, True_
            <3> QED BY <1>6, <2>1, <2>2, <2>4, <3>1 DEF Moves
      <2> QED BY <1>8, <2>3, <2>4 DEF CheckAndValidate
<1>9. ASSUME NEW a \in Attempt, ClaimKey(a) PROVE True_(e)'
      <2>1. attempt[a].event \in Event /\ ~Live(a, e) /\ attempt[a].phase = "claim"
            BY <1>4, <1>9 DEF ClaimKey, At
      <2>2. Grows
            BY <1>3, <1>9 DEF ClaimKey
      <2>3. CASE Reply(a, "DUPLICATE") /\ attempt[a].event \in claimed
            <3>1. /\ Moves(a, "idle")
                  /\ e # attempt[a].event => answers'[e] = answers[e]
                  /\ e = attempt[a].event => answers'[e] = answers[e] \cup {"DUPLICATE"}
                  BY <1>2, <2>1, <2>3, ReplyFacts DEF Outcome
            <3>2. e = attempt[a].event => Traced(e)
                  BY <2>3 DEF IngestInv, ClaimMeansIngested
            <3>3. Traced(e) => Traced(e)'
                  BY <1>5, <2>1, <2>2, <3>1 DEF Moves
            <3> HIDE DEF Traced
            <3> QED BY <1>1, <1>3, <2>2, <3>1, <3>2, <3>3
      <2>4. CASE Proceed(a, "publish") /\ UNCHANGED answers
            <3>1. Moves(a, "publish")
                  BY <1>2, <2>4, ProceedMoves DEF IngestPhase
            <3> HIDE DEF Grows, True_
            <3> QED BY <1>6, <2>1, <2>2, <2>4, <3>1 DEF Moves
      <2> QED BY <1>9, <2>3, <2>4 DEF ClaimKey
<1>10. ASSUME NEW a \in Attempt, PublishRaw(a) PROVE True_(e)'
      <2>1. attempt[a].event \in Event
            BY <1>4, <1>10 DEF PublishRaw, At
      <2>2. /\ Moves(a, "idle")
            /\ e # attempt[a].event => answers'[e] = answers[e]
            /\ e = attempt[a].event => answers'[e] = answers[e] \cup {"ACCEPTED"}
            BY <1>2, <1>10, <2>1, ReplyFacts DEF PublishRaw, Outcome
      <2>3. Grows /\ (e = attempt[a].event => raw'[e] > 0)
            BY <1>3, <1>10, <2>1 DEF PublishRaw
      <2>4. Traced(e) => Traced(e)'
            BY <1>5, <2>2, <2>3 DEF Moves
      <2> HIDE DEF Traced
      <2> QED BY <1>1, <1>3, <2>2, <2>3, <2>4
<1>11. ASSUME NEW a \in Attempt, PublishRawFails(a) PROVE True_(e)'
      <2>1. attempt[a].event \in Event
            BY <1>4, <1>11 DEF PublishRawFails, At
      <2>2. Moves(a, "release")
            BY <1>2, <1>11, ProceedMoves DEF PublishRawFails, IngestPhase
      <2>3. Grows /\ answers'[e] = answers[e]
            BY <1>3, <1>11, <2>1 DEF PublishRawFails
      <2>4. ~Live(a, e) \/ Live(a, e)'
            BY <2>2 DEF Moves
      <2> HIDE DEF Grows, True_
      <2> QED BY <1>6, <2>2, <2>3, <2>4 DEF Moves
<1>12. ASSUME NEW a \in Attempt, ReleaseKey(a) PROVE True_(e)'
      <2>1. Moves(a, "deadletter")
            BY <1>2, <1>12, ProceedMoves DEF ReleaseKey, IngestPhase
      <2>2. Grows /\ answers'[e] = answers[e]
            BY <1>3, <1>12 DEF ReleaseKey
      <2>3. ~Live(a, e) \/ Live(a, e)'
            BY <2>1 DEF Moves
      <2> HIDE DEF Grows, True_
      <2> QED BY <1>6, <2>1, <2>2, <2>3 DEF Moves
<1>13. ASSUME NEW a \in Attempt, DeadLetterRaw(a) PROVE True_(e)'
      <2>1. attempt[a].event \in Event
            BY <1>4, <1>13 DEF DeadLetterRaw, At
      <2>2. /\ Moves(a, "idle")
            /\ e # attempt[a].event => answers'[e] = answers[e]
            /\ e = attempt[a].event => answers'[e] = answers[e] \cup {"DEAD_LETTERED"}
            BY <1>2, <1>13, <2>1, ReplyFacts DEF DeadLetterRaw, Outcome
      <2>3. Grows /\ (e = attempt[a].event => deadletter'[e] > 0)
            BY <1>3, <1>13, <2>1 DEF DeadLetterRaw
      <2>4. Traced(e) => Traced(e)'
            BY <1>5, <2>2, <2>3 DEF Moves
      <2> HIDE DEF Traced
      <2> QED BY <1>1, <1>3, <2>2, <2>3, <2>4
<1>14. ASSUME NEW a \in Attempt, DeadLetterFails(a) PROVE True_(e)'
      <2>1. attempt[a].event \in Event
            BY <1>4, <1>14 DEF DeadLetterFails, At
      <2>2. /\ Moves(a, "idle")
            /\ e # attempt[a].event => answers'[e] = answers[e]
            /\ e = attempt[a].event => answers'[e] = answers[e] \cup {"DROPPED"}
            BY <1>2, <1>14, <2>1, ReplyFacts DEF DeadLetterFails, Outcome
      <2>3. Grows /\ (e = attempt[a].event => dropped'[e] > 0)
            BY <1>3, <1>14, <2>1 DEF DeadLetterFails
      <2>4. Traced(e) => Traced(e)'
            BY <1>5, <2>2, <2>3 DEF Moves
      <2> HIDE DEF Traced
      <2> QED BY <1>1, <1>3, <2>2, <2>3, <2>4
<1>15. ASSUME NEW a \in Attempt, Abandon(a) PROVE True_(e)'
      <2>1. Moves(a, "idle")
            BY <1>2, <1>15, HangUpMoves DEF Abandon
      <2>2. Grows /\ answers'[e] = answers[e]
            BY <1>3, <1>15 DEF Abandon
      <2>3. ~Live(a, e) \/ Traced(e)'
            BY <1>15 DEF Abandon
      <2> HIDE DEF Grows, True_
      <2> QED BY <1>6, <2>1, <2>2, <2>3 DEF Moves
<1>16. ASSUME NextMinute \/ (\E x \in Event : KeyExpires(x)) \/ UNCHANGED ingestVars
       PROVE  True_(e)'
      BY <1>1, <1>16 DEF NextMinute, KeyExpires, ingestVars
<1> QED BY <1>7, <1>8, <1>9, <1>10, <1>11, <1>12, <1>13, <1>14, <1>15, <1>16 DEF IngestNext

-----------------------------------------------------------------------------
(* Before the first call nothing is claimed, published or answered. *)
LEMMA IngestInitially == IngestInit /\ calls \in 0..MaxCalls => IngestInv
<1> SUFFICES ASSUME IngestInit, calls \in 0..MaxCalls PROVE IngestInv
    OBVIOUS
<1>1. IngestTypeOK /\ ClaimMeansIngested /\ AnswersAreTrue /\ AdmittedInQuota
      BY IngestionConstants DEF IngestInit, IngestTypeOK, NoCall, IngestPhase, ClaimMeansIngested,
         AnswersAreTrue, AdmittedInQuota
<1>2. ASSUME NEW e \in Event PROVE Holders(e) = {}
      BY DEF IngestInit, NoCall, Holders
<1>3. CopiesAreClaimed
      BY <1>2, FS_EmptySet DEF IngestInit, CopiesAreClaimed
<1> QED BY <1>1, <1>3 DEF IngestInv

(* The invariant of the ingestion service, for every behaviour of it. *)
LEMMA IngestInvariant == IngestSpec => []IngestInv
<1>1. IngestInv /\ [IngestNext]_ingestVars => IngestInv'
      BY IngestTypeInductive, CopiesInductive, ClaimsInductive, QuotaInductive, AnswersInductive
         DEF IngestInv
<1> QED BY <1>1, IngestInitially, PTL DEF IngestSpec

(* Idempotent ingestion (ingestion.py:11-12): however the retries of an    *)
(* event overlap and fail, it is published once, and once more at most for *)
(* every time its key ran out or a publish failed only in appearance.      *)
THEOREM OneCopyPerClaimHolds == IngestSpec => []OneCopyPerClaim
<1>1. IngestInv => OneCopyPerClaim
      <2> SUFFICES ASSUME IngestInv, NEW e \in Event
                   PROVE  raw[e] <= 1 + expired[e] + unconfirmed[e]
          BY DEF OneCopyPerClaim
      <2>1. Holders(e) \subseteq Attempt
            BY DEF Holders
      <2>2. Cardinality(Holders(e)) \in Nat
            BY <2>1, IngestionConstants, FS_Subset, FS_CardinalityType
      <2>3. raw[e] \in Nat /\ expired[e] \in Nat /\ unconfirmed[e] \in Nat
            BY DEF IngestInv, IngestTypeOK
      <2>4. raw[e] + Cardinality(Holders(e))
                <= (IF e \in claimed THEN 1 ELSE 0) + expired[e] + unconfirmed[e]
            BY DEF IngestInv, CopiesAreClaimed
      <2> QED BY <2>2, <2>3, <2>4
<1> QED BY <1>1, IngestInvariant, PTL

(* A key that is set stands for an event that is on events.raw or that a   *)
(* call is still at work on (ingestion.py:122-124), unless the call that   *)
(* set it was cut off.                                                     *)
THEOREM ClaimMeansIngestedHolds == IngestSpec => []ClaimMeansIngested
<1>1. IngestInv => ClaimMeansIngested
      BY DEF IngestInv
<1> QED BY <1>1, IngestInvariant, PTL

(* What a collector is told is so (ingestion.py:15-17), duplicates         *)
(* included, and a minute never lets more calls through than the limit.    *)
THEOREM AnswersAreTrueHolds == IngestSpec => []AnswersAreTrue
<1>1. IngestInv => AnswersAreTrue
      BY DEF IngestInv
<1> QED BY <1>1, IngestInvariant, PTL

-----------------------------------------------------------------------------
(* Identity. A request is exposed to what commits between its reading and  *)
(* its writing. Of two requests in flight on the same thing at least one   *)
(* is recorded in raced, so that as long as nothing is recorded, what a    *)
(* request has read is still so.                                           *)

(* The rows. *)
AccountRow == [exists : BOOLEAN, active : BOOLEAN, roles : SUBSET Role, failed : Nat,
               lock : {"no", "running", "elapsed"}, secret : Nat, mfa : BOOLEAN]

SessionRow == [state : {"none", "live", "expired", "revoked"}, user : User \cup {Null},
               login : Token \cup {Null}]

(* What a request in flight has read, and what it is in flight on. *)
Request(r) ==
    \/ r.op = "idle"
    \/ /\ r.op = "user" /\ r.user \in User /\ r.on = <<"roles", r.user>>
       /\ r.role \in Role \cup {Null} /\ r.active \in BOOLEAN \cup {Null} /\ r.row \in AccountRow
    \/ /\ r.op = "login" /\ r.user \in User /\ r.on = <<"login", r.user>> /\ r.row \in AccountRow
    \/ r.op = "rotate" /\ r.token \in Token
    \/ /\ r.op \in {"enroll", "confirm"} /\ r.user \in User /\ r.on = <<"mfa", r.user>>
       /\ r.row \in AccountRow

AuthTypes ==
    /\ account \in [User -> AccountRow]
    /\ session \in [Token -> SessionRow]
    /\ streak \in [User -> Nat] /\ proven \in [User -> Nat]
    /\ authReq = [q \in AuthRequest |-> authReq[q]]
    /\ \A q \in AuthRequest : Request(authReq[q])

(* Two requests in flight on the same thing are on record. *)
OverlapsAreRaced ==
    \A p, q \in AuthRequest :
        p # q /\ authReq[p].op # "idle" /\ authReq[q].op # "idle" /\ authReq[p].on = authReq[q].on
            => authReq[p].on \in raced

AuthBase == AuthTypes /\ OverlapsAreRaced

OpenOf(t, l) == session[t].state \in {"live", "expired"} /\ session[t].login = l

(* A login has one token that is not revoked, until it is ended: a         *)
(* rotation in flight holds it. An expired token counts, for a logout may  *)
(* present it.                                                             *)
SessionInv ==
    /\ \A t \in Token : session[t].state # "none" =>
         session[t].login \in Token /\ session[session[t].login].state # "none"
    /\ \A l \in ended : l \in Token /\ session[l].state # "none"
    /\ \A q \in AuthRequest : authReq[q].op = "rotate" =>
         /\ session[authReq[q].token].state # "none"
         /\ authReq[q].on = <<"session", session[authReq[q].token].login>>
    /\ \A l \in Token : <<"session", l>> \notin raced =>
         /\ \A s, t \in Token : OpenOf(s, l) /\ OpenOf(t, l) => s = t
         /\ l \in ended => \A t \in Token : ~OpenOf(t, l)
         /\ \A q \in AuthRequest : authReq[q].op = "rotate" /\ session[authReq[q].token].login = l =>
              l \notin ended /\ \A t \in Token : OpenOf(t, l) => t = authReq[q].token

(* What a request has read of its columns is still so, unless it raced. *)
StillSo(r) ==
    /\ r.op = "login" => r.row.failed = account[r.user].failed
    /\ r.op = "user" => r.row.roles = account[r.user].roles
    /\ r.op \in {"enroll", "confirm"} => /\ r.row.mfa = account[r.user].mfa
                                         /\ r.row.secret = account[r.user].secret

OnAccount == {"user", "login", "enroll", "confirm"}

AccountInv ==
    /\ \A u \in User : streak[u] < MaxFailed /\ (~account[u].exists => streak[u] = 0)
    /\ \A q \in AuthRequest : authReq[q].op \in OnAccount => account[authReq[q].user].exists
    /\ AccountsAreCoherentAlone
    /\ \A q \in AuthRequest : authReq[q].op \in OnAccount /\ authReq[q].on \notin raced => StillSo(authReq[q])

-----------------------------------------------------------------------------
(* A request begins, or ends. *)
Opens(q, r) ==
    /\ authReq[q].op = "idle" /\ r.op # "idle"
    /\ authReq' = [authReq EXCEPT ![q] = r]
    /\ raced' = raced \cup Contends(r.on)

Closes(q) == authReq' = [authReq EXCEPT ![q] = NoAuthReq] /\ raced' = raced

(* The requests after either. *)
LEMMA RequestsAfter ==
    ASSUME AuthBase, NEW q \in AuthRequest, NEW r, authReq' = [authReq EXCEPT ![q] = r]
    PROVE  /\ authReq' = [p \in AuthRequest |-> authReq'[p]]
           /\ authReq'[q] = r
           /\ \A p \in AuthRequest : p # q => authReq'[p] = authReq[p]
BY DEF AuthBase, AuthTypes

(* A request that begins on what another one holds is recorded. *)
LEMMA OpensKeeps ==
    ASSUME AuthBase, NEW q \in AuthRequest, NEW r, Request(r), Opens(q, r)
    PROVE  /\ (authReq = [p \in AuthRequest |-> authReq[p]])'
           /\ \A p \in AuthRequest : Request(authReq'[p])
           /\ OverlapsAreRaced'
<1>1. /\ authReq' = [p \in AuthRequest |-> authReq'[p]]
      /\ authReq'[q] = r
      /\ \A p \in AuthRequest : p # q => authReq'[p] = authReq[p]
      BY RequestsAfter DEF Opens
<1>2. \A p \in AuthRequest : Request(authReq[p])
      BY DEF AuthBase, AuthTypes
<1>3. ASSUME NEW p \in AuthRequest, p # q, authReq[p].op # "idle", authReq[p].on = r.on
      PROVE  r.on \in raced'
      <2>1. r.on \in Contends(r.on)
            BY <1>3 DEF Contends
      <2> QED BY <2>1 DEF Opens
<1>4. ASSUME NEW p \in AuthRequest, NEW s \in AuthRequest, p # s, authReq'[p].op # "idle",
             authReq'[s].op # "idle", authReq'[p].on = authReq'[s].on
      PROVE  authReq'[p].on \in raced'
      <2>1. CASE p = q
            BY <1>1, <1>3, <1>4, <2>1
      <2>2. CASE s = q
            BY <1>1, <1>3, <1>4, <2>2
      <2>3. CASE p # q /\ s # q
            BY <1>1, <1>4, <2>3 DEF AuthBase, OverlapsAreRaced, Opens
      <2> QED BY <2>1, <2>2, <2>3
<1> QED BY <1>1, <1>2, <1>4 DEF OverlapsAreRaced

(* One that ends leaves the others as they were. *)
LEMMA ClosesKeeps ==
    ASSUME AuthBase, NEW q \in AuthRequest, Closes(q)
    PROVE  /\ (authReq = [p \in AuthRequest |-> authReq[p]])'
           /\ \A p \in AuthRequest : Request(authReq'[p])
           /\ OverlapsAreRaced'
<1>1. PICK r : r = NoAuthReq /\ r.op = "idle"
      <2>1. PICK r : r = NoAuthReq
            OBVIOUS
      <2>2. r.op = "idle"
            BY <2>1 DEF NoAuthReq
      <2> QED BY <2>1, <2>2
<1>2. /\ authReq' = [p \in AuthRequest |-> authReq'[p]]
      /\ authReq'[q] = r
      /\ \A p \in AuthRequest : p # q => authReq'[p] = authReq[p]
      BY <1>1, RequestsAfter DEF Closes
<1>3. \A p \in AuthRequest : Request(authReq[p])
      BY DEF AuthBase, AuthTypes
<1>4. Request(r)
      BY <1>1 DEF Request
<1>5. OverlapsAreRaced'
      BY <1>1, <1>2 DEF AuthBase, OverlapsAreRaced, Closes
<1> QED BY <1>2, <1>3, <1>4, <1>5

(* A step that begins and ends no request. *)
LEMMA NeitherKeeps ==
    ASSUME AuthBase, authReq' = authReq, raced \subseteq raced'
    PROVE  /\ (authReq = [p \in AuthRequest |-> authReq[p]])'
           /\ \A p \in AuthRequest : Request(authReq'[p])
           /\ OverlapsAreRaced'
BY DEF AuthBase, AuthTypes, OverlapsAreRaced

(* The fields of rows. *)
LEMMA RowFields ==
    /\ \A r \in AccountRow : /\ r.exists \in BOOLEAN /\ r.active \in BOOLEAN /\ r.roles \in SUBSET Role
                             /\ r.failed \in Nat /\ r.secret \in Nat /\ r.mfa \in BOOLEAN
    /\ \A s \in SessionRow : s.login \in Token \cup {Null} /\ s.user \in User \cup {Null}
    /\ NoAccount \in AccountRow
    /\ NoSession \in SessionRow /\ NoSession.state = "none"
BY DEF AccountRow, SessionRow, NoAccount, NoSession

(* The columns of a fresh account. *)
LEMMA NewAccountFields ==
    ASSUME NEW role \in Role
    PROVE  /\ NewAccount(role) \in AccountRow
           /\ NewAccount(role).exists = TRUE /\ NewAccount(role).roles = {role}
           /\ NewAccount(role).failed = 0 /\ NewAccount(role).mfa = FALSE
BY DEF NewAccount, NoAccount, AccountRow

-----------------------------------------------------------------------------
(* What each commit does to the account's row. *)
LEMMA CommitUserEffect ==
    ASSUME AuthBase, NEW q \in AuthRequest, CommitUser(q)
    PROVE  \E w \in AccountRow :
             /\ account' = [account EXCEPT ![authReq[q].user] = w]
             /\ w.exists = account[authReq[q].user].exists /\ w.failed = account[authReq[q].user].failed
             /\ w.mfa = account[authReq[q].user].mfa /\ w.secret = account[authReq[q].user].secret
             /\ w.roles = IF authReq[q].role = Null THEN account[authReq[q].user].roles
                          ELSE (account[authReq[q].user].roles \ authReq[q].row.roles) \cup {authReq[q].role}
<1>1. PICK r : r = authReq[q]
      OBVIOUS
<1>2. /\ r.op = "user" /\ r.user \in User /\ r.role \in Role \cup {Null}
      /\ r.active \in BOOLEAN \cup {Null} /\ r.row \in AccountRow
      <2>1. r.op = "user"
            BY <1>1 DEF CommitUser
      <2>2. Request(r)
            BY <1>1 DEF AuthBase, AuthTypes
      <2> QED BY <2>1, <2>2 DEF Request
<1>3. PICK u \in User : u = r.user
      BY <1>2
<1>4. PICK a \in AccountRow : a = account[u]
      BY DEF AuthBase, AuthTypes
<1>5. PICK b : b = IF r.active # Null /\ r.active # r.row.active THEN r.active ELSE a.active
      OBVIOUS
<1>6. b \in BOOLEAN
      BY <1>2, <1>5, RowFields
<1>7. PICK R : R = IF r.role = Null THEN a.roles ELSE (a.roles \ r.row.roles) \cup {r.role}
      OBVIOUS
<1>8. R \in SUBSET Role
      BY <1>2, <1>7, RowFields
<1>9. PICK w : w = [a EXCEPT !.active = b, !.roles = R]
      OBVIOUS
<1>10. /\ w \in AccountRow /\ w.exists = a.exists /\ w.failed = a.failed /\ w.mfa = a.mfa
       /\ w.secret = a.secret /\ w.roles = R
      BY <1>6, <1>8, <1>9 DEF AccountRow
<1>11. account' = [account EXCEPT ![u] = w]
      BY <1>1, <1>3, <1>4, <1>5, <1>7, <1>9 DEF CommitUser, AuthBase, AuthTypes
<1> QED BY <1>1, <1>3, <1>4, <1>7, <1>10, <1>11

(* A wrong password counts from what was read, or locks the account. *)
LEMMA FailLoginEffect ==
    ASSUME AuthBase, NEW q \in AuthRequest, FailLogin(q), authReq[q].outcome = "wrong_password"
    PROVE  \E w \in AccountRow :
             /\ account' = [account EXCEPT ![authReq[q].user] = w]
             /\ w.exists = account[authReq[q].user].exists /\ w.roles = account[authReq[q].user].roles
             /\ w.mfa = account[authReq[q].user].mfa /\ w.secret = account[authReq[q].user].secret
             /\ w.failed = IF authReq[q].row.failed + 1 >= MaxFailed
                           THEN IF authReq[q].row.failed # 0 THEN 0 ELSE account[authReq[q].user].failed
                           ELSE authReq[q].row.failed + 1
<1>1. PICK r : r = authReq[q]
      OBVIOUS
<1>2. r.op = "login" /\ r.user \in User /\ r.row \in AccountRow
      <2>1. r.op = "login"
            BY <1>1 DEF FailLogin
      <2>2. Request(r)
            BY <1>1 DEF AuthBase, AuthTypes
      <2> QED BY <2>1, <2>2 DEF Request
<1>3. PICK u \in User : u = r.user
      BY <1>2
<1>4. PICK a \in AccountRow : a = account[u]
      BY DEF AuthBase, AuthTypes
<1>5. r.row.failed \in Nat /\ a.failed \in Nat
      BY <1>2, RowFields
<1>6. PICK w : w = Failed(a, r.row)
      OBVIOUS
<1>7. account' = [account EXCEPT ![u] = w]
      BY <1>1, <1>3, <1>4, <1>6 DEF FailLogin, AuthBase, AuthTypes
<1>8. CASE r.row.failed + 1 >= MaxFailed
      <2>1. PICK n \in Nat : n = IF r.row.failed # 0 THEN 0 ELSE a.failed
            BY <1>5
      <2>2. w = [a EXCEPT !.lock = "running", !.failed = n]
            BY <1>6, <1>8, <2>1 DEF Failed
      <2>3. /\ w \in AccountRow /\ w.exists = a.exists /\ w.roles = a.roles /\ w.mfa = a.mfa
            /\ w.secret = a.secret /\ w.failed = n
            BY <2>2 DEF AccountRow
      <2> QED BY <1>1, <1>3, <1>4, <1>7, <1>8, <2>1, <2>3
<1>9. CASE ~(r.row.failed + 1 >= MaxFailed)
      <2>1. PICK n \in Nat : n = r.row.failed + 1
            BY <1>5
      <2>2. w = [a EXCEPT !.failed = n]
            BY <1>6, <1>9, <2>1 DEF Failed
      <2>3. /\ w \in AccountRow /\ w.exists = a.exists /\ w.roles = a.roles /\ w.mfa = a.mfa
            /\ w.secret = a.secret /\ w.failed = n
            BY <2>2 DEF AccountRow
      <2> QED BY <1>1, <1>3, <1>4, <1>7, <1>9, <2>1, <2>3
<1> QED BY <1>8, <1>9

(* A login clears the count it has read, and adds a session of its own. *)
LEMMA LogInEffect ==
    ASSUME AuthBase, NEW q \in AuthRequest, LogIn(q)
    PROVE  /\ \E w \in AccountRow :
                /\ account' = [account EXCEPT ![authReq[q].user] = w]
                /\ w.exists = account[authReq[q].user].exists /\ w.roles = account[authReq[q].user].roles
                /\ w.mfa = account[authReq[q].user].mfa /\ w.secret = account[authReq[q].user].secret
                /\ w.failed = IF authReq[q].row.failed # 0 THEN 0 ELSE account[authReq[q].user].failed
           /\ \E t \in Token, s \in SessionRow :
                /\ session[t].state = "none" /\ s.state = "live" /\ s.login = t
                /\ session' = [session EXCEPT ![t] = s]
<1>1. PICK r : r = authReq[q]
      OBVIOUS
<1>2. r.op = "login" /\ r.user \in User /\ r.row \in AccountRow
      <2>1. r.op = "login"
            BY <1>1 DEF LogIn
      <2>2. Request(r)
            BY <1>1 DEF AuthBase, AuthTypes
      <2> QED BY <2>1, <2>2 DEF Request
<1>3. PICK u \in User : u = r.user
      BY <1>2
<1>4. PICK a \in AccountRow : a = account[u]
      BY DEF AuthBase, AuthTypes
<1>5. PICK n \in Nat : n = IF r.row.failed # 0 THEN 0 ELSE a.failed
      BY <1>2, RowFields
<1>6. PICK k : k = IF r.row.lock # "no" THEN "no" ELSE a.lock
      OBVIOUS
<1>7. k \in {"no", "running", "elapsed"}
      BY <1>6 DEF AccountRow
<1>8. PICK w : w = [a EXCEPT !.failed = n, !.lock = k]
      OBVIOUS
<1>9. /\ w \in AccountRow /\ w.exists = a.exists /\ w.roles = a.roles /\ w.mfa = a.mfa
      /\ w.secret = a.secret /\ w.failed = n
      BY <1>7, <1>8 DEF AccountRow
<1>10. account' = [account EXCEPT ![u] = w]
      BY <1>1, <1>3, <1>4, <1>5, <1>6, <1>8 DEF LogIn, AuthBase, AuthTypes
<1>11. PICK t \in Token : t = NewToken /\ session[t].state = "none"
      <2>1. Unissued # {}
            BY DEF LogIn
      <2>2. NewToken \in Unissued
            BY <2>1 DEF NewToken
      <2> QED BY <2>2 DEF Unissued
<1>12. PICK s : s = [state |-> "live", user |-> u, login |-> t]
      OBVIOUS
<1>13. s \in SessionRow /\ s.state = "live" /\ s.login = t
      BY <1>12 DEF SessionRow
<1>14. session' = [session EXCEPT ![t] = s]
      BY <1>1, <1>3, <1>11, <1>12 DEF LogIn
<1> QED BY <1>1, <1>3, <1>4, <1>5, <1>9, <1>10, <1>11, <1>13, <1>14

(* A rotation replaces the token it has read by a new one. *)
LEMMA RotationEffect ==
    ASSUME AuthBase, NEW q \in AuthRequest, CommitRotation(q), session[authReq[q].token].state # "none"
    PROVE  \E t \in Token, o \in Token, d \in SessionRow, s \in SessionRow :
             /\ o = authReq[q].token /\ t # o /\ session[t].state = "none"
             /\ d.state = "revoked" /\ d.login = session[o].login
             /\ s.state = "live" /\ s.login = session[o].login
             /\ \A x \in Token : session'[x] = IF x = t THEN s ELSE IF x = o THEN d ELSE session[x]
             /\ session' \in [Token -> SessionRow]
<1>1. PICK o \in Token : o = authReq[q].token
      <2>1. authReq[q].op = "rotate"
            BY DEF CommitRotation
      <2>2. Request(authReq[q])
            BY DEF AuthBase, AuthTypes
      <2>3. authReq[q].token \in Token
            BY <2>1, <2>2 DEF Request
      <2> QED BY <2>3
<1>2. PICK t \in Token : t = NewToken /\ session[t].state = "none"
      <2>1. Unissued # {}
            BY DEF CommitRotation
      <2>2. NewToken \in Unissued
            BY <2>1 DEF NewToken
      <2> QED BY <2>2 DEF Unissued
<1>3. PICK b \in SessionRow : b = session[o]
      BY DEF AuthBase, AuthTypes
<1>4. PICK d : d = [b EXCEPT !.state = "revoked"]
      OBVIOUS
<1>5. PICK s : s = [b EXCEPT !.state = "live"]
      OBVIOUS
<1>6. /\ d \in SessionRow /\ d.state = "revoked" /\ d.login = b.login
      /\ s \in SessionRow /\ s.state = "live" /\ s.login = b.login
      BY <1>4, <1>5 DEF SessionRow
<1>7. t # o
      BY <1>1, <1>2
<1>8. session' = [[session EXCEPT ![o] = d] EXCEPT ![t] = s]
      BY <1>1, <1>2, <1>3, <1>4, <1>5 DEF CommitRotation, AuthBase, AuthTypes
<1>9. session' \in [Token -> SessionRow]
      BY <1>6, <1>8 DEF AuthBase, AuthTypes
<1>10. \A x \in Token : session'[x] = IF x = t THEN s ELSE IF x = o THEN d ELSE session[x]
      BY <1>7, <1>8 DEF AuthBase, AuthTypes
<1> QED BY <1>1, <1>2, <1>3, <1>6, <1>7, <1>9, <1>10

(* A session is revoked or expires. *)
LEMMA SessionEnds ==
    ASSUME AuthBase, NEW t \in Token, NEW k \in {"revoked", "expired"},
           session' = [session EXCEPT ![t].state = k]
    PROVE  \E d \in SessionRow : /\ d.state = k /\ d.login = session[t].login
                                 /\ session' = [session EXCEPT ![t] = d]
<1>1. PICK b \in SessionRow : b = session[t]
      BY DEF AuthBase, AuthTypes
<1>2. PICK d : d = [b EXCEPT !.state = k]
      OBVIOUS
<1>3. d \in SessionRow /\ d.state = k /\ d.login = b.login
      BY <1>2 DEF SessionRow
<1>4. session' = [session EXCEPT ![t] = d]
      BY <1>1, <1>2 DEF AuthBase, AuthTypes
<1> QED BY <1>1, <1>3, <1>4

(* Enrolment and confirmation of MFA. *)
LEMMA MfaEffect ==
    ASSUME AuthBase, NEW q \in AuthRequest, enroll_mfa(q) \/ confirm_mfa(q)
    PROVE  \E w \in AccountRow :
             /\ account' = [account EXCEPT ![authReq[q].user] = w]
             /\ w.exists = account[authReq[q].user].exists /\ w.roles = account[authReq[q].user].roles
             /\ w.failed = account[authReq[q].user].failed
             /\ \/ /\ enroll_mfa(q)
                   /\ w.mfa = IF authReq[q].row.mfa THEN FALSE ELSE account[authReq[q].user].mfa
                \/ confirm_mfa(q) /\ w.secret = account[authReq[q].user].secret
<1>1. PICK r : r = authReq[q]
      OBVIOUS
<1>2. r.user \in User /\ r.row \in AccountRow
      <2>1. r.op \in {"enroll", "confirm"}
            BY <1>1 DEF enroll_mfa, confirm_mfa
      <2>2. Request(r)
            BY <1>1 DEF AuthBase, AuthTypes
      <2> QED BY <2>1, <2>2 DEF Request
<1>3. PICK u \in User : u = r.user
      BY <1>2
<1>4. PICK a \in AccountRow : a = account[u]
      BY DEF AuthBase, AuthTypes
<1>5. CASE enroll_mfa(q)
      <2>1. PICK n \in Nat : n = a.secret + 1
            BY RowFields
      <2>2. PICK b : b = IF r.row.mfa THEN FALSE ELSE a.mfa
            OBVIOUS
      <2>3. b \in BOOLEAN
            BY <2>2, RowFields
      <2>4. PICK w : w = [a EXCEPT !.secret = n, !.mfa = b]
            OBVIOUS
      <2>5. /\ w \in AccountRow /\ w.exists = a.exists /\ w.roles = a.roles /\ w.failed = a.failed
            /\ w.mfa = b
            BY <2>3, <2>4 DEF AccountRow
      <2>6. account' = [account EXCEPT ![u] = w]
            BY <1>1, <1>3, <1>4, <1>5, <2>1, <2>2, <2>4 DEF enroll_mfa, AuthBase, AuthTypes
      <2> QED BY <1>1, <1>3, <1>4, <1>5, <2>2, <2>5, <2>6
<1>6. CASE confirm_mfa(q)
      <2>2. PICK b : b = IF ~r.row.mfa THEN TRUE ELSE a.mfa
            OBVIOUS
      <2>3. b \in BOOLEAN
            BY <2>2, RowFields
      <2>4. PICK w : w = [a EXCEPT !.mfa = b]
            OBVIOUS
      <2>5. /\ w \in AccountRow /\ w.exists = a.exists /\ w.roles = a.roles /\ w.failed = a.failed
            /\ w.secret = a.secret
            BY <2>3, <2>4 DEF AccountRow
      <2>6. account' = [account EXCEPT ![u] = w]
            BY <1>1, <1>3, <1>4, <1>6, <2>2, <2>4 DEF confirm_mfa, AuthBase, AuthTypes
      <2> QED BY <1>1, <1>3, <1>4, <1>6, <2>5, <2>6
<1> QED BY <1>5, <1>6

-----------------------------------------------------------------------------
(* How the requests that begin do so. *)
LEMMA BeginEffect ==
    ASSUME AuthBase, NEW q \in AuthRequest,
           \/ \E actor, u \in User, r \in Role \cup {Null}, a \in BOOLEAN \cup {Null} :
                update_user(q, actor, u, r, a)
           \/ \E u \in User, p \in {"right", "wrong"}, c \in {"right", "wrong", Null} :
                authenticate(q, u, p, c)
           \/ \E t \in Token : rotate_refresh_token(q, t)
           \/ \E u \in User, op \in {"enroll", "confirm"} : LoadForMfa(q, u, op)
    PROVE  /\ UNCHANGED <<account, session, streak, proven, ended>>
           /\ \E r : /\ Opens(q, r) /\ Request(r)
                     /\ \/ /\ r.op \in OnAccount /\ account[r.user].exists /\ r.row = account[r.user]
                        \/ /\ r.op = "rotate" /\ session[r.token].state = "live"
                           /\ r.on = <<"session", session[r.token].login>>
<1>1. \A u \in User : account[u] \in AccountRow
      BY DEF AuthBase, AuthTypes
<1>2. CASE \E actor, u \in User, r \in Role \cup {Null}, a \in BOOLEAN \cup {Null} :
             update_user(q, actor, u, r, a)
      <2>1. PICK actor \in User, u \in User, role \in Role \cup {Null}, act \in BOOLEAN \cup {Null} :
              update_user(q, actor, u, role, act)
            BY <1>2
      <2>2. PICK r : r = [op |-> "user", on |-> <<"roles", u>>, user |-> u, role |-> role,
                          active |-> act, row |-> account[u]]
            OBVIOUS
      <2>3. /\ r.op = "user" /\ r.on = <<"roles", u>> /\ r.user = u /\ r.role = role
            /\ r.active = act /\ r.row = account[u]
            BY <2>2
      <2>4. Request(r)
            BY <1>1, <2>3 DEF Request
      <2>5. Opens(q, r)
            BY <2>1, <2>2, <2>3 DEF update_user, AuthBegins, Opens
      <2>6. account[u].exists
            BY <2>1 DEF update_user
      <2>7. UNCHANGED <<account, session, streak, proven, ended>>
            BY <2>1 DEF update_user
      <2> QED BY <2>3, <2>4, <2>5, <2>6, <2>7 DEF OnAccount
<1>3. CASE \E u \in User, p \in {"right", "wrong"}, c \in {"right", "wrong", Null} :
             authenticate(q, u, p, c)
      <2>1. PICK u \in User, p \in {"right", "wrong"}, c \in {"right", "wrong", Null} :
              authenticate(q, u, p, c)
            BY <1>3
      <2>2. PICK r : r = [op |-> "login", on |-> <<"login", u>>, user |-> u, row |-> account[u],
                          outcome |-> IF p = "wrong" THEN "wrong_password"
                                      ELSE IF account[u].mfa /\ c = "wrong" THEN "wrong_code"
                                      ELSE "success"]
            OBVIOUS
      <2>3. r.op = "login" /\ r.on = <<"login", u>> /\ r.user = u /\ r.row = account[u]
            BY <2>2
      <2>4. Request(r)
            BY <1>1, <2>3 DEF Request
      <2>5. Opens(q, r)
            BY <2>1, <2>2, <2>3 DEF authenticate, AuthBegins, Opens
      <2>6. account[u].exists
            BY <2>1 DEF authenticate
      <2>7. UNCHANGED <<account, session, streak, proven, ended>>
            BY <2>1 DEF authenticate
      <2> QED BY <2>3, <2>4, <2>5, <2>6, <2>7 DEF OnAccount
<1>4. CASE \E t \in Token : rotate_refresh_token(q, t)
      <2>1. PICK t \in Token : rotate_refresh_token(q, t)
            BY <1>4
      <2>2. PICK r : r = [op |-> "rotate", on |-> <<"session", session[t].login>>, token |-> t]
            OBVIOUS
      <2>3. r.op = "rotate" /\ r.on = <<"session", session[t].login>> /\ r.token = t
            BY <2>2
      <2>4. Request(r)
            BY <2>3 DEF Request
      <2>5. Opens(q, r)
            BY <2>1, <2>2, <2>3 DEF rotate_refresh_token, AuthBegins, Opens
      <2>6. session[t].state = "live"
            BY <2>1 DEF rotate_refresh_token
      <2>7. UNCHANGED <<account, session, streak, proven, ended>>
            BY <2>1 DEF rotate_refresh_token
      <2> QED BY <2>3, <2>4, <2>5, <2>6, <2>7
<1>5. CASE \E u \in User, op \in {"enroll", "confirm"} : LoadForMfa(q, u, op)
      <2>1. PICK u \in User, op \in {"enroll", "confirm"} : LoadForMfa(q, u, op)
            BY <1>5
      <2>2. PICK r : r = [op |-> op, on |-> <<"mfa", u>>, user |-> u, row |-> account[u]]
            OBVIOUS
      <2>3. r.op = op /\ r.on = <<"mfa", u>> /\ r.user = u /\ r.row = account[u]
            BY <2>2
      <2>4. Request(r)
            BY <1>1, <2>3 DEF Request
      <2>5. Opens(q, r)
            BY <2>1, <2>2, <2>3 DEF LoadForMfa, AuthBegins, Opens
      <2>6. account[u].exists
            BY <2>1 DEF LoadForMfa, get_auth_context
      <2>7. UNCHANGED <<account, session, streak, proven, ended>>
            BY <2>1 DEF LoadForMfa
      <2> QED BY <2>3, <2>4, <2>5, <2>6, <2>7 DEF OnAccount
<1> QED BY <1>2, <1>3, <1>4, <1>5

(* An account is opened, where there is none. *)
LEMMA NewAccountEffect ==
    ASSUME AuthBase,
           \/ \E u \in User : RegisterAdmin(u)
           \/ \E actor, u \in User, r \in Role : create_user(actor, u, r)
    PROVE  /\ UNCHANGED <<session, authReq, streak, proven, ended, raced>>
           /\ \E u \in User, role \in Role :
                account' = [account EXCEPT ![u] = NewAccount(role)] /\ ~account[u].exists
<1>1. CASE \E u \in User : RegisterAdmin(u)
      BY <1>1, IdentityConstants DEF RegisterAdmin
<1>2. CASE \E actor, u \in User, r \in Role : create_user(actor, u, r)
      BY <1>2 DEF create_user, AuthAtOnce
<1> QED BY <1>1, <1>2

(* A lock runs out. *)
LEMMA LockEffect ==
    ASSUME AuthBase, NEW u \in User, LockElapses(u)
    PROVE  /\ UNCHANGED <<session, authReq, streak, proven, ended, raced>>
           /\ \E w \in AccountRow :
                /\ account' = [account EXCEPT ![u] = w]
                /\ w.exists = account[u].exists /\ w.roles = account[u].roles
                /\ w.failed = account[u].failed /\ w.mfa = account[u].mfa /\ w.secret = account[u].secret
<1>1. PICK a \in AccountRow : a = account[u]
      BY DEF AuthBase, AuthTypes
<1>2. PICK w : w = [a EXCEPT !.lock = "elapsed"]
      OBVIOUS
<1>3. /\ w \in AccountRow /\ w.exists = a.exists /\ w.roles = a.roles /\ w.failed = a.failed
      /\ w.mfa = a.mfa /\ w.secret = a.secret
      BY <1>2 DEF AccountRow
<1>4. account' = [account EXCEPT ![u] = w]
      BY <1>1, <1>2 DEF LockElapses, AuthBase, AuthTypes
<1> QED BY <1>1, <1>3, <1>4 DEF LockElapses

(* The user of a request on an account. *)
LEMMA UserOf ==
    ASSUME AuthBase, NEW q \in AuthRequest, authReq[q].op \in OnAccount
    PROVE  authReq[q].user \in User /\ authReq[q].row \in AccountRow
<1>1. Request(authReq[q])
      BY DEF AuthBase, AuthTypes
<1> QED BY <1>1 DEF Request, OnAccount

(* Every step keeps the types, and records requests that overlap. *)
LEMMA AuthBaseStep ==
    ASSUME AuthBase, [IdentityNext]_authVars
    PROVE  AuthBase'
<1> DEFINE Requests == /\ (authReq = [p \in AuthRequest |-> authReq[p]])'
                       /\ \A p \in AuthRequest : Request(authReq'[p])
                       /\ OverlapsAreRaced'
           Tables == /\ account' \in [User -> AccountRow]
                     /\ session' \in [Token -> SessionRow]
                     /\ streak' \in [User -> Nat] /\ proven' \in [User -> Nat]
<1>1. Requests /\ Tables => AuthBase'
      BY DEF AuthBase, AuthTypes
<1>2. /\ account \in [User -> AccountRow]
      /\ session \in [Token -> SessionRow]
      /\ streak \in [User -> Nat] /\ proven \in [User -> Nat]
      BY DEF AuthBase, AuthTypes
<1> HIDE DEF Requests, Tables
<1>3. UNCHANGED authReq /\ raced \subseteq raced' => Requests
      BY NeitherKeeps DEF Requests
<1>4. ASSUME NEW q \in AuthRequest, AuthEnds(q), UNCHANGED raced PROVE Requests
      BY <1>4, ClosesKeeps DEF Requests, Closes, AuthEnds
<1>5. UNCHANGED <<account, session, streak, proven>> => Tables
      BY <1>2 DEF Tables
<1>6. CASE RegisterOrganization \/ NextWindow \/ UNCHANGED authVars
      <2>1. UNCHANGED <<authReq, raced>> /\ UNCHANGED <<account, session, streak, proven>>
            BY <1>6 DEF RegisterOrganization, NextWindow, authVars, AuthAtOnce
      <2> QED BY <1>1, <1>3, <1>5, <2>1
<1>7. CASE \/ \E u \in User : RegisterAdmin(u)
           \/ \E actor, u \in User, r \in Role : create_user(actor, u, r)
      <2>1. UNCHANGED <<session, authReq, streak, proven, ended, raced>>
            BY <1>7, NewAccountEffect
      <2>2. PICK u \in User, role \in Role : account' = [account EXCEPT ![u] = NewAccount(role)]
            BY <1>7, NewAccountEffect
      <2>3. PICK w \in AccountRow : w = NewAccount(role)
            BY NewAccountFields
      <2>4. account' \in [User -> AccountRow]
            BY <1>2, <2>2, <2>3
      <2>5. Tables
            BY <1>2, <2>1, <2>4 DEF Tables
      <2> QED BY <1>1, <1>3, <2>1, <2>5
<1>8. ASSUME NEW u \in User, LockElapses(u) PROVE AuthBase'
      <2>1. UNCHANGED <<session, authReq, streak, proven, ended, raced>>
            BY <1>8, LockEffect
      <2>2. PICK w \in AccountRow : account' = [account EXCEPT ![u] = w]
            BY <1>8, LockEffect
      <2>3. Tables
            BY <1>2, <2>1, <2>2 DEF Tables
      <2> QED BY <1>1, <1>3, <2>1, <2>3
<1>9. ASSUME NEW t \in Token, revoke_session(t) \/ SessionExpires(t) PROVE AuthBase'
      <2>1. UNCHANGED <<account, authReq, streak, proven>> /\ raced \subseteq raced'
            BY <1>9 DEF revoke_session, SessionExpires, AuthAtOnce
      <2>2. PICK k \in {"revoked", "expired"} : session' = [session EXCEPT ![t].state = k]
            BY <1>9 DEF revoke_session, SessionExpires
      <2>3. PICK d \in SessionRow : session' = [session EXCEPT ![t] = d]
            BY <2>2, SessionEnds
      <2>4. Tables
            BY <1>2, <2>1, <2>3 DEF Tables
      <2> QED BY <1>1, <1>3, <2>1, <2>4
<1>10. ASSUME NEW q \in AuthRequest,
           \/ \E actor, u \in User, r \in Role \cup {Null}, a \in BOOLEAN \cup {Null} :
                update_user(q, actor, u, r, a)
           \/ \E u \in User, p \in {"right", "wrong"}, c \in {"right", "wrong", Null} :
                authenticate(q, u, p, c)
           \/ \E t \in Token : rotate_refresh_token(q, t)
           \/ \E u \in User, op \in {"enroll", "confirm"} : LoadForMfa(q, u, op)
       PROVE AuthBase'
      <2>1. UNCHANGED <<account, session, streak, proven, ended>>
            BY <1>10, BeginEffect
      <2>2. PICK r : Opens(q, r) /\ Request(r)
            BY <1>10, BeginEffect
      <2>3. Requests
            BY <2>2, OpensKeeps DEF Requests
      <2> QED BY <1>1, <1>5, <2>1, <2>3
<1>11. ASSUME NEW q \in AuthRequest, CommitUser(q) PROVE AuthBase'
      <2>1. AuthEnds(q) /\ UNCHANGED <<raced, session, streak, proven>> /\ authReq[q].op \in OnAccount
            BY <1>11 DEF CommitUser, OnAccount
      <2>2. PICK w \in AccountRow : account' = [account EXCEPT ![authReq[q].user] = w]
            BY <1>11, CommitUserEffect
      <2>3. Tables
            BY <1>2, <2>1, <2>2, UserOf DEF Tables
      <2> QED BY <1>1, <1>4, <2>1, <2>3
<1>12. ASSUME NEW q \in AuthRequest, FailLogin(q) PROVE AuthBase'
      <2>1. AuthEnds(q) /\ UNCHANGED <<raced, session, proven>> /\ authReq[q].op \in OnAccount
            BY <1>12 DEF FailLogin, OnAccount
      <2>2. CASE UNCHANGED <<account, streak>>
            BY <1>1, <1>4, <1>5, <2>1, <2>2
      <2>3. CASE authReq[q].outcome = "wrong_password"
                 /\ streak' = [streak EXCEPT ![authReq[q].user] = IF @ + 1 = MaxFailed THEN 0 ELSE @ + 1]
            <3>1. PICK w \in AccountRow : account' = [account EXCEPT ![authReq[q].user] = w]
                  BY <1>12, <2>3, FailLoginEffect
            <3>2. PICK n \in Nat : n = streak[authReq[q].user]
                  BY <1>2, <2>1, UserOf
            <3>3. PICK m \in Nat : m = IF n + 1 = MaxFailed THEN 0 ELSE n + 1
                  OBVIOUS
            <3>4. streak' = [streak EXCEPT ![authReq[q].user] = m]
                  BY <2>3, <3>2, <3>3
            <3>5. Tables
                  BY <1>2, <2>1, <3>1, <3>4, UserOf DEF Tables
            <3> QED BY <1>1, <1>4, <2>1, <3>5
      <2> QED BY <1>12, <2>2, <2>3 DEF FailLogin
<1>13. ASSUME NEW q \in AuthRequest, LogIn(q) PROVE AuthBase'
      <2>1. AuthEnds(q) /\ UNCHANGED <<raced, proven>> /\ authReq[q].op \in OnAccount
            /\ streak' = [streak EXCEPT ![authReq[q].user] = 0]
            BY <1>13 DEF LogIn, OnAccount
      <2>2. PICK w \in AccountRow : account' = [account EXCEPT ![authReq[q].user] = w]
            BY <1>13, LogInEffect
      <2>3. PICK t \in Token, s \in SessionRow : session' = [session EXCEPT ![t] = s]
            BY <1>13, LogInEffect
      <2>4. Tables
            BY <1>2, <2>1, <2>2, <2>3, UserOf DEF Tables
      <2> QED BY <1>1, <1>4, <2>1, <2>4
<1>14. ASSUME NEW q \in AuthRequest, CommitRotation(q) PROVE AuthBase'
      <2>1. AuthEnds(q) /\ UNCHANGED <<raced, account, streak, proven>> /\ authReq[q].op = "rotate"
            BY <1>14 DEF CommitRotation
      <2>2. session' \in [Token -> SessionRow]
            <3>1. PICK o \in Token : o = authReq[q].token
                  <4>1. Request(authReq[q])
                        BY DEF AuthBase, AuthTypes
                  <4> QED BY <2>1, <4>1 DEF Request
            <3>2. PICK t \in Token : t = NewToken
                  <4>1. Unissued # {} /\ Unissued \subseteq Token
                        BY <1>14 DEF CommitRotation, Unissued
                  <4> QED BY <4>1 DEF NewToken
            <3>3. PICK b \in SessionRow : b = session[o]
                  BY <1>2
            <3>4. PICK d, s : d = [b EXCEPT !.state = "revoked"] /\ s = [b EXCEPT !.state = "live"]
                  OBVIOUS
            <3>5. d \in SessionRow /\ s \in SessionRow
                  BY <3>4 DEF SessionRow
            <3>6. session' = [[session EXCEPT ![o] = d] EXCEPT ![t] = s]
                  BY <1>2, <1>14, <3>1, <3>2, <3>3, <3>4 DEF CommitRotation
            <3> QED BY <1>2, <3>5, <3>6
      <2>3. Tables
            BY <1>2, <2>1, <2>2 DEF Tables
      <2> QED BY <1>1, <1>4, <2>1, <2>3
<1>15. ASSUME NEW q \in AuthRequest, enroll_mfa(q) \/ confirm_mfa(q) PROVE AuthBase'
      <2>1. AuthEnds(q) /\ UNCHANGED <<raced, session, streak>> /\ authReq[q].op \in OnAccount
            BY <1>15 DEF enroll_mfa, confirm_mfa, OnAccount
      <2>2. PICK w \in AccountRow : account' = [account EXCEPT ![authReq[q].user] = w]
            BY <1>15, MfaEffect
      <2>3. proven' \in [User -> Nat]
            <3>1. authReq[q].row.secret \in Nat
                  BY <2>1, UserOf, RowFields
            <3> QED BY <1>2, <1>15, <3>1 DEF enroll_mfa, confirm_mfa
      <2>4. Tables
            BY <1>2, <2>1, <2>2, <2>3, UserOf DEF Tables
      <2> QED BY <1>1, <1>4, <2>1, <2>4
<1>16. ASSUME NEW q \in AuthRequest, RollbackAuth(q) PROVE AuthBase'
      <2>1. AuthEnds(q) /\ UNCHANGED <<account, session, streak, proven, raced>>
            BY <1>16 DEF RollbackAuth
      <2> QED BY <1>1, <1>4, <1>5, <2>1
<1> QED BY <1>6, <1>7, <1>8, <1>9, <1>10, <1>11, <1>12, <1>13, <1>14, <1>15, <1>16 DEF IdentityNext

-----------------------------------------------------------------------------
(* A step that begins no rotation leaves the sessions in order. *)
LEMMA SessionsStay ==
    ASSUME AuthBase, SessionInv, UNCHANGED <<session, ended>>, raced \subseteq raced',
           \A q \in AuthRequest : authReq'[q].op = "rotate" => authReq'[q] = authReq[q]
    PROVE  SessionInv'
<1>1. \A t, l : OpenOf(t, l)' <=> OpenOf(t, l)
      BY DEF OpenOf
<1>2. (\A t \in Token : session[t].state # "none" =>
         session[t].login \in Token /\ session[session[t].login].state # "none")'
      BY DEF SessionInv
<1>3. (\A l \in ended : l \in Token /\ session[l].state # "none")'
      BY DEF SessionInv
<1>4. (\A q \in AuthRequest : authReq[q].op = "rotate" =>
         /\ session[authReq[q].token].state # "none"
         /\ authReq[q].on = <<"session", session[authReq[q].token].login>>)'
      BY DEF SessionInv
<1>5. ASSUME NEW l \in Token, <<"session", l>> \notin raced'
      PROVE  /\ \A s, t \in Token : OpenOf(s, l)' /\ OpenOf(t, l)' => s = t
             /\ l \in ended' => \A t \in Token : ~OpenOf(t, l)'
             /\ \A q \in AuthRequest : authReq'[q].op = "rotate" /\ session'[authReq'[q].token].login = l =>
                  l \notin ended' /\ \A t \in Token : OpenOf(t, l)' => t = authReq'[q].token
      <2>1. <<"session", l>> \notin raced
            BY <1>5
      <2> QED BY <1>1, <2>1 DEF SessionInv
<1> QED BY <1>2, <1>3, <1>4, <1>5 DEF SessionInv

(* Requests on the same login are on record. *)
LEMMA SameLogin ==
    ASSUME AuthBase, SessionInv, NEW p \in AuthRequest, NEW q \in AuthRequest, p # q,
           authReq[p].op = "rotate", authReq[q].op = "rotate",
           session[authReq[p].token].login = session[authReq[q].token].login
    PROVE  <<"session", session[authReq[q].token].login>> \in raced
<1>1. /\ authReq[p].on = <<"session", session[authReq[p].token].login>>
      /\ authReq[q].on = <<"session", session[authReq[q].token].login>>
      BY DEF SessionInv
<1> QED BY <1>1 DEF AuthBase, OverlapsAreRaced

(* Rotation, logout and expiry leave at most one usable token of a login   *)
(* that was not raced for.                                                 *)
LEMMA SessionStep ==
    ASSUME AuthBase, SessionInv, [IdentityNext]_authVars
    PROVE  SessionInv'
<1>1. session \in [Token -> SessionRow]
      BY DEF AuthBase, AuthTypes
<1>2. ASSUME NEW q \in AuthRequest, AuthEnds(q)
      PROVE  \A p \in AuthRequest : authReq'[p].op # "idle" => p # q /\ authReq'[p] = authReq[p]
      <2>1. PICK r : r = NoAuthReq
            OBVIOUS
      <2>2. r.op = "idle"
            BY <2>1 DEF NoAuthReq
      <2>3. authReq' = [authReq EXCEPT ![q] = r]
            BY <1>2, <2>1 DEF AuthEnds
      <2>4. authReq'[q] = r /\ \A p \in AuthRequest : p # q => authReq'[p] = authReq[p]
            BY <2>3, RequestsAfter
      <2> QED BY <2>2, <2>4
<1>3. \A q \in AuthRequest : authReq[q].op = "rotate" => authReq[q].token \in Token
      BY DEF AuthBase, AuthTypes, Request
<1>4. CASE \/ RegisterOrganization \/ NextWindow \/ UNCHANGED authVars
           \/ \E u \in User : RegisterAdmin(u) \/ LockElapses(u)
           \/ \E actor, u \in User, r \in Role : create_user(actor, u, r)
      <2>1. UNCHANGED <<session, ended, authReq, raced>>
            BY <1>4 DEF RegisterOrganization, NextWindow, authVars, AuthAtOnce, RegisterAdmin, LockElapses,
                        create_user
      <2> QED BY <2>1, SessionsStay
<1>5. ASSUME NEW q \in AuthRequest,
             CommitUser(q) \/ FailLogin(q) \/ enroll_mfa(q) \/ confirm_mfa(q) \/ RollbackAuth(q)
      PROVE  SessionInv'
      <2>1. UNCHANGED <<session, ended, raced>> /\ AuthEnds(q)
            BY <1>5 DEF CommitUser, FailLogin, enroll_mfa, confirm_mfa, RollbackAuth
      <2>2. \A p \in AuthRequest : authReq'[p].op = "rotate" => authReq'[p] = authReq[p]
            BY <1>2, <2>1
      <2> QED BY <2>1, <2>2, SessionsStay
<1>6. ASSUME NEW q \in AuthRequest,
           \/ \E actor, u \in User, r \in Role \cup {Null}, a \in BOOLEAN \cup {Null} :
                update_user(q, actor, u, r, a)
           \/ \E u \in User, p \in {"right", "wrong"}, c \in {"right", "wrong", Null} :
                authenticate(q, u, p, c)
           \/ \E t \in Token : rotate_refresh_token(q, t)
           \/ \E u \in User, op \in {"enroll", "confirm"} : LoadForMfa(q, u, op)
      PROVE  SessionInv'
      <2>1. UNCHANGED <<account, session, streak, proven, ended>>
            BY <1>6, BeginEffect
      <2>2. PICK r : /\ Opens(q, r) /\ Request(r)
                     /\ \/ r.op \in OnAccount
                        \/ /\ r.op = "rotate" /\ session[r.token].state = "live"
                           /\ r.on = <<"session", session[r.token].login>>
            BY <1>6, BeginEffect
      <2>3. /\ authReq'[q] = r
            /\ \A p \in AuthRequest : p # q => authReq'[p] = authReq[p]
            BY <2>2, RequestsAfter DEF Opens
      <2>4. raced \subseteq raced'
            BY <2>2 DEF Opens
      <2>5. CASE r.op \in OnAccount
            <3>1. r.op # "rotate"
                  BY <2>5 DEF OnAccount
            <3>2. \A p \in AuthRequest : authReq'[p].op = "rotate" => authReq'[p] = authReq[p]
                  BY <2>3, <3>1
            <3> QED BY <2>1, <2>4, <3>2, SessionsStay
      <2>6. CASE /\ r.op = "rotate" /\ session[r.token].state = "live"
                 /\ r.on = <<"session", session[r.token].login>>
            <3>1. PICK o \in Token : o = r.token
                  BY <2>2, <2>6 DEF Request
            <3>2. (\A t \in Token : session[t].state # "none" =>
                     session[t].login \in Token /\ session[session[t].login].state # "none")'
                  BY <2>1 DEF SessionInv
            <3>3. (\A l \in ended : l \in Token /\ session[l].state # "none")'
                  BY <2>1 DEF SessionInv
            <3>4. ASSUME NEW p \in AuthRequest, authReq'[p].op = "rotate"
                  PROVE  /\ session[authReq'[p].token].state # "none"
                         /\ authReq'[p].on = <<"session", session[authReq'[p].token].login>>
                  <4>1. CASE p = q
                        BY <2>3, <2>6, <4>1
                  <4>2. CASE p # q
                        BY <2>3, <3>4, <4>2 DEF SessionInv
                  <4> QED BY <4>1, <4>2
            <3>5. \A t, l : OpenOf(t, l)' <=> OpenOf(t, l)
                  BY <2>1 DEF OpenOf
            <3>6. ASSUME NEW l \in Token, <<"session", l>> \notin raced'
                  PROVE  /\ \A s, t \in Token : OpenOf(s, l)' /\ OpenOf(t, l)' => s = t
                         /\ l \in ended' => \A t \in Token : ~OpenOf(t, l)'
                         /\ \A p \in AuthRequest : authReq'[p].op = "rotate" /\ session'[authReq'[p].token].login = l =>
                              l \notin ended' /\ \A t \in Token : OpenOf(t, l)' => t = authReq'[p].token
                  <4>1. <<"session", l>> \notin raced
                        BY <2>4, <3>6
                  <4>2. /\ \A s, t \in Token : OpenOf(s, l) /\ OpenOf(t, l) => s = t
                        /\ l \in ended => \A t \in Token : ~OpenOf(t, l)
                        BY <4>1 DEF SessionInv
                  <4>3. ASSUME NEW p \in AuthRequest, authReq'[p].op = "rotate", session[authReq'[p].token].login = l
                        PROVE  l \notin ended /\ \A t \in Token : OpenOf(t, l) => t = authReq'[p].token
                        <5>1. CASE p = q
                              <6>1. OpenOf(o, l)
                                    BY <2>3, <2>6, <3>1, <4>3, <5>1 DEF OpenOf
                              <6> QED BY <2>3, <3>1, <4>2, <5>1, <6>1
                        <5>2. CASE p # q
                              BY <2>3, <4>1, <4>3, <5>2 DEF SessionInv
                        <5> QED BY <5>1, <5>2
                  <4> QED BY <2>1, <3>5, <4>2, <4>3
            <3>7. (\A p \in AuthRequest : authReq[p].op = "rotate" =>
                     /\ session[authReq[p].token].state # "none"
                     /\ authReq[p].on = <<"session", session[authReq[p].token].login>>)'
                  BY <2>1, <3>4
            <3> QED BY <3>2, <3>3, <3>6, <3>7 DEF SessionInv
      <2> QED BY <2>2, <2>5, <2>6
<1>7. ASSUME NEW q \in AuthRequest, LogIn(q) PROVE SessionInv'
      <2>1. UNCHANGED <<ended, raced>> /\ AuthEnds(q)
            BY <1>7 DEF LogIn
      <2>2. PICK n \in Token, s \in SessionRow :
                /\ session[n].state = "none" /\ s.state = "live" /\ s.login = n
                /\ session' = [session EXCEPT ![n] = s]
            BY <1>7, LogInEffect
      <2>3. \A t \in Token : session'[t] = IF t = n THEN s ELSE session[t]
            BY <1>1, <2>2
      <2>4. \A p \in AuthRequest : authReq'[p].op = "rotate" =>
                /\ authReq'[p] = authReq[p] /\ authReq[p].token \in Token /\ authReq[p].token # n
                /\ session'[authReq[p].token] = session[authReq[p].token]
                /\ session[authReq[p].token].login # n
            <3>1. ASSUME NEW p \in AuthRequest, authReq'[p].op = "rotate"
                  PROVE  authReq'[p] = authReq[p] /\ authReq[p].token \in Token
                         /\ session[authReq[p].token].state # "none"
                  BY <1>2, <1>3, <2>1, <3>1 DEF SessionInv
            <3>2. \A t \in Token : session[t].state # "none" => t # n /\ session[t].login # n
                  BY <2>2 DEF SessionInv
            <3> QED BY <2>3, <3>1, <3>2
      <2>5. (\A t \in Token : session[t].state # "none" =>
               session[t].login \in Token /\ session[session[t].login].state # "none")'
            <3>1. ASSUME NEW t \in Token, session'[t].state # "none"
                  PROVE  session'[t].login \in Token /\ session'[session'[t].login].state # "none"
                  <4>1. CASE t = n
                        BY <2>2, <2>3, <4>1
                  <4>2. CASE t # n
                        <5>1. session'[t] = session[t] /\ session[t].login \in Token
                              /\ session[session[t].login].state # "none"
                              BY <2>3, <3>1, <4>2 DEF SessionInv
                        <5> QED BY <2>2, <2>3, <5>1
                  <4> QED BY <4>1, <4>2
            <3> QED BY <3>1
      <2>6. (\A l \in ended : l \in Token /\ session[l].state # "none")'
            BY <2>1, <2>2, <2>3 DEF SessionInv
      <2>7. (\A p \in AuthRequest : authReq[p].op = "rotate" =>
               /\ session[authReq[p].token].state # "none"
               /\ authReq[p].on = <<"session", session[authReq[p].token].login>>)'
            BY <2>4 DEF SessionInv
      <2>8. \A t \in Token, l \in Token : OpenOf(t, l)' <=> (IF t = n THEN l = n ELSE OpenOf(t, l))
            BY <2>2, <2>3 DEF OpenOf
      <2>9. \A t \in Token : ~OpenOf(t, n)
            BY <2>2 DEF OpenOf, SessionInv
      <2>10. ASSUME NEW l \in Token, <<"session", l>> \notin raced'
            PROVE  /\ \A x, t \in Token : OpenOf(x, l)' /\ OpenOf(t, l)' => x = t
                   /\ l \in ended' => \A t \in Token : ~OpenOf(t, l)'
                   /\ \A p \in AuthRequest : authReq'[p].op = "rotate" /\ session'[authReq'[p].token].login = l =>
                        l \notin ended' /\ \A t \in Token : OpenOf(t, l)' => t = authReq'[p].token
            <3>1. CASE l = n
                  <4>1. n \notin ended
                        BY <2>2 DEF SessionInv
                  <4> QED BY <2>1, <2>4, <2>8, <2>9, <3>1, <4>1
            <3>2. CASE l # n
                  <4>1. \A t \in Token : OpenOf(t, l)' => OpenOf(t, l)
                        BY <2>8, <3>2
                  <4> QED BY <2>1, <2>4, <2>10, <4>1 DEF SessionInv
            <3> QED BY <3>1, <3>2
      <2> QED BY <2>5, <2>6, <2>7, <2>10 DEF SessionInv
<1>8. ASSUME NEW q \in AuthRequest, CommitRotation(q) PROVE SessionInv'
      <2>1. UNCHANGED <<ended, raced>> /\ AuthEnds(q) /\ authReq[q].op = "rotate"
            BY <1>8 DEF CommitRotation
      <2>2. session[authReq[q].token].state # "none"
            BY <2>1 DEF SessionInv
      <2>3. PICK n \in Token, o \in Token, d \in SessionRow, s \in SessionRow :
             /\ o = authReq[q].token /\ n # o /\ session[n].state = "none"
             /\ d.state = "revoked" /\ d.login = session[o].login
             /\ s.state = "live" /\ s.login = session[o].login
             /\ \A x \in Token : session'[x] = IF x = n THEN s ELSE IF x = o THEN d ELSE session[x]
            BY <1>8, <2>2, RotationEffect
      <2>4. PICK k \in Token : k = session[o].login /\ session[k].state # "none"
            BY <2>2, <2>3 DEF SessionInv
      <2>5. \A t \in Token : session[t].state # "none" =>
                t # n /\ session'[t].state # "none" /\ session'[t].login = session[t].login
            BY <2>3
      <2>6. \A p \in AuthRequest : authReq'[p].op = "rotate" =>
                /\ p # q /\ authReq'[p] = authReq[p] /\ authReq[p].token \in Token
                /\ session[authReq[p].token].state # "none"
            BY <1>2, <1>3, <2>1 DEF SessionInv
      <2>7. (\A t \in Token : session[t].state # "none" =>
               session[t].login \in Token /\ session[session[t].login].state # "none")'
            <3>1. ASSUME NEW t \in Token, session'[t].state # "none"
                  PROVE  session'[t].login \in Token /\ session'[session'[t].login].state # "none"
                  <4>1. CASE t = n
                        BY <2>3, <2>4, <2>5, <4>1
                  <4>2. CASE t # n
                        <5>1. session[t].state # "none"
                              BY <2>2, <2>3, <3>1, <4>2
                        <5> QED BY <2>5, <5>1 DEF SessionInv
                  <4> QED BY <4>1, <4>2
            <3> QED BY <3>1
      <2>8. (\A l \in ended : l \in Token /\ session[l].state # "none")'
            BY <2>1, <2>5 DEF SessionInv
      <2>9. (\A p \in AuthRequest : authReq[p].op = "rotate" =>
               /\ session[authReq[p].token].state # "none"
               /\ authReq[p].on = <<"session", session[authReq[p].token].login>>)'
            BY <2>5, <2>6 DEF SessionInv
      <2>10. \A t \in Token, l \in Token : OpenOf(t, l)' => t # o /\ (IF t = n THEN l = k ELSE OpenOf(t, l))
            BY <2>3, <2>4 DEF OpenOf
      <2>11. ASSUME NEW l \in Token, <<"session", l>> \notin raced'
            PROVE  /\ \A x, t \in Token : OpenOf(x, l)' /\ OpenOf(t, l)' => x = t
                   /\ l \in ended' => \A t \in Token : ~OpenOf(t, l)'
                   /\ \A p \in AuthRequest : authReq'[p].op = "rotate" /\ session'[authReq'[p].token].login = l =>
                        l \notin ended' /\ \A t \in Token : OpenOf(t, l)' => t = authReq'[p].token
            <3>1. <<"session", l>> \notin raced
                  BY <2>1, <2>11
            <3>2. CASE l = k
                  <4>1. k \notin ended /\ \A t \in Token : OpenOf(t, k) => t = o
                        BY <2>1, <2>3, <2>4, <3>1, <3>2 DEF SessionInv
                  <4>2. \A t \in Token : OpenOf(t, k)' => t = n
                        BY <2>10, <4>1
                  <4>3. \A p \in AuthRequest : authReq'[p].op = "rotate" => session'[authReq'[p].token].login # k
                        <5>1. ASSUME NEW p \in AuthRequest, authReq'[p].op = "rotate",
                                     session'[authReq'[p].token].login = k
                              PROVE  FALSE
                              <6>1. /\ p # q /\ authReq[p].op = "rotate"
                                    /\ session[authReq[p].token].login = session[authReq[q].token].login
                                    BY <2>3, <2>4, <2>5, <2>6, <5>1
                              <6>2. <<"session", session[authReq[q].token].login>> \in raced
                                    BY <2>1, <6>1, SameLogin
                              <6> QED BY <2>3, <2>4, <3>1, <3>2, <6>2
                        <5> QED BY <5>1
                  <4> QED BY <2>1, <3>2, <4>1, <4>2, <4>3
            <3>3. CASE l # k
                  <4>1. \A t \in Token : OpenOf(t, l)' => OpenOf(t, l)
                        BY <2>10, <3>3
                  <4>2. \A p \in AuthRequest : authReq'[p].op = "rotate" /\ session'[authReq'[p].token].login = l =>
                            authReq[p].op = "rotate" /\ authReq'[p] = authReq[p] /\ session[authReq[p].token].login = l
                        BY <2>5, <2>6
                  <4> QED BY <2>1, <3>1, <4>1, <4>2 DEF SessionInv
            <3> QED BY <3>2, <3>3
      <2> QED BY <2>7, <2>8, <2>9, <2>11 DEF SessionInv
<1>9. ASSUME NEW x \in Token, revoke_session(x) \/ SessionExpires(x) PROVE SessionInv'
      <2>1. UNCHANGED authReq /\ raced \subseteq raced' /\ session[x].state # "none"
            BY <1>9 DEF revoke_session, SessionExpires, AuthAtOnce
      <2>2. PICK k \in {"revoked", "expired"} : session' = [session EXCEPT ![x].state = k]
            BY <1>9 DEF revoke_session, SessionExpires
      <2>3. PICK d \in SessionRow : /\ d.state = k /\ d.login = session[x].login
                                    /\ session' = [session EXCEPT ![x] = d]
            BY <2>2, SessionEnds
      <2>4. \A t \in Token : session'[t] = IF t = x THEN d ELSE session[t]
            BY <1>1, <2>3
      <2>5. \A t \in Token : /\ session'[t].login = session[t].login
                             /\ session'[t].state = "none" <=> session[t].state = "none"
            BY <2>1, <2>3, <2>4
      <2>6. \A t \in Token, l \in Token : OpenOf(t, l)' => OpenOf(t, l)
            BY <1>9, <2>3, <2>4 DEF OpenOf, revoke_session, SessionExpires
      <2>7. PICK j \in Token : j = session[x].login /\ session[j].state # "none"
            BY <2>1 DEF SessionInv
      <2>8. ended' = ended \/ (ended' = ended \cup {j} /\ revoke_session(x))
            BY <1>9, <2>7 DEF revoke_session, SessionExpires
      <2>9. (\A t \in Token : session[t].state # "none" =>
               session[t].login \in Token /\ session[session[t].login].state # "none")'
            BY <2>5 DEF SessionInv
      <2>10. (\A l \in ended : l \in Token /\ session[l].state # "none")'
            BY <2>5, <2>7, <2>8 DEF SessionInv
      <2>11. (\A p \in AuthRequest : authReq[p].op = "rotate" =>
               /\ session[authReq[p].token].state # "none"
               /\ authReq[p].on = <<"session", session[authReq[p].token].login>>)'
            BY <1>3, <2>1, <2>5 DEF SessionInv
      <2>12. ASSUME NEW l \in Token, <<"session", l>> \notin raced'
            PROVE  /\ \A y, t \in Token : OpenOf(y, l)' /\ OpenOf(t, l)' => y = t
                   /\ l \in ended' => \A t \in Token : ~OpenOf(t, l)'
                   /\ \A p \in AuthRequest : authReq'[p].op = "rotate" /\ session'[authReq'[p].token].login = l =>
                        l \notin ended' /\ \A t \in Token : OpenOf(t, l)' => t = authReq'[p].token
            <3>1. <<"session", l>> \notin raced
                  BY <2>1, <2>12
            <3>2. \A y, t \in Token : OpenOf(y, l)' /\ OpenOf(t, l)' => y = t
                  BY <2>6, <3>1 DEF SessionInv
            <3>3. ASSUME l = j, revoke_session(x)
                  PROVE  /\ \A t \in Token : ~OpenOf(t, l)'
                         /\ \A p \in AuthRequest : authReq[p].op = "rotate" => session[authReq[p].token].login # l
                  <4>1. ASSUME NEW p \in AuthRequest, authReq[p].op = "rotate", session[authReq[p].token].login = l
                        PROVE  FALSE
                        <5>1. authReq[p].on = <<"session", l>>
                              BY <4>1 DEF SessionInv
                        <5>2. <<"session", l>> \in Contends(<<"session", l>>)
                              BY <4>1, <5>1 DEF Contends
                        <5>3. raced' = raced \cup Contends(<<"session", l>>)
                              BY <2>7, <3>3 DEF revoke_session
                        <5> QED BY <2>12, <5>2, <5>3
                  <4>2. ASSUME NEW t \in Token, OpenOf(t, l)' PROVE FALSE
                        <5>1. OpenOf(t, l)
                              BY <2>6, <4>2
                        <5>2. OpenOf(x, l)
                              BY <2>7, <3>3 DEF OpenOf, revoke_session
                        <5>3. t = x
                              BY <3>1, <5>1, <5>2 DEF SessionInv
                        <5>4. session'[x].state = "revoked"
                              BY <1>1, <3>3 DEF revoke_session, SessionRow
                        <5> QED BY <4>2, <5>3, <5>4 DEF OpenOf
                  <4> QED BY <4>1, <4>2
            <3>4. l \in ended' => \A t \in Token : ~OpenOf(t, l)'
                  <4>1. l \in ended => \A t \in Token : ~OpenOf(t, l)
                        BY <3>1 DEF SessionInv
                  <4> QED BY <2>6, <2>8, <3>3, <4>1
            <3>5. ASSUME NEW p \in AuthRequest, authReq[p].op = "rotate", session[authReq[p].token].login = l
                  PROVE  l \notin ended' /\ \A t \in Token : OpenOf(t, l)' => t = authReq[p].token
                  <4>1. l \notin ended /\ \A t \in Token : OpenOf(t, l) => t = authReq[p].token
                        BY <3>1, <3>5 DEF SessionInv
                  <4> QED BY <2>6, <2>8, <3>3, <3>5, <4>1
            <3> QED BY <1>3, <2>1, <2>5, <3>2, <3>4, <3>5
      <2> QED BY <2>9, <2>10, <2>11, <2>12 DEF SessionInv
<1> QED BY <1>4, <1>5, <1>6, <1>7, <1>8, <1>9 DEF IdentityNext

-----------------------------------------------------------------------------
(* A step that touches none of the columns in question, and begins no      *)
(* request on an account.                                                  *)
LEMMA AccountsStay ==
    ASSUME AuthBase, AccountInv, UNCHANGED <<streak, proven>>, raced \subseteq raced',
           \A u \in User : /\ account'[u].exists = account[u].exists /\ account'[u].roles = account[u].roles
                           /\ account'[u].failed = account[u].failed /\ account'[u].mfa = account[u].mfa
                           /\ account'[u].secret = account[u].secret,
           \A q \in AuthRequest : authReq'[q].op \in OnAccount => authReq'[q] = authReq[q]
    PROVE  AccountInv'
<1>1. \A q \in AuthRequest : authReq[q].op \in OnAccount => authReq[q].user \in User
      BY UserOf
<1>2. (\A u \in User : streak[u] < MaxFailed /\ (~account[u].exists => streak[u] = 0))'
      BY DEF AccountInv
<1>3. (\A q \in AuthRequest : authReq[q].op \in OnAccount => account[authReq[q].user].exists)'
      BY <1>1 DEF AccountInv
<1>4. FailuresAreCountedAlone'
      BY DEF AccountInv, AccountsAreCoherentAlone, FailuresAreCountedAlone
<1>5. OneRoleAlone'
      BY DEF AccountInv, AccountsAreCoherentAlone, OneRoleAlone
<1>6. MfaIsProvenAlone'
      BY DEF AccountInv, AccountsAreCoherentAlone, MfaIsProvenAlone
<1>7. ASSUME NEW q \in AuthRequest, authReq'[q].op \in OnAccount, authReq'[q].on \notin raced'
      PROVE  StillSo(authReq[q])'
      <2>1. PICK r : r = authReq[q] /\ r = authReq'[q]
            BY <1>7
      <2>2. StillSo(r) /\ r.user \in User
            BY <1>1, <1>7, <2>1 DEF AccountInv
      <2>3. StillSo(r)'
            BY <2>2 DEF StillSo
      <2> QED BY <2>1, <2>3
<1> QED BY <1>2, <1>3, <1>4, <1>5, <1>6, <1>7 DEF AccountInv, AccountsAreCoherentAlone

(* What request q may write to the row w, the streak n and the proven      *)
(* secret m of account u: its own columns alone, and those right unless    *)
(* another request for them was open at the same time.                     *)
WritesOwn(q, u, w, n, m) ==
    /\ authReq[q].op # "login" => w.failed = account[u].failed /\ n = streak[u]
    /\ authReq[q].op # "user" => w.roles = account[u].roles
    /\ authReq[q].op \notin {"enroll", "confirm"} =>
            w.mfa = account[u].mfa /\ w.secret = account[u].secret /\ m = proven[u]
    /\ authReq[q].on \notin raced =>
            /\ authReq[q].op = "login" => w.failed = n
            /\ authReq[q].op = "user" => Cardinality(w.roles) = 1
            /\ authReq[q].op \in {"enroll", "confirm"} /\ w.mfa => m = w.secret

(* A request that ends by writing its own columns of its account, and      *)
(* writes them right if nothing raced with it, keeps every account right.  *)
LEMMA OwnColumns ==
    ASSUME AuthBase, AccountInv, NEW q \in AuthRequest, authReq[q].op \in OnAccount, AuthEnds(q),
           raced' = raced, NEW u \in User, u = authReq[q].user, NEW w \in AccountRow,
           account' = [account EXCEPT ![u] = w], w.exists = account[u].exists,
           NEW n \in Nat, streak' = [streak EXCEPT ![u] = n], n < MaxFailed,
           NEW m \in Nat, proven' = [proven EXCEPT ![u] = m],
           WritesOwn(q, u, w, n, m)
    PROVE  AccountInv'
<1>0. /\ authReq[q].op # "login" => w.failed = account[u].failed /\ n = streak[u]
      /\ authReq[q].op # "user" => w.roles = account[u].roles
      /\ authReq[q].op \notin {"enroll", "confirm"} =>
            w.mfa = account[u].mfa /\ w.secret = account[u].secret /\ m = proven[u]
      /\ authReq[q].on \notin raced =>
            /\ authReq[q].op = "login" => w.failed = n
            /\ authReq[q].op = "user" => Cardinality(w.roles) = 1
            /\ authReq[q].op \in {"enroll", "confirm"} /\ w.mfa => m = w.secret
      BY DEF WritesOwn
<1> USE <1>0
<1>1. /\ account \in [User -> AccountRow] /\ streak \in [User -> Nat] /\ proven \in [User -> Nat]
      BY DEF AuthBase, AuthTypes
<1>2. /\ \A v \in User : account'[v] = IF v = u THEN w ELSE account[v]
      /\ \A v \in User : streak'[v] = IF v = u THEN n ELSE streak[v]
      /\ \A v \in User : proven'[v] = IF v = u THEN m ELSE proven[v]
      BY <1>1
<1>3. \A p \in AuthRequest : authReq'[p].op # "idle" => p # q /\ authReq'[p] = authReq[p]
      <2>1. PICK r : r = NoAuthReq
            OBVIOUS
      <2>2. r.op = "idle"
            BY <2>1 DEF NoAuthReq
      <2>3. authReq' = [authReq EXCEPT ![q] = r]
            BY <2>1 DEF AuthEnds
      <2>4. authReq'[q] = r /\ \A p \in AuthRequest : p # q => authReq'[p] = authReq[p]
            BY <2>3, RequestsAfter
      <2> QED BY <2>2, <2>4
<1>4. /\ Request(authReq[q]) /\ \A p \in AuthRequest : Request(authReq[p])
      BY DEF AuthBase, AuthTypes
<1>5. /\ authReq[q].op = "login" => authReq[q].on = <<"login", u>>
      /\ authReq[q].op = "user" => authReq[q].on = <<"roles", u>>
      /\ authReq[q].op \in {"enroll", "confirm"} => authReq[q].on = <<"mfa", u>>
      BY <1>4 DEF Request
<1>6. account[u].exists
      BY DEF AccountInv
<1>7. (\A v \in User : streak[v] < MaxFailed /\ (~account[v].exists => streak[v] = 0))'
      <2>1. ASSUME NEW v \in User PROVE streak'[v] < MaxFailed /\ (~account'[v].exists => streak'[v] = 0)
            <3>1. CASE v = u
                  <4>1. account'[v] = w /\ streak'[v] = n
                        BY <1>2, <3>1
                  <4>2. w.exists
                        BY <1>6
                  <4> QED BY <4>1, <4>2
            <3>2. CASE v # u
                  BY <1>2, <3>2 DEF AccountInv
            <3> QED BY <3>1, <3>2
      <2> QED BY <2>1
<1>8. (\A p \in AuthRequest : authReq[p].op \in OnAccount => account[authReq[p].user].exists)'
      <2>1. ASSUME NEW p \in AuthRequest, authReq'[p].op \in OnAccount PROVE account'[authReq'[p].user].exists
            <3>1. authReq'[p].op # "idle"
                  BY <2>1 DEF OnAccount
            <3>2. authReq'[p] = authReq[p]
                  BY <1>3, <3>1
            <3>3. authReq[p].user \in User /\ account[authReq[p].user].exists
                  BY <2>1, <3>2, UserOf DEF AccountInv
            <3> QED BY <1>2, <3>2, <3>3
      <2> QED BY <2>1
<1>9. FailuresAreCountedAlone'
      <2>1. ASSUME NEW v \in User, <<"login", v>> \notin raced PROVE account'[v].failed = streak'[v]
            <3>1. account[v].failed = streak[v]
                  BY <2>1 DEF AccountInv, AccountsAreCoherentAlone, FailuresAreCountedAlone
            <3>2. CASE v = u /\ authReq[q].op = "login"
                  BY <1>2, <1>5, <2>1, <3>2
            <3>3. CASE v = u /\ authReq[q].op # "login"
                  BY <1>2, <3>1, <3>3
            <3>4. CASE v # u
                  BY <1>2, <3>1, <3>4
            <3> QED BY <3>2, <3>3, <3>4
      <2> QED BY <2>1 DEF FailuresAreCountedAlone
<1>10. OneRoleAlone'
      <2>1. ASSUME NEW v \in User, account'[v].exists, <<"roles", v>> \notin raced
            PROVE  Cardinality(account'[v].roles) = 1
            <3>1. account[v].exists => Cardinality(account[v].roles) = 1
                  BY <2>1 DEF AccountInv, AccountsAreCoherentAlone, OneRoleAlone
            <3>2. CASE v = u /\ authReq[q].op = "user"
                  BY <1>2, <1>5, <2>1, <3>2
            <3>3. CASE v = u /\ authReq[q].op # "user"
                  BY <1>2, <1>6, <3>1, <3>3
            <3>4. CASE v # u
                  BY <1>2, <2>1, <3>1, <3>4
            <3> QED BY <3>2, <3>3, <3>4
      <2> QED BY <2>1 DEF OneRoleAlone
<1>11. MfaIsProvenAlone'
      <2>1. ASSUME NEW v \in User, account'[v].mfa, <<"mfa", v>> \notin raced
            PROVE  proven'[v] = account'[v].secret
            <3>1. account[v].mfa => proven[v] = account[v].secret
                  BY <2>1 DEF AccountInv, AccountsAreCoherentAlone, MfaIsProvenAlone
            <3>2. CASE v = u /\ authReq[q].op \in {"enroll", "confirm"}
                  BY <1>2, <1>5, <2>1, <3>2
            <3>3. CASE v = u /\ authReq[q].op \notin {"enroll", "confirm"}
                  BY <1>2, <2>1, <3>1, <3>3
            <3>4. CASE v # u
                  BY <1>2, <2>1, <3>1, <3>4
            <3> QED BY <3>2, <3>3, <3>4
      <2> QED BY <2>1 DEF MfaIsProvenAlone
<1>12. ASSUME NEW p \in AuthRequest, authReq'[p].op \in OnAccount, authReq'[p].on \notin raced'
       PROVE  StillSo(authReq[p])'
      <2>1. authReq'[p].op # "idle"
            BY <1>12 DEF OnAccount
      <2>2. PICK r : r = authReq[p] /\ r = authReq'[p] /\ p # q
            BY <1>3, <2>1
      <2>3. StillSo(r) /\ r.user \in User
            BY <1>12, <2>2, UserOf DEF AccountInv
      <2>4. r.on # authReq[q].on
            BY <1>12, <2>1, <2>2 DEF AuthBase, OverlapsAreRaced, OnAccount
      <2>5. /\ r.op = "login" => r.on = <<"login", r.user>>
            /\ r.op = "user" => r.on = <<"roles", r.user>>
            /\ r.op \in {"enroll", "confirm"} => r.on = <<"mfa", r.user>>
            BY <1>4, <2>2 DEF Request
      <2>7. CASE r.user = u
            <3>1. r.op = "login" => authReq[q].op # "login"
                  BY <1>5, <2>4, <2>5, <2>7
            <3>2. r.op = "user" => authReq[q].op # "user"
                  BY <1>5, <2>4, <2>5, <2>7
            <3>3. r.op \in {"enroll", "confirm"} => authReq[q].op \notin {"enroll", "confirm"}
                  BY <1>5, <2>4, <2>5, <2>7
            <3>4. StillSo(r)'
                  BY <1>2, <2>3, <2>7, <3>1, <3>2, <3>3 DEF StillSo
            <3> QED BY <2>2, <3>4
      <2>8. r.user # u => StillSo(r)'
            BY <1>2, <2>3 DEF StillSo
      <2> QED BY <2>2, <2>7, <2>8
<1> QED BY <1>7, <1>8, <1>9, <1>10, <1>11, <1>12 DEF AccountInv, AccountsAreCoherentAlone

(* Every step keeps the accounts coherent. *)
LEMMA AccountStep ==
    ASSUME AuthBase, AccountInv, [IdentityNext]_authVars
    PROVE  AccountInv'
<1>1. /\ account \in [User -> AccountRow] /\ streak \in [User -> Nat] /\ proven \in [User -> Nat]
      BY DEF AuthBase, AuthTypes
<1>2. MaxFailed \in Nat \ {0}
      BY IdentityConstants
<1>3. ASSUME NEW q \in AuthRequest, AuthEnds(q)
      PROVE  \A p \in AuthRequest : authReq'[p].op # "idle" => p # q /\ authReq'[p] = authReq[p]
      <2>1. PICK r : r = NoAuthReq
            OBVIOUS
      <2>2. r.op = "idle"
            BY <2>1 DEF NoAuthReq
      <2>3. authReq' = [authReq EXCEPT ![q] = r]
            BY <1>3, <2>1 DEF AuthEnds
      <2>4. authReq'[q] = r /\ \A p \in AuthRequest : p # q => authReq'[p] = authReq[p]
            BY <2>3, RequestsAfter
      <2> QED BY <2>2, <2>4
<1>4. ASSUME NEW q \in AuthRequest, AuthEnds(q)
      PROVE  \A p \in AuthRequest : authReq'[p].op \in OnAccount => authReq'[p] = authReq[p]
      BY <1>3, <1>4 DEF OnAccount
<1>5. CASE \/ RegisterOrganization \/ NextWindow \/ UNCHANGED authVars
           \/ \E t \in Token : revoke_session(t) \/ SessionExpires(t)
      <2>1. UNCHANGED <<account, streak, proven, authReq>> /\ raced \subseteq raced'
            BY <1>5 DEF RegisterOrganization, NextWindow, authVars, AuthAtOnce, revoke_session, SessionExpires
      <2> QED BY <2>1, AccountsStay
<1>6. ASSUME NEW q \in AuthRequest, CommitRotation(q) \/ RollbackAuth(q) PROVE AccountInv'
      <2>1. UNCHANGED <<account, streak, proven, raced>> /\ AuthEnds(q)
            BY <1>6 DEF CommitRotation, RollbackAuth
      <2> QED BY <1>4, <2>1, AccountsStay
<1>7. ASSUME NEW u \in User, LockElapses(u) PROVE AccountInv'
      <2>1. UNCHANGED <<session, authReq, streak, proven, ended, raced>>
            BY <1>7, LockEffect
      <2>2. PICK w \in AccountRow :
                /\ account' = [account EXCEPT ![u] = w]
                /\ w.exists = account[u].exists /\ w.roles = account[u].roles
                /\ w.failed = account[u].failed /\ w.mfa = account[u].mfa /\ w.secret = account[u].secret
            BY <1>7, LockEffect
      <2>3. \A v \in User : account'[v] = IF v = u THEN w ELSE account[v]
            BY <1>1, <2>2
      <2>4. \A v \in User : /\ account'[v].exists = account[v].exists /\ account'[v].roles = account[v].roles
                            /\ account'[v].failed = account[v].failed /\ account'[v].mfa = account[v].mfa
                            /\ account'[v].secret = account[v].secret
            BY <2>2, <2>3
      <2> QED BY <2>1, <2>4, AccountsStay
<1>8. CASE \/ \E u \in User : RegisterAdmin(u)
           \/ \E actor, u \in User, r \in Role : create_user(actor, u, r)
      <2>1. UNCHANGED <<session, authReq, streak, proven, ended, raced>>
            BY <1>8, NewAccountEffect
      <2>2. PICK u \in User, role \in Role :
                account' = [account EXCEPT ![u] = NewAccount(role)] /\ ~account[u].exists
            BY <1>8, NewAccountEffect
      <2>3. PICK w \in AccountRow : /\ w = NewAccount(role) /\ w.exists = TRUE /\ w.roles = {role}
                                    /\ w.failed = 0 /\ w.mfa = FALSE
            BY NewAccountFields
      <2>4. \A v \in User : account'[v] = IF v = u THEN w ELSE account[v]
            BY <1>1, <2>2, <2>3
      <2>5. streak[u] = 0
            BY <2>2 DEF AccountInv
      <2>6. \A p \in AuthRequest : authReq[p].op \in OnAccount => authReq[p].user \in User /\ authReq[p].user # u
            BY <2>2, UserOf DEF AccountInv
      <2>7. (\A v \in User : streak[v] < MaxFailed /\ (~account[v].exists => streak[v] = 0))'
            <3>1. ASSUME NEW v \in User PROVE streak[v] < MaxFailed /\ (~account'[v].exists => streak[v] = 0)
                  <4>1. CASE v = u
                        BY <2>5, <4>1 DEF AccountInv
                  <4>2. CASE v # u
                        BY <2>4, <4>2 DEF AccountInv
                  <4> QED BY <4>1, <4>2
            <3> QED BY <2>1, <3>1
      <2>8. (\A p \in AuthRequest : authReq[p].op \in OnAccount => account[authReq[p].user].exists)'
            BY <2>1, <2>4, <2>6 DEF AccountInv
      <2>9. FailuresAreCountedAlone'
            <3>1. ASSUME NEW v \in User, <<"login", v>> \notin raced PROVE account'[v].failed = streak[v]
                  <4>1. CASE v = u
                        BY <2>3, <2>4, <2>5, <4>1
                  <4>2. CASE v # u
                        BY <2>4, <3>1, <4>2 DEF AccountInv, AccountsAreCoherentAlone, FailuresAreCountedAlone
                  <4> QED BY <4>1, <4>2
            <3> QED BY <2>1, <3>1 DEF FailuresAreCountedAlone
      <2>10. OneRoleAlone'
            <3>1. ASSUME NEW v \in User, account'[v].exists, <<"roles", v>> \notin raced
                  PROVE  Cardinality(account'[v].roles) = 1
                  <4>1. CASE v = u
                        <5>1. Cardinality({role}) = 1
                              BY FS_Singleton
                        <5> QED BY <2>3, <2>4, <4>1, <5>1
                  <4>2. CASE v # u
                        BY <2>4, <3>1, <4>2 DEF AccountInv, AccountsAreCoherentAlone, OneRoleAlone
                  <4> QED BY <4>1, <4>2
            <3> QED BY <2>1, <3>1 DEF OneRoleAlone
      <2>11. MfaIsProvenAlone'
            <3>1. ASSUME NEW v \in User, account'[v].mfa, <<"mfa", v>> \notin raced
                  PROVE  proven[v] = account'[v].secret
                  <4>1. CASE v = u
                        BY <2>3, <2>4, <3>1, <4>1
                  <4>2. CASE v # u
                        BY <2>4, <3>1, <4>2 DEF AccountInv, AccountsAreCoherentAlone, MfaIsProvenAlone
                  <4> QED BY <4>1, <4>2
            <3> QED BY <2>1, <3>1 DEF MfaIsProvenAlone
      <2>12. ASSUME NEW p \in AuthRequest, authReq'[p].op \in OnAccount, authReq'[p].on \notin raced'
             PROVE  StillSo(authReq[p])'
            <3>1. PICK r : r = authReq[p] /\ r = authReq'[p] /\ r.user \in User /\ r.user # u /\ StillSo(r)
                  BY <2>1, <2>6, <2>12 DEF AccountInv
            <3>2. StillSo(r)'
                  BY <2>4, <3>1 DEF StillSo
            <3> QED BY <3>1, <3>2
      <2> QED BY <2>7, <2>8, <2>9, <2>10, <2>11, <2>12 DEF AccountInv, AccountsAreCoherentAlone
<1>9. ASSUME NEW q \in AuthRequest,
           \/ \E actor, u \in User, r \in Role \cup {Null}, a \in BOOLEAN \cup {Null} :
                update_user(q, actor, u, r, a)
           \/ \E u \in User, p \in {"right", "wrong"}, c \in {"right", "wrong", Null} :
                authenticate(q, u, p, c)
           \/ \E t \in Token : rotate_refresh_token(q, t)
           \/ \E u \in User, op \in {"enroll", "confirm"} : LoadForMfa(q, u, op)
      PROVE  AccountInv'
      <2>1. UNCHANGED <<account, session, streak, proven, ended>>
            BY <1>9, BeginEffect
      <2>2. PICK r : /\ Opens(q, r) /\ Request(r)
                     /\ \/ r.op \in OnAccount /\ account[r.user].exists /\ r.row = account[r.user]
                        \/ r.op = "rotate"
            BY <1>9, BeginEffect
      <2>3. /\ authReq'[q] = r
            /\ \A p \in AuthRequest : p # q => authReq'[p] = authReq[p]
            BY <2>2, RequestsAfter DEF Opens
      <2>4. raced \subseteq raced'
            BY <2>2 DEF Opens
      <2>5. CASE r.op = "rotate"
            <3>1. r.op \notin OnAccount
                  BY <2>5 DEF OnAccount
            <3>2. \A p \in AuthRequest : authReq'[p].op \in OnAccount => authReq'[p] = authReq[p]
                  BY <2>3, <3>1
            <3> QED BY <2>1, <2>4, <3>2, AccountsStay
      <2>6. CASE account[r.user].exists /\ r.row = account[r.user]
            <3>1. StillSo(r)'
                  BY <2>1, <2>6 DEF StillSo
            <3>2. (\A v \in User : streak[v] < MaxFailed /\ (~account[v].exists => streak[v] = 0))'
                  BY <2>1 DEF AccountInv
            <3>3. (\A p \in AuthRequest : authReq[p].op \in OnAccount => account[authReq[p].user].exists)'
                  BY <2>1, <2>3, <2>6 DEF AccountInv
            <3>4. FailuresAreCountedAlone' /\ OneRoleAlone' /\ MfaIsProvenAlone'
                  BY <2>1, <2>4 DEF AccountInv, AccountsAreCoherentAlone, FailuresAreCountedAlone, OneRoleAlone,
                                    MfaIsProvenAlone
            <3>5. ASSUME NEW p \in AuthRequest, authReq'[p].op \in OnAccount, authReq'[p].on \notin raced'
                  PROVE  StillSo(authReq[p])'
                  <4>1. CASE p = q
                        BY <2>3, <3>1, <4>1
                  <4>2. CASE p # q
                        <5>1. PICK s : s = authReq[p] /\ s = authReq'[p] /\ StillSo(s)
                              BY <2>3, <2>4, <3>5, <4>2 DEF AccountInv
                        <5>2. StillSo(s)'
                              BY <2>1, <5>1 DEF StillSo
                        <5> QED BY <5>1, <5>2
                  <4> QED BY <4>1, <4>2
            <3> QED BY <3>2, <3>3, <3>4, <3>5 DEF AccountInv, AccountsAreCoherentAlone
      <2> QED BY <2>2, <2>5, <2>6
<1>10. ASSUME NEW q \in AuthRequest, authReq[q].op \in OnAccount
       PROVE  /\ authReq[q].user \in User
              /\ streak' = streak => streak' = [streak EXCEPT ![authReq[q].user] = streak[authReq[q].user]]
              /\ proven' = proven => proven' = [proven EXCEPT ![authReq[q].user] = proven[authReq[q].user]]
              /\ streak[authReq[q].user] \in Nat /\ streak[authReq[q].user] < MaxFailed
              /\ proven[authReq[q].user] \in Nat
              /\ authReq[q].on \notin raced => StillSo(authReq[q])
      <2>1. PICK u \in User : u = authReq[q].user
            BY <1>10, UserOf
      <2> QED BY <1>1, <1>10, <2>1 DEF AccountInv
<1>11. ASSUME NEW q \in AuthRequest, CommitUser(q) PROVE AccountInv'
      <2>1. /\ AuthEnds(q) /\ UNCHANGED <<raced, streak, proven>> /\ authReq[q].op = "user"
            /\ authReq[q].op \in OnAccount
            BY <1>11 DEF CommitUser, OnAccount
      <2>2. PICK u \in User : u = authReq[q].user
            BY <1>10, <2>1
      <2>3. PICK w \in AccountRow :
             /\ account' = [account EXCEPT ![u] = w]
             /\ w.exists = account[u].exists /\ w.failed = account[u].failed
             /\ w.mfa = account[u].mfa /\ w.secret = account[u].secret
             /\ w.roles = IF authReq[q].role = Null THEN account[u].roles
                          ELSE (account[u].roles \ authReq[q].row.roles) \cup {authReq[q].role}
            BY <1>11, <2>2, CommitUserEffect
      <2>4. PICK n \in Nat, m \in Nat : /\ n = streak[u] /\ n < MaxFailed /\ streak' = [streak EXCEPT ![u] = n]
                                        /\ m = proven[u] /\ proven' = [proven EXCEPT ![u] = m]
            BY <1>10, <2>1, <2>2
      <2>5. authReq[q].on \notin raced => Cardinality(w.roles) = 1
            <3> SUFFICES ASSUME authReq[q].on \notin raced PROVE Cardinality(w.roles) = 1
                OBVIOUS
            <3>1. authReq[q].row.roles = account[u].roles
                  BY <1>10, <2>1, <2>2 DEF StillSo
            <3>2. authReq[q].on = <<"roles", u>>
                  BY <2>1, <2>2 DEF AuthBase, AuthTypes, Request
            <3>3. Cardinality(account[u].roles) = 1
                  BY <2>1, <2>2, <3>2 DEF AccountInv, AccountsAreCoherentAlone, OneRoleAlone
            <3>4. w.roles = account[u].roles \/ w.roles = {authReq[q].role}
                  BY <2>3, <3>1
            <3>5. Cardinality({authReq[q].role}) = 1
                  BY FS_Singleton
            <3> QED BY <3>3, <3>4, <3>5
      <2>6. WritesOwn(q, u, w, n, m)
            BY <2>1, <2>3, <2>4, <2>5 DEF WritesOwn
      <2> QED BY <2>1, <2>2, <2>3, <2>4, <2>6, OwnColumns
<1>12. ASSUME NEW q \in AuthRequest, FailLogin(q) PROVE AccountInv'
      <2>1. /\ AuthEnds(q) /\ UNCHANGED <<raced, proven>> /\ authReq[q].op = "login"
            /\ authReq[q].op \in OnAccount
            BY <1>12 DEF FailLogin, OnAccount
      <2>2. PICK u \in User : u = authReq[q].user
            BY <1>10, <2>1
      <2>3. CASE UNCHANGED <<account, streak>>
            BY <1>4, <2>1, <2>3, AccountsStay
      <2>4. CASE authReq[q].outcome = "wrong_password"
                 /\ streak' = [streak EXCEPT ![authReq[q].user] = IF @ + 1 = MaxFailed THEN 0 ELSE @ + 1]
            <3>1. PICK w \in AccountRow :
                    /\ account' = [account EXCEPT ![u] = w]
                    /\ w.exists = account[u].exists /\ w.roles = account[u].roles
                    /\ w.mfa = account[u].mfa /\ w.secret = account[u].secret
                    /\ w.failed = IF authReq[q].row.failed + 1 >= MaxFailed
                                  THEN IF authReq[q].row.failed # 0 THEN 0 ELSE account[u].failed
                                  ELSE authReq[q].row.failed + 1
                  BY <1>12, <2>2, <2>4, FailLoginEffect
            <3>2. PICK k \in Nat, m \in Nat : /\ k = streak[u] /\ k < MaxFailed
                                              /\ m = proven[u] /\ proven' = [proven EXCEPT ![u] = m]
                  BY <1>10, <2>1, <2>2
            <3>3. PICK n \in Nat : n = IF k + 1 = MaxFailed THEN 0 ELSE k + 1
                  OBVIOUS
            <3>4. streak' = [streak EXCEPT ![u] = n] /\ n < MaxFailed
                  BY <1>2, <2>2, <2>4, <3>2, <3>3
            <3>5. authReq[q].on \notin raced => w.failed = n
                  <4> SUFFICES ASSUME authReq[q].on \notin raced PROVE w.failed = n
                      OBVIOUS
                  <4>1. authReq[q].row.failed = account[u].failed
                        BY <1>10, <2>1, <2>2 DEF StillSo
                  <4>2. authReq[q].on = <<"login", u>>
                        BY <2>1, <2>2 DEF AuthBase, AuthTypes, Request
                  <4>3. account[u].failed = k
                        BY <3>2, <4>2 DEF AccountInv, AccountsAreCoherentAlone, FailuresAreCountedAlone
                  <4> QED BY <1>2, <3>1, <3>2, <3>3, <4>1, <4>3
            <3>6. WritesOwn(q, u, w, n, m)
                  BY <2>1, <3>1, <3>2, <3>5 DEF WritesOwn
            <3> QED BY <2>1, <2>2, <3>1, <3>2, <3>4, <3>6, OwnColumns
      <2> QED BY <1>12, <2>3, <2>4 DEF FailLogin
<1>13. ASSUME NEW q \in AuthRequest, LogIn(q) PROVE AccountInv'
      <2>1. /\ AuthEnds(q) /\ UNCHANGED <<raced, proven>> /\ authReq[q].op = "login"
            /\ authReq[q].op \in OnAccount /\ streak' = [streak EXCEPT ![authReq[q].user] = 0]
            BY <1>13 DEF LogIn, OnAccount
      <2>2. PICK u \in User : u = authReq[q].user
            BY <1>10, <2>1
      <2>3. PICK w \in AccountRow :
                /\ account' = [account EXCEPT ![u] = w]
                /\ w.exists = account[u].exists /\ w.roles = account[u].roles
                /\ w.mfa = account[u].mfa /\ w.secret = account[u].secret
                /\ w.failed = IF authReq[q].row.failed # 0 THEN 0 ELSE account[u].failed
            BY <1>13, <2>2, LogInEffect
      <2>4. PICK m \in Nat : m = proven[u] /\ proven' = [proven EXCEPT ![u] = m]
            BY <1>10, <2>1, <2>2
      <2>5. PICK n \in Nat : n = 0
            OBVIOUS
      <2>6. n < MaxFailed /\ streak' = [streak EXCEPT ![u] = n]
            BY <1>2, <2>1, <2>2, <2>5
      <2>7. authReq[q].on \notin raced => w.failed = n
            <3> SUFFICES ASSUME authReq[q].on \notin raced PROVE w.failed = n
                OBVIOUS
            <3>1. authReq[q].row.failed = account[u].failed
                  BY <1>10, <2>1, <2>2 DEF StillSo
            <3> QED BY <2>3, <2>5, <3>1
      <2>8. WritesOwn(q, u, w, n, m)
            BY <2>1, <2>3, <2>4, <2>7 DEF WritesOwn
      <2> QED BY <2>1, <2>2, <2>3, <2>4, <2>8, <2>6, OwnColumns
<1>14. ASSUME NEW q \in AuthRequest, enroll_mfa(q) \/ confirm_mfa(q) PROVE AccountInv'
      <2>1. /\ AuthEnds(q) /\ UNCHANGED <<raced, streak>> /\ authReq[q].op \in {"enroll", "confirm"}
            /\ authReq[q].op \in OnAccount
            BY <1>14 DEF enroll_mfa, confirm_mfa, OnAccount
      <2>2. PICK u \in User : u = authReq[q].user
            BY <1>10, <2>1
      <2>3. PICK w \in AccountRow :
             /\ account' = [account EXCEPT ![u] = w]
             /\ w.exists = account[u].exists /\ w.roles = account[u].roles
             /\ w.failed = account[u].failed
             /\ \/ /\ enroll_mfa(q)
                   /\ w.mfa = IF authReq[q].row.mfa THEN FALSE ELSE account[u].mfa
                \/ confirm_mfa(q) /\ w.secret = account[u].secret
            BY <1>14, <2>2, MfaEffect
      <2>4. PICK n \in Nat : n = streak[u] /\ n < MaxFailed /\ streak' = [streak EXCEPT ![u] = n]
            BY <1>10, <2>1, <2>2
      <2>5. authReq[q].on \notin raced =>
                authReq[q].row.mfa = account[u].mfa /\ authReq[q].row.secret = account[u].secret
            BY <1>10, <2>1, <2>2 DEF StillSo
      <2>6. CASE enroll_mfa(q) /\ w.mfa = IF authReq[q].row.mfa THEN FALSE ELSE account[u].mfa
            <3>1. proven' = proven
                  BY <2>6 DEF enroll_mfa
            <3>2. PICK m \in Nat : m = proven[u] /\ proven' = [proven EXCEPT ![u] = m]
                  BY <1>10, <2>1, <2>2, <3>1
            <3>3. authReq[q].on \notin raced => ~w.mfa
                  BY <2>5, <2>6
            <3>4. WritesOwn(q, u, w, n, m)
                  BY <2>1, <2>3, <2>4, <3>2, <3>3 DEF WritesOwn
            <3> QED BY <2>1, <2>2, <2>3, <2>4, <3>2, <3>4, OwnColumns
      <2>7. CASE confirm_mfa(q) /\ w.secret = account[u].secret
            <3>1. PICK m \in Nat : m = authReq[q].row.secret
                  BY <2>1, UserOf, RowFields
            <3>2. proven' = [proven EXCEPT ![u] = m]
                  BY <2>2, <2>7, <3>1 DEF confirm_mfa
            <3>3. authReq[q].on \notin raced => m = w.secret
                  BY <2>5, <2>7, <3>1
            <3>4. WritesOwn(q, u, w, n, m)
                  BY <2>1, <2>3, <2>4, <3>2, <3>3 DEF WritesOwn
            <3> QED BY <2>1, <2>2, <2>3, <2>4, <3>2, <3>4, OwnColumns
      <2> QED BY <2>3, <2>6, <2>7
<1> QED BY <1>5, <1>6, <1>7, <1>8, <1>9, <1>11, <1>12, <1>13, <1>14 DEF IdentityNext

-----------------------------------------------------------------------------
(* A new deployment, and one with accounts, start in order. *)
LEMMA IdentityInitially ==
    ASSUME IdentityInit
    PROVE  AuthBase /\ SessionInv /\ AccountInv
<1>1. \A u \in User : account[u] = NoAccount \/ \E role \in Role : account[u] = NewAccount(role)
      BY IdentityConstants DEF IdentityInit
<1>2. account \in [User -> AccountRow]
      <2>1. \A u \in User : account[u] \in AccountRow
            BY <1>1, NewAccountFields, RowFields
      <2>2. account = [u \in User |-> account[u]]
            BY DEF IdentityInit
      <2> QED BY <2>1, <2>2
<1>3. \A u \in User : ~account[u].mfa /\ account[u].failed = 0
                      /\ (account[u].exists => Cardinality(account[u].roles) = 1)
      <2>1. ASSUME NEW u \in User PROVE ~account[u].mfa /\ account[u].failed = 0
                                        /\ (account[u].exists => Cardinality(account[u].roles) = 1)
            <3>1. CASE account[u] = NoAccount
                  BY <3>1 DEF NoAccount
            <3>2. CASE \E role \in Role : account[u] = NewAccount(role)
                  <4>1. PICK role \in Role : account[u] = NewAccount(role)
                        BY <3>2
                  <4>2. Cardinality({role}) = 1
                        BY FS_Singleton
                  <4> QED BY <4>1, <4>2, NewAccountFields
            <3> QED BY <1>1, <3>1, <3>2
      <2> QED BY <2>1
<1>4. \A q \in AuthRequest : authReq[q].op = "idle"
      <2>1. PICK r : r = NoAuthReq
            OBVIOUS
      <2>2. r.op = "idle"
            BY <2>1 DEF NoAuthReq
      <2>3. \A q \in AuthRequest : authReq[q] = r
            BY <2>1 DEF IdentityInit
      <2> QED BY <2>2, <2>3
<1>5. \A t \in Token : session[t] = NoSession /\ session[t].state = "none"
      BY RowFields DEF IdentityInit
<1>6. AuthBase
      <2>1. session \in [Token -> SessionRow] /\ streak \in [User -> Nat] /\ proven \in [User -> Nat]
            BY RowFields DEF IdentityInit
      <2>2. authReq = [q \in AuthRequest |-> authReq[q]]
            BY DEF IdentityInit
      <2>3. \A q \in AuthRequest : Request(authReq[q])
            BY <1>4 DEF Request
      <2>4. OverlapsAreRaced
            BY <1>4 DEF OverlapsAreRaced
      <2> QED BY <1>2, <2>1, <2>2, <2>3, <2>4 DEF AuthBase, AuthTypes
<1>7. SessionInv
      BY <1>4, <1>5 DEF SessionInv, OpenOf, IdentityInit
<1>8. AccountInv
      <2>1. \A u \in User : streak[u] = 0 /\ proven[u] = 0
            BY DEF IdentityInit
      <2>2. \A q \in AuthRequest : authReq[q].op \notin OnAccount
            BY <1>4 DEF OnAccount
      <2>3. \A u \in User : streak[u] < MaxFailed
            BY <2>1, IdentityConstants
      <2> QED BY <1>3, <2>1, <2>2, <2>3
              DEF AccountInv, AccountsAreCoherentAlone, FailuresAreCountedAlone, OneRoleAlone, MfaIsProvenAlone
<1> QED BY <1>6, <1>7, <1>8

(* At most one refresh token of a login can be used, and none after a      *)
(* logout, unless two requests on the login overlapped                     *)
(* (rotate_refresh_token, revoke_session).                                 *)
THEOREM LoginsAreSingleAloneHolds == IdentitySpec => []LoginsAreSingleAlone
<1>1. IdentityInit => AuthBase /\ SessionInv
      BY IdentityInitially
<1>2. AuthBase /\ SessionInv /\ [IdentityNext]_authVars => (AuthBase /\ SessionInv)'
      BY AuthBaseStep, SessionStep
<1>3. ASSUME SessionInv, NEW l \in Token, <<"session", l>> \notin raced, NEW U,
             U = {t \in Token : session[t].login = l /\ session[t].state = "live"}
      PROVE  Cardinality(U) <= 1 /\ (l \in ended => U = {})
      <2>1. \A t \in U : t \in Token /\ OpenOf(t, l)
            BY <1>3 DEF OpenOf
      <2>2. \A s, t \in U : s = t
            BY <1>3, <2>1 DEF SessionInv
      <2>3. l \in ended => U = {}
            BY <1>3, <2>1 DEF SessionInv
      <2>4. Cardinality(U) <= 1
            <3>1. CASE U = {}
                  BY <3>1, FS_EmptySet
            <3>2. CASE U # {}
                  <4>1. PICK x : x \in U
                        BY <3>2
                  <4>2. U = {x}
                        BY <2>2, <4>1
                  <4> QED BY <4>2, FS_Singleton
            <3> QED BY <3>1, <3>2
      <2> QED BY <2>3, <2>4
<1>4. SessionInv => LoginsAreSingleAlone
      BY <1>3 DEF LoginsAreSingleAlone
<1> QED BY <1>1, <1>2, <1>4, PTL DEF IdentitySpec

(* The failed logins an account counts, its one role and the MFA secret it *)
(* enforces are those of what was done to it, unless two requests on it    *)
(* overlapped (authenticate, update_user, enroll_mfa, confirm_mfa).        *)
THEOREM AccountsAreCoherentAloneHolds == IdentitySpec => []AccountsAreCoherentAlone
<1>1. IdentityInit => AuthBase /\ AccountInv
      BY IdentityInitially
<1>2. AuthBase /\ AccountInv /\ [IdentityNext]_authVars => (AuthBase /\ AccountInv)'
      BY AuthBaseStep, AccountStep
<1>3. AccountInv => AccountsAreCoherentAlone
      BY DEF AccountInv
<1> QED BY <1>1, <1>2, <1>3, PTL DEF IdentitySpec

-----------------------------------------------------------------------------
(* The ATT&CK catalogue. A coverage request that nothing disturbed is the  *)
(* only one in flight, and what it found to add and to remove still        *)
(* brings the mapping to what the rules claim.                             *)
NothingSince(q) ==
    /\ covReq[q].sync.add = Claims(Known) \ ruleMap
    /\ covReq[q].sync.remove = ruleMap \ Claims(Known)
    /\ \A p \in Coverage : p # q => covReq[p].phase = "idle"

Synced(sync, alone) == [phase |-> "synced", sync |-> sync, alone |-> alone]

CoverageRequests ==
    /\ covReq = [q \in Coverage |-> covReq[q]]
    /\ \A q \in Coverage :
         \/ covReq[q] = NoCoverage
         \/ \E y : \E a \in BOOLEAN : covReq[q] = Synced(y, a) /\ (a => NothingSince(q))

(* The links are those of the last bundle that mentioned the technique. *)
LinksArePublished ==
    /\ \A l \in belongs : \E t \in Technique, a \in Tactic : l = <<t, a>>
    /\ \A t \in Technique : /\ published[t] \subseteq tactic
                            /\ \A a : <<t, a>> \in belongs <=> a \in published[t]
    /\ published = [t \in Technique |-> published[t]]

MitreInv == CoverageRequests /\ LinksArePublished /\ CoverageIsTrueAlone

(* parse_bundle keeps one object for each id. *)
LEMMA OneObjectPerId ==
    ASSUME NEW b \in Bundle
    PROVE  /\ \A o, p \in parse_bundle(b).techniques : o.id = p.id => o = p
           /\ \A o \in parse_bundle(b).techniques : o.id \in Technique /\ o.phases \subseteq Tactic
<1>1. DOMAIN b = 1..Len(b) /\ Len(b) \in Nat
      BY MitreConstants
<1>2. PICK kept : kept = {k \in DOMAIN b : /\ b[k].id # Malformed
                                          /\ \A j \in 1..(k - 1) : b[j].id # b[k].id}
      OBVIOUS
<1>3. PICK T : T = {b[k] : k \in {j \in kept : b[j].id \in Technique}}
      OBVIOUS
<1>4. parse_bundle(b).techniques = T
      BY <1>2, <1>3 DEF parse_bundle
<1>5. ASSUME NEW o \in T, NEW p \in T, o.id = p.id PROVE o = p
      <2>1. PICK k \in kept : o = b[k]
            BY <1>3
      <2>2. PICK j \in kept : p = b[j]
            BY <1>3
      <2>3. k \in Int /\ j \in Int /\ 1 <= k /\ 1 <= j
            BY <1>1, <1>2
      <2>4. ~(k < j) /\ ~(j < k)
            BY <1>2, <1>5, <2>1, <2>2, <2>3
      <2> QED BY <2>1, <2>2, <2>3, <2>4
<1>6. ASSUME NEW o \in T PROVE o.id \in Technique /\ o.phases \subseteq Tactic
      <2>1. PICK k \in DOMAIN b : o = b[k] /\ b[k].id \in Technique
            BY <1>2, <1>3
      <2> QED BY <2>1, MitreConstants
<1> QED BY <1>4, <1>5, <1>6

(* An import leaves every technique with the links of its last bundle. *)
LEMMA ImportLinks ==
    ASSUME LinksArePublished, NEW b \in Bundle, import_bundle(parse_bundle(b))
    PROVE  LinksArePublished'
<1>1. PICK O, ids, A : O = parse_bundle(b).techniques /\ ids = {o.id : o \in O} /\ A = tactic'
      OBVIOUS
<1>2. /\ \A o, p \in O : o.id = p.id => o = p
      /\ \A o \in O : o.id \in Technique /\ o.phases \subseteq Tactic
      BY <1>1, OneObjectPerId
<1>3. /\ tactic \subseteq A /\ A = tactic'
      /\ belongs' = {l \in belongs : l[1] \notin ids} \cup UNION {{o.id} \X (o.phases \cap A) : o \in O}
      /\ published' = [t \in Technique |-> IF t \in ids THEN (CHOOSE o \in O : o.id = t).phases \cap A
                                           ELSE published[t]]
      BY <1>1 DEF import_bundle, _replace_technique_tactics
<1>4. \A o \in O : (CHOOSE p \in O : p.id = o.id) = o
      BY <1>2
<1>5. ASSUME NEW t \in Technique PROVE /\ published'[t] \subseteq tactic'
                                       /\ \A a : <<t, a>> \in belongs' <=> a \in published'[t]
      <2>1. CASE t \in ids
            <3>1. PICK o \in O : o.id = t
                  BY <1>1, <2>1
            <3>2. published'[t] = o.phases \cap A
                  BY <1>3, <1>4, <2>1, <3>1
            <3>3. ASSUME NEW a PROVE <<t, a>> \in belongs' <=> a \in o.phases \cap A
                  <4>1. ASSUME <<t, a>> \in belongs' PROVE a \in o.phases \cap A
                        <5>1. <<t, a>> \in UNION {{p.id} \X (p.phases \cap A) : p \in O}
                              BY <1>3, <2>1, <4>1
                        <5>2. PICK p \in O : <<t, a>> \in {p.id} \X (p.phases \cap A)
                              BY <5>1
                        <5>3. p.id = t /\ a \in p.phases \cap A
                              BY <5>2
                        <5> QED BY <1>2, <3>1, <5>3
                  <4>2. ASSUME a \in o.phases \cap A PROVE <<t, a>> \in belongs'
                        <5>1. <<t, a>> \in {o.id} \X (o.phases \cap A)
                              BY <3>1, <4>2
                        <5> QED BY <1>3, <5>1
                  <4> QED BY <4>1, <4>2
            <3> QED BY <1>3, <3>2, <3>3
      <2>2. CASE t \notin ids
            <3>1. published'[t] = published[t]
                  BY <1>3, <2>2
            <3>2. ASSUME NEW a PROVE <<t, a>> \in belongs' <=> <<t, a>> \in belongs
                  <4>1. ASSUME NEW p \in O PROVE <<t, a>> \notin {p.id} \X (p.phases \cap A)
                        <5>1. p.id # t
                              BY <1>1, <2>2
                        <5> QED BY <5>1
                  <4>2. <<t, a>> \notin UNION {{p.id} \X (p.phases \cap A) : p \in O}
                        BY <4>1
                  <4>3. <<t, a>>[1] \notin ids
                        BY <2>2
                  <4> QED BY <1>3, <4>2, <4>3
            <3> QED BY <1>3, <3>1, <3>2 DEF LinksArePublished
      <2> QED BY <2>1, <2>2
<1>6. ASSUME NEW l \in belongs' PROVE \E t \in Technique, a \in Tactic : l = <<t, a>>
      <2>1. CASE l \in belongs
            BY <2>1 DEF LinksArePublished
      <2>2. CASE \E o \in O : l \in {o.id} \X (o.phases \cap A)
            BY <1>2, <2>2
      <2> QED BY <1>3, <1>6, <2>1, <2>2
<1>7. published' = [t \in Technique |-> published'[t]]
      BY <1>3
<1> QED BY <1>5, <1>6, <1>7 DEF LinksArePublished

(* CoverageIsTrueAlone, of any report. *)
IsTrue(r) ==
    LET Placed(a, S) == Cardinality({t \in S : a \in r.placed[t]}) IN
    r.alone =>
      /\ r.covered = r.techniques \cap r.claimed
      /\ \A t \in r.techniques : t \in r.partial <=>
           t \notin r.claimed /\ \E s \in r.covered : ParentOf[s] = t
      /\ \A a \in DOMAIN r.tactics :
           r.tactics[a] = [total   |-> Placed(a, r.techniques),
                           covered |-> Placed(a, r.covered),
                           partial |-> Placed(a, r.partial)]
      /\ \A t \in r.techniques : r.placed[t] \subseteq DOMAIN r.tactics

(* A request is idle, or has the fields of one that has synced. *)
LEMMA RequestParts ==
    ASSUME CoverageRequests, NEW q \in Coverage
    PROVE  /\ covReq[q].phase = "idle" <=> covReq[q] = NoCoverage
           /\ covReq[q].phase = "synced" =>
                /\ covReq[q].alone \in BOOLEAN
                /\ covReq[q].alone => NothingSince(q)
<1>1. PICK n : n = NoCoverage
      OBVIOUS
<1>2. n.phase = "idle"
      BY <1>1 DEF NoCoverage
<1>3. CASE covReq[q] = n
      BY <1>1, <1>2, <1>3
<1>4. CASE covReq[q] # n
      <2>1. PICK y : \E a \in BOOLEAN : covReq[q] = Synced(y, a) /\ (a => NothingSince(q))
            BY <1>1, <1>4 DEF CoverageRequests
      <2>2. PICK a \in BOOLEAN : covReq[q] = Synced(y, a) /\ (a => NothingSince(q))
            BY <2>1
      <2>3. PICK c : c = covReq[q] /\ c = Synced(y, a)
            BY <2>2
      <2>4. c.phase = "synced" /\ c.alone = a
            BY <2>3 DEF Synced
      <2> QED BY <1>1, <1>2, <1>4, <2>2, <2>3, <2>4
<1> QED BY <1>3, <1>4

(* What coverage reports is the truth about the rules of the moment, if    *)
(* nothing has disturbed it since it looked them up.                       *)
LEMMA ReportIsTrue ==
    ASSUME LinksArePublished, CoverageRequests, NEW q \in Coverage, NEW all \in BOOLEAN, coverage(q, all)
    PROVE  CoverageIsTrueAlone'
<1>1. PICK mapped : mapped = (ruleMap \cup covReq[q].sync.add) \ covReq[q].sync.remove
      OBVIOUS
<1>2. PICK T : T = {t \in Known : all \/ ~technique[t].withdrawn}
      OBVIOUS
<1>3. PICK C : C = T \cap Covering(mapped)
      OBVIOUS
<1>4. PICK P : P = (T \cap {ParentOf[t] : t \in C}) \ C
      OBVIOUS
<1>5. PICK D : D = {a \in tactic : Cardinality({t \in T : <<t, a>> \in belongs}) > 0}
      OBVIOUS
<1>6. PICK N : N = [a \in D |-> [total   |-> Cardinality({t \in T : <<t, a>> \in belongs}),
                                 covered |-> Cardinality({t \in C : <<t, a>> \in belongs}),
                                 partial |-> Cardinality({t \in P : <<t, a>> \in belongs})]]
      OBVIOUS
<1>7. PICK K : K = {t \in Technique : \E r \in Rule : rule[r].enabled /\ t \in rule[r].claims}
      OBVIOUS
<1>8. PICK r : /\ r = report' /\ r.techniques = T /\ r.covered = C /\ r.partial = P /\ r.tactics = N
               /\ r.alone = covReq[q].alone /\ r.claimed = K /\ r.placed = published
      <2>1. PICK m : m = Measure(mapped, all)
            OBVIOUS
      <2>2. m = [techniques |-> T, covered |-> C, partial |-> P, tactics |-> N]
            BY <1>2, <1>3, <1>4, <1>5, <1>6, <2>1 DEF Measure
      <2>3. report' = [techniques |-> m.techniques, covered |-> m.covered, partial |-> m.partial,
                       tactics |-> m.tactics, alone |-> covReq[q].alone, claimed |-> K, placed |-> published]
            BY <1>1, <1>7, <2>1 DEF coverage
      <2> QED BY <2>2, <2>3
<1>9. T \subseteq Technique /\ T \subseteq Known
      BY <1>2 DEF Known
<1>10. C \subseteq T /\ P \subseteq T
       BY <1>3, <1>4
<1>11. ASSUME NEW S \in SUBSET Technique, NEW a
       PROVE  {t \in S : <<t, a>> \in belongs} = {t \in S : a \in published[t]}
       BY <1>11 DEF LinksArePublished
<1>12. \A t \in T : published[t] \subseteq D
       <2>1. ASSUME NEW t \in T, NEW a \in published[t] PROVE a \in D
             <3>1. a \in tactic /\ <<t, a>> \in belongs
                   BY <1>9, <2>1 DEF LinksArePublished
             <3>2. PICK S : S = {s \in T : <<s, a>> \in belongs}
                   OBVIOUS
             <3>3. S \subseteq Technique /\ t \in S
                   BY <1>9, <2>1, <3>1, <3>2
             <3>4. IsFiniteSet(S)
                   BY <3>3, FS_Subset, MitreConstants
             <3>5. Cardinality(S) \in Nat /\ Cardinality(S) # 0
                   BY <3>3, <3>4, FS_CardinalityType, FS_EmptySet
             <3>6. Cardinality(S) > 0
                   BY <3>5
             <3> QED BY <1>5, <3>1, <3>2, <3>6
       <2> QED BY <2>1
<1>13. DOMAIN N = D /\ \A a \in D : N[a] = [total   |-> Cardinality({t \in T : a \in published[t]}),
                                           covered |-> Cardinality({t \in C : a \in published[t]}),
                                           partial |-> Cardinality({t \in P : a \in published[t]})]
       <2>1. \A a : /\ {t \in T : <<t, a>> \in belongs} = {t \in T : a \in published[t]}
                    /\ {t \in C : <<t, a>> \in belongs} = {t \in C : a \in published[t]}
                    /\ {t \in P : <<t, a>> \in belongs} = {t \in P : a \in published[t]}
             BY <1>9, <1>10, <1>11
       <2> QED BY <1>6, <2>1
<1>14. ASSUME covReq[q].alone PROVE C = T \cap K
       <2>1. NothingSince(q)
             BY <1>14, RequestParts DEF coverage
       <2>2. mapped = Claims(Known)
             BY <1>1, <2>1 DEF NothingSince
       <2>3. ASSUME NEW t \in T PROVE t \in Covering(mapped) <=> t \in K
             <3>1. ASSUME t \in Covering(mapped) PROVE t \in K
                   <4>1. PICK l \in mapped : rule[l[1]].enabled /\ t = l[2]
                         BY <3>1 DEF Covering
                   <4>2. l \in Rule \X Known /\ l[2] \in rule[l[1]].claims
                         BY <2>2, <4>1 DEF Claims
                   <4>3. l[1] \in Rule
                         BY <4>2
                   <4> QED BY <1>7, <1>9, <2>3, <4>1, <4>2, <4>3
             <3>2. ASSUME t \in K PROVE t \in Covering(mapped)
                   <4>1. PICK s \in Rule : rule[s].enabled /\ t \in rule[s].claims
                         BY <1>7, <3>2
                   <4>2. PICK l \in Rule \X Known : l[1] = s /\ l[2] = t
                         <5>1. t \in Known
                               BY <1>9
                         <5>2. <<s, t>> \in Rule \X Known /\ <<s, t>>[1] = s /\ <<s, t>>[2] = t
                               BY <5>1
                         <5> QED BY <5>2
                   <4>3. l \in mapped
                         BY <2>2, <4>1, <4>2 DEF Claims
                   <4> QED BY <4>1, <4>2, <4>3 DEF Covering
             <3> QED BY <3>1, <3>2
       <2> QED BY <1>3, <2>3
<1>15. ASSUME covReq[q].alone, NEW t \in T
       PROVE  t \in P <=> t \notin K /\ \E s \in C : ParentOf[s] = t
       <2>1. C = T \cap K
             BY <1>14, <1>15
       <2> QED BY <1>4, <1>15, <2>1
<1>16. \A a : /\ {t \in r.techniques : a \in r.placed[t]} = {t \in T : a \in published[t]}
              /\ {t \in r.covered : a \in r.placed[t]} = {t \in C : a \in published[t]}
              /\ {t \in r.partial : a \in r.placed[t]} = {t \in P : a \in published[t]}
       BY <1>8
<1>17. \A a \in DOMAIN r.tactics : r.tactics[a] =
                         [total   |-> Cardinality({t \in r.techniques : a \in r.placed[t]}),
                          covered |-> Cardinality({t \in r.covered : a \in r.placed[t]}),
                          partial |-> Cardinality({t \in r.partial : a \in r.placed[t]})]
       BY <1>8, <1>13, <1>16
<1>18. r.alone =>
        /\ r.covered = r.techniques \cap r.claimed
        /\ \A t \in r.techniques : t \in r.partial <=>
             t \notin r.claimed /\ \E s \in r.covered : ParentOf[s] = t
       BY <1>8, <1>14, <1>15
<1>19. \A t \in r.techniques : r.placed[t] \subseteq DOMAIN r.tactics
       BY <1>8, <1>12, <1>13
<1>20. r = report'
       BY <1>8
<1>21. IsTrue(r)
       BY <1>17, <1>18, <1>19, Zenon DEF IsTrue
<1>22. IsTrue(report')
       BY <1>20, <1>21
<1> QED BY <1>22 DEF CoverageIsTrueAlone, IsTrue

(* The requests after a step that disturbs them all. *)
LEMMA DisturbedRequests ==
    ASSUME CoverageRequests, Disturbs
    PROVE  CoverageRequests'
<1>1. ASSUME NEW q \in Coverage
      PROVE  covReq'[q] = NoCoverage \/ \E y : covReq'[q] = Synced(y, FALSE)
      <2>1. CASE covReq[q] = NoCoverage
            <3>1. covReq[q].phase = "idle"
                  BY <2>1, RequestParts
            <3> QED BY <2>1, <3>1 DEF Disturbs
      <2>2. CASE covReq[q] # NoCoverage
            <3>1. PICK y, a : covReq[q] = Synced(y, a)
                  BY <2>2 DEF CoverageRequests
            <3>2. [Synced(y, a) EXCEPT !.alone = FALSE] = Synced(y, FALSE)
                  <4>1. \A v : [Synced(y, a) EXCEPT !.alone = v] = Synced(y, v)
                        BY DEF Synced
                  <4> QED BY <4>1
            <3>3. covReq'[q] = [covReq[q] EXCEPT !.alone = FALSE]
                  BY <2>2, RequestParts DEF Disturbs
            <3> QED BY <3>1, <3>2, <3>3
      <2> QED BY <2>1, <2>2
<1>2. covReq' = [q \in Coverage |-> covReq'[q]]
      BY DEF Disturbs
<1> QED BY <1>1, <1>2 DEF CoverageRequests

(* A request that ends was the only one, or disturbs nobody who was alone. *)
LEMMA EndedRequest ==
    ASSUME CoverageRequests, NEW p \in Coverage, covReq[p].phase = "synced",
           covReq' = [covReq EXCEPT ![p] = NoCoverage]
    PROVE  CoverageRequests'
<1>1. covReq' = [q \in Coverage |-> covReq'[q]] /\ covReq'[p] = NoCoverage
      /\ \A q \in Coverage : q # p => covReq'[q] = covReq[q]
      <2>1. PICK n : n = NoCoverage
            OBVIOUS
      <2>2. covReq' = [covReq EXCEPT ![p] = n] /\ covReq = [q \in Coverage |-> covReq[q]]
            BY <2>1 DEF CoverageRequests
      <2> QED BY <2>1, <2>2
<1>2. ASSUME NEW q \in Coverage, q # p, covReq[q] # NoCoverage
      PROVE  \E y : covReq[q] = Synced(y, FALSE)
      <2>1. PICK y : \E a \in BOOLEAN : covReq[q] = Synced(y, a) /\ (a => NothingSince(q))
            BY <1>2 DEF CoverageRequests
      <2>2. PICK a \in BOOLEAN : covReq[q] = Synced(y, a) /\ (a => NothingSince(q))
            BY <2>1
      <2>3. ~NothingSince(q)
            BY <1>2 DEF NothingSince
      <2>4. a = FALSE
            BY <2>2, <2>3
      <2> QED BY <2>2, <2>4
<1> QED BY <1>1, <1>2 DEF CoverageRequests

(* A request that begins looks up what there is to add and to remove. *)
LEMMA BegunRequest ==
    ASSUME CoverageRequests, NEW p \in Coverage, SyncForCoverage(p)
    PROVE  CoverageRequests'
<1>1. PICK y : y = sync_rule_mappings(Known, ruleMap)
      OBVIOUS
<1>2. PICK al \in BOOLEAN : al = (\A o \in Coverage : covReq[o].phase = "idle")
      BY Zenon
<1>3. covReq' = [q \in Coverage |->
         IF q = p THEN Synced(y, al)
         ELSE IF covReq[q].phase = "idle" THEN covReq[q]
         ELSE [covReq[q] EXCEPT !.alone = FALSE]]
      BY <1>1, <1>2 DEF SyncForCoverage, Synced
<1>4. covReq' = [q \in Coverage |-> covReq'[q]] /\ covReq'[p] = Synced(y, al)
      BY <1>3
<1>5. ASSUME NEW q \in Coverage, q # p
      PROVE  \/ covReq[q].phase = "idle" /\ covReq'[q] = NoCoverage
             \/ covReq[q].phase # "idle" /\ \E z : covReq'[q] = Synced(z, FALSE)
      <2>1. CASE covReq[q].phase = "idle"
            BY <1>3, <1>5, <2>1, RequestParts
      <2>2. CASE covReq[q].phase # "idle"
            <3>1. PICK z, a : covReq[q] = Synced(z, a)
                  BY <2>2, RequestParts DEF CoverageRequests
            <3>2. [Synced(z, a) EXCEPT !.alone = FALSE] = Synced(z, FALSE)
                  <4>1. \A v : [Synced(z, a) EXCEPT !.alone = v] = Synced(z, v)
                        BY DEF Synced
                  <4> QED BY <4>1
            <3>3. covReq'[q] = [covReq[q] EXCEPT !.alone = FALSE]
                  BY <1>3, <1>5, <2>2
            <3> QED BY <2>2, <3>1, <3>2, <3>3
      <2> QED BY <2>1, <2>2
<1>6. ASSUME al PROVE NothingSince(p)'
      <2>1. \A q \in Coverage : q # p => covReq'[q].phase = "idle"
            <3>1. PICK n : n = NoCoverage
                  OBVIOUS
            <3>2. n.phase = "idle"
                  BY <3>1 DEF NoCoverage
            <3>3. \A q \in Coverage : q # p => covReq'[q] = n
                  BY <1>2, <1>5, <1>6, <3>1
            <3> QED BY <3>2, <3>3
      <2>2. PICK c : c = covReq'[p]
            OBVIOUS
      <2>3. c.sync = y
            BY <1>4, <2>2 DEF Synced
      <2>4. y.add = Claims(Known) \ ruleMap /\ y.remove = ruleMap \ Claims(Known)
            BY <1>1 DEF sync_rule_mappings
      <2>5. UNCHANGED <<ruleMap, technique, rule>>
            BY DEF SyncForCoverage
      <2>6. Claims(Known)' = Claims(Known)
            BY <2>5 DEF Claims, Known
      <2> QED BY <2>1, <2>2, <2>3, <2>4, <2>5, <2>6 DEF NothingSince
<1>7. ASSUME NEW q \in Coverage
      PROVE  \/ covReq'[q] = NoCoverage
             \/ \E z : \E a \in BOOLEAN : covReq'[q] = Synced(z, a) /\ (a => NothingSince(q)')
      <2>1. CASE q = p
            BY <1>4, <1>6, <2>1
      <2>2. CASE q # p
            BY <1>5, <2>2
      <2> QED BY <2>1, <2>2
<1> QED BY <1>4, <1>7 DEF CoverageRequests

(* What the requests and the links depend on. *)
LEMMA MitreFrame ==
    /\ CoverageRequests /\ UNCHANGED <<covReq, technique, rule, ruleMap>> => CoverageRequests'
    /\ LinksArePublished /\ UNCHANGED <<belongs, published, tactic>> => LinksArePublished'
    /\ CoverageIsTrueAlone /\ UNCHANGED report => CoverageIsTrueAlone'
<1>1. ASSUME CoverageRequests, UNCHANGED <<covReq, technique, rule, ruleMap>> PROVE CoverageRequests'
      <2>1. Claims(Known)' = Claims(Known)
            BY <1>1 DEF Claims, Known
      <2>2. \A q \in Coverage : NothingSince(q) => NothingSince(q)'
            BY <1>1, <2>1 DEF NothingSince
      <2> QED BY <1>1, <2>2 DEF CoverageRequests
<1>2. LinksArePublished /\ UNCHANGED <<belongs, published, tactic>> => LinksArePublished'
      BY DEF LinksArePublished
<1>3. CoverageIsTrueAlone /\ UNCHANGED report => CoverageIsTrueAlone'
      <2>1. CoverageIsTrueAlone <=> IsTrue(report)
            BY DEF CoverageIsTrueAlone, IsTrue
      <2>2. CoverageIsTrueAlone' <=> IsTrue(report')
            BY DEF CoverageIsTrueAlone, IsTrue
      <2> QED BY <2>1, <2>2
<1> QED BY <1>1, <1>2, <1>3

(* Every step of the catalogue service keeps the invariant. *)
LEMMA MitreStep ==
    ASSUME MitreInv, [MitreNext]_mitreVars
    PROVE  MitreInv'
<1> USE DEF MitreInv
<1>1. CASE CatalogAges \/ stale_import \/ UNCHANGED mitreVars
      BY <1>1, MitreFrame DEF CatalogAges, stale_import, mitreVars
<1>2. ASSUME NEW b \in Bundle, refresh_attack_catalog(b) \/ import_catalog(b) PROVE MitreInv'
      <2>1. UNCHANGED report
            BY <1>2 DEF refresh_attack_catalog, import_catalog
      <2>2. CASE import_bundle(parse_bundle(b)) /\ Disturbs
            BY <2>1, <2>2, ImportLinks, DisturbedRequests, MitreFrame
      <2>3. CASE UNCHANGED <<technique, tactic, belongs, covReq, published, rule, ruleMap>>
            BY <2>1, <2>3, MitreFrame
      <2> QED BY <1>2, <2>2, <2>3 DEF refresh_attack_catalog, import_catalog
<1>3. ASSUME NEW r \in Rule, NEW claims \in SUBSET Technique, NEW on \in BOOLEAN, EditRule(r, claims, on)
      PROVE  MitreInv'
      BY <1>3, DisturbedRequests, MitreFrame DEF EditRule
<1>4. ASSUME NEW q \in Coverage, SyncForCoverage(q) PROVE MitreInv'
      BY <1>4, BegunRequest, MitreFrame DEF SyncForCoverage
<1>5. ASSUME NEW q \in Coverage, CoverageFails(q) PROVE MitreInv'
      BY <1>5, EndedRequest, MitreFrame DEF CoverageFails
<1>6. ASSUME NEW q \in Coverage, NEW all \in BOOLEAN, coverage(q, all) PROVE MitreInv'
      <2>1. /\ covReq[q].phase = "synced" /\ covReq' = [covReq EXCEPT ![q] = NoCoverage]
            /\ UNCHANGED <<belongs, published, tactic>>
            BY <1>6 DEF coverage
      <2>2. CoverageRequests'
            BY <2>1, EndedRequest
      <2>3. CoverageIsTrueAlone'
            BY <1>6, ReportIsTrue
      <2> QED BY <2>1, <2>2, <2>3, MitreFrame
<1> QED BY <1>1, <1>2, <1>3, <1>4, <1>5, <1>6 DEF MitreNext

(* A coverage report that nothing overlapped covers what the enabled rules *)
(* claim and counts the techniques where the last bundle to mention them   *)
(* put them, whatever the stored mapping had missed and however often the  *)
(* catalogue was imported (coverage, sync_rule_mappings, import_bundle).   *)
THEOREM CoverageIsTrueAloneHolds == MitreSpec => []CoverageIsTrueAlone
<1>1. MitreInit => MitreInv
      <2> SUFFICES ASSUME MitreInit PROVE MitreInv
          OBVIOUS
      <2>1. CoverageRequests
            BY DEF MitreInit, CoverageRequests
      <2>2. LinksArePublished
            BY DEF MitreInit, LinksArePublished
      <2>3. CoverageIsTrueAlone
            <3>1. PICK r : r = NoReport
                  OBVIOUS
            <3>2. r.techniques = {} /\ r.covered = {} /\ r.claimed = {} /\ DOMAIN r.tactics = {}
                  BY <3>1 DEF NoReport
            <3>3. IsTrue(r)
                  BY <3>2 DEF IsTrue
            <3>4. IsTrue(report)
                  BY <3>1, <3>3 DEF MitreInit
            <3> QED BY <3>4 DEF IsTrue, CoverageIsTrueAlone
      <2> QED BY <2>1, <2>2, <2>3 DEF MitreInv
<1>2. MitreInv /\ [MitreNext]_mitreVars => MitreInv'
      BY MitreStep
<1>3. MitreInv => CoverageIsTrueAlone
      BY DEF MitreInv
<1> QED BY <1>1, <1>2, <1>3, PTL DEF MitreSpec

-----------------------------------------------------------------------------
(* Threat intelligence. A pass of the feed worker holds rows nobody else   *)
(* can write, so what it wrote still follows from the committed rows when  *)
(* it commits (PassStands); an update reads its row without a lock, and    *)
(* its history row is true because whoever came between put the row on     *)
(* record (UpdatesStand).                                                  *)

(* The rows of iocs. *)
IocRow == [exists : BOOLEAN, class : CLASSIFICATIONS, lapsed : BOOLEAN, last_seen : Nat]

(* What a fetch brings when the feed lists the value. *)
Listed == Asserts \cup {Nothing}

(* What the variables hold; a request and the set of assertions only have  *)
(* their shape here, UpdatesStand and Explained say the rest.              *)
IntelTypes ==
    /\ ioc \in [Source -> IocRow]
    /\ iocHistory \in [Source -> Seq(CLASSIFICATIONS \X CLASSIFICATIONS)]
    /\ feed \in [Feed -> [status : {"never", "ok", "failed"}, synced : Nat, got : Published]]
    /\ passes \in Nat
    /\ iocReq = [q \in IocRequest |-> iocReq[q]]
    /\ asserted = [s \in Source |-> asserted[s]]
    /\ created \in [Source -> CLASSIFICATIONS]

(* An update in flight is of a row that exists, and has read what is       *)
(* there unless the row is on record; two of them on one row put it there. *)
UpdateStands(r) ==
    \E s \in Source : \E c \in Listed : \E seen \in CLASSIFICATIONS :
        /\ r = <<s, c, seen>> /\ s \notin SharedFeed /\ ioc[s].exists
        /\ s \notin muddled => seen = ioc[s].class

UpdatesStand ==
    /\ \A q \in IocRequest : iocReq[q] # "idle" => UpdateStands(iocReq[q])
    /\ \A p, q \in IocRequest :
         p # q /\ iocReq[p] # "idle" /\ iocReq[q] # "idle" /\ iocReq[p][1] = iocReq[q][1]
         => iocReq[p][1] \in muddled

(* The history h leads from class c to class d. *)
Leads(h, c, d) ==
    /\ \A k \in 1..Len(h) : h[k][1] = (IF k = 1 THEN c ELSE h[k - 1][2])
    /\ d = (IF h = <<>> THEN c ELSE h[Len(h)][2])

(* The indicator s says what somebody asserted, and its history leads to   *)
(* it; a row that is gone has left no history behind.                      *)
Explained(s) ==
    /\ ~ioc[s].exists => iocHistory[s] = <<>>
    /\ ioc[s].exists => /\ ioc[s].class \in asserted[s] \cup {"unknown"}
                        /\ s \notin muddled => Leads(iocHistory[s], created[s], ioc[s].class)

(* The feeds a pass reads in this phase. *)
PassFeeds(phase) == {f \in Feed : \/ phase = "shared" /\ f \in SharedFeed
                                  \/ phase = "tenant" /\ f \in TenantFeed}

(* What the open transaction wrote: the rows it listed, as they follow     *)
(* from the committed ones, which nobody else can write.                   *)
PassStands ==
    /\ pass = [phase |-> pass.phase, todo |-> pass.todo, rows |-> pass.rows,
               status |-> pass.status, got |-> pass.got]
    /\ pass.todo \subseteq PassFeeds(pass.phase) /\ DOMAIN pass.got \subseteq PassFeeds(pass.phase)
    /\ pass.todo \cap DOMAIN pass.got = {}
    /\ DOMAIN pass.status = DOMAIN pass.got
    /\ DOMAIN pass.rows = {f \in DOMAIN pass.got : pass.got[f] \in Listed}
    /\ \A f \in DOMAIN pass.got :
         /\ pass.got[f] \in Published
         /\ pass.status[f] = (IF pass.got[f] = "error" THEN "failed" ELSE "ok")
    /\ \A f \in DOMAIN pass.rows : pass.rows[f] = Upserted(ioc[f], pass.got[f])

(* A feed's row r and the indicator i of that feed, in this many passes. *)
FeedTrue(f, r, i, n) ==
    /\ i.last_seen <= n /\ r.synced <= n
    /\ r.status = "ok" /\ r.got \in Listed =>
         /\ i.exists => i.last_seen >= r.synced
         /\ i.exists \/ f \in TenantFeed
    /\ f \in SharedFeed /\ i.exists =>
         /\ i.last_seen <= r.synced
         /\ ~(r.status = "ok" /\ r.got \in Listed) => i.last_seen < r.synced

FeedsStand ==
    /\ \A f \in Feed : FeedTrue(f, feed[f], ioc[f], passes)
    /\ pass.phase = "shared" => \A f \in SharedFeed : feed[f].synced < passes

(* The inductive invariant. *)
IntelInv ==
    /\ IntelTypes /\ UpdatesStand /\ PassStands /\ FeedsStand
    /\ \A s \in Source : Explained(s)

-----------------------------------------------------------------------------
(* One more change of classification. *)
LEMMA LeadsOn ==
    ASSUME NEW h \in Seq(CLASSIFICATIONS \X CLASSIFICATIONS), NEW c, NEW d \in CLASSIFICATIONS,
           Leads(h, c, d), NEW e \in CLASSIFICATIONS
    PROVE  /\ Append(h, <<d, e>>) \in Seq(CLASSIFICATIONS \X CLASSIFICATIONS)
           /\ Leads(Append(h, <<d, e>>), c, e)
<1>1. PICK g : g = Append(h, <<d, e>>)
      OBVIOUS
<1>2. /\ g \in Seq(CLASSIFICATIONS \X CLASSIFICATIONS) /\ Len(g) = Len(h) + 1 /\ Len(h) \in Nat
      /\ \A k \in 1..Len(h) : g[k] = h[k]
      /\ g[Len(h) + 1] = <<d, e>>
      BY <1>1
<1>3. g[Len(h) + 1][1] = d /\ g[Len(h) + 1][2] = e /\ g # <<>>
      BY <1>2
<1>4. ASSUME NEW k \in 1..Len(g) PROVE g[k][1] = (IF k = 1 THEN c ELSE g[k - 1][2])
  <2>1. CASE k <= Len(h)
    <3>1. k \in 1..Len(h) /\ (k # 1 => k - 1 \in 1..Len(h))
          BY <1>2, <2>1
    <3> QED BY <1>2, <3>1 DEF Leads
  <2>2. CASE k = Len(h) + 1 /\ k # 1
    <3>1. k - 1 = Len(h) /\ Len(h) \in 1..Len(h) /\ h # <<>>
          BY <1>2, <2>2
    <3> QED BY <1>2, <1>3, <2>2, <3>1 DEF Leads
  <2>3. CASE k = Len(h) + 1 /\ k = 1
    <3>1. h = <<>>
          BY <1>2, <2>3
    <3> QED BY <1>3, <2>3, <3>1 DEF Leads
  <2> QED BY <1>2, <2>1, <2>2, <2>3
<1> QED BY <1>1, <1>2, <1>3, <1>4 DEF Leads

(* What the assumptions on the constants say of feeds, sources and words. *)
LEMMA Sources ==
    /\ Feed \subseteq Source /\ SharedFeed \subseteq Feed /\ TenantFeed \subseteq Feed
    /\ SharedFeed \cap TenantFeed = {}
    /\ \A s \in TenantFeed \cup {ByHand} : s \in Source /\ s \notin SharedFeed
    /\ Nothing \notin CLASSIFICATIONS \cup {"error", "absent", "garbage"}
    /\ Asserts \subseteq CLASSIFICATIONS /\ Listed \subseteq Published
    /\ "error" \notin Listed /\ "absent" \notin Listed
    /\ "unknown" \in CLASSIFICATIONS
BY IntelConstants DEF Feed, Source, CLASSIFICATIONS, Asserts, Listed, Published

(* A pass that has done nothing stands, whatever the rows are. *)
LEMMA FreshPass ==
    ASSUME NEW ph, NEW todo \in SUBSET PassFeeds(ph),
           pass' = [phase |-> ph, todo |-> todo, rows |-> <<>>, status |-> <<>>, got |-> <<>>]
    PROVE  PassStands' /\ pass'.phase = ph /\ DOMAIN pass'.rows = {}
<1>1. PICK e : e = <<>>
      OBVIOUS
<1>2. DOMAIN e = {}
      BY <1>1
<1>3. /\ pass'.phase = ph /\ pass'.todo = todo /\ pass'.rows = e /\ pass'.status = e
      /\ pass'.got = e
      BY <1>1
<1>4. pass' = [phase |-> pass'.phase, todo |-> pass'.todo, rows |-> pass'.rows,
               status |-> pass'.status, got |-> pass'.got]
      BY <1>1, <1>3
<1> QED BY <1>2, <1>3, <1>4 DEF PassStands, PassFeeds

(* Updates in flight stand as long as their rows do. *)
LEMMA UpdatesKept ==
    ASSUME UpdatesStand, muddled \subseteq muddled',
           \A q \in IocRequest : iocReq'[q] = iocReq[q] \/ iocReq'[q] = "idle",
           \A q \in IocRequest : \A s \in Source :
              iocReq'[q] # "idle" /\ iocReq[q][1] = s /\ ioc[s].exists =>
                ioc'[s].exists /\ (s \notin muddled' => ioc'[s].class = ioc[s].class)
    PROVE  UpdatesStand'
<1>1. ASSUME NEW q \in IocRequest, iocReq'[q] # "idle" PROVE UpdateStands(iocReq[q])'
  <2>1. PICK r : r = iocReq[q] /\ r = iocReq'[q]
        BY <1>1
  <2>2. UpdateStands(r)
        BY <1>1, <2>1 DEF UpdatesStand
  <2>3. PICK s \in Source : \E c \in Listed : \E seen \in CLASSIFICATIONS :
          /\ r = <<s, c, seen>> /\ s \notin SharedFeed /\ ioc[s].exists
          /\ s \notin muddled => seen = ioc[s].class
        BY <2>2 DEF UpdateStands
  <2>4. PICK c \in Listed : \E seen \in CLASSIFICATIONS :
          /\ r = <<s, c, seen>> /\ s \notin SharedFeed /\ ioc[s].exists
          /\ s \notin muddled => seen = ioc[s].class
        BY <2>3
  <2>5. PICK seen \in CLASSIFICATIONS :
          /\ r = <<s, c, seen>> /\ s \notin SharedFeed /\ ioc[s].exists
          /\ s \notin muddled => seen = ioc[s].class
        BY <2>4
  <2>6. iocReq[q][1] = s
        BY <2>1, <2>5
  <2>7. ioc'[s].exists /\ (s \notin muddled' => ioc'[s].class = ioc[s].class)
        BY <1>1, <2>5, <2>6
  <2> QED BY <2>1, <2>5, <2>7 DEF UpdateStands
<1>2. \A p, q \in IocRequest :
         p # q /\ iocReq'[p] # "idle" /\ iocReq'[q] # "idle" /\ iocReq'[p][1] = iocReq'[q][1]
         => iocReq'[p][1] \in muddled'
      BY DEF UpdatesStand
<1> QED BY <1>1, <1>2 DEF UpdatesStand

(* A row nobody has locked is written: the pass and the feeds stand. *)
LEMMA RowWritten ==
    ASSUME IntelInv, NEW s \in Source, ~Locked(s), NEW row \in IocRow,
           ioc' = [ioc EXCEPT ![s] = row], UNCHANGED <<feed, pass, passes>>,
           row.exists => \/ row.last_seen = passes /\ s \notin SharedFeed
                         \/ ioc[s].exists /\ row.last_seen = ioc[s].last_seen,
           ~row.exists => s \notin SharedFeed /\ row.last_seen <= passes
    PROVE  /\ ioc' \in [Source -> IocRow] /\ ioc'[s] = row
           /\ \A z \in Source : z # s => ioc'[z] = ioc[z]
           /\ PassStands' /\ FeedsStand'
<1>1. /\ ioc' \in [Source -> IocRow] /\ ioc'[s] = row
      /\ \A z \in Source : z # s => ioc'[z] = ioc[z]
      BY DEF IntelInv, IntelTypes
<1>2. PassStands'
  <2>1. \A f \in DOMAIN pass.rows : f \in Source /\ f # s
        BY Sources DEF IntelInv, PassStands, PassFeeds, Locked
  <2>2. \A f \in DOMAIN pass.rows : ioc'[f] = ioc[f]
        BY <1>1, <2>1
  <2>3. \A f \in DOMAIN pass.rows : pass'.rows[f] = Upserted(ioc[f], pass.got[f])'
        BY <2>2 DEF IntelInv, PassStands, Upserted
  <2> QED BY <2>3 DEF IntelInv, PassStands
<1>3. ASSUME NEW f \in Feed PROVE FeedTrue(f, feed[f], ioc'[f], passes)
  <2>1. FeedTrue(f, feed[f], ioc[f], passes)
        BY DEF IntelInv, FeedsStand
  <2>2. CASE f # s
        BY <1>1, <2>1, <2>2, Sources
  <2>3. CASE f = s
    <3>1. PICK r, i : r = feed[f] /\ i = ioc[f]
          OBVIOUS
    <3>2. FeedTrue(f, r, i, passes) /\ passes \in Nat /\ r.synced \in Nat
          BY <2>1, <3>1 DEF IntelInv, IntelTypes
    <3>a. FeedTrue(f, r, row, passes)
      <4>1. CASE row.exists /\ row.last_seen = passes /\ s \notin SharedFeed
            BY <2>3, <3>2, <4>1 DEF FeedTrue, IocRow, Feed
      <4>2. CASE row.exists /\ i.exists /\ row.last_seen = i.last_seen
            BY <2>3, <3>2, <4>2 DEF FeedTrue
      <4>3. CASE ~row.exists
        <5>1. s \notin SharedFeed /\ s \in TenantFeed /\ row.last_seen <= passes
              BY <2>3, <4>3 DEF Feed
        <5> QED BY <2>3, <3>2, <4>3, <5>1 DEF FeedTrue
      <4> QED BY <2>3, <3>1, <4>1, <4>2, <4>3
    <3> QED BY <1>1, <2>3, <3>1, <3>a
  <2> QED BY <2>2, <2>3
<1>4. FeedsStand'
      BY <1>3 DEF IntelInv, FeedsStand
<1> QED BY <1>1, <1>2, <1>4

(* create_ioc: the history starts with the class the analyst gave. *)
LEMMA IocCreated ==
    ASSUME IntelInv, NEW s \in Source, NEW class \in Asserts \cup {"unknown"}, create_ioc(s, class)
    PROVE  IntelInv'
<1>1. PICK row : row = [exists |-> TRUE, class |-> class, lapsed |-> FALSE, last_seen |-> passes]
      OBVIOUS
<1>2. class \in CLASSIFICATIONS
      BY Sources
<1>3. /\ row \in IocRow /\ row.exists /\ row.class = class /\ row.last_seen = passes
      BY <1>1, <1>2 DEF IocRow, IntelInv, IntelTypes
<1>4. /\ s \in TenantFeed \cup {ByHand} /\ ~ioc[s].exists /\ ~Locked(s)
      /\ ioc' = [ioc EXCEPT ![s] = row]
      /\ asserted' = [asserted EXCEPT ![s] = {class}]
      /\ created' = [created EXCEPT ![s] = class]
      /\ iocHistory' = [iocHistory EXCEPT ![s] = <<>>]
      /\ UNCHANGED <<feed, pass, passes, iocReq, muddled>>
      BY <1>1 DEF create_ioc
<1>5. s \notin SharedFeed
      BY <1>4, Sources
<1>6. /\ ioc' \in [Source -> IocRow] /\ ioc'[s] = row
      /\ \A z \in Source : z # s => ioc'[z] = ioc[z]
      /\ PassStands' /\ FeedsStand'
      BY <1>3, <1>4, <1>5, RowWritten
<1>7. IntelTypes'
  <2>1. iocHistory' \in [Source -> Seq(CLASSIFICATIONS \X CLASSIFICATIONS)]
        BY <1>4 DEF IntelInv, IntelTypes
  <2>2. asserted' = [z \in Source |-> asserted'[z]]
        BY <1>4 DEF IntelInv, IntelTypes
  <2>3. created' \in [Source -> CLASSIFICATIONS]
        BY <1>2, <1>4 DEF IntelInv, IntelTypes
  <2>4. iocReq' = [q \in IocRequest |-> iocReq'[q]]
        BY <1>4 DEF IntelInv, IntelTypes
  <2> QED BY <1>4, <1>6, <2>1, <2>2, <2>3, <2>4 DEF IntelInv, IntelTypes
<1>8. UpdatesStand'
      BY <1>4, <1>6, UpdatesKept DEF IntelInv
<1>9. ASSUME NEW z \in Source PROVE Explained(z)'
  <2>1. CASE z # s
        BY <1>4, <1>6, <2>1 DEF IntelInv, IntelTypes, Explained
  <2>2. CASE z = s
    <3>1. iocHistory'[s] = <<>> /\ created'[s] = class /\ asserted'[s] = {class}
          BY <1>4 DEF IntelInv, IntelTypes
    <3>2. Leads(<<>>, class, class)
          BY DEF Leads
    <3> QED BY <1>3, <1>6, <2>2, <3>1, <3>2 DEF Explained
  <2> QED BY <2>1, <2>2
<1> QED BY <1>6, <1>7, <1>8, <1>9 DEF IntelInv

(* delete_ioc: no history and no update in flight outlives the row. *)
LEMMA IocDeleted ==
    ASSUME IntelInv, NEW s \in Source, delete_ioc(s)
    PROVE  IntelInv'
<1>1. PICK row : row = NoIoc
      OBVIOUS
<1>2. row \in IocRow /\ ~row.exists /\ row.last_seen = 0
      BY <1>1, Sources DEF NoIoc, IocRow
<1>3. /\ s \notin SharedFeed /\ ~Locked(s)
      /\ ioc' = [ioc EXCEPT ![s] = row]
      /\ iocHistory' = [iocHistory EXCEPT ![s] = <<>>]
      /\ asserted' = [asserted EXCEPT ![s] = {}]
      /\ iocReq' = [q \in IocRequest |-> IF iocReq[q] # "idle" /\ iocReq[q][1] = s THEN "idle"
                                         ELSE iocReq[q]]
      /\ UNCHANGED <<feed, pass, passes, created, muddled>>
      BY <1>1 DEF delete_ioc
<1>4. row.last_seen <= passes
      BY <1>2 DEF IntelInv, IntelTypes
<1>5. /\ ioc' \in [Source -> IocRow] /\ ioc'[s] = row
      /\ \A z \in Source : z # s => ioc'[z] = ioc[z]
      /\ PassStands' /\ FeedsStand'
      BY <1>2, <1>3, <1>4, RowWritten
<1>6. IntelTypes'
  <2>1. iocHistory' \in [Source -> Seq(CLASSIFICATIONS \X CLASSIFICATIONS)]
        BY <1>3 DEF IntelInv, IntelTypes
  <2>2. asserted' = [z \in Source |-> asserted'[z]]
        BY <1>3 DEF IntelInv, IntelTypes
  <2>3. created' \in [Source -> CLASSIFICATIONS]
        BY <1>3 DEF IntelInv, IntelTypes
  <2>4. iocReq' = [q \in IocRequest |-> iocReq'[q]]
        BY <1>3 DEF IntelInv, IntelTypes
  <2> QED BY <1>3, <1>5, <2>1, <2>2, <2>3, <2>4 DEF IntelInv, IntelTypes
<1>7. UpdatesStand'
      BY <1>3, <1>5, UpdatesKept DEF IntelInv
<1>8. \A z \in Source : Explained(z)'
      BY <1>2, <1>3, <1>5 DEF IntelInv, IntelTypes, Explained
<1> QED BY <1>5, <1>6, <1>7, <1>8 DEF IntelInv

(* Expiry hides a row and changes nothing it says. *)
LEMMA IocLapses ==
    ASSUME IntelInv, NEW s \in Source, Lapse(s)
    PROVE  IntelInv'
<1>1. PICK row : row = [ioc[s] EXCEPT !.lapsed = TRUE]
      OBVIOUS
<1>2. ioc[s] \in IocRow
      BY DEF IntelInv, IntelTypes
<1>3. /\ row \in IocRow /\ row.exists = ioc[s].exists /\ row.class = ioc[s].class
      /\ row.last_seen = ioc[s].last_seen
      BY <1>1, <1>2 DEF IocRow
<1>4. /\ ioc[s].exists /\ ~Locked(s) /\ ioc' = [ioc EXCEPT ![s] = row]
      /\ UNCHANGED <<iocHistory, feed, pass, passes, iocReq, asserted, created, muddled>>
      BY <1>1 DEF Lapse
<1>5. /\ ioc' \in [Source -> IocRow] /\ ioc'[s] = row
      /\ \A z \in Source : z # s => ioc'[z] = ioc[z]
      /\ PassStands' /\ FeedsStand'
      BY <1>3, <1>4, RowWritten
<1>6. IntelTypes'
      BY <1>4, <1>5 DEF IntelInv, IntelTypes
<1>7. \A z \in Source : ioc'[z].exists = ioc[z].exists /\ ioc'[z].class = ioc[z].class
      BY <1>3, <1>5
<1>8. UpdatesStand'
      BY <1>4, <1>7, UpdatesKept DEF IntelInv
<1>9. \A z \in Source : Explained(z)'
      BY <1>4, <1>7 DEF IntelInv, Explained
<1> QED BY <1>5, <1>6, <1>8, <1>9 DEF IntelInv

(* update_ioc reads the row: a second reader puts it on record. *)
LEMMA UpdateBegins ==
    ASSUME IntelInv, NEW q \in IocRequest, NEW s \in Source, NEW class \in Listed,
           update_ioc(q, s, class)
    PROVE  IntelInv'
<1>1. PICK r : r = <<s, class, ioc[s].class>>
      OBVIOUS
<1>2. PICK M : M = {s} \cap {iocReq[p][1] : p \in {w \in IocRequest : iocReq[w] # "idle"}}
      OBVIOUS
<1>3. /\ s \notin SharedFeed /\ ioc[s].exists
      /\ iocReq' = [iocReq EXCEPT ![q] = r]
      /\ muddled' = muddled \cup M
      /\ UNCHANGED <<ioc, iocHistory, feed, pass, passes, asserted, created>>
      BY <1>1, <1>2 DEF update_ioc
<1>4. \A p \in IocRequest : iocReq[p] # "idle" /\ iocReq[p][1] = s => s \in muddled'
      BY <1>2, <1>3
<1>5. /\ iocReq' = [p \in IocRequest |-> iocReq'[p]] /\ iocReq'[q] = r
      /\ \A p \in IocRequest : p # q => iocReq'[p] = iocReq[p]
      BY <1>3 DEF IntelInv, IntelTypes
<1>6. r[1] = s
      BY <1>1
<1>7. UpdatesStand'
  <2>1. ASSUME NEW p \in IocRequest, iocReq'[p] # "idle" PROVE UpdateStands(iocReq[p])'
    <3>1. CASE p = q
      <4>1. ioc[s].class \in CLASSIFICATIONS
            BY DEF IntelInv, IntelTypes, IocRow
      <4>2. UpdateStands(r)'
            BY <1>1, <1>3, <4>1 DEF UpdateStands
      <4> QED BY <1>5, <3>1, <4>2 DEF UpdateStands
    <3>2. CASE p # q
      <4>1. PICK w : w = iocReq[p] /\ w = iocReq'[p]
            BY <1>5, <3>2
      <4>2. UpdateStands(w)
            BY <2>1, <4>1 DEF IntelInv, UpdatesStand
      <4>3. UpdateStands(w)'
            BY <1>3, <4>2 DEF UpdateStands
      <4> QED BY <4>1, <4>3 DEF UpdateStands
    <3> QED BY <3>1, <3>2
  <2>2. ASSUME NEW p \in IocRequest, NEW w \in IocRequest, p # w, iocReq'[p] # "idle",
               iocReq'[w] # "idle", iocReq'[p][1] = iocReq'[w][1]
        PROVE  iocReq'[p][1] \in muddled'
    <3>1. CASE p = q
          BY <1>4, <1>5, <1>6, <2>2, <3>1
    <3>2. CASE w = q
          BY <1>4, <1>5, <1>6, <2>2, <3>2
    <3>3. CASE p # q /\ w # q
          BY <1>3, <1>5, <2>2, <3>3 DEF IntelInv, UpdatesStand
    <3> QED BY <3>1, <3>2, <3>3
  <2> QED BY <2>1, <2>2 DEF UpdatesStand
<1>8. IntelTypes' /\ PassStands' /\ FeedsStand'
      BY <1>3, <1>5 DEF IntelInv, IntelTypes, PassStands, FeedsStand, Upserted
<1>9. \A z \in Source : Explained(z)'
      BY <1>3 DEF IntelInv, Explained
<1> QED BY <1>7, <1>8, <1>9 DEF IntelInv

(* An update that is rolled back was never there. *)
LEMMA UpdateRollsBack ==
    ASSUME IntelInv, NEW q \in IocRequest, RollbackIoc(q)
    PROVE  IntelInv'
<1>1. /\ iocReq' = [iocReq EXCEPT ![q] = "idle"]
      /\ UNCHANGED <<ioc, iocHistory, feed, pass, passes, asserted, created, muddled>>
      BY DEF RollbackIoc
<1>2. /\ iocReq' = [p \in IocRequest |-> iocReq'[p]]
      /\ \A p \in IocRequest : iocReq'[p] = iocReq[p] \/ iocReq'[p] = "idle"
      BY <1>1 DEF IntelInv, IntelTypes
<1>3. UpdatesStand'
      BY <1>1, <1>2, UpdatesKept DEF IntelInv
<1>4. IntelTypes' /\ PassStands' /\ FeedsStand' /\ \A z \in Source : Explained(z)'
      BY <1>1, <1>2 DEF IntelInv, IntelTypes, PassStands, FeedsStand, Upserted, Explained
<1> QED BY <1>3, <1>4 DEF IntelInv

(* The rest of update_ioc: the history row starts where the last one      *)
(* ended, because what the request read is still there.                    *)
LEMMA UpdateCommits ==
    ASSUME IntelInv, NEW q \in IocRequest, CommitIoc(q)
    PROVE  IntelInv'
<1>1. iocReq[q] # "idle"
      BY DEF CommitIoc
<1>2. PICK r : r = iocReq[q]
      OBVIOUS
<1>3. UpdateStands(r)
      BY <1>1, <1>2 DEF IntelInv, UpdatesStand
<1>4. PICK s \in Source : \E c \in Listed : \E seen \in CLASSIFICATIONS :
          /\ r = <<s, c, seen>> /\ s \notin SharedFeed /\ ioc[s].exists
          /\ s \notin muddled => seen = ioc[s].class
      BY <1>3 DEF UpdateStands
<1>5. PICK c \in Listed : \E seen \in CLASSIFICATIONS :
          /\ r = <<s, c, seen>> /\ s \notin SharedFeed /\ ioc[s].exists
          /\ s \notin muddled => seen = ioc[s].class
      BY <1>4
<1>6. PICK seen \in CLASSIFICATIONS :
          /\ r = <<s, c, seen>> /\ s \notin SharedFeed /\ ioc[s].exists
          /\ s \notin muddled => seen = ioc[s].class
      BY <1>5
<1>7. iocReq[q][1] = s /\ iocReq[q][2] = c /\ iocReq[q][3] = seen
      BY <1>2, <1>6
<1>8. PICK new : new = IF c \notin {Nothing, seen} THEN c ELSE ioc[s].class
      OBVIOUS
<1>9. PICK row : row = [ioc[s] EXCEPT !.class = new]
      OBVIOUS
<1>10. /\ ~Locked(s)
       /\ ioc' = [ioc EXCEPT ![s] = row]
       /\ iocHistory' = (IF new = seen THEN iocHistory
                         ELSE [iocHistory EXCEPT ![s] = Append(@, <<seen, new>>)])
       /\ asserted' = [asserted EXCEPT ![s] = @ \cup ({c} \ {Nothing})]
       /\ iocReq' = [iocReq EXCEPT ![q] = "idle"]
       /\ UNCHANGED <<feed, pass, passes, created, muddled>>
      BY <1>7, <1>8, <1>9 DEF CommitIoc
<1>11. ioc[s] \in IocRow /\ new \in CLASSIFICATIONS
  <2>1. ioc[s] \in IocRow
        BY DEF IntelInv, IntelTypes
  <2>2. c \notin {Nothing, seen} => c \in CLASSIFICATIONS
        BY Sources DEF Listed
  <2> QED BY <1>8, <2>1, <2>2 DEF IocRow
<1>12. /\ row \in IocRow /\ row.exists = ioc[s].exists /\ row.class = new
       /\ row.last_seen = ioc[s].last_seen
      BY <1>9, <1>11 DEF IocRow
<1>13. /\ ioc' \in [Source -> IocRow] /\ ioc'[s] = row
       /\ \A z \in Source : z # s => ioc'[z] = ioc[z]
       /\ PassStands' /\ FeedsStand'
      BY <1>6, <1>10, <1>12, RowWritten
<1>14. /\ iocReq' = [p \in IocRequest |-> iocReq'[p]] /\ iocReq'[q] = "idle"
       /\ \A p \in IocRequest : p # q => iocReq'[p] = iocReq[p]
      BY <1>10 DEF IntelInv, IntelTypes
<1>15. UpdatesStand'
  <2>1. ASSUME NEW p \in IocRequest, NEW z \in Source, iocReq'[p] # "idle", iocReq[p][1] = z,
               ioc[z].exists
        PROVE  ioc'[z].exists /\ (z \notin muddled' => ioc'[z].class = ioc[z].class)
    <3>1. p # q /\ iocReq[p] # "idle"
          BY <1>14, <2>1
    <3>2. CASE z = s
      <4>1. s \in muddled
            BY <1>1, <1>7, <2>1, <3>1, <3>2 DEF IntelInv, UpdatesStand
      <4> QED BY <1>6, <1>10, <1>12, <1>13, <3>2, <4>1
    <3>3. CASE z # s
          BY <1>13, <2>1, <3>3
    <3> QED BY <3>2, <3>3
  <2> QED BY <1>10, <1>14, <2>1, UpdatesKept DEF IntelInv
<1>16. PICK h : h = iocHistory[s]
      OBVIOUS
<1>17. h \in Seq(CLASSIFICATIONS \X CLASSIFICATIONS)
      BY <1>16 DEF IntelInv, IntelTypes
<1>18. Append(h, <<seen, new>>) \in Seq(CLASSIFICATIONS \X CLASSIFICATIONS)
      BY <1>11, <1>17
<1>19. /\ iocHistory' \in [Source -> Seq(CLASSIFICATIONS \X CLASSIFICATIONS)]
       /\ \A z \in Source : z # s => iocHistory'[z] = iocHistory[z]
       /\ iocHistory'[s] = IF new = seen THEN h ELSE Append(h, <<seen, new>>)
      BY <1>10, <1>16, <1>18 DEF IntelInv, IntelTypes
<1>20. /\ asserted' = [z \in Source |-> asserted'[z]]
       /\ asserted'[s] = asserted[s] \cup ({c} \ {Nothing})
       /\ \A z \in Source : z # s => asserted'[z] = asserted[z]
      BY <1>10 DEF IntelInv, IntelTypes
<1>21. IntelTypes'
      BY <1>10, <1>13, <1>14, <1>19, <1>20 DEF IntelInv, IntelTypes
<1>22. ASSUME NEW z \in Source PROVE Explained(z)'
  <2>1. Explained(z)
        BY DEF IntelInv
  <2>2. CASE z # s
        BY <1>10, <1>13, <1>19, <1>20, <2>1, <2>2 DEF Explained
  <2>3. CASE z = s
    <3>1. ioc'[s].class = new /\ ioc'[s].exists
          BY <1>6, <1>12, <1>13
    <3>2. new \in asserted'[s] \cup {"unknown"}
      <4>1. CASE c \notin {Nothing, seen}
            BY <1>8, <1>20, <4>1
      <4>2. CASE c \in {Nothing, seen}
            BY <1>6, <1>8, <1>20, <2>1, <2>3, <4>2 DEF Explained
      <4> QED BY <4>1, <4>2
    <3>3. s \notin muddled => Leads(iocHistory'[s], created'[s], new)
      <4> SUFFICES ASSUME s \notin muddled PROVE Leads(iocHistory'[s], created'[s], new)
          OBVIOUS
      <4>1. seen = ioc[s].class /\ Leads(h, created[s], seen)
            BY <1>6, <1>16, <2>1, <2>3 DEF Explained
      <4>2. CASE new = seen
            BY <1>10, <1>19, <4>1, <4>2
      <4>3. CASE new # seen
        <5>1. PICK d : d = created[s]
              OBVIOUS
        <5>2. Leads(h, d, seen)
              BY <4>1, <5>1
        <5>3. Leads(Append(h, <<seen, new>>), d, new)
              BY <1>11, <1>17, <5>2, LeadsOn
        <5> QED BY <1>10, <1>19, <4>3, <5>1, <5>3
      <4> QED BY <4>2, <4>3
    <3> QED BY <1>10, <2>3, <3>1, <3>2, <3>3 DEF Explained
  <2> QED BY <2>2, <2>3
<1> QED BY <1>13, <1>15, <1>21, <1>22 DEF IntelInv

(* sync_once: every shared feed was last synced in an earlier pass. *)
LEMMA PassBegins ==
    ASSUME IntelInv, sync_once
    PROVE  IntelInv'
<1>1. /\ passes' = passes + 1
      /\ pass' = [phase |-> "shared", todo |-> SharedFeed, rows |-> <<>>, status |-> <<>>,
                  got |-> <<>>]
      /\ UNCHANGED <<ioc, iocHistory, feed, iocReq, asserted, created, muddled>>
      BY DEF sync_once, IdlePass
<1>2. SharedFeed \in SUBSET PassFeeds("shared")
      BY Sources DEF PassFeeds
<1>3. PassStands' /\ pass'.phase = "shared"
      BY <1>1, <1>2, FreshPass
<1>4. passes \in Nat /\ passes' \in Nat
      BY <1>1 DEF IntelInv, IntelTypes
<1>5. ASSUME NEW f \in Feed
      PROVE  FeedTrue(f, feed[f], ioc[f], passes') /\ feed[f].synced < passes'
  <2>1. PICK r, i : r = feed[f] /\ i = ioc[f]
        OBVIOUS
  <2>2. FeedTrue(f, r, i, passes)
        BY <2>1 DEF IntelInv, FeedsStand
  <2>3. r.synced \in Nat /\ i.last_seen \in Nat
        BY <2>1, Sources DEF IntelInv, IntelTypes, IocRow
  <2>4. FeedTrue(f, r, i, passes') /\ r.synced < passes'
        BY <1>1, <1>4, <2>2, <2>3 DEF FeedTrue
  <2> QED BY <2>1, <2>4
<1>6. FeedsStand'
      BY <1>1, <1>5, Sources DEF FeedsStand
<1>7. IntelTypes'
      BY <1>1, <1>4 DEF IntelInv, IntelTypes
<1>8. UpdatesStand'
      BY <1>1, UpdatesKept DEF IntelInv
<1>9. \A z \in Source : Explained(z)'
      BY <1>1 DEF IntelInv, Explained
<1> QED BY <1>3, <1>6, <1>7, <1>8, <1>9 DEF IntelInv

(* Only the open transaction changes. *)
LEMMA PassMoves ==
    ASSUME IntelInv, PassStands', pass'.phase \in {pass.phase, "idle"},
           UNCHANGED <<ioc, iocHistory, feed, passes, iocReq, asserted, created, muddled>>
    PROVE  IntelInv'
<1>1. IntelTypes'
      BY DEF IntelInv, IntelTypes
<1>2. UpdatesStand'
      BY UpdatesKept DEF IntelInv
<1>3. FeedsStand'
      BY DEF IntelInv, FeedsStand
<1>4. \A z \in Source : Explained(z)'
      BY DEF IntelInv, Explained
<1> QED BY <1>1, <1>2, <1>3, <1>4 DEF IntelInv

(* The open transaction is rolled back. *)
LEMMA PassIsLost ==
    ASSUME IntelInv, pass' = IdlePass,
           UNCHANGED <<ioc, iocHistory, feed, passes, iocReq, asserted, created, muddled>>
    PROVE  IntelInv'
<1>1. PassStands' /\ pass'.phase = "idle"
  <2>1. pass' = [phase |-> "idle", todo |-> {}, rows |-> <<>>, status |-> <<>>, got |-> <<>>]
        BY DEF IdlePass
  <2> QED BY <2>1, FreshPass
<1> QED BY <1>1, PassMoves

(* sync_feed: one more feed in the open transaction. *)
LEMMA FeedIsRead ==
    ASSUME IntelInv, NEW f \in Feed, NEW got \in Published, sync_feed(f, got)
    PROVE  IntelInv'
<1>1. PICK ph, todo, rows, status, g :
         ph = pass.phase /\ todo = pass.todo /\ rows = pass.rows /\ status = pass.status
         /\ g = pass.got
      OBVIOUS
<1>2. pass = [phase |-> ph, todo |-> todo, rows |-> rows, status |-> status, got |-> g]
      BY <1>1 DEF IntelInv, PassStands
<1>3. PICK row : row = Upserted(ioc[f], got)
      OBVIOUS
<1>4. PICK rows2 : rows2 = IF got \in Listed
                           THEN [s \in DOMAIN rows \cup {f} |-> IF s = f THEN row ELSE rows[s]]
                           ELSE rows
      OBVIOUS
<1>5. PICK status2 : status2 = [z \in DOMAIN status \cup {f} |->
                        IF z # f THEN status[z] ELSE IF got = "error" THEN "failed" ELSE "ok"]
      OBVIOUS
<1>6. PICK g2 : g2 = [z \in DOMAIN g \cup {f} |-> IF z = f THEN got ELSE g[z]]
      OBVIOUS
<1>7. /\ f \in todo
      /\ UNCHANGED <<ioc, iocHistory, feed, passes, iocReq, asserted, created, muddled>>
      BY <1>1 DEF sync_feed
<1>8. pass' = [pass EXCEPT !.todo = todo \ {f}, !.rows = rows2, !.status = status2, !.got = g2]
      BY <1>1, <1>3, <1>4, <1>5, <1>6 DEF sync_feed, Listed
<1>9. pass' = [phase |-> ph, todo |-> todo \ {f}, rows |-> rows2, status |-> status2, got |-> g2]
      BY <1>2, <1>8
<1>10. /\ todo \subseteq PassFeeds(ph) /\ DOMAIN g \subseteq PassFeeds(ph)
       /\ todo \cap DOMAIN g = {}
       /\ DOMAIN status = DOMAIN g
       /\ DOMAIN rows = {z \in DOMAIN g : g[z] \in Listed}
       /\ \A z \in DOMAIN g :
            /\ g[z] \in Published
            /\ status[z] = (IF g[z] = "error" THEN "failed" ELSE "ok")
       /\ \A z \in DOMAIN rows : rows[z] = Upserted(ioc[z], g[z])
      BY <1>1 DEF IntelInv, PassStands
<1>11. f \notin DOMAIN g
      BY <1>7, <1>10
<1>12. DOMAIN g2 = DOMAIN g \cup {f} /\ g2[f] = got /\ \A z \in DOMAIN g : g2[z] = g[z]
      BY <1>6, <1>11
<1>13. /\ DOMAIN status2 = DOMAIN g2
       /\ status2[f] = (IF got = "error" THEN "failed" ELSE "ok")
       /\ \A z \in DOMAIN g : status2[z] = status[z]
      BY <1>5, <1>10, <1>11, <1>12
<1>14. /\ DOMAIN rows2 = {z \in DOMAIN g2 : g2[z] \in Listed}
       /\ \A z \in DOMAIN rows2 : rows2[z] = Upserted(ioc[z], g2[z])
  <2>1. CASE got \in Listed
    <3>1. DOMAIN rows2 = DOMAIN rows \cup {f} /\ rows2[f] = row
          /\ \A z \in DOMAIN rows : z # f => rows2[z] = rows[z]
          BY <1>4, <2>1
    <3> QED BY <1>3, <1>10, <1>11, <1>12, <2>1, <3>1
  <2>2. CASE got \notin Listed
    <3>1. rows2 = rows
          BY <1>4, <2>2
    <3> QED BY <1>10, <1>11, <1>12, <2>2, <3>1
  <2> QED BY <2>1, <2>2
<1>15. /\ pass'.phase = ph /\ pass'.todo = todo \ {f} /\ pass'.rows = rows2
       /\ pass'.status = status2 /\ pass'.got = g2
      BY <1>9
<1>16. PassStands'
  <2>2. /\ pass' = [phase |-> pass'.phase, todo |-> pass'.todo, rows |-> pass'.rows,
                    status |-> pass'.status, got |-> pass'.got]
        BY <1>9, <1>15
  <2>3. /\ pass'.todo \subseteq PassFeeds(pass'.phase) /\ DOMAIN pass'.got \subseteq PassFeeds(pass'.phase)
        /\ pass'.todo \cap DOMAIN pass'.got = {}
        BY <1>7, <1>10, <1>12, <1>15
  <2>4. \A z \in DOMAIN pass'.got :
         /\ pass'.got[z] \in Published
         /\ pass'.status[z] = (IF pass'.got[z] = "error" THEN "failed" ELSE "ok")
        BY <1>10, <1>12, <1>13, <1>15
  <2>5. \A z \in DOMAIN pass'.rows : pass'.rows[z] = Upserted(ioc[z], pass.got[z])'
        BY <1>7, <1>14, <1>15 DEF Upserted
  <2> QED BY <1>13, <1>14, <1>15, <2>2, <2>3, <2>4, <2>5 DEF PassStands
<1> QED BY <1>1, <1>7, <1>15, <1>16, PassMoves

(* The row upsert_from_feed leaves. *)
LEMMA RowUpserted ==
    ASSUME NEW row \in IocRow, NEW got \in Listed, passes \in Nat
    PROVE  /\ Upserted(row, got) \in IocRow /\ Upserted(row, got).exists
           /\ Upserted(row, got).last_seen = passes
           /\ Upserted(row, got).class
                = (IF got # Nothing THEN got ELSE IF row.exists THEN row.class ELSE "unknown")
<1>1. PICK c : c = IF got # Nothing THEN got ELSE IF row.exists THEN row.class ELSE "unknown"
      OBVIOUS
<1>2. c \in CLASSIFICATIONS
  <2>1. got # Nothing => got \in CLASSIFICATIONS
        BY Sources DEF Listed
  <2>2. row.class \in CLASSIFICATIONS
        BY DEF IocRow
  <2> QED BY <1>1, <2>1, <2>2, Sources
<1>3. Upserted(row, got) = [exists |-> TRUE, lapsed |-> FALSE, last_seen |-> passes, class |-> c]
      BY <1>1 DEF Upserted
<1> QED BY <1>1, <1>2, <1>3 DEF IocRow

(* The commit of a pass: a row it created starts a history, one it rewrote *)
(* is on record, and a feed row says what that feed brought.               *)
LEMMA FeedsCommit ==
    ASSUME IntelInv, CommitFeeds
    PROVE  IntelInv'
<1>1. PICK ph, W, G, rows, status, got :
         /\ ph = pass.phase /\ W = DOMAIN pass.rows /\ G = DOMAIN pass.got
         /\ rows = pass.rows /\ status = pass.status /\ got = pass.got
      OBVIOUS
<1>2. /\ G \subseteq PassFeeds(ph) /\ DOMAIN status = G
      /\ W = {f \in G : got[f] \in Listed}
      /\ \A f \in G : /\ got[f] \in Published
                      /\ status[f] = (IF got[f] = "error" THEN "failed" ELSE "ok")
      /\ \A f \in W : rows[f] = Upserted(ioc[f], got[f])
      BY <1>1 DEF IntelInv, PassStands
<1>3. /\ ph \in {"shared", "tenant"}
      /\ ioc' = [s \in Source |-> IF s \in W THEN rows[s] ELSE ioc[s]]
      /\ asserted' = [s \in Source |-> IF s \in W THEN asserted[s] \cup ({got[s]} \ {Nothing})
                                       ELSE asserted[s]]
      /\ created' = [s \in Source |-> IF s \in W /\ ~ioc[s].exists THEN rows[s].class
                                      ELSE created[s]]
      /\ muddled' = muddled \cup
           {s \in Source : s \in W /\ ioc[s].exists /\ rows[s].class # ioc[s].class}
      /\ feed' = [f \in Feed |-> IF f \in G THEN [status |-> status[f], synced |-> passes,
                                                  got |-> got[f]]
                                 ELSE feed[f]]
      /\ UNCHANGED <<iocHistory, passes, iocReq>>
      BY <1>1, <1>2 DEF CommitFeeds
<1>4. \A f \in G : f \in Feed /\ f \in Source
      BY <1>2, Sources DEF PassFeeds
<1>5. passes \in Nat /\ \A s \in Source : ioc[s] \in IocRow
      BY DEF IntelInv, IntelTypes
<1>6. \A f \in W : /\ f \in Source /\ rows[f] \in IocRow /\ rows[f].exists
                   /\ rows[f].last_seen = passes
                   /\ rows[f].class = (IF got[f] # Nothing THEN got[f]
                                       ELSE IF ioc[f].exists THEN ioc[f].class ELSE "unknown")
  <2> SUFFICES ASSUME NEW f \in W
               PROVE  /\ f \in Source /\ rows[f] \in IocRow /\ rows[f].exists
                      /\ rows[f].last_seen = passes
                      /\ rows[f].class = (IF got[f] # Nothing THEN got[f]
                                          ELSE IF ioc[f].exists THEN ioc[f].class ELSE "unknown")
      OBVIOUS
  <2>1. PICK i, g : i = ioc[f] /\ g = got[f]
        OBVIOUS
  <2>2. f \in Source /\ i \in IocRow /\ g \in Listed /\ rows[f] = Upserted(i, g)
        BY <1>2, <1>4, <1>5, <2>1
  <2>3. /\ Upserted(i, g) \in IocRow /\ Upserted(i, g).exists
        /\ Upserted(i, g).last_seen = passes
        /\ Upserted(i, g).class
             = (IF g # Nothing THEN g ELSE IF i.exists THEN i.class ELSE "unknown")
        BY <1>5, <2>2, RowUpserted
  <2> QED BY <2>1, <2>2, <2>3
<1>7. \A s \in Source : /\ s \in W => ioc'[s] = rows[s]
                        /\ s \notin W => ioc'[s] = ioc[s]
      BY <1>3
<1>8. IntelTypes'
  <2>1. ioc' \in [Source -> IocRow]
        BY <1>3, <1>5, <1>6
  <2>2. \A s \in W : rows[s].class \in CLASSIFICATIONS
        BY <1>6 DEF IocRow
  <2>3. created' \in [Source -> CLASSIFICATIONS]
        BY <1>3, <2>2 DEF IntelInv, IntelTypes
  <2>4. feed' \in [Feed -> [status : {"never", "ok", "failed"}, synced : Nat, got : Published]]
    <3>1. \A f \in G : [status |-> status[f], synced |-> passes, got |-> got[f]]
                         \in [status : {"never", "ok", "failed"}, synced : Nat, got : Published]
          BY <1>2, <1>5
    <3> QED BY <1>3, <3>1 DEF IntelInv, IntelTypes
  <2>5. asserted' = [s \in Source |-> asserted'[s]]
        BY <1>3
  <2> QED BY <1>3, <2>1, <2>3, <2>4, <2>5 DEF IntelInv, IntelTypes
<1>9. UpdatesStand'
  <2>1. \A s \in Source : ioc[s].exists =>
           ioc'[s].exists /\ (s \notin muddled' => ioc'[s].class = ioc[s].class)
        BY <1>3, <1>6, <1>7
  <2> QED BY <1>3, <2>1, UpdatesKept DEF IntelInv
<1>10. PassStands' /\ pass'.phase # "shared"
  <2>1. CASE ph = "shared"
    <3>1. pass' = [phase |-> "tenant", todo |-> TenantFeed, rows |-> <<>>, status |-> <<>>,
                   got |-> <<>>]
          BY <1>1, <2>1 DEF CommitFeeds, IdlePass
    <3>2. TenantFeed \in SUBSET PassFeeds("tenant")
          BY Sources DEF PassFeeds
    <3>3. PassStands' /\ pass'.phase = "tenant"
          BY <3>1, <3>2, FreshPass
    <3> QED BY <3>3
  <2>2. CASE ph # "shared"
    <3>1. pass' = [phase |-> "idle", todo |-> {}, rows |-> <<>>, status |-> <<>>, got |-> <<>>]
          BY <1>1, <2>2 DEF CommitFeeds, IdlePass
    <3>2. PassStands' /\ pass'.phase = "idle"
          BY <3>1, FreshPass
    <3> QED BY <3>2
  <2> QED BY <2>1, <2>2
<1>11. ASSUME NEW f \in Feed PROVE FeedTrue(f, feed'[f], ioc'[f], passes)
  <2>1. f \in Source
        BY Sources
  <2>2. PICK r, i : r = feed[f] /\ i = ioc[f]
        OBVIOUS
  <2>3. /\ FeedTrue(f, r, i, passes) /\ r.synced \in Nat /\ i.last_seen \in Nat
        BY <2>1, <2>2 DEF IntelInv, FeedsStand, IntelTypes, IocRow
  <2>4. CASE f \notin G
        BY <1>2, <1>3, <1>7, <2>1, <2>2, <2>3, <2>4
  <2>5. CASE f \in W
    <3>1. PICK n : n = [status |-> status[f], synced |-> passes, got |-> got[f]]
          OBVIOUS
    <3>2. PICK j : j = rows[f]
          OBVIOUS
    <3>3. feed'[f] = n /\ ioc'[f] = j /\ j.exists /\ j.last_seen = passes
          BY <1>2, <1>3, <1>6, <1>7, <2>1, <2>5, <3>1, <3>2
    <3>4. n.synced = passes /\ n.status = "ok" /\ n.got \in Listed
          BY <1>2, <2>5, <3>1, Sources
    <3>5. FeedTrue(f, n, j, passes)
          BY <1>5, <3>3, <3>4 DEF FeedTrue
    <3> QED BY <3>3, <3>5
  <2>6. CASE f \in G /\ f \notin W
    <3>1. PICK n : n = [status |-> status[f], synced |-> passes, got |-> got[f]]
          OBVIOUS
    <3>2. feed'[f] = n /\ ioc'[f] = i
          BY <1>3, <1>7, <2>1, <2>2, <2>6, <3>1
    <3>3. n.synced = passes /\ n.got \notin Listed
          BY <1>2, <2>6, <3>1
    <3>4. f \in SharedFeed => r.synced < passes
          BY <1>1, <1>2, <2>2, <2>6, Sources DEF IntelInv, FeedsStand, PassFeeds
    <3>5. FeedTrue(f, n, i, passes)
          BY <1>5, <2>3, <3>3, <3>4 DEF FeedTrue
    <3> QED BY <3>2, <3>5
  <2> QED BY <1>2, <2>4, <2>5, <2>6
<1>12. FeedsStand'
      BY <1>3, <1>10, <1>11 DEF FeedsStand
<1>13. ASSUME NEW s \in Source PROVE Explained(s)'
  <2>1. Explained(s)
        BY DEF IntelInv
  <2>2. CASE s \notin W
    <3>1. /\ ioc'[s] = ioc[s] /\ asserted'[s] = asserted[s] /\ created'[s] = created[s]
          /\ iocHistory'[s] = iocHistory[s] /\ (s \in muddled => s \in muddled')
          BY <1>3, <1>7, <2>2
    <3> QED BY <2>1, <3>1 DEF Explained
  <2>3. CASE s \in W
    <3>1. /\ ioc'[s] = rows[s] /\ asserted'[s] = asserted[s] \cup ({got[s]} \ {Nothing})
          /\ iocHistory'[s] = iocHistory[s]
          /\ ~ioc[s].exists => created'[s] = rows[s].class
          /\ ioc[s].exists => s \in muddled' \/ rows[s].class = ioc[s].class
          /\ ~ioc[s].exists => iocHistory[s] = <<>>
          /\ created'[s] = IF ioc[s].exists THEN created[s] ELSE rows[s].class
          /\ s \in muddled => s \in muddled'
          BY <1>3, <1>7, <2>1, <2>3 DEF Explained
    <3>2. rows[s].exists /\ rows[s].class \in asserted'[s] \cup {"unknown"}
      <4>1. CASE got[s] # Nothing
            BY <1>6, <2>3, <3>1, <4>1
      <4>2. CASE got[s] = Nothing
            BY <1>6, <2>1, <2>3, <3>1, <4>2 DEF Explained
      <4> QED BY <4>1, <4>2
    <3>3. \A c : Leads(<<>>, c, c)
          BY DEF Leads
    <3>4. ~ioc[s].exists => Leads(iocHistory'[s], created'[s], ioc'[s].class)
          BY <3>1, <3>3
    <3>5. ioc[s].exists /\ s \notin muddled' => Leads(iocHistory'[s], created'[s], ioc'[s].class)
          BY <2>1, <3>1 DEF Explained
    <3> QED BY <3>1, <3>2, <3>4, <3>5 DEF Explained
  <2> QED BY <2>2, <2>3
<1> QED BY <1>8, <1>9, <1>10, <1>12, <1>13 DEF IntelInv

(* Nothing is known and nothing is in flight. *)
LEMMA IntelInitially == IntelInit => IntelInv
<1> SUFFICES ASSUME IntelInit PROVE IntelInv
    OBVIOUS
<1>1. IntelTypes
  <2>1. NoIoc \in IocRow
        BY Sources DEF NoIoc, IocRow
  <2>2. "absent" \in Published
        BY DEF Published
  <2>3. <<>> \in Seq(CLASSIFICATIONS \X CLASSIFICATIONS)
        OBVIOUS
  <2>4. [status |-> "never", synced |-> 0, got |-> "absent"]
          \in [status : {"never", "ok", "failed"}, synced : Nat, got : Published]
        BY <2>2
  <2> QED BY <2>1, <2>3, <2>4, Sources DEF IntelInit, IntelTypes
<1>2. UpdatesStand
      BY DEF IntelInit, UpdatesStand
<1>3. PassStands
  <2>1. pass = [phase |-> "idle", todo |-> {}, rows |-> <<>>, status |-> <<>>, got |-> <<>>]
        BY DEF IntelInit, IdlePass
  <2>2. PICK e : e = <<>>
        OBVIOUS
  <2>3. DOMAIN e = {}
        BY <2>2
  <2>4. pass.todo = {} /\ pass.rows = e /\ pass.status = e /\ pass.got = e /\ pass.phase = "idle"
        BY <2>1, <2>2
  <2> QED BY <2>1, <2>2, <2>3, <2>4 DEF PassStands
<1>4. FeedsStand
  <2>1. \A f \in Feed : ~ioc[f].exists /\ ioc[f].last_seen = 0
        BY Sources DEF IntelInit, NoIoc
  <2>2. \A f \in Feed : feed[f].status = "never" /\ feed[f].synced = 0
        BY DEF IntelInit
  <2>3. passes = 0 /\ pass.phase = "idle"
        BY DEF IntelInit, IdlePass
  <2> QED BY <2>1, <2>2, <2>3 DEF FeedsStand, FeedTrue
<1>5. \A s \in Source : Explained(s)
      BY DEF IntelInit, Explained, NoIoc
<1> QED BY <1>1, <1>2, <1>3, <1>4, <1>5 DEF IntelInv

(* One step per operation. *)
LEMMA IntelStep == IntelInv /\ [IntelNext]_intelVars => IntelInv'
<1> SUFFICES ASSUME IntelInv, [IntelNext]_intelVars PROVE IntelInv'
    OBVIOUS
<1>1. ASSUME NEW s \in Source, NEW c \in Asserts \cup {"unknown"}, create_ioc(s, c)
      PROVE  IntelInv'
      BY <1>1, IocCreated
<1>2. ASSUME NEW s \in Source, delete_ioc(s) PROVE IntelInv'
      BY <1>2, IocDeleted
<1>3. ASSUME NEW s \in Source, Lapse(s) PROVE IntelInv'
      BY <1>3, IocLapses
<1>4. ASSUME NEW q \in IocRequest, NEW s \in Source, NEW c \in Asserts \cup {Nothing},
             update_ioc(q, s, c)
      PROVE  IntelInv'
      BY <1>4, UpdateBegins DEF Listed
<1>5. ASSUME NEW q \in IocRequest, CommitIoc(q) PROVE IntelInv'
      BY <1>5, UpdateCommits
<1>6. ASSUME NEW q \in IocRequest, RollbackIoc(q) PROVE IntelInv'
      BY <1>6, UpdateRollsBack
<1>7. CASE sync_once
      BY <1>7, PassBegins
<1>8. ASSUME NEW f \in Feed, FlushFails(f) PROVE IntelInv'
      BY <1>8, PassIsLost DEF FlushFails
<1>9. ASSUME NEW f \in Feed, NEW got \in Published, sync_feed(f, got) PROVE IntelInv'
      BY <1>9, FeedIsRead
<1>10. CASE CommitFeeds
      BY <1>10, FeedsCommit
<1>11. CASE PassCutShort
      BY <1>11, PassIsLost DEF PassCutShort
<1>12. CASE UNCHANGED intelVars
  <2>1. UNCHANGED <<ioc, iocHistory, feed, pass, passes, iocReq, asserted, created, muddled>>
        BY <1>12 DEF intelVars
  <2>2. PassStands'
        BY <2>1 DEF IntelInv, PassStands, Upserted
  <2> QED BY <2>1, <2>2, PassMoves
<1> QED BY <1>1, <1>2, <1>3, <1>4, <1>5, <1>6, <1>7, <1>8, <1>9, <1>10, <1>11, <1>12
        DEF IntelNext

(* Every indicator is explained by what was asserted, and every feed row   *)
(* by what the feed brought (update_ioc, upsert_from_feed, sync_feed),     *)
(* with any number of updates in flight and any number of feeds.           *)
THEOREM IntelligenceIsExplainedHolds == IntelSpec => []IntelligenceIsExplained
<1>1. IntelInv => IntelligenceIsExplained
  <2> SUFFICES ASSUME IntelInv PROVE IntelligenceIsExplained
      OBVIOUS
  <2>1. IndicatorsAreExplained
        BY DEF IntelInv, Explained, Leads, IndicatorsAreExplained
  <2>2. ASSUME NEW f \in Feed
        PROVE  LET listed == feed[f].status = "ok" /\ feed[f].got \in Asserts \cup {Nothing} IN
               /\ listed /\ ioc[f].exists => ioc[f].last_seen >= feed[f].synced
               /\ listed => f \in match \/ ioc[f].lapsed \/ (f \in TenantFeed /\ ~ioc[f].exists)
               /\ f \in SharedFeed /\ ioc[f].exists /\ ~listed
                    => ioc[f].last_seen < feed[f].synced
    <3>1. FeedTrue(f, feed[f], ioc[f], passes) /\ f \in Source
          BY Sources DEF IntelInv, FeedsStand
    <3>2. ioc[f].exists => f \in match \/ ioc[f].lapsed
          BY <3>1 DEF match
    <3> QED BY <3>1, <3>2 DEF FeedTrue, Listed
  <2> QED BY <2>1, <2>2 DEF FeedRowsAreTrue, IntelligenceIsExplained
<1> QED BY <1>1, IntelInitially, IntelStep, PTL DEF IntelSpec

-----------------------------------------------------------------------------
(* Scoring. The chain is what enrichment made of the events that are on    *)
(* record, and a score is of that chain (RiskInv); the rest is about the   *)
(* formula: how it rounds, what each factor can say, and how the score     *)
(* moves with one of them.                                                 *)

(* A set of naturals has a least element, *)
LEMMA LeastNatural ==
    ASSUME NEW T \in SUBSET Nat, T # {}
    PROVE  \E n \in T : \A m \in T : n <= m
<1>1. PICK R : R = OpToRel(<, Nat)
      OBVIOUS
<1>2. IsWellFoundedOn(R, Nat)
      BY <1>1, NatLessThanWellFounded
<1>3. PICK x \in T : \A y \in T : ~(<<y, x>> \in R)
      BY <1>2, WFMin
<1>4. \A y \in T : y < x => <<y, x>> \in R
      BY <1>1 DEF OpToRel
<1>5. \A y \in T : ~(y < x)
      BY <1>3, <1>4, Zenon
<1>6. \A y \in T : x <= y
      BY <1>5
<1> QED BY <1>6

(* A set of values a factor can have. *)
Values(S) == \A n \in S : n \in 0..Whole

(* The greatest of a set of values is one of them, if there is one. *)
LEMMA GreatestOfValues ==
    ASSUME NEW S, Values(S)
    PROVE  /\ Greatest(S) \in 0..Whole
           /\ \A n \in S : n <= Greatest(S)
           /\ S = {} => Greatest(S) = 0
           /\ S # {} => Greatest(S) \in S
<1>1. CASE S = {}
      BY <1>1 DEF Greatest, Whole
<1>2. CASE S # {}
  <2>1. PICK T : T = {Whole - n : n \in S}
        OBVIOUS
  <2>2. ASSUME NEW n \in S PROVE n \in Int /\ 0 <= n /\ n <= Whole /\ Whole - n \in Nat
    <3>1. n \in 0..Whole /\ Whole \in Int
          BY DEF Values, Whole
    <3> QED BY <3>1
  <2>a. T \in SUBSET Nat /\ T # {}
        BY <1>2, <2>1, <2>2
  <2>3. PICK t \in T : \A u \in T : t <= u
        BY <2>a, LeastNatural
  <2>4. PICK g \in S : t = Whole - g
        BY <2>1
  <2>5. ASSUME NEW n \in S PROVE n <= g
    <3>1. Whole - n \in T
          BY <2>1
    <3>2. Whole - g <= Whole - n
          BY <2>3, <2>4, <3>1
    <3> QED BY <2>2, <3>2 DEF Whole
  <2>6. Greatest(S) \in S /\ \A n \in S : n <= Greatest(S)
        BY <1>2, <2>5 DEF Greatest
  <2> QED BY <1>2, <2>6 DEF Values
<1> QED BY <1>1, <1>2

(* A member that no other exceeds is the greatest. *)
LEMMA GreatestIs ==
    ASSUME NEW S, Values(S), NEW g \in S, \A n \in S : n <= g
    PROVE  Greatest(S) = g
<1>1. Greatest(S) \in S /\ g <= Greatest(S) /\ Greatest(S) <= g
      BY GreatestOfValues
<1>2. g \in Int /\ Greatest(S) \in Int
      BY <1>1 DEF Values
<1> QED BY <1>1, <1>2

(* More values never have a smaller greatest. *)
LEMMA GreatestGrows ==
    ASSUME NEW S, NEW T, Values(T), S \subseteq T
    PROVE  Greatest(S) <= Greatest(T)
<1>1. Values(S)
      BY DEF Values
<1>a. Greatest(T) \in 0..Whole /\ \A n \in T : n <= Greatest(T)
      BY GreatestOfValues
<1>2. CASE S = {}
  <2>1. Greatest(S) = 0
        BY <1>1, <1>2, GreatestOfValues
  <2> QED BY <1>a, <2>1
<1>3. CASE S # {}
  <2>1. Greatest(S) \in S
        BY <1>1, <1>3, GreatestOfValues
  <2> QED BY <1>a, <2>1
<1> QED BY <1>2, <1>3

(* The scale is positive; its size is left out of the proofs below. *)
LEMMA TheWhole == Whole \in Nat /\ Whole > 0
BY DEF Whole

(* _clamp gives a value, whatever number it is given, *)
LEMMA ClampInRange ==
    ASSUME NEW v \in Int
    PROVE  _clamp(v) \in 0..Whole
BY DEF _clamp, Whole

(* and leaves a value alone. *)
LEMMA ClampKeeps ==
    ASSUME NEW v \in 0..Whole
    PROVE  _clamp(v) = v
BY DEF _clamp, Whole

(* Division with remainder. *)
LEMMA Division ==
    ASSUME NEW n \in Int, NEW d \in Int, d > 0
    PROVE  /\ n \div d \in Int /\ n % d \in Int
           /\ n = d * (n \div d) + (n % d)
           /\ 0 <= n % d /\ n % d < d
OBVIOUS

(* Rounding is off by half a unit at most. *)
LEMMA RoundBounds ==
    ASSUME NEW n \in Int, NEW d \in Int, d > 0
    PROVE  /\ Round(n, d) \in Int
           /\ 2 * n - d <= 2 * (d * Round(n, d))
           /\ 2 * (d * Round(n, d)) <= 2 * n + d
<1>1. PICK q \in Int, r \in Int : q = n \div d /\ r = n % d
      OBVIOUS
<1>2. n = d * q + r /\ 0 <= r /\ r < d
      BY <1>1, Division
<1>3. Round(n, d) = IF 2 * r > d \/ (2 * r = d /\ q % 2 = 1) THEN q + 1 ELSE q
      BY <1>1 DEF Round
<1>4. d * (q + 1) = d * q + d
      OBVIOUS
<1>5. PICK m \in Int : m = d * q
      OBVIOUS
<1> QED BY <1>2, <1>3, <1>4, <1>5

(* Rounding respects order, and a smaller denominator never lowers it. *)
LEMMA RoundGrows ==
    ASSUME NEW n \in Int, NEW m \in Int, n <= m, NEW d \in Int, d > 0
    PROVE  Round(n, d) <= Round(m, d)
<1>1. PICK a \in Int : a = Round(n, d) /\ 2 * (d * a) <= 2 * n + d
      BY RoundBounds, Zenon
<1>2. PICK b \in Int : b = Round(m, d) /\ 2 * m - d <= 2 * (d * b)
      BY RoundBounds, Zenon
<1> SUFFICES ASSUME a > b PROVE FALSE
    BY <1>1, <1>2
<1>3. d * b + d <= d * a
      OBVIOUS
<1>4. n = m
      BY <1>1, <1>2, <1>3
<1> QED BY <1>1, <1>2, <1>4

(* The same points of a smaller scale round to no less. *)
LEMMA RoundByLess ==
    ASSUME NEW n \in Nat, NEW d \in Int, NEW e \in Int, 0 < e, e <= d
    PROVE  Round(n, d) <= Round(n, e)
<1>0. n \in Int /\ d > 0 /\ e > 0
      OBVIOUS
<1>1. PICK a \in Int : a = Round(n, d) /\ 2 * (d * a) <= 2 * n + d
      BY <1>0, RoundBounds, Zenon
<1>2. PICK b \in Int : b = Round(n, e) /\ 2 * n - e <= 2 * (e * b)
      BY <1>0, RoundBounds, Zenon
<1> SUFFICES ASSUME a > b PROVE FALSE
    BY <1>1, <1>2
<1>3. b >= 0
  <2> SUFFICES ASSUME b <= -1 PROVE FALSE
      OBVIOUS
  <2>1. e * b <= -e
        OBVIOUS
  <2> QED BY <1>2, <2>1
<1>4. d * b + d <= d * a
      OBVIOUS
<1>5. e * b <= d * b
      BY <1>3
<1>6. d = e
      BY <1>1, <1>2, <1>4, <1>5
<1> QED BY <1>1, <1>2, <1>6

(* Nothing rounds to nothing, *)
LEMMA RoundZero ==
    ASSUME NEW d \in Int, d > 0
    PROVE  Round(0, d) = 0
<1>1. PICK a \in Int : a = Round(0, d) /\ 2 * 0 - d <= 2 * (d * a) /\ 2 * (d * a) <= 2 * 0 + d
  <2>1. 0 \in Int
        OBVIOUS
  <2> QED BY <2>1, RoundBounds, Zenon
<1>2. a < 1
  <2> SUFFICES ASSUME a >= 1 PROVE FALSE
      OBVIOUS
  <2>1. d * a >= d
        OBVIOUS
  <2> QED BY <1>1, <2>1
<1>3. a > -1
  <2> SUFFICES ASSUME a <= -1 PROVE FALSE
      OBVIOUS
  <2>1. d * a <= -d
        OBVIOUS
  <2> QED BY <1>1, <2>1
<1> QED BY <1>1, <1>2, <1>3

(* and nothing rounds to less. *)
LEMMA RoundNatural ==
    ASSUME NEW n \in Nat, NEW d \in Int, d > 0
    PROVE  Round(n, d) \in Nat
<1>1. n \in Int /\ 0 \in Int /\ 0 <= n
      OBVIOUS
<1>2. Round(n, d) \in Int
      BY <1>1, RoundBounds, Zenon
<1>3. Round(0, d) <= Round(n, d)
      BY <1>1, RoundGrows, Zenon
<1> QED BY <1>2, <1>3, RoundZero

-----------------------------------------------------------------------------
(* A value that is given, of a number. *)
GivenInt(v) == v = <<v[1]>> /\ v[1] \in Int

(* One factor of an explanation: capped at its weight, and zero without    *)
(* data.                                                                   *)
ProperFactor(f, x) ==
    /\ x.value \in 0..Whole
    /\ x.weight = WEIGHTS[f]
    /\ x.points = WEIGHTS[f] * x.value
    /\ x.available \in BOOLEAN
    /\ ~x.available => x.value = 0

Proper(fs) == \A f \in Factor : ProperFactor(f, fs[f])

(* A value that is given is not None. *)
LEMMA GivenIsNotAbsent ==
    ASSUME NEW v
    PROVE  <<v>> # Absent /\ <<v>>[1] = v
BY DEF Absent

(* The weights of the seven factors. *)
LEMMA TheWeights ==
    /\ WEIGHTS[1] = 30 /\ WEIGHTS[2] = 15 /\ WEIGHTS[3] = 20 /\ WEIGHTS[4] = 10
    /\ WEIGHTS[5] = 15 /\ WEIGHTS[6] = 7 /\ WEIGHTS[7] = 3
BY DEF WEIGHTS

(* Each is a natural number. *)
LEMMA WeightsAreNatural ==
    ASSUME NEW f \in Factor
    PROVE  WEIGHTS[f] \in Nat
<1>1. f = 1 \/ f = 2 \/ f = 3 \/ f = 4 \/ f = 5 \/ f = 6 \/ f = 7
      BY DEF Factor
<1> QED BY <1>1, TheWeights

(* _score makes a factor that is available exactly if it is given a value. *)
LEMMA ScoreIsProper ==
    ASSUME NEW f \in Factor, NEW value, value = Absent \/ GivenInt(value)
    PROVE  /\ ProperFactor(f, _score(f, value))
           /\ _score(f, value).available <=> value # Absent
           /\ value # Absent => _score(f, value).value = _clamp(value[1])
<1>1. CASE value = Absent
      BY <1>1, WeightsAreNatural DEF _score, ProperFactor, Whole
<1>2. CASE GivenInt(value)
  <2>1. value # Absent /\ value[1] \in Int
        BY <1>2, GivenIsNotAbsent, Zenon DEF GivenInt
  <2>2. _clamp(value[1]) \in 0..Whole
        BY <2>1, ClampInRange
  <2> QED BY <2>1, <2>2, WeightsAreNatural DEF _score, ProperFactor
<1> QED BY <1>1, <1>2

(* The score of factors whose points and available weight are these. *)
ScoreOf(points, weight) ==
    IF weight = 0 THEN 0 ELSE Round(points, 100 * Denominator(weight))

(* The points of an explanation never exceed its available weight. *)
LEMMA PointsAreWeighed ==
    ASSUME NEW fs, Proper(fs)
    PROVE  /\ AvailableWeight(fs) \in Nat /\ AvailableWeight(fs) <= 100
           /\ Points(fs) \in Nat
           /\ Points(fs) <= Whole * AvailableWeight(fs)
<1>1. ASSUME NEW f \in Factor, NEW w \in Nat, w = WEIGHTS[f]
      PROVE  /\ fs[f].points \in Nat
             /\ fs[f].points <= Whole * (IF fs[f].available THEN fs[f].weight ELSE 0)
             /\ fs[f].weight = w
  <2>1. fs[f].value \in 0..Whole /\ fs[f].points = w * fs[f].value /\ fs[f].weight = w
        BY <1>1 DEF Proper, ProperFactor
  <2>2. ~fs[f].available => fs[f].value = 0
        BY DEF Proper, ProperFactor
  <2>3. PICK v \in Nat : v = fs[f].value /\ v <= Whole
        BY <2>1, TheWhole
  <2>4. w * v \in Nat /\ w * v <= Whole * w
        BY <2>3, TheWhole
  <2>5. CASE fs[f].available
        BY <2>1, <2>3, <2>4, <2>5
  <2>6. CASE ~fs[f].available
        BY <2>1, <2>2, <2>3, <2>4, <2>6, TheWhole
  <2> QED BY <2>1, <2>5, <2>6
<1> DEFINE g == [f \in Factor |-> IF fs[f].available THEN fs[f].weight ELSE 0]
           p == [f \in Factor |-> fs[f].points]
           OK(f, w) == g[f] \in Nat /\ g[f] <= w /\ p[f] \in Nat /\ p[f] <= Whole * g[f]
<1>2. ASSUME NEW f \in Factor, NEW w \in Nat, w = WEIGHTS[f]
      PROVE  OK(f, w)
  <2>1. g[f] = (IF fs[f].available THEN fs[f].weight ELSE 0) /\ p[f] = fs[f].points
        OBVIOUS
  <2>2. fs[f].points \in Nat /\ fs[f].weight = w
        /\ fs[f].points <= Whole * (IF fs[f].available THEN fs[f].weight ELSE 0)
        BY <1>1, <1>2
  <2> QED BY <2>1, <2>2
<1> HIDE DEF g, p
<1>3. OK(1, 30) /\ OK(2, 15) /\ OK(3, 20) /\ OK(4, 10) /\ OK(5, 15) /\ OK(6, 7) /\ OK(7, 3)
      BY <1>2, TheWeights DEF Factor
<1>4. AvailableWeight(fs) = SumOf(g) /\ Points(fs) = SumOf(p)
      BY DEF AvailableWeight, Points, g, p
<1>5. SumOf(g) \in Nat /\ SumOf(g) <= 100 /\ SumOf(p) \in Nat
      BY <1>3 DEF SumOf
<1>6. SumOf(p) <= Whole * SumOf(g)
      BY <1>3, TheWhole DEF SumOf
<1> QED BY <1>4, <1>5, <1>6

(* The denominator is the available weight, or its floor of 60. *)
LEMMA TheDenominator ==
    ASSUME NEW w \in Nat
    PROVE  /\ Denominator(w) \in Nat /\ w <= Denominator(w) /\ 60 <= Denominator(w)
           /\ Denominator(w) = 60 \/ (Denominator(w) = w /\ w > 60)
BY DEF Denominator, MINIMUM_DENOMINATOR

(* A score is a percentage, and never more than the factors with data      *)
(* account for on a scale of 60 points.                                    *)
LEMMA ScoreInBounds ==
    ASSUME NEW p \in Nat, NEW w \in Nat, p <= Whole * w
    PROVE  /\ ScoreOf(p, w) \in Nat
           /\ ScoreOf(p, w) <= 100
           /\ ScoreOf(p, w) * 60 <= 100 * w + 30
<1>1. CASE w = 0
      BY <1>1 DEF ScoreOf
<1>2. CASE w > 0
  <2>1. PICK d \in Nat : /\ d = Denominator(w) /\ w <= d /\ 60 <= d
                         /\ d = 60 \/ (d = w /\ w > 60)
        BY TheDenominator
  <2>2. 100 * d \in Int /\ 100 * d > 0 /\ p \in Int
        BY <2>1
  <2>3. Round(p, 100 * d) \in Nat
        BY <2>2, RoundNatural, Zenon
  <2>4. PICK s \in Nat : /\ s = Round(p, 100 * d)
                         /\ 2 * ((100 * d) * s) <= 2 * p + 100 * d
        BY <2>2, <2>3, RoundBounds, Zenon
  <2>5. p <= 10000 * w
        BY DEF Whole
  <2>6. 2 * (d * s) <= 200 * w + d
        BY <2>4, <2>5
  <2>7. s <= 100
    <3> SUFFICES ASSUME s >= 101 PROVE FALSE
        OBVIOUS
    <3>1. d * s >= 101 * d
          OBVIOUS
    <3> QED BY <2>1, <2>6, <3>1
  <2>8. s * 60 <= 100 * w + 30
    <3>1. CASE d = 60
          BY <2>6, <3>1
    <3>2. CASE w > 60
          BY <2>7, <3>2
    <3> QED BY <2>1, <3>1, <3>2
  <2>9. ScoreOf(p, w) = s
        BY <1>2, <2>1, <2>4 DEF ScoreOf
  <2> QED BY <2>7, <2>8, <2>9
<1> QED BY <1>1, <1>2

(* More points of the same weight never score less, *)
LEMMA ScoreGrows ==
    ASSUME NEW p \in Nat, NEW q \in Nat, p <= q, NEW w \in Nat
    PROVE  ScoreOf(p, w) <= ScoreOf(q, w)
<1>1. CASE w = 0
      BY <1>1 DEF ScoreOf
<1>2. CASE w # 0
  <2>1. PICK d \in Nat : d = Denominator(w) /\ 60 <= d
        BY TheDenominator
  <2>2. 100 * d \in Int /\ 100 * d > 0 /\ p \in Int /\ q \in Int
        BY <2>1
  <2>3. Round(p, 100 * d) <= Round(q, 100 * d)
        BY <2>2, RoundGrows, Zenon
  <2> QED BY <1>2, <2>1, <2>3 DEF ScoreOf
<1> QED BY <1>1, <1>2

(* and neither do the same points of a smaller weight. *)
LEMMA ScoreByLess ==
    ASSUME NEW p \in Nat, NEW v \in Nat, NEW w \in Nat, v <= w, p <= Whole * v
    PROVE  ScoreOf(p, w) <= ScoreOf(p, v)
<1>1. CASE w = 0
      BY <1>1 DEF ScoreOf
<1>2. CASE w # 0
  <2>1. PICK d \in Nat : d = Denominator(w) /\ 60 <= d
        BY TheDenominator
  <2>2. PICK e \in Nat : e = Denominator(v) /\ 60 <= e
        BY TheDenominator
  <2>3. e <= d
        BY <2>1, <2>2 DEF Denominator, MINIMUM_DENOMINATOR
  <2>4. /\ 100 * d \in Int /\ 100 * d > 0
        /\ 100 * e \in Int /\ 0 < 100 * e /\ 100 * e <= 100 * d
        BY <2>1, <2>2, <2>3
  <2>5. ScoreOf(p, w) = Round(p, 100 * d)
        BY <1>2, <2>1 DEF ScoreOf
  <2>6. CASE v = 0
    <3>1. p = 0
          BY <2>6, TheWhole
    <3>2. Round(0, 100 * d) = 0
          BY <2>4, RoundZero, Zenon
    <3> QED BY <2>5, <2>6, <3>1, <3>2 DEF ScoreOf
  <2>7. CASE v # 0
    <3>1. ScoreOf(p, v) = Round(p, 100 * e)
          BY <2>2, <2>7 DEF ScoreOf
    <3>2. Round(p, 100 * d) <= Round(p, 100 * e)
          BY <2>4, RoundByLess, Zenon
    <3> QED BY <2>5, <3>1, <3>2
  <2> QED BY <2>6, <2>7
<1> QED BY <1>1, <1>2

-----------------------------------------------------------------------------
FactorScoreOf(fs) == ScoreOf(Points(fs), AvailableWeight(fs))

(* The sums of two explanations compare as their factors do. *)
LEMMA SumsCompare ==
    ASSUME NEW g, NEW h, \A f \in Factor : g[f] \in Int /\ h[f] \in Int /\ g[f] <= h[f]
    PROVE  SumOf(g) <= SumOf(h)
<1>1. /\ g[1] \in Int /\ h[1] \in Int /\ g[1] <= h[1] /\ g[2] \in Int /\ h[2] \in Int /\ g[2] <= h[2]
      /\ g[3] \in Int /\ h[3] \in Int /\ g[3] <= h[3] /\ g[4] \in Int /\ h[4] \in Int /\ g[4] <= h[4]
      /\ g[5] \in Int /\ h[5] \in Int /\ g[5] <= h[5] /\ g[6] \in Int /\ h[6] \in Int /\ g[6] <= h[6]
      /\ g[7] \in Int /\ h[7] \in Int /\ g[7] <= h[7]
      BY DEF Factor
<1> QED BY <1>1 DEF SumOf

(* The numbers of a factor. *)
LEMMA FactorNumbers ==
    ASSUME NEW fs, Proper(fs), NEW f \in Factor
    PROVE  fs[f].points \in Int /\ fs[f].weight \in Nat /\ fs[f].value \in Int
<1>1. WEIGHTS[f] \in Nat /\ ProperFactor(f, fs[f])
      BY WeightsAreNatural DEF Proper
<1> QED BY <1>1 DEF ProperFactor

(* Factors with more points add up to more points, *)
LEMMA PointsCompare ==
    ASSUME NEW fs, NEW gs, Proper(fs), Proper(gs), \A f \in Factor : fs[f].points <= gs[f].points
    PROVE  Points(fs) <= Points(gs)
<1> DEFINE g == [f \in Factor |-> fs[f].points]
           h == [f \in Factor |-> gs[f].points]
<1>1. \A f \in Factor : g[f] \in Int /\ h[f] \in Int /\ g[f] <= h[f]
      BY FactorNumbers
<1> HIDE DEF g, h
<1>2. SumOf(g) <= SumOf(h)
      BY <1>1, SumsCompare
<1> QED BY <1>2 DEF Points, g, h

(* and more factors with data to more weight. *)
LEMMA WeightsCompare ==
    ASSUME NEW fs, NEW gs, Proper(fs), Proper(gs),
           \A f \in Factor : fs[f].available => gs[f].available
    PROVE  AvailableWeight(fs) <= AvailableWeight(gs)
<1> DEFINE g == [f \in Factor |-> IF fs[f].available THEN fs[f].weight ELSE 0]
           h == [f \in Factor |-> IF gs[f].available THEN gs[f].weight ELSE 0]
<1>1. ASSUME NEW f \in Factor PROVE g[f] \in Int /\ h[f] \in Int /\ g[f] <= h[f]
  <2>1. fs[f].weight \in Nat /\ gs[f].weight \in Nat
        BY FactorNumbers
  <2>2. fs[f].weight = gs[f].weight
        BY DEF Proper, ProperFactor
  <2> QED BY <2>1, <2>2
<1> HIDE DEF g, h
<1>2. SumOf(g) <= SumOf(h)
      BY <1>1, SumsCompare
<1> QED BY <1>2 DEF AvailableWeight, g, h

(* One factor that says more, all else equal, never lowers the score. *)
LEMMA RaisedFactor ==
    ASSUME NEW fs, NEW gs, Proper(fs), Proper(gs), NEW k \in Factor,
           \A f \in Factor \ {k} : gs[f] = fs[f],
           gs[k].available <=> fs[k].available,
           fs[k].value <= gs[k].value
    PROVE  FactorScoreOf(fs) <= FactorScoreOf(gs)
<1>1. ASSUME NEW f \in Factor PROVE fs[f].points <= gs[f].points
  <2>1. fs[f].points \in Int
        BY FactorNumbers
  <2>2. CASE f # k
        BY <2>1, <2>2
  <2>3. CASE f = k
    <3>1. PICK w \in Nat : w = WEIGHTS[f]
          BY WeightsAreNatural
    <3>2. fs[f].points = w * fs[f].value /\ gs[f].points = w * gs[f].value
          BY <3>1 DEF Proper, ProperFactor
    <3>3. PICK u \in Int, v \in Int : u = fs[f].value /\ v = gs[f].value
          BY FactorNumbers
    <3>4. w * u <= w * v
          BY <2>3, <3>3
    <3> QED BY <3>2, <3>3, <3>4
  <2> QED BY <2>2, <2>3
<1>2. \A f \in Factor : fs[f].available <=> gs[f].available
      OBVIOUS
<1>3. Points(fs) <= Points(gs)
      BY <1>1, PointsCompare
<1>4. AvailableWeight(fs) <= AvailableWeight(gs) /\ AvailableWeight(gs) <= AvailableWeight(fs)
      BY <1>2, WeightsCompare
<1>5. /\ Points(fs) \in Nat /\ AvailableWeight(fs) \in Nat
      /\ Points(gs) \in Nat /\ AvailableWeight(gs) \in Nat
      BY PointsAreWeighed
<1>6. AvailableWeight(fs) = AvailableWeight(gs)
      BY <1>4, <1>5
<1> QED BY <1>3, <1>5, <1>6, ScoreGrows DEF FactorScoreOf

(* A factor without points, all else equal, never scores more for being known. *)
LEMMA LostFactor ==
    ASSUME NEW fs, NEW gs, Proper(fs), Proper(gs), NEW k \in Factor,
           \A f \in Factor \ {k} : gs[f] = fs[f],
           ~gs[k].available,
           fs[k].points = 0
    PROVE  FactorScoreOf(fs) <= FactorScoreOf(gs)
<1>0. gs[k].points = 0
  <2>1. PICK w \in Nat : w = WEIGHTS[k]
        BY WeightsAreNatural
  <2>2. gs[k].points = w * gs[k].value /\ gs[k].value = 0
        BY <2>1 DEF Proper, ProperFactor
  <2> QED BY <2>2
<1>1. \A f \in Factor : fs[f].points = gs[f].points
      BY <1>0
<1>2. \A f \in Factor : gs[f].available => fs[f].available
      OBVIOUS
<1>3. \A f \in Factor : fs[f].points <= gs[f].points /\ gs[f].points <= fs[f].points
      BY <1>1, FactorNumbers
<1>4. Points(fs) <= Points(gs) /\ Points(gs) <= Points(fs)
      BY <1>3, PointsCompare
<1>5. AvailableWeight(gs) <= AvailableWeight(fs)
      BY <1>2, WeightsCompare
<1>6. /\ Points(fs) \in Nat /\ AvailableWeight(fs) \in Nat
      /\ Points(gs) \in Nat /\ AvailableWeight(gs) \in Nat
      /\ Points(gs) <= Whole * AvailableWeight(gs)
      BY PointsAreWeighed
<1>7. Points(fs) = Points(gs)
      BY <1>4, <1>6
<1> QED BY <1>5, <1>6, <1>7, ScoreByLess DEF FactorScoreOf

-----------------------------------------------------------------------------
(* What the formula is given, of whatever it was put together from. *)
ContextOK(c) ==
    /\ c = [severity |-> c.severity, confidence |-> c.confidence, asset |-> c.asset,
            user |-> c.user, matches |-> c.matches, techniques |-> c.techniques,
            anomaly |-> c.anomaly]
    /\ c.severity = Absent \/ \E s \in DOMAIN SEVERITY_VALUES : c.severity = <<s>>
    /\ c.confidence = Absent \/ GivenInt(c.confidence)
    /\ c.asset = Absent \/ c.asset = <<c.asset[1]>>
    /\ c.user = Absent \/ GivenInt(c.user)
    /\ \/ c.matches = Absent
       \/ c.matches = <<c.matches[1]>> /\ \A m \in c.matches[1] : m.confidence \in Int
    /\ \/ c.anomaly = Absent
       \/ /\ c.anomaly = <<c.anomaly[1]>>
          /\ c.anomaly[1].score \in Int /\ c.anomaly[1].confidence \in Int

(* The tables hold values. *)
ValueTable(table) == \A k \in DOMAIN table : table[k] \in Nat /\ table[k] <= Whole

(* The severities, and what each is worth. *)
LEMMA SeverityTable ==
    /\ ValueTable(SEVERITY_VALUES) /\ "critical" \in DOMAIN SEVERITY_VALUES
    /\ SEVERITY_VALUES["critical"] = Whole
    /\ DOMAIN SEVERITY_VALUES = {"informational", "low", "medium", "high", "critical"}
BY DEF SEVERITY_VALUES, ValueTable, Whole

(* The criticalities, and what each is worth. *)
LEMMA CriticalityTable ==
    /\ ValueTable(CRITICALITY_VALUES)
    /\ DOMAIN CRITICALITY_VALUES = {"LOW", "MEDIUM", "HIGH", "CRITICAL"}
    /\ CRITICALITY_VALUES["LOW"] = 2500 /\ CRITICALITY_VALUES["MEDIUM"] = 5000
    /\ CRITICALITY_VALUES["HIGH"] = 7500 /\ CRITICALITY_VALUES["CRITICAL"] = Whole
    /\ Whole = 10000
BY DEF CRITICALITY_VALUES, ValueTable, Whole

(* The classifications of an indicator are worth values. *)
LEMMA ClassificationTable == ValueTable(IOC_CLASSIFICATION_VALUES)
BY DEF IOC_CLASSIFICATION_VALUES, ValueTable, Whole

(* The impact of a tactic is a value, known or not. *)
LEMMA ImpactTable ==
    ASSUME NEW t
    PROVE  Impact_(t) \in 0..Whole
<1>1. ValueTable(TECHNIQUE_IMPACT)
      BY DEF TECHNIQUE_IMPACT, ValueTable, Whole
<1>2. DEFAULT_TECHNIQUE_IMPACT \in Nat /\ DEFAULT_TECHNIQUE_IMPACT <= Whole
      BY DEF DEFAULT_TECHNIQUE_IMPACT, Whole
<1> QED BY <1>1, <1>2, TheWhole DEF Impact_, ValueTable

(* A key is looked up in a table: a value, or None for what it does not    *)
(* list.                                                                   *)
LEMMA LookedUp ==
    ASSUME NEW table, ValueTable(table), NEW key, key = Absent \/ key = <<key[1]>>
    PROVE  /\ Looked(table, key) = Absent \/ GivenInt(Looked(table, key))
           /\ Looked(table, key) # Absent <=> key # Absent /\ key[1] \in DOMAIN table
           /\ Looked(table, key) # Absent => Looked(table, key)[1] = table[key[1]]
<1>1. CASE key # Absent /\ key[1] \in DOMAIN table
  <2>1. Looked(table, key) = <<table[key[1]]>> /\ table[key[1]] \in Int
        BY <1>1 DEF Looked, ValueTable
  <2> QED BY <1>1, <2>1, GivenIsNotAbsent DEF GivenInt
<1>2. CASE ~(key # Absent /\ key[1] \in DOMAIN table)
      BY <1>2 DEF Looked
<1> QED BY <1>1, <1>2

(* A percentage is given exactly if the number it is of is. *)
LEMMA PercentGiven ==
    ASSUME NEW v, v = Absent \/ GivenInt(v)
    PROVE  /\ Percent(v) = Absent \/ GivenInt(Percent(v))
           /\ Percent(v) = Absent <=> v = Absent
           /\ v # Absent => Percent(v)[1] = v[1] * 100
<1>1. CASE v = Absent
      BY <1>1 DEF Percent
<1>2. CASE v # Absent /\ GivenInt(v)
  <2>1. Percent(v) = <<v[1] * 100>> /\ v[1] * 100 \in Int
        BY <1>2 DEF Percent, GivenInt
  <2> QED BY <1>2, <2>1, GivenIsNotAbsent DEF GivenInt
<1> QED BY <1>1, <1>2

(* A part of a value is a value. *)
LEMMA PartOfValue ==
    ASSUME NEW a \in Int, 0 <= a, a <= Whole, NEW b \in Int, 0 <= b, b <= Whole
    PROVE  (a * b) \div Whole \in 0..Whole
<1>1. a * b \in Int /\ 0 <= a * b /\ a * b <= Whole * Whole
      BY TheWhole
<1>2. PICK q \in Int, r \in Int : /\ q = (a * b) \div Whole
                                  /\ a * b = Whole * q + r /\ 0 <= r /\ r < Whole
  <2>1. Whole \in Int /\ Whole > 0
        BY TheWhole
  <2>2. /\ (a * b) \div Whole \in Int /\ (a * b) % Whole \in Int
        /\ a * b = Whole * ((a * b) \div Whole) + ((a * b) % Whole)
        /\ 0 <= (a * b) % Whole /\ (a * b) % Whole < Whole
        BY <1>1, <2>1, Division, Zenon
  <2> QED BY <2>2, Zenon
<1>3. 0 <= q
  <2> SUFFICES ASSUME q <= -1 PROVE FALSE
      OBVIOUS
  <2>1. Whole * q <= -Whole
        BY TheWhole
  <2> QED BY <1>1, <1>2, <2>1, TheWhole
<1>4. q <= Whole
  <2> SUFFICES ASSUME q >= Whole + 1 PROVE FALSE
      BY TheWhole
  <2>1. Whole * q >= Whole * Whole + Whole
        BY TheWhole
  <2> QED BY <1>1, <1>2, <2>1, TheWhole
<1> QED BY <1>2, <1>3, <1>4, TheWhole

(* The strength of an indicator is a value. *)
LEMMA StrengthIsValue ==
    ASSUME NEW m, m.confidence \in Int
    PROVE  Strength(m) \in 0..Whole
<1> DEFINE rank == Looked(IOC_CLASSIFICATION_VALUES, <<m.classification>>)
           a == IF rank = Absent THEN 3000 ELSE rank[1]
           b == _clamp(m.confidence * 100)
<1>1. b \in Int /\ 0 <= b /\ b <= Whole
      BY ClampInRange, TheWhole
<1>2. a \in Int /\ 0 <= a /\ a <= Whole
  <2>1. <<m.classification>> # Absent /\ <<m.classification>> = <<(<<m.classification>>)[1]>>
        BY GivenIsNotAbsent
  <2>2. /\ rank # Absent => <<m.classification>>[1] \in DOMAIN IOC_CLASSIFICATION_VALUES
        /\ rank # Absent => rank[1] = IOC_CLASSIFICATION_VALUES[<<m.classification>>[1]]
        BY <2>1, ClassificationTable, LookedUp
  <2>3. CASE rank = Absent
        BY <2>3 DEF Whole
  <2>4. CASE rank # Absent
        BY <2>2, <2>4, ClassificationTable DEF ValueTable
  <2> QED BY <2>3, <2>4
<1>3. Strength(m) = (a * b) \div Whole
      BY DEF Strength
<1> HIDE DEF a, b
<1> QED BY <1>1, <1>2, <1>3, PartOfValue

-----------------------------------------------------------------------------
(* The strengths of indicators, and the impacts of techniques, are values. *)
LEMMA StrengthsAreValues ==
    ASSUME NEW M, \A m \in M : m.confidence \in Int
    PROVE  Values({Strength(m) : m \in M})
<1>1. \A m \in M : Strength(m) \in 0..Whole
      BY StrengthIsValue
<1> QED BY <1>1 DEF Values

(* So are the impacts of techniques. *)
LEMMA ImpactsAreValues ==
    ASSUME NEW T
    PROVE  Values({Impact_(t) : t \in T})
BY ImpactTable DEF Values

(* The value each factor is scored by, where it has data. *)
Inputs(c) ==
    <<Looked(SEVERITY_VALUES, c.severity), Percent(c.confidence),
      Looked(CRITICALITY_VALUES, c.asset), Percent(c.user),
      IF c.matches = Absent THEN Absent ELSE <<Greatest({Strength(m) : m \in c.matches[1]})>>,
      IF c.techniques = {} THEN Absent ELSE <<Greatest({Impact_(t) : t \in c.techniques})>>,
      IF c.anomaly = Absent THEN Absent
      ELSE <<(c.anomaly[1].score * _clamp(c.anomaly[1].confidence * 100)) \div Whole>>>>

(* Every factor is scored by its input. *)
LEMMA FactorsOfInputs ==
    ASSUME NEW c
    PROVE  \A f \in Factor : Factors(c)[f] = _score(f, Inputs(c)[f])
<1>1. ASSUME NEW f \in Factor PROVE f = 1 \/ f = 2 \/ f = 3 \/ f = 4 \/ f = 5 \/ f = 6 \/ f = 7
      BY DEF Factor
<1>2. /\ Factors(c)[1] = _score(1, Inputs(c)[1]) /\ Factors(c)[2] = _score(2, Inputs(c)[2])
      /\ Factors(c)[3] = _score(3, Inputs(c)[3]) /\ Factors(c)[4] = _score(4, Inputs(c)[4])
      /\ Factors(c)[5] = _score(5, Inputs(c)[5]) /\ Factors(c)[6] = _score(6, Inputs(c)[6])
      /\ Factors(c)[7] = _score(7, Inputs(c)[7])
      BY DEF Factors, Inputs, severity_factor, confidence_factor, asset_criticality_factor,
             user_risk_factor, threat_intel_factor, mitre_context_factor, behavioral_anomaly_factor
<1> QED BY <1>1, <1>2

(* The inputs of a proper context are numbers, or None. *)
LEMMA InputsAreGiven ==
    ASSUME NEW c, ContextOK(c)
    PROVE  \A f \in Factor : Inputs(c)[f] = Absent \/ GivenInt(Inputs(c)[f])
<1> DEFINE OK(v) == v = Absent \/ GivenInt(v)
<1>1. OK(Looked(SEVERITY_VALUES, c.severity))
  <2>1. c.severity = Absent \/ c.severity = <<c.severity[1]>>
        BY GivenIsNotAbsent DEF ContextOK
  <2> QED BY <2>1, SeverityTable, LookedUp
<1>2. OK(Looked(CRITICALITY_VALUES, c.asset))
      BY CriticalityTable, LookedUp DEF ContextOK
<1>3. OK(Percent(c.confidence)) /\ OK(Percent(c.user))
      BY PercentGiven DEF ContextOK
<1>4. c.matches # Absent => OK(<<Greatest({Strength(m) : m \in c.matches[1]})>>)
  <2> SUFFICES ASSUME c.matches # Absent
               PROVE  Greatest({Strength(m) : m \in c.matches[1]}) \in Int
      BY GivenIsNotAbsent DEF GivenInt
  <2>1. Values({Strength(m) : m \in c.matches[1]})
        BY StrengthsAreValues DEF ContextOK
  <2> QED BY <2>1, GreatestOfValues
<1>5. OK(<<Greatest({Impact_(t) : t \in c.techniques})>>)
  <2>1. Greatest({Impact_(t) : t \in c.techniques}) \in Int
        BY ImpactsAreValues, GreatestOfValues
  <2> QED BY <2>1, GivenIsNotAbsent DEF GivenInt
<1>6. c.anomaly # Absent =>
        OK(<<(c.anomaly[1].score * _clamp(c.anomaly[1].confidence * 100)) \div Whole>>)
  <2> SUFFICES ASSUME c.anomaly # Absent
               PROVE  (c.anomaly[1].score * _clamp(c.anomaly[1].confidence * 100)) \div Whole \in Int
      BY GivenIsNotAbsent DEF GivenInt
  <2>1. c.anomaly[1].score \in Int /\ c.anomaly[1].confidence \in Int
        BY DEF ContextOK
  <2>2. _clamp(c.anomaly[1].confidence * 100) \in Int
        BY <2>1, ClampInRange
  <2>3. c.anomaly[1].score * _clamp(c.anomaly[1].confidence * 100) \in Int
        BY <2>1, <2>2
  <2>4. Whole \in Int /\ Whole > 0
        BY TheWhole
  <2> QED BY <2>3, <2>4, Division
<1>7. ASSUME NEW f \in Factor PROVE f = 1 \/ f = 2 \/ f = 3 \/ f = 4 \/ f = 5 \/ f = 6 \/ f = 7
      BY DEF Factor
<1> HIDE DEF OK
<1>8. OK(Absent)
      BY DEF OK
<1>9. /\ OK(Inputs(c)[1]) /\ OK(Inputs(c)[2]) /\ OK(Inputs(c)[3]) /\ OK(Inputs(c)[4])
      /\ OK(Inputs(c)[5]) /\ OK(Inputs(c)[6]) /\ OK(Inputs(c)[7])
      BY <1>1, <1>2, <1>3, <1>4, <1>5, <1>6, <1>8 DEF Inputs
<1>10. ASSUME NEW f \in Factor PROVE OK(Inputs(c)[f])
       BY <1>7, <1>9
<1> QED BY <1>10 DEF OK

(* The factors of a proper context are proper, and known as its inputs     *)
(* are.                                                                    *)
LEMMA FactorsAreProper ==
    ASSUME NEW c, ContextOK(c)
    PROVE  /\ Proper(Factors(c))
           /\ \A f \in Factor : /\ Factors(c)[f].available <=> Inputs(c)[f] # Absent
                                /\ Inputs(c)[f] # Absent =>
                                     Factors(c)[f].value = _clamp(Inputs(c)[f][1])
<1> SUFFICES ASSUME NEW f \in Factor
             PROVE  /\ ProperFactor(f, Factors(c)[f])
                    /\ Factors(c)[f].available <=> Inputs(c)[f] # Absent
                    /\ Inputs(c)[f] # Absent => Factors(c)[f].value = _clamp(Inputs(c)[f][1])
    BY DEF Proper
<1>1. Factors(c)[f] = _score(f, Inputs(c)[f])
      BY FactorsOfInputs
<1>2. Inputs(c)[f] = Absent \/ GivenInt(Inputs(c)[f])
      BY InputsAreGiven
<1> QED BY <1>1, <1>2, ScoreIsProper

(* assess is the score of its factors: the cap at 100 is never needed. *)
LEMMA AssessIsScore ==
    ASSUME NEW c, ContextOK(c)
    PROVE  /\ assess(c) = FactorScoreOf(Factors(c))
           /\ assess(c) \in Nat /\ assess(c) <= 100
           /\ assess(c) * 60 <= 100 * AvailableWeight(Factors(c)) + 30
<1>1. PICK fs : fs = Factors(c)
      OBVIOUS
<1>2. /\ AvailableWeight(fs) \in Nat /\ Points(fs) \in Nat
      /\ Points(fs) <= Whole * AvailableWeight(fs)
      BY <1>1, FactorsAreProper, PointsAreWeighed
<1>3. PICK s : s = FactorScoreOf(fs)
      OBVIOUS
<1>4. s \in Nat /\ s <= 100 /\ s * 60 <= 100 * AvailableWeight(fs) + 30
      BY <1>2, <1>3, ScoreInBounds DEF FactorScoreOf
<1>5. assess(c) = IF s > 100 THEN 100 ELSE s
      BY <1>1, <1>3 DEF assess, FactorScoreOf, ScoreOf
<1> QED BY <1>1, <1>3, <1>4, <1>5

(* w differs from c in the input of one factor. *)
Differ(c, w, k) ==
    ContextOK(w) /\ \A f \in Factor \ {k} : Inputs(w)[f] = Inputs(c)[f]

(* Contexts that differ in one input differ in one factor. *)
LEMMA DifferInFactor ==
    ASSUME NEW c, NEW w, NEW k \in Factor, Differ(c, w, k)
    PROVE  \A f \in Factor \ {k} : Factors(w)[f] = Factors(c)[f]
<1>1. \A f \in Factor \ {k} : Inputs(w)[f] = Inputs(c)[f]
      BY DEF Differ
<1> QED BY <1>1, FactorsOfInputs

(* Not knowing an input that gave no points never lowers the score. *)
LEMMA LostInput ==
    ASSUME NEW c, ContextOK(c), NEW w, NEW k \in Factor, Differ(c, w, k), Inputs(w)[k] = Absent,
           Factors(c)[k].available /\ ~Factors(w)[k].available => Factors(c)[k].points = 0
    PROVE  assess(c) <= assess(w)
<1>1. ContextOK(w)
      BY DEF Differ
<1>2. Proper(Factors(c)) /\ Proper(Factors(w)) /\ ~Factors(w)[k].available
      BY <1>1, FactorsAreProper
<1>3. Factors(c)[k].points = 0
  <2>1. CASE Factors(c)[k].available
        BY <1>2, <2>1
  <2>2. CASE ~Factors(c)[k].available
    <3>1. PICK n \in Nat : n = WEIGHTS[k]
          BY WeightsAreNatural
    <3>2. Factors(c)[k].points = n * Factors(c)[k].value /\ Factors(c)[k].value = 0
          BY <1>2, <2>2, <3>1 DEF Proper, ProperFactor
    <3> QED BY <3>2
  <2> QED BY <2>1, <2>2
<1>4. FactorScoreOf(Factors(c)) <= FactorScoreOf(Factors(w))
      BY <1>2, <1>3, DifferInFactor, LostFactor
<1> QED BY <1>1, <1>4, AssessIsScore

(* That input is as much there, and says no less. *)
Raised(c, w, k) ==
    /\ Differ(c, w, k)
    /\ Inputs(w)[k] = Absent <=> Inputs(c)[k] = Absent
    /\ Inputs(c)[k] # Absent => Inputs(c)[k][1] <= Inputs(w)[k][1]

(* An input that says more never lowers the score. *)
LEMMA RaisedInput ==
    ASSUME NEW c, ContextOK(c), NEW w, NEW k \in Factor, Raised(c, w, k)
    PROVE  assess(c) <= assess(w)
<1> USE DEF Raised
<1>1. ContextOK(w)
      BY DEF Differ
<1>2. /\ Proper(Factors(c)) /\ Proper(Factors(w))
      /\ Factors(c)[k].available <=> Inputs(c)[k] # Absent
      /\ Factors(w)[k].available <=> Inputs(w)[k] # Absent
      BY <1>1, FactorsAreProper
<1>3. Factors(c)[k].value <= Factors(w)[k].value
  <2>1. CASE Inputs(c)[k] = Absent
    <3>1. Factors(c)[k].value = 0 /\ Factors(w)[k].value = 0
          BY <1>2, <2>1 DEF Proper, ProperFactor
    <3> QED BY <3>1
  <2>2. CASE Inputs(c)[k] # Absent
    <3>1. PICK a \in Int, b \in Int : a = Inputs(c)[k][1] /\ b = Inputs(w)[k][1]
          BY <1>1, <2>2, InputsAreGiven DEF GivenInt
    <3>2. Factors(c)[k].value = _clamp(a) /\ Factors(w)[k].value = _clamp(b)
          BY <1>1, <2>2, <3>1, FactorsAreProper
    <3>3. a <= b
          BY <2>2, <3>1
    <3>4. _clamp(a) <= _clamp(b)
          BY <3>3, TheWhole DEF _clamp
    <3> QED BY <3>2, <3>4
  <2> QED BY <2>1, <2>2
<1>4. FactorScoreOf(Factors(c)) <= FactorScoreOf(Factors(w))
  <2>1. Factors(w)[k].available <=> Factors(c)[k].available
        BY <1>2
  <2> QED BY <1>2, <1>3, <2>1, DifferInFactor, RaisedFactor
<1> QED BY <1>1, <1>4, AssessIsScore

-----------------------------------------------------------------------------
Context(severity, confidence, asset, user, matches, techniques, anomaly) ==
    [severity |-> severity, confidence |-> confidence, asset |-> asset, user |-> user,
     matches |-> matches, techniques |-> techniques, anomaly |-> anomaly]

(* The fields of a context. *)
LEMMA ContextFields ==
    ASSUME NEW a, NEW b, NEW d, NEW e, NEW m, NEW t, NEW n, NEW c, c = Context(a, b, d, e, m, t, n)
    PROVE  /\ c.severity = a /\ c.confidence = b /\ c.asset = d /\ c.user = e /\ c.matches = m
           /\ c.techniques = t /\ c.anomaly = n
           /\ c = [severity |-> c.severity, confidence |-> c.confidence, asset |-> c.asset,
                   user |-> c.user, matches |-> c.matches, techniques |-> c.techniques,
                   anomaly |-> c.anomaly]
BY DEF Context

(* Two contexts that agree on a field agree on the input it gives. *)
LEMMA SameInputs ==
    ASSUME NEW c, NEW w
    PROVE  /\ w.severity = c.severity => Inputs(w)[1] = Inputs(c)[1]
           /\ w.confidence = c.confidence => Inputs(w)[2] = Inputs(c)[2]
           /\ w.asset = c.asset => Inputs(w)[3] = Inputs(c)[3]
           /\ w.user = c.user => Inputs(w)[4] = Inputs(c)[4]
           /\ w.matches = c.matches => Inputs(w)[5] = Inputs(c)[5]
           /\ w.techniques = c.techniques => Inputs(w)[6] = Inputs(c)[6]
           /\ w.anomaly = c.anomaly => Inputs(w)[7] = Inputs(c)[7]
BY DEF Inputs

(* A context without one of its data differs in one input, which it lacks. *)
LEMMA WithoutDiffers ==
    ASSUME NEW c, ContextOK(c), NEW w \in Without(c)
    PROVE  \E k \in Factor : Differ(c, w, k) /\ Inputs(w)[k] = Absent
<1>1. PICK a, b, d, e, m, t, n : c = Context(a, b, d, e, m, t, n)
      BY DEF ContextOK, Context
<1>2. /\ c.severity = a /\ c.confidence = b /\ c.asset = d /\ c.user = e /\ c.matches = m
      /\ c.techniques = t /\ c.anomaly = n
      BY <1>1, ContextFields
<1>3. \A f \in Factor : f = 1 \/ f = 2 \/ f = 3 \/ f = 4 \/ f = 5 \/ f = 6 \/ f = 7
      BY DEF Factor
<1>4. CASE w = [c EXCEPT !.severity = Absent]
  <2>1. w = Context(Absent, b, d, e, m, t, n)
        BY <1>1, <1>4 DEF Context
  <2>2. ContextOK(w)
        BY <1>2, <2>1, ContextFields DEF ContextOK
  <2>3. \A f \in Factor \ {1} : Inputs(w)[f] = Inputs(c)[f]
        BY <1>2, <1>3, <2>1, ContextFields, SameInputs
  <2>4. Inputs(w)[1] = Absent
        BY <2>1, ContextFields DEF Inputs, Looked
  <2> QED BY <2>2, <2>3, <2>4 DEF Differ, Factor
<1>5. CASE w = [c EXCEPT !.confidence = Absent]
  <2>1. w = Context(a, Absent, d, e, m, t, n)
        BY <1>1, <1>5 DEF Context
  <2>2. ContextOK(w)
        BY <1>2, <2>1, ContextFields DEF ContextOK
  <2>3. \A f \in Factor \ {2} : Inputs(w)[f] = Inputs(c)[f]
        BY <1>2, <1>3, <2>1, ContextFields, SameInputs
  <2>4. Inputs(w)[2] = Absent
        BY <2>1, ContextFields DEF Inputs, Percent
  <2> QED BY <2>2, <2>3, <2>4 DEF Differ, Factor
<1>6. CASE w = [c EXCEPT !.asset = Absent]
  <2>1. w = Context(a, b, Absent, e, m, t, n)
        BY <1>1, <1>6 DEF Context
  <2>2. ContextOK(w)
        BY <1>2, <2>1, ContextFields DEF ContextOK
  <2>3. \A f \in Factor \ {3} : Inputs(w)[f] = Inputs(c)[f]
        BY <1>2, <1>3, <2>1, ContextFields, SameInputs
  <2>4. Inputs(w)[3] = Absent
        BY <2>1, ContextFields DEF Inputs, Looked
  <2> QED BY <2>2, <2>3, <2>4 DEF Differ, Factor
<1>7. CASE w = [c EXCEPT !.user = Absent]
  <2>1. w = Context(a, b, d, Absent, m, t, n)
        BY <1>1, <1>7 DEF Context
  <2>2. ContextOK(w)
        BY <1>2, <2>1, ContextFields DEF ContextOK
  <2>3. \A f \in Factor \ {4} : Inputs(w)[f] = Inputs(c)[f]
        BY <1>2, <1>3, <2>1, ContextFields, SameInputs
  <2>4. Inputs(w)[4] = Absent
        BY <2>1, ContextFields DEF Inputs, Percent
  <2> QED BY <2>2, <2>3, <2>4 DEF Differ, Factor
<1>8. CASE w = [c EXCEPT !.matches = Absent]
  <2>1. w = Context(a, b, d, e, Absent, t, n)
        BY <1>1, <1>8 DEF Context
  <2>2. ContextOK(w)
        BY <1>2, <2>1, ContextFields DEF ContextOK
  <2>3. \A f \in Factor \ {5} : Inputs(w)[f] = Inputs(c)[f]
        BY <1>2, <1>3, <2>1, ContextFields, SameInputs
  <2>4. Inputs(w)[5] = Absent
        BY <2>1, ContextFields DEF Inputs
  <2> QED BY <2>2, <2>3, <2>4 DEF Differ, Factor
<1>9. CASE w = [c EXCEPT !.techniques = {}]
  <2>1. w = Context(a, b, d, e, m, {}, n)
        BY <1>1, <1>9 DEF Context
  <2>2. ContextOK(w)
        BY <1>2, <2>1, ContextFields DEF ContextOK
  <2>3. \A f \in Factor \ {6} : Inputs(w)[f] = Inputs(c)[f]
        BY <1>2, <1>3, <2>1, ContextFields, SameInputs
  <2>4. Inputs(w)[6] = Absent
        BY <2>1, ContextFields DEF Inputs
  <2> QED BY <2>2, <2>3, <2>4 DEF Differ, Factor
<1>10. CASE w = [c EXCEPT !.anomaly = Absent]
  <2>1. w = Context(a, b, d, e, m, t, Absent)
        BY <1>1, <1>10 DEF Context
  <2>2. ContextOK(w)
        BY <1>2, <2>1, ContextFields DEF ContextOK
  <2>3. \A f \in Factor \ {7} : Inputs(w)[f] = Inputs(c)[f]
        BY <1>2, <1>3, <2>1, ContextFields, SameInputs
  <2>4. Inputs(w)[7] = Absent
        BY <2>1, ContextFields DEF Inputs
  <2> QED BY <2>2, <2>3, <2>4 DEF Differ, Factor
<1> QED BY <1>4, <1>5, <1>6, <1>7, <1>8, <1>9, <1>10 DEF Without

(* The condition under which w is compared in Reconstructs gives the one on k. *)
LEMMA WithoutScoresNoLess ==
    ASSUME NEW c, ContextOK(c), NEW w \in Without(c),
           \A f \in Factor : Factors(c)[f].available /\ ~Factors(w)[f].available
                               => Factors(c)[f].points = 0
    PROVE  assess(c) <= assess(w)
<1>1. PICK k \in Factor : Differ(c, w, k) /\ Inputs(w)[k] = Absent
      BY WithoutDiffers
<1> QED BY <1>1, LostInput

(* A worse context says more in one input and the same in the others. *)
LEMMA WorseDiffers ==
    ASSUME NEW c, ContextOK(c), NEW w \in Worse(c)
    PROVE  \E k \in Factor : Raised(c, w, k)
<1> USE DEF Raised
<1>1. PICK a, b, d, e, m, t, n : c = Context(a, b, d, e, m, t, n)
      BY DEF ContextOK, Context
<1>2. /\ c.severity = a /\ c.confidence = b /\ c.asset = d /\ c.user = e /\ c.matches = m
      /\ c.techniques = t /\ c.anomaly = n
      BY <1>1, ContextFields
<1>3. \A f \in Factor : f = 1 \/ f = 2 \/ f = 3 \/ f = 4 \/ f = 5 \/ f = 6 \/ f = 7
      BY DEF Factor
<1>4. CASE w = [c EXCEPT !.severity = IF @ = Absent THEN @ ELSE <<"critical">>]
  <2>0. PICK v : v = IF a = Absent THEN a ELSE <<"critical">>
        OBVIOUS
  <2>1. w = Context(v, b, d, e, m, t, n)
    <3>1. w = [c EXCEPT !.severity = v]
          BY <1>2, <1>4, <2>0
    <3> QED BY <1>1, <3>1 DEF Context
  <2>2. ContextOK(w)
        BY <1>2, <2>0, <2>1, ContextFields, SeverityTable DEF ContextOK
  <2>3. \A f \in Factor \ {1} : Inputs(w)[f] = Inputs(c)[f]
        BY <1>2, <1>3, <2>1, ContextFields, SameInputs
  <2>4. Inputs(c)[1] = Looked(SEVERITY_VALUES, a) /\ Inputs(w)[1] = Looked(SEVERITY_VALUES, v)
        BY <1>2, <2>1, ContextFields DEF Inputs
  <2>5. CASE a = Absent
        BY <2>0, <2>2, <2>3, <2>4, <2>5 DEF Differ, Factor, Looked
  <2>6. CASE a # Absent
    <3>1. PICK s \in DOMAIN SEVERITY_VALUES : a = <<s>>
          BY <1>2, <2>6 DEF ContextOK
    <3>2. Inputs(c)[1] = <<SEVERITY_VALUES[s]>> /\ Inputs(w)[1] = <<SEVERITY_VALUES["critical"]>>
          BY <2>0, <2>4, <2>6, <3>1, SeverityTable, GivenIsNotAbsent DEF Looked
    <3>3. SEVERITY_VALUES[s] <= SEVERITY_VALUES["critical"]
          BY SeverityTable DEF ValueTable
    <3> QED BY <2>2, <2>3, <3>2, <3>3, GivenIsNotAbsent DEF Differ, Factor
  <2> QED BY <2>5, <2>6
<1>5. CASE w = [c EXCEPT !.confidence = IF @ = Absent THEN @ ELSE <<@[1] + 10>>]
  <2>0. PICK v : v = IF b = Absent THEN b ELSE <<b[1] + 10>>
        OBVIOUS
  <2>1. w = Context(a, v, d, e, m, t, n)
    <3>1. w = [c EXCEPT !.confidence = v]
          BY <1>2, <1>5, <2>0
    <3> QED BY <1>1, <3>1 DEF Context
  <2>a. b = Absent \/ GivenInt(b)
        BY <1>2 DEF ContextOK
  <2>b. /\ v = Absent \/ GivenInt(v)
        /\ v = Absent <=> b = Absent
        /\ b # Absent => b[1] \in Int /\ v[1] = b[1] + 10
    <3>1. CASE b = Absent
          BY <2>0, <3>1
    <3>2. CASE b # Absent
      <4>1. b[1] \in Int /\ b[1] + 10 \in Int
            BY <2>a, <3>2 DEF GivenInt
      <4>2. v = <<b[1] + 10>>
            BY <2>0, <3>2
      <4> QED BY <3>2, <4>1, <4>2, GivenIsNotAbsent DEF GivenInt
    <3> QED BY <3>1, <3>2
  <2>2. ContextOK(w)
        BY <1>2, <2>b, <2>1, ContextFields DEF ContextOK
  <2>3. \A f \in Factor \ {2} : Inputs(w)[f] = Inputs(c)[f]
        BY <1>2, <1>3, <2>1, ContextFields, SameInputs
  <2>4. Inputs(c)[2] = Percent(b) /\ Inputs(w)[2] = Percent(v)
        BY <1>2, <2>1, ContextFields DEF Inputs
  <2>5. Inputs(w)[2] = Absent <=> Inputs(c)[2] = Absent
        BY <2>a, <2>b, <2>4, PercentGiven
  <2>6. Inputs(c)[2] # Absent => Inputs(c)[2][1] <= Inputs(w)[2][1]
    <3>1. Percent(b) # Absent => b # Absent /\ Percent(b)[1] = b[1] * 100 /\ Percent(v)[1] = v[1] * 100
          BY <2>a, <2>b, PercentGiven
    <3> QED BY <2>b, <2>4, <3>1
  <2> QED BY <2>2, <2>3, <2>5, <2>6 DEF Differ, Factor
<1>6. CASE w = [c EXCEPT !.user = IF @ = Absent THEN @ ELSE <<@[1] + 10>>]
  <2>0. PICK v : v = IF e = Absent THEN e ELSE <<e[1] + 10>>
        OBVIOUS
  <2>1. w = Context(a, b, d, v, m, t, n)
    <3>1. w = [c EXCEPT !.user = v]
          BY <1>2, <1>6, <2>0
    <3> QED BY <1>1, <3>1 DEF Context
  <2>a. e = Absent \/ GivenInt(e)
        BY <1>2 DEF ContextOK
  <2>b. /\ v = Absent \/ GivenInt(v)
        /\ v = Absent <=> e = Absent
        /\ e # Absent => e[1] \in Int /\ v[1] = e[1] + 10
    <3>1. CASE e = Absent
          BY <2>0, <3>1
    <3>2. CASE e # Absent
      <4>1. e[1] \in Int /\ e[1] + 10 \in Int
            BY <2>a, <3>2 DEF GivenInt
      <4>2. v = <<e[1] + 10>>
            BY <2>0, <3>2
      <4> QED BY <3>2, <4>1, <4>2, GivenIsNotAbsent DEF GivenInt
    <3> QED BY <3>1, <3>2
  <2>2. ContextOK(w)
        BY <1>2, <2>b, <2>1, ContextFields DEF ContextOK
  <2>3. \A f \in Factor \ {4} : Inputs(w)[f] = Inputs(c)[f]
        BY <1>2, <1>3, <2>1, ContextFields, SameInputs
  <2>4. Inputs(c)[4] = Percent(e) /\ Inputs(w)[4] = Percent(v)
        BY <1>2, <2>1, ContextFields DEF Inputs
  <2>5. Inputs(w)[4] = Absent <=> Inputs(c)[4] = Absent
        BY <2>a, <2>b, <2>4, PercentGiven
  <2>6. Inputs(c)[4] # Absent => Inputs(c)[4][1] <= Inputs(w)[4][1]
    <3>1. Percent(e) # Absent => e # Absent /\ Percent(e)[1] = e[1] * 100 /\ Percent(v)[1] = v[1] * 100
          BY <2>a, <2>b, PercentGiven
    <3> QED BY <2>b, <2>4, <3>1
  <2> QED BY <2>2, <2>3, <2>5, <2>6 DEF Differ, Factor
<1>7. CASE w = [c EXCEPT !.asset = IF Looked(CRITICALITY_VALUES, @) = Absent THEN @ ELSE <<"CRITICAL">>]
  <2>0. PICK v : v = IF Looked(CRITICALITY_VALUES, d) = Absent THEN d ELSE <<"CRITICAL">>
        OBVIOUS
  <2>1. w = Context(a, b, v, e, m, t, n)
    <3>1. w = [c EXCEPT !.asset = v]
          BY <1>2, <1>7, <2>0
    <3> QED BY <1>1, <3>1 DEF Context
  <2>2. ContextOK(w)
        BY <1>2, <2>0, <2>1, ContextFields, GivenIsNotAbsent DEF ContextOK
  <2>3. \A f \in Factor \ {3} : Inputs(w)[f] = Inputs(c)[f]
        BY <1>2, <1>3, <2>1, ContextFields, SameInputs
  <2>4. Inputs(c)[3] = Looked(CRITICALITY_VALUES, d) /\ Inputs(w)[3] = Looked(CRITICALITY_VALUES, v)
        BY <1>2, <2>1, ContextFields DEF Inputs
  <2>5. CASE Looked(CRITICALITY_VALUES, d) = Absent
        BY <2>0, <2>2, <2>3, <2>4, <2>5 DEF Differ, Factor
  <2>6. CASE Looked(CRITICALITY_VALUES, d) # Absent
    <3>1. /\ d[1] \in DOMAIN CRITICALITY_VALUES
          /\ Looked(CRITICALITY_VALUES, d)[1] = CRITICALITY_VALUES[d[1]]
          BY <1>2, <2>6, CriticalityTable, LookedUp DEF ContextOK
    <3>2. v = <<"CRITICAL">>
          BY <2>0, <2>6
    <3>3. Looked(CRITICALITY_VALUES, v) = <<CRITICALITY_VALUES["CRITICAL"]>>
          BY <3>2, CriticalityTable, GivenIsNotAbsent DEF Looked
    <3>4. CRITICALITY_VALUES[d[1]] <= CRITICALITY_VALUES["CRITICAL"]
          BY <3>1, CriticalityTable DEF ValueTable
    <3> QED BY <2>2, <2>3, <2>4, <2>6, <3>1, <3>3, <3>4, GivenIsNotAbsent DEF Differ, Factor
  <2> QED BY <2>5, <2>6
<1>8. CASE w = [c EXCEPT !.matches =
                   IF @ = Absent THEN @
                   ELSE <<@[1] \cup {[classification |-> "malicious", confidence |-> 70]}>>]
  <2> DEFINE more == [classification |-> "malicious", confidence |-> 70]
  <2>0. PICK v : v = IF m = Absent THEN m ELSE <<m[1] \cup {more}>>
        OBVIOUS
  <2>1. w = Context(a, b, d, e, v, t, n)
    <3>1. w = [c EXCEPT !.matches = v]
          BY <1>2, <1>8, <2>0
    <3> QED BY <1>1, <3>1 DEF Context
  <2>a. more.confidence \in Int
        OBVIOUS
  <2> HIDE DEF more
  <2>b. m # Absent => v[1] = m[1] \cup {more} /\ v = <<v[1]>> /\ v # Absent
        BY <2>0, GivenIsNotAbsent
  <2>c. m # Absent => \A x \in v[1] : x.confidence \in Int
        BY <1>2, <2>a, <2>b DEF ContextOK
  <2>d. m = Absent => v = Absent
        BY <2>0
  <2>2. ContextOK(w)
        BY <1>2, <2>b, <2>c, <2>d, <2>1, ContextFields DEF ContextOK
  <2>3. \A f \in Factor \ {5} : Inputs(w)[f] = Inputs(c)[f]
        BY <1>2, <1>3, <2>1, ContextFields, SameInputs
  <2>4. /\ Inputs(c)[5] = IF m = Absent THEN Absent ELSE <<Greatest({Strength(x) : x \in m[1]})>>
        /\ Inputs(w)[5] = IF v = Absent THEN Absent ELSE <<Greatest({Strength(x) : x \in v[1]})>>
    <3>1. c.matches = m /\ w.matches = v
          BY <1>2, <2>1, ContextFields
    <3>2. ASSUME NEW x
          PROVE  Inputs(x)[5] = IF x.matches = Absent THEN Absent
                                ELSE <<Greatest({Strength(y) : y \in x.matches[1]})>>
          BY DEF Inputs
    <3> QED BY <3>1, <3>2, Zenon
  <2>5. CASE m = Absent
        BY <2>d, <2>2, <2>3, <2>4, <2>5 DEF Differ, Factor
  <2>6. CASE m # Absent
    <3>1. Values({Strength(x) : x \in v[1]})
          BY <2>c, <2>6, StrengthsAreValues
    <3>2. {Strength(x) : x \in m[1]} \subseteq {Strength(x) : x \in v[1]}
          BY <2>b, <2>6
    <3>3. Greatest({Strength(x) : x \in m[1]}) <= Greatest({Strength(x) : x \in v[1]})
          BY <3>1, <3>2, GreatestGrows
    <3>4. PICK g, h : g = Greatest({Strength(x) : x \in m[1]}) /\ h = Greatest({Strength(x) : x \in v[1]})
          OBVIOUS
    <3>5. Inputs(c)[5] = <<g>> /\ Inputs(w)[5] = <<h>> /\ g <= h
          BY <2>4, <2>6, <2>b, <3>3, <3>4
    <3> QED BY <2>2, <2>3, <3>5, GivenIsNotAbsent DEF Differ, Factor
  <2> QED BY <2>5, <2>6
<1>9. CASE w = [c EXCEPT !.techniques = IF @ = {} THEN @ ELSE @ \cup {<<"T1003">>}]
  <2>0. PICK v : v = IF t = {} THEN t ELSE t \cup {<<"T1003">>}
        OBVIOUS
  <2>1. w = Context(a, b, d, e, m, v, n)
    <3>1. w = [c EXCEPT !.techniques = v]
          BY <1>2, <1>9, <2>0
    <3> QED BY <1>1, <3>1 DEF Context
  <2>2. ContextOK(w)
        BY <1>2, <2>1, ContextFields DEF ContextOK
  <2>3. \A f \in Factor \ {6} : Inputs(w)[f] = Inputs(c)[f]
        BY <1>2, <1>3, <2>1, ContextFields, SameInputs
  <2>4. /\ Inputs(c)[6] = IF t = {} THEN Absent ELSE <<Greatest({Impact_(x) : x \in t})>>
        /\ Inputs(w)[6] = IF v = {} THEN Absent ELSE <<Greatest({Impact_(x) : x \in v})>>
        BY <1>2, <2>1, ContextFields DEF Inputs
  <2>5. CASE t = {}
        BY <2>0, <2>2, <2>3, <2>4, <2>5 DEF Differ, Factor
  <2>6. CASE t # {}
    <3>1. t \subseteq v /\ v # {}
          BY <2>0, <2>6
    <3>2. {Impact_(x) : x \in t} \subseteq {Impact_(x) : x \in v}
          BY <3>1
    <3>3. Greatest({Impact_(x) : x \in t}) <= Greatest({Impact_(x) : x \in v})
          BY <3>2, ImpactsAreValues, GreatestGrows
    <3>4. PICK g, h : g = Greatest({Impact_(x) : x \in t}) /\ h = Greatest({Impact_(x) : x \in v})
          OBVIOUS
    <3>5. Inputs(c)[6] = <<g>> /\ Inputs(w)[6] = <<h>> /\ g <= h
          BY <2>4, <2>6, <3>1, <3>3, <3>4
    <3> QED BY <2>2, <2>3, <3>5, GivenIsNotAbsent DEF Differ, Factor
  <2> QED BY <2>5, <2>6
<1> QED BY <1>4, <1>5, <1>6, <1>7, <1>8, <1>9 DEF Worse

(* A worse context never scores less. *)
LEMMA WorseScoresNoLess ==
    ASSUME NEW c, ContextOK(c), NEW w \in Worse(c)
    PROVE  assess(c) <= assess(w)
<1>1. PICK k \in Factor : Raised(c, w, k)
      BY WorseDiffers
<1> QED BY <1>1, RaisedInput

-----------------------------------------------------------------------------
(* A score of a proper context can be reconstructed from its explanation. *)
LEMMA ExplanationReconstructs ==
    ASSUME NEW c, ContextOK(c), scored.context = c, scored.says = explanation(c)
    PROVE  Reconstructs
<1>1. PICK fs : fs = Factors(c)
      OBVIOUS
<1>2. PICK aw : aw = AvailableWeight(fs)
      OBVIOUS
<1>3. PICK e : e = scored.says
      OBVIOUS
<1>4. /\ e.score = assess(c) /\ e.available_weight = aw /\ e.factors = fs
      /\ e.denominator = IF aw = 0 THEN 0 ELSE Denominator(aw)
      BY <1>1, <1>2, <1>3 DEF explanation
<1>5. Proper(fs)
      BY <1>1, FactorsAreProper
<1>6. aw \in Nat /\ Denominator(aw) \in Nat /\ Denominator(aw) >= 60
      BY <1>2, <1>5, PointsAreWeighed, TheDenominator
<1>7. assess(c) = IF aw = 0 THEN 0 ELSE Round(Points(fs), 100 * Denominator(aw))
      BY <1>1, <1>2, AssessIsScore DEF FactorScoreOf, ScoreOf
<1>8. /\ e.available_weight = 0 <=> e.denominator = 0
      /\ e.score = IF e.denominator = 0 THEN 0 ELSE Round(Points(e.factors), 100 * e.denominator)
      BY <1>4, <1>6, <1>7
<1>9. ASSUME NEW f \in Factor
      PROVE  0 <= e.factors[f].points /\ e.factors[f].points <= e.factors[f].weight * Whole
  <2>1. PICK w \in Nat : w = WEIGHTS[f]
        BY WeightsAreNatural
  <2>2. PICK v \in Nat : v = fs[f].value /\ v <= Whole
        BY <1>5, TheWhole DEF Proper, ProperFactor
  <2>3. fs[f].points = w * v /\ fs[f].weight = w
        BY <1>5, <2>1, <2>2 DEF Proper, ProperFactor
  <2>4. 0 <= w * v /\ w * v <= w * Whole
        BY <2>2, TheWhole
  <2> QED BY <1>4, <2>3, <2>4
<1>10. /\ e.score \in 0..100
       /\ e.score * MINIMUM_DENOMINATOR <= 100 * e.available_weight + MINIMUM_DENOMINATOR \div 2
  <2>1. MINIMUM_DENOMINATOR = 60 /\ MINIMUM_DENOMINATOR \div 2 = 30
        BY DEF MINIMUM_DENOMINATOR
  <2>2. assess(c) \in Nat /\ assess(c) <= 100 /\ assess(c) * 60 <= 100 * aw + 30
        BY <1>1, <1>2, AssessIsScore
  <2> QED BY <1>4, <2>1, <2>2
<1>11. ASSUME NEW w \in Worse(c) PROVE assess(w) >= e.score
  <2>1. assess(c) <= assess(w)
        BY WorseScoresNoLess
  <2> QED BY <1>4, <2>1
<1>12. ASSUME NEW w \in Without(c),
              \A f \in {f \in Factor : e.factors[f].available /\ ~Factors(w)[f].available} :
                 e.factors[f].points = 0
       PROVE  assess(w) >= e.score
  <2>1. \A f \in Factor : Factors(c)[f].available /\ ~Factors(w)[f].available
                            => Factors(c)[f].points = 0
        BY <1>1, <1>4, <1>12
  <2>2. assess(c) <= assess(w)
        BY <2>1, WithoutScoresNoLess
  <2> QED BY <1>4, <2>2
<1> QED BY <1>3, <1>8, <1>9, <1>10, <1>11, <1>12 DEF Reconstructs

-----------------------------------------------------------------------------
(* What an enriched document holds of its event and of what was found. *)
LEMMA NoFields == DOMAIN <<>> = {}
OBVIOUS
(* What scoring may read of the risk context of a document. *)
RiskContextOK(x, known) ==
    /\ "asset_criticality" \in DOMAIN x => known
    /\ "user_risk_score" \in DOMAIN x => GivenInt(x["user_risk_score"])

Known_(s, failed) == s.asset # Absent /\ "asset_context" \notin failed
Intel_(s, failed) == s.observables /\ failed = {}

(* What the schemas let in of an event. *)
LEMMA SubjectOK ==
    ASSUME NEW s \in Subject
    PROVE  /\ s.observables \in BOOLEAN
           /\ s.asset = Absent \/ s.asset = <<s.asset[1]>>
           /\ \A m \in s.matches : m.confidence \in Int
           /\ DOMAIN s.document \subseteq {"risk_context", "anomaly"}
           /\ "risk_context" \in DOMAIN s.document => RiskContextOK(s.document["risk_context"], FALSE)
           /\ "anomaly" \in DOMAIN s.document =>
                /\ s.document["anomaly"] = <<s.document["anomaly"][1]>>
                /\ s.document["anomaly"][1].score \in Int
                /\ s.document["anomaly"][1].confidence \in Int
<1>1. "risk_context" \in DOMAIN s.document =>
        /\ DOMAIN s.document["risk_context"] = {"user_risk_score"}
        /\ GivenInt(s.document["risk_context"]["user_risk_score"])
      BY RiskConstants DEF GivenInt
<1>2. "risk_context" \in DOMAIN s.document => RiskContextOK(s.document["risk_context"], FALSE)
      BY <1>1 DEF RiskContextOK
<1> QED BY <1>2, RiskConstants DEF Absent

(* A document that the asset provider has, or has not, added to. *)
LEMMA AssetAdded ==
    ASSUME NEW s \in Subject, NEW failed \in SUBSET Provider, NEW d,
           d = _merge(s.document, IF "asset_context" \in failed THEN <<>> ELSE AssetContextProvider(s))
    PROVE  /\ "asset" \in DOMAIN d <=> Known_(s, failed)
           /\ "asset" \in DOMAIN d => d["asset"] = s.asset
           /\ "ioc_matches" \notin DOMAIN d /\ "enrichment_partial" \notin DOMAIN d
           /\ "risk_context" \in DOMAIN d => RiskContextOK(d["risk_context"], Known_(s, failed))
           /\ "anomaly" \in DOMAIN d <=> "anomaly" \in DOMAIN s.document
           /\ "anomaly" \in DOMAIN d => d["anomaly"] = s.document["anomaly"]
<1>0. /\ DOMAIN s.document \subseteq {"risk_context", "anomaly"}
      /\ "risk_context" \in DOMAIN s.document => RiskContextOK(s.document["risk_context"], FALSE)
      BY SubjectOK
<1>1. CASE ~Known_(s, failed)
  <2>1. d = _merge(s.document, <<>>)
        BY <1>1 DEF Known_, AssetContextProvider
  <2>2. DOMAIN d = DOMAIN s.document /\ \A k \in DOMAIN d : d[k] = s.document[k]
        BY <2>1, NoFields DEF _merge
  <2> QED BY <1>0, <1>1, <2>2 DEF RiskContextOK
<1>2. CASE Known_(s, failed)
  <2>1. PICK a : a = [asset |-> s.asset, risk_context |-> [asset_criticality |-> s.asset]]
        OBVIOUS
  <2>2. d = _merge(s.document, a)
        BY <1>2, <2>1 DEF Known_, AssetContextProvider
  <2>3. /\ DOMAIN a = {"asset", "risk_context"} /\ a["asset"] = s.asset
        /\ DOMAIN a["risk_context"] = {"asset_criticality"}
        BY <2>1
  <2>4. DOMAIN d = DOMAIN s.document \cup {"asset", "risk_context"}
        BY <2>2, <2>3 DEF _merge
  <2>5. d["asset"] = s.asset
        BY <2>2, <2>3 DEF _merge
  <2>6. "anomaly" \in DOMAIN d => d["anomaly"] = s.document["anomaly"]
        BY <2>2, <2>3, <2>4 DEF _merge
  <2>7. RiskContextOK(d["risk_context"], TRUE)
    <3>1. CASE "risk_context" \notin DOMAIN s.document
      <4>1. d["risk_context"] = a["risk_context"]
            BY <2>2, <2>3, <3>1 DEF _merge
      <4> QED BY <2>3, <4>1 DEF RiskContextOK
    <3>2. CASE "risk_context" \in DOMAIN s.document
      <4>1. d["risk_context"] = Updated(s.document["risk_context"], a["risk_context"])
            BY <2>2, <2>3, <3>2 DEF _merge
      <4> QED BY <1>0, <2>3, <3>2, <4>1 DEF RiskContextOK, Updated
    <3> QED BY <3>1, <3>2
  <2> QED BY <1>0, <1>2, <2>4, <2>5, <2>6, <2>7
<1> QED BY <1>1, <1>2

(* What an enriched document holds, by the providers that answered. *)
LEMMA EnrichedHolds ==
    ASSUME NEW s \in Subject, NEW failed \in SUBSET Provider, NEW d, d = Enriched(s, failed)
    PROVE  /\ "asset" \in DOMAIN d <=> Known_(s, failed)
           /\ "asset" \in DOMAIN d => d["asset"] = s.asset
           /\ "enrichment_partial" \in DOMAIN d <=> failed # {}
           /\ "ioc_matches" \in DOMAIN d <=> s.observables /\ "ioc_match" \notin failed
           /\ "ioc_matches" \in DOMAIN d => d["ioc_matches"] = s.matches
           /\ "risk_context" \in DOMAIN d => RiskContextOK(d["risk_context"], Known_(s, failed))
           /\ "anomaly" \in DOMAIN d <=> "anomaly" \in DOMAIN s.document
           /\ "anomaly" \in DOMAIN d => d["anomaly"] = s.document["anomaly"]
<1> DEFINE known == Known_(s, failed)
<1>1. PICK h : h = _merge(s.document, IF "asset_context" \in failed THEN <<>> ELSE AssetContextProvider(s))
      OBVIOUS
<1>2. PICK i : i = IF "ioc_match" \in failed THEN <<>> ELSE IocMatchProvider(s)
      OBVIOUS
<1>3. PICK w : w = _merge(h, i)
      OBVIOUS
<1>4. d = IF failed = {} THEN w ELSE Updated(w, [enrichment_partial |-> TRUE])
      BY <1>1, <1>2, <1>3 DEF Enriched
<1> HIDE DEF known
<1>5. /\ "asset" \in DOMAIN h <=> known
      /\ "asset" \in DOMAIN h => h["asset"] = s.asset
      /\ "ioc_matches" \notin DOMAIN h /\ "enrichment_partial" \notin DOMAIN h
      /\ "risk_context" \in DOMAIN h => RiskContextOK(h["risk_context"], known)
      /\ "anomaly" \in DOMAIN h <=> "anomaly" \in DOMAIN s.document
      /\ "anomaly" \in DOMAIN h => h["anomaly"] = s.document["anomaly"]
      BY <1>1, AssetAdded DEF known
<1>6. /\ DOMAIN i \subseteq {"ioc_matches", "risk_context"}
      /\ "ioc_matches" \in DOMAIN i <=> s.observables /\ "ioc_match" \notin failed
      /\ "ioc_matches" \in DOMAIN i => i["ioc_matches"] = s.matches
      /\ "risk_context" \in DOMAIN i => DOMAIN i["risk_context"] = {"ioc_classification"}
  <2>0. s.observables \in BOOLEAN
        BY SubjectOK
  <2>1. CASE "ioc_match" \in failed \/ ~s.observables
        BY <1>2, <2>0, <2>1, NoFields DEF IocMatchProvider
  <2>2. CASE "ioc_match" \notin failed /\ s.observables /\ s.matches = {}
        BY <1>2, <2>2 DEF IocMatchProvider
  <2>3. CASE "ioc_match" \notin failed /\ s.observables /\ s.matches # {}
        BY <1>2, <2>3 DEF IocMatchProvider
  <2> QED BY <2>1, <2>2, <2>3
<1>7. DOMAIN w = DOMAIN h \cup DOMAIN i
      BY <1>3 DEF _merge
<1>8. /\ "asset" \in DOMAIN w <=> known
      /\ "asset" \in DOMAIN w => w["asset"] = s.asset
      /\ "enrichment_partial" \notin DOMAIN w
      /\ "ioc_matches" \in DOMAIN w <=> s.observables /\ "ioc_match" \notin failed
      /\ "ioc_matches" \in DOMAIN w => w["ioc_matches"] = s.matches
      /\ "anomaly" \in DOMAIN w <=> "anomaly" \in DOMAIN s.document
      /\ "anomaly" \in DOMAIN w => w["anomaly"] = s.document["anomaly"]
      BY <1>3, <1>5, <1>6, <1>7 DEF _merge
<1>9. "risk_context" \in DOMAIN w => RiskContextOK(w["risk_context"], known)
  <2>1. CASE "risk_context" \notin DOMAIN i
        BY <1>3, <1>5, <1>7, <2>1 DEF _merge
  <2>2. CASE "risk_context" \in DOMAIN i /\ "risk_context" \notin DOMAIN h
    <3>1. w["risk_context"] = i["risk_context"]
          BY <1>3, <2>2 DEF _merge
    <3> QED BY <1>6, <2>2, <3>1 DEF RiskContextOK
  <2>3. CASE "risk_context" \in DOMAIN i /\ "risk_context" \in DOMAIN h
    <3>1. w["risk_context"] = Updated(h["risk_context"], i["risk_context"])
          BY <1>3, <2>3 DEF _merge
    <3> QED BY <1>5, <1>6, <2>3, <3>1 DEF RiskContextOK, Updated
  <2> QED BY <2>1, <2>2, <2>3
<1>10. CASE failed = {}
       BY <1>4, <1>8, <1>9, <1>10 DEF known
<1>11. CASE failed # {}
  <2>1. PICK p : p = [enrichment_partial |-> TRUE]
        OBVIOUS
  <2>2. DOMAIN p = {"enrichment_partial"}
        BY <2>1
  <2>3. d = Updated(w, p)
        BY <1>4, <1>11, <2>1
  <2>4. DOMAIN d = DOMAIN w \cup {"enrichment_partial"}
        BY <2>2, <2>3 DEF Updated
  <2>5. \A k \in DOMAIN w : k # "enrichment_partial" => d[k] = w[k]
        BY <2>2, <2>3 DEF Updated
  <2> QED BY <1>8, <1>9, <1>11, <2>4, <2>5 DEF known
<1> QED BY <1>10, <1>11

(* What scoring reads of an enriched document. *)
LEMMA ReadsOfEnriched ==
    ASSUME NEW s \in Subject, NEW failed \in SUBSET Provider, NEW d, d = Enriched(s, failed)
    PROVE  /\ _asset_criticality_of(d) = IF Known_(s, failed) THEN s.asset ELSE Absent
           /\ _user_risk_of(d) = Absent \/ GivenInt(_user_risk_of(d))
           /\ _intel_of(d) = IF Intel_(s, failed) THEN <<s.matches>> ELSE Absent
<1>1. /\ "asset" \in DOMAIN d <=> Known_(s, failed)
      /\ "asset" \in DOMAIN d => d["asset"] = s.asset
      /\ "enrichment_partial" \in DOMAIN d <=> failed # {}
      /\ "ioc_matches" \in DOMAIN d <=> s.observables /\ "ioc_match" \notin failed
      /\ "ioc_matches" \in DOMAIN d => d["ioc_matches"] = s.matches
      /\ "risk_context" \in DOMAIN d => RiskContextOK(d["risk_context"], Known_(s, failed))
      BY EnrichedHolds
<1>2. _asset_criticality_of(d) = IF Known_(s, failed) THEN s.asset ELSE Absent
      BY <1>1 DEF _asset_criticality_of, RiskContextOK
<1>3. _user_risk_of(d) = Absent \/ GivenInt(_user_risk_of(d))
      BY <1>1 DEF _user_risk_of, RiskContextOK
<1>4. _intel_of(d) = IF Intel_(s, failed) THEN <<s.matches>> ELSE Absent
      BY <1>1 DEF _intel_of, Intel_
<1> QED BY <1>2, <1>3, <1>4

(* What the schema lets in of a rule. *)
LEMMA RuleOK ==
    ASSUME NEW r \in RiskRule
    PROVE  /\ \E s \in DOMAIN SEVERITY_VALUES : r.severity = <<s>>
           /\ GivenInt(r.confidence)
BY RiskConstants, SeverityTable DEF GivenInt

(* What a detection is scored on is a proper context, *)
LEMMA DetectionContext ==
    ASSUME NEW r \in RiskRule, NEW s \in Subject, NEW failed \in SUBSET Provider,
           NEW d, d = Enriched(s, failed), NEW c, c = context_from_detection(r, d)
    PROVE  /\ ContextOK(c)
           /\ c.asset = IF Known_(s, failed) THEN s.asset ELSE Absent
           /\ c.matches = IF Intel_(s, failed) THEN <<s.matches>> ELSE Absent
<1>1. PICK a, u, m, n : /\ a = _asset_criticality_of(d) /\ u = _user_risk_of(d)
                        /\ m = _intel_of(d)
                        /\ n = IF "anomaly" \in DOMAIN d THEN d["anomaly"] ELSE Absent
      OBVIOUS
<1>2. c = Context(r.severity, r.confidence, a, u, m, r.techniques, n)
      BY <1>1 DEF context_from_detection, Context
<1>3. /\ a = IF Known_(s, failed) THEN s.asset ELSE Absent
      /\ u = Absent \/ GivenInt(u)
      /\ m = IF Intel_(s, failed) THEN <<s.matches>> ELSE Absent
      BY <1>1, ReadsOfEnriched
<1>4. a = Absent \/ a = <<a[1]>>
      BY <1>3, SubjectOK
<1>5. m = Absent \/ (m = <<m[1]>> /\ \A x \in m[1] : x.confidence \in Int)
  <2>1. CASE ~Intel_(s, failed)
        BY <1>3, <2>1
  <2>2. CASE Intel_(s, failed)
    <3>1. m = <<s.matches>> /\ m[1] = s.matches
          BY <1>3, <2>2, GivenIsNotAbsent
    <3> QED BY <3>1, SubjectOK
  <2> QED BY <2>1, <2>2
<1>6. n = Absent \/ (n = <<n[1]>> /\ n[1].score \in Int /\ n[1].confidence \in Int)
  <2>1. CASE "anomaly" \notin DOMAIN d
        BY <1>1, <2>1
  <2>2. CASE "anomaly" \in DOMAIN d
    <3>1. "anomaly" \in DOMAIN s.document /\ n = s.document["anomaly"]
          BY <1>1, <2>2, EnrichedHolds
    <3> QED BY <3>1, SubjectOK
  <2> QED BY <2>1, <2>2
<1>7. ContextOK(c)
      BY <1>2, <1>3, <1>4, <1>5, <1>6, RuleOK, ContextFields DEF ContextOK
<1> QED BY <1>2, <1>3, <1>7, ContextFields

Rank_(c) == IF Looked(CRITICALITY_VALUES, c) = Absent THEN 0 ELSE CRITICALITY_VALUES[c[1]]

-----------------------------------------------------------------------------
(* What was recorded of an event, and the document that enrichment made. *)
Recorded == [subject : Subject, failed : SUBSET Provider]
DocumentOf(o) == Enriched(o.subject, o.failed)

Aligned(os, steps) ==
    \/ \E o \in Recorded : os = <<o>> /\ steps = <<DocumentOf(o)>>
    \/ \E o, p \in Recorded : os = <<o, p>> /\ steps = <<DocumentOf(o), DocumentOf(p)>>

(* An excerpt has none of the fields that scoring reads. *)
LEMMA ReadsOfSummary ==
    ASSUME NEW o \in Recorded, NEW e, e = _summarize(DocumentOf(o))
    PROVE  /\ _asset_criticality_of(e) = Absent
           /\ _user_risk_of(e) = Absent
           /\ _intel_of(e) = Absent
<1>1. DOMAIN e \subseteq _SUMMARY_FIELDS
      BY DEF _summarize
<1>2. "asset" \notin DOMAIN e /\ "risk_context" \notin DOMAIN e /\ "ioc_matches" \notin DOMAIN e
      BY <1>1 DEF _SUMMARY_FIELDS
<1> QED BY <1>2 DEF _asset_criticality_of, _user_risk_of, _intel_of

(* What a chain is scored on is its rule. *)
LEMMA ChainContext ==
    ASSUME NEW r \in RiskRule, NEW os, NEW steps, Aligned(os, steps),
           NEW c, c = context_from_correlation(r, build_timeline(steps))
    PROVE  /\ ContextOK(c)
           /\ c = Context(r.severity, r.confidence, Absent, Absent, Absent, r.techniques, Absent)
<1>1. PICK es : es = build_timeline(steps)
      OBVIOUS
<1>2. \A k \in DOMAIN es : \E o \in Recorded : es[k] = _summarize(DocumentOf(o))
  <2>1. \A k \in DOMAIN steps : \E o \in Recorded : steps[k] = DocumentOf(o)
    <3>1. CASE \E o \in Recorded : os = <<o>> /\ steps = <<DocumentOf(o)>>
          BY <3>1
    <3>2. CASE \E o, p \in Recorded : os = <<o, p>> /\ steps = <<DocumentOf(o), DocumentOf(p)>>
          BY <3>2
    <3> QED BY <3>1, <3>2 DEF Aligned
  <2> QED BY <1>1, <2>1 DEF build_timeline
<1>3. \A k \in DOMAIN es : /\ _asset_criticality_of(es[k]) = Absent
                           /\ _user_risk_of(es[k]) = Absent
                           /\ _intel_of(es[k]) = Absent
      BY <1>2, ReadsOfSummary
<1>4. Worst(es) = Absent
      BY <1>3 DEF Worst
<1>5. {k \in DOMAIN es : _user_risk_of(es[k]) \notin {Absent, <<0>>}} = {}
      BY <1>3
<1>6. UNION {IF _intel_of(es[k]) = Absent THEN {} ELSE _intel_of(es[k])[1] : k \in DOMAIN es} = {}
      BY <1>3
<1>7. c = Context(r.severity, r.confidence, Absent, Absent, Absent, r.techniques, Absent)
      BY <1>1, <1>4, <1>5, <1>6 DEF context_from_correlation, Context
<1>8. ContextOK(c)
      BY <1>7, RuleOK, ContextFields DEF ContextOK
<1> QED BY <1>7, <1>8

-----------------------------------------------------------------------------
(* The value of a factor whose input is this. *)
LEMMA ValueOfInput ==
    ASSUME NEW c, ContextOK(c), NEW fs, fs = Factors(c)
    PROVE  /\ fs[3].available <=> Looked(CRITICALITY_VALUES, c.asset) # Absent
           /\ fs[3].value = Rank_(c.asset)
           /\ fs[5].available <=> c.matches # Absent
           /\ fs[5].value = IF c.matches = Absent THEN 0
                            ELSE Greatest({Strength(m) : m \in c.matches[1]})
<1>1. 3 \in Factor /\ 5 \in Factor
      BY DEF Factor
<1>2. /\ Proper(fs)
      /\ fs[3].available <=> Inputs(c)[3] # Absent
      /\ Inputs(c)[3] # Absent => fs[3].value = _clamp(Inputs(c)[3][1])
      /\ fs[5].available <=> Inputs(c)[5] # Absent
      /\ Inputs(c)[5] # Absent => fs[5].value = _clamp(Inputs(c)[5][1])
      BY <1>1, FactorsAreProper
<1>3. /\ ~fs[3].available => fs[3].value = 0
      /\ ~fs[5].available => fs[5].value = 0
      BY <1>1, <1>2 DEF Proper, ProperFactor
<1>4. Inputs(c)[3] = Looked(CRITICALITY_VALUES, c.asset)
      BY DEF Inputs
<1>5. fs[3].value = Rank_(c.asset)
  <2>1. CASE Inputs(c)[3] = Absent
        BY <1>2, <1>3, <1>4, <2>1 DEF Rank_
  <2>2. CASE Inputs(c)[3] # Absent
    <3>1. /\ c.asset[1] \in DOMAIN CRITICALITY_VALUES
          /\ Inputs(c)[3][1] = CRITICALITY_VALUES[c.asset[1]]
          BY <1>4, <2>2, CriticalityTable, LookedUp DEF ContextOK
    <3>2. CRITICALITY_VALUES[c.asset[1]] \in 0..Whole
      <4>1. CRITICALITY_VALUES[c.asset[1]] \in Nat /\ CRITICALITY_VALUES[c.asset[1]] <= Whole
            BY <3>1, CriticalityTable DEF ValueTable
      <4> QED BY <4>1, TheWhole
    <3>3. _clamp(CRITICALITY_VALUES[c.asset[1]]) = CRITICALITY_VALUES[c.asset[1]]
          BY <3>2, ClampKeeps
    <3> QED BY <1>2, <1>4, <2>2, <3>1, <3>3 DEF Rank_
  <2> QED BY <2>1, <2>2
<1>6. PICK g : g = Greatest({Strength(m) : m \in c.matches[1]})
      OBVIOUS
<1>7. Inputs(c)[5] = IF c.matches = Absent THEN Absent ELSE <<g>>
      BY <1>6 DEF Inputs
<1>8. CASE c.matches = Absent
      BY <1>2, <1>3, <1>4, <1>5, <1>7, <1>8
<1>9. CASE c.matches # Absent
  <2>1. Values({Strength(m) : m \in c.matches[1]})
        BY <1>9, StrengthsAreValues DEF ContextOK
  <2>2. g \in 0..Whole
        BY <1>6, <2>1, GreatestOfValues
  <2>3. _clamp(g) = g
        BY <2>2, ClampKeeps
  <2>4. Inputs(c)[5] # Absent /\ Inputs(c)[5][1] = g
        BY <1>7, <1>9, GivenIsNotAbsent
  <2> QED BY <1>2, <1>4, <1>5, <1>6, <1>9, <2>3, <2>4
<1> QED BY <1>8, <1>9

(* A detection stands on what was found about its event. *)
LEMMA DetectionStands ==
    ASSUME NEW r \in RiskRule, NEW o \in Recorded, NEW c, NEW fs,
           c = context_from_detection(r, DocumentOf(o)), fs = Factors(c)
    PROVE  /\ fs[5].available <=> Intel_(o.subject, o.failed)
           /\ fs[3].available <=> Known_(o.subject, o.failed) /\ Rank_(o.subject.asset) > 0
<1>1. PICK s \in Subject, failed \in SUBSET Provider : s = o.subject /\ failed = o.failed
      BY DEF Recorded
<1>2. /\ ContextOK(c)
      /\ c.asset = IF Known_(s, failed) THEN s.asset ELSE Absent
      /\ c.matches = IF Intel_(s, failed) THEN <<s.matches>> ELSE Absent
      BY <1>1, DetectionContext DEF DocumentOf
<1>3. /\ fs[3].available <=> Looked(CRITICALITY_VALUES, c.asset) # Absent
      /\ fs[5].available <=> c.matches # Absent
      BY <1>2, ValueOfInput
<1>4. fs[5].available <=> Intel_(s, failed)
      BY <1>2, <1>3, GivenIsNotAbsent
<1>5. CASE ~Known_(s, failed)
      BY <1>1, <1>2, <1>3, <1>4, <1>5 DEF Looked
<1>6. CASE Known_(s, failed)
  <2>1. c.asset = s.asset /\ s.asset = <<s.asset[1]>>
        BY <1>2, <1>6, SubjectOK DEF Known_
  <2>2. Looked(CRITICALITY_VALUES, s.asset) # Absent => CRITICALITY_VALUES[s.asset[1]] > 0
    <3>1. Looked(CRITICALITY_VALUES, s.asset) # Absent => s.asset[1] \in DOMAIN CRITICALITY_VALUES
          BY DEF Looked
    <3> QED BY <3>1, CriticalityTable
  <2>3. Rank_(s.asset) > 0 <=> Looked(CRITICALITY_VALUES, s.asset) # Absent
        BY <2>2 DEF Rank_
  <2> QED BY <1>1, <1>3, <1>4, <1>6, <2>1, <2>3
<1> QED BY <1>5, <1>6

(* And a chain on its rule. *)
LEMMA ChainStands ==
    ASSUME NEW r \in RiskRule, NEW c, ContextOK(c), NEW fs, fs = Factors(c),
           c = Context(r.severity, r.confidence, Absent, Absent, Absent, r.techniques, Absent)
    PROVE  /\ \A f \in {3, 4, 5, 7} : ~fs[f].available
           /\ fs[1].available /\ fs[2].available
           /\ AvailableWeight(fs) \in {45, 52}
<1>1. \A f \in Factor : fs[f].available <=> Inputs(c)[f] # Absent
      BY FactorsAreProper
<1>2. /\ c.severity = r.severity /\ c.confidence = r.confidence
      /\ c.asset = Absent /\ c.user = Absent /\ c.matches = Absent /\ c.anomaly = Absent
      BY ContextFields
<1>3. Looked(SEVERITY_VALUES, c.severity) # Absent
  <2>1. PICK s \in DOMAIN SEVERITY_VALUES : c.severity = <<s>>
        BY <1>2, RuleOK
  <2> QED BY <2>1, GivenIsNotAbsent DEF Looked
<1>4. Percent(c.confidence) # Absent
  <2>1. c.confidence # Absent
        BY <1>2, RuleOK, GivenIsNotAbsent DEF GivenInt
  <2> QED BY <2>1, GivenIsNotAbsent DEF Percent
<1>5. /\ Inputs(c)[1] # Absent /\ Inputs(c)[2] # Absent
      /\ \A f \in {3, 4, 5, 7} : Inputs(c)[f] = Absent
      BY <1>2, <1>3, <1>4 DEF Inputs, Looked, Percent
<1>6. /\ fs[1].available /\ fs[2].available
      /\ \A f \in {3, 4, 5, 7} : ~fs[f].available
      BY <1>1, <1>5 DEF Factor
<1>7. \A f \in Factor : fs[f].weight = WEIGHTS[f] /\ fs[f].available \in BOOLEAN
      BY FactorsAreProper DEF Proper, ProperFactor
<1>8. AvailableWeight(fs) = 45 + IF fs[6].available THEN 7 ELSE 0
      BY <1>6, <1>7 DEF AvailableWeight, SumOf, Factor, WEIGHTS
<1> QED BY <1>6, <1>8

-----------------------------------------------------------------------------
(* The chain and its history agree, and a score is of what they hold. *)
ChainAligned == (chain = <<>> /\ of = <<>>) \/ Aligned(of, chain)

ScoredBy(kind, c) == scored = [kind |-> kind, context |-> c, says |-> explanation(c)]

ScoreIsOfChain ==
    \/ scored = NotScored
    \/ /\ chain # <<>>
       /\ \E r \in RiskRule :
            \/ ScoredBy("detection", context_from_detection(r, Last(chain)))
            \/ ScoredBy("chain", context_from_correlation(r, build_timeline(chain)))

RiskInv == riskWork \in 0..MaxRiskWork /\ ChainAligned /\ ScoreIsOfChain

(* A score of what is in the chain is explained. *)
LEMMA RiskInvExplains ==
    ASSUME RiskInv
    PROVE  ScoresAreExplained
<1> SUFFICES ASSUME scored # NotScored
             PROVE  Reconstructs /\ StandsOnWhatWasFound
    BY DEF ScoresAreExplained
<1>1. chain # <<>> /\ Aligned(of, chain)
      BY DEF RiskInv, ScoreIsOfChain, ChainAligned
<1>2. PICK r \in RiskRule :
            \/ ScoredBy("detection", context_from_detection(r, Last(chain)))
            \/ ScoredBy("chain", context_from_correlation(r, build_timeline(chain)))
      BY DEF RiskInv, ScoreIsOfChain
<1>3. CASE ScoredBy("detection", context_from_detection(r, Last(chain)))
  <2>1. PICK o \in Recorded : Last(of) = o /\ Last(chain) = DocumentOf(o)
        BY <1>1 DEF Aligned, Last
  <2>2. PICK c : c = context_from_detection(r, DocumentOf(o))
        OBVIOUS
  <2>3. /\ scored.kind = "detection" /\ scored.context = c /\ scored.says = explanation(c)
        /\ scored.says.factors = Factors(c)
        BY <1>3, <2>1, <2>2 DEF ScoredBy, explanation
  <2>4. ContextOK(c)
    <3>1. o.subject \in Subject /\ o.failed \in SUBSET Provider
          BY DEF Recorded
    <3> QED BY <2>2, <3>1, DetectionContext DEF DocumentOf
  <2>5. Reconstructs
        BY <2>3, <2>4, ExplanationReconstructs
  <2>6. /\ Factors(c)[5].available <=> Intel_(o.subject, o.failed)
        /\ Factors(c)[3].available <=> Known_(o.subject, o.failed) /\ Rank_(o.subject.asset) > 0
        BY <2>2, DetectionStands
  <2>7. StandsOnWhatWasFound
        BY <2>1, <2>3, <2>6 DEF StandsOnWhatWasFound, Intel_, Known_, Rank_
  <2> QED BY <2>5, <2>7
<1>4. CASE ScoredBy("chain", context_from_correlation(r, build_timeline(chain)))
  <2>1. PICK c : c = context_from_correlation(r, build_timeline(chain))
        OBVIOUS
  <2>2. /\ scored.kind = "chain" /\ scored.context = c /\ scored.says = explanation(c)
        /\ scored.says.factors = Factors(c)
        BY <1>4, <2>1 DEF ScoredBy, explanation
  <2>3. /\ ContextOK(c)
        /\ c = Context(r.severity, r.confidence, Absent, Absent, Absent, r.techniques, Absent)
        BY <1>1, <2>1, ChainContext
  <2>4. Reconstructs
        BY <2>2, <2>3, ExplanationReconstructs
  <2>5. PICK fs : fs = Factors(c)
        OBVIOUS
  <2>6. PICK w : w = AvailableWeight(fs)
        OBVIOUS
  <2>7. /\ \A f \in {3, 4, 5, 7} : ~fs[f].available
        /\ fs[1].available /\ fs[2].available
        /\ w \in {45, 52}
        BY <2>3, <2>5, <2>6, ChainStands
  <2>8. /\ scored.says.factors = fs
        /\ scored.says.available_weight = w
        /\ scored.says.denominator = 60
        BY <2>2, <2>5, <2>6, <2>7 DEF explanation, Denominator, MINIMUM_DENOMINATOR
  <2>9. /\ scored.says.score \in 0..100
        /\ scored.says.score * 60 <= 100 * w + 30
        BY <2>4, <2>8 DEF Reconstructs, MINIMUM_DENOMINATOR
  <2>10. scored.says.score <= 87
         BY <2>7, <2>9
  <2> QED BY <2>2, <2>4, <2>7, <2>8, <2>10 DEF StandsOnWhatWasFound, MINIMUM_DENOMINATOR
<1> QED BY <1>2, <1>3, <1>4

(* Before any event there is nothing to explain. *)
LEMMA RiskInvInit ==
    ASSUME RiskInit, riskWork \in 0..MaxRiskWork
    PROVE  RiskInv
BY DEF RiskInit, RiskInv, ChainAligned, ScoreIsOfChain

(* A second event makes a chain of two. *)
LEMMA AppendToOne ==
    ASSUME NEW a, NEW b
    PROVE  Append(<<a>>, b) = <<a, b>>
<1>1. PICK S : S = {a, b}
      OBVIOUS
<1>2. <<a>> \in Seq(S) /\ <<a, b>> \in Seq(S) /\ b \in S
      BY <1>1
<1>3. PICK s \in Seq(S) : s = <<a>> /\ Len(s) = 1 /\ s[1] = a
      BY <1>2
<1>4. PICK u : u = Append(s, b)
      OBVIOUS
<1>5. /\ u \in Seq(S) /\ Len(u) = Len(s) + 1
      /\ \A i \in 1..Len(s) : u[i] = s[i]
      /\ u[Len(s) + 1] = b
      BY <1>2, <1>4, AppendProperties, Zenon
<1>6. Len(s) + 1 = 2 /\ 1 \in 1..Len(s)
      BY <1>3
<1>7. Len(u) = 2 /\ u[1] = a /\ u[2] = b
      BY <1>3, <1>5, <1>6, Zenon
<1>8. PICK t \in Seq(S) : t = <<a, b>> /\ Len(t) = 2 /\ t[1] = a /\ t[2] = b
      BY <1>2
<1>9. Len(u) = Len(t) /\ \A i \in 1..Len(u) : u[i] = t[i]
  <2>1. \A i \in 1..Len(u) : i = 1 \/ i = 2
        BY <1>7
  <2> QED BY <1>7, <1>8, <2>1
<1>10. u = t
       BY <1>5, <1>9, SeqEqual, Zenon
<1> QED BY <1>3, <1>4, <1>8, <1>10

(* Every event and every score keeps the chain aligned with its history. *)
LEMMA RiskInvNext ==
    ASSUME RiskInv, [RiskNext]_riskVars
    PROVE  RiskInv'
<1>1. CASE UNCHANGED riskVars
      BY <1>1 DEF riskVars, RiskInv, ChainAligned, ScoreIsOfChain, ScoredBy
<1>2. ASSUME NEW s \in Subject, NEW failed \in SUBSET Provider, enrich(s, failed)
      PROVE  RiskInv'
  <2>1. PICK q \in Recorded : q = [subject |-> s, failed |-> failed]
        BY DEF Recorded
  <2>2. /\ chain' = Append(IF Len(chain) = 2 THEN Tail(chain) ELSE chain, DocumentOf(q))
        /\ of' = Append(IF Len(of) = 2 THEN Tail(of) ELSE of, q)
        /\ scored' = NotScored /\ riskWork < MaxRiskWork /\ riskWork' = riskWork + 1
        BY <1>2, <2>1 DEF enrich, DocumentOf, RiskStep
  <2>3. Aligned(of', chain')
    <3>1. CASE chain = <<>> /\ of = <<>>
      <4>1. of' = <<q>> /\ chain' = <<DocumentOf(q)>>
            BY <2>2, <3>1
      <4> QED BY <4>1 DEF Aligned
    <3>2. ASSUME NEW o \in Recorded, of = <<o>>, chain = <<DocumentOf(o)>>
          PROVE  Aligned(of', chain')
      <4>1. of' = Append(<<o>>, q) /\ chain' = Append(<<DocumentOf(o)>>, DocumentOf(q))
            BY <2>2, <3>2
      <4>2. of' = <<o, q>> /\ chain' = <<DocumentOf(o), DocumentOf(q)>>
            BY <4>1, AppendToOne
      <4> QED BY <4>2 DEF Aligned
    <3>3. ASSUME NEW o \in Recorded, NEW p \in Recorded,
                 of = <<o, p>>, chain = <<DocumentOf(o), DocumentOf(p)>>
          PROVE  Aligned(of', chain')
      <4>1. of' = Append(<<p>>, q) /\ chain' = Append(<<DocumentOf(p)>>, DocumentOf(q))
            BY <2>2, <3>3
      <4>2. of' = <<p, q>> /\ chain' = <<DocumentOf(p), DocumentOf(q)>>
            BY <4>1, AppendToOne
      <4> QED BY <4>2 DEF Aligned
    <3> QED BY <3>1, <3>2, <3>3 DEF RiskInv, ChainAligned, Aligned
  <2>4. riskWork' \in 0..MaxRiskWork
        BY <2>2, RiskConstants DEF RiskInv
  <2> QED BY <2>2, <2>3, <2>4 DEF RiskInv, ChainAligned, ScoreIsOfChain
<1>3. ASSUME NEW r \in RiskRule, apply_to_detection(r) PROVE RiskInv'
  <2>1. /\ chain # <<>> /\ UNCHANGED <<chain, of>>
        /\ scored' = [kind |-> "detection", context |-> context_from_detection(r, Last(chain)),
                      says |-> explanation(context_from_detection(r, Last(chain)))]
        /\ riskWork < MaxRiskWork /\ riskWork' = riskWork + 1
        BY <1>3 DEF apply_to_detection, RiskStep
  <2>2. riskWork' \in 0..MaxRiskWork
        BY <2>1, RiskConstants DEF RiskInv
  <2> QED BY <2>1, <2>2 DEF RiskInv, ChainAligned, ScoreIsOfChain, ScoredBy
<1>4. ASSUME NEW r \in RiskRule, apply_to_correlation(r) PROVE RiskInv'
  <2>1. /\ chain # <<>> /\ UNCHANGED <<chain, of>>
        /\ scored' = [kind |-> "chain",
                      context |-> context_from_correlation(r, build_timeline(chain)),
                      says |-> explanation(context_from_correlation(r, build_timeline(chain)))]
        /\ riskWork < MaxRiskWork /\ riskWork' = riskWork + 1
        BY <1>4 DEF apply_to_correlation, RiskStep
  <2>2. riskWork' \in 0..MaxRiskWork
        BY <2>1, RiskConstants DEF RiskInv
  <2> QED BY <2>1, <2>2 DEF RiskInv, ChainAligned, ScoreIsOfChain, ScoredBy
<1> QED BY <1>1, <1>2, <1>3, <1>4 DEF RiskNext

(* Every score is explained, for every set of events and rules and         *)
(* whichever providers fail on which event: the score is what its points   *)
(* and its denominator give, within 0 and 100 and within what the factors  *)
(* with data account for; a worse input never lowers it and missing data   *)
(* is never a zero (risk/model.py, risk/factors.py); a detection's factors *)
(* say what enrichment found about its event (enrichment/base.py, and      *)
(* _intel_of of risk/engine.py), and a chain's are its rule's, whatever    *)
(* was found (_summarize of correlation/engine.py).                        *)
THEOREM ScoresAreExplainedHolds == RiskSpec => []ScoresAreExplained
<1>1. RiskInit /\ riskWork \in 0..MaxRiskWork => RiskInv
      BY RiskInvInit
<1>2. RiskInv /\ [RiskNext]_riskVars => RiskInv'
      BY RiskInvNext
<1>3. RiskInv => ScoresAreExplained
      BY RiskInvExplains
<1> QED BY <1>1, <1>2, <1>3, PTL DEF RiskSpec

-----------------------------------------------------------------------------
(* Exports. The files alone do not add up to anything inductive: what was  *)
(* admitted and is still being searched for will become files, so that it  *)
(* is counted with them.                                                   *)
Underway == [tenant : Tenant, query : Query, rows : Nat, hour : BOOLEAN]

ExportsTypeOK ==
    /\ exporting \in [ExportRequest -> Underway \cup {NoExport}]
    /\ exports \in [Tenant -> Nat]
    /\ exportAudit \in [Tenant -> [success : Nat, failure : Nat]]
    /\ handedOut \in [Tenant -> [all : Nat, hour : Nat]]

(* The exports of tenant t that were admitted on the quota of this hour    *)
(* and have not ended.                                                     *)
Admitted(t) == {x \in ExportRequest : /\ exporting[x] \in Underway
                                      /\ exporting[x].tenant = t /\ exporting[x].hour}

(* What was and what still may be handed out on this hour's quota was      *)
(* counted, and the limit let it through.                                  *)
RationCovers(t) ==
    /\ Cardinality(Admitted(t)) + handedOut[t].hour <= exports[t]
    /\ Cardinality(Admitted(t)) + handedOut[t].hour <= EXPORT_LIMIT

ExportInv ==
    /\ ExportsTypeOK
    /\ \A t \in Tenant : /\ exportAudit[t].success = handedOut[t].all
                         /\ RationCovers(t)

(* A slot is free or holds an export, never both. *)
LEMMA UnderwayIsNot == \A e \in Underway : e # NoExport /\ e.tenant \in Tenant
<1>1. NoExport.tenant = <<>>
      BY DEF NoExport
<1> QED BY <1>1, ExportConstants DEF Underway

(* Exports can be counted. *)
LEMMA AdmittedCounts ==
    \A t \in Tenant : IsFiniteSet(Admitted(t)) /\ Cardinality(Admitted(t)) \in Nat
<1> SUFFICES ASSUME NEW t \in Tenant
             PROVE  IsFiniteSet(Admitted(t)) /\ Cardinality(Admitted(t)) \in Nat
    OBVIOUS
<1>1. Admitted(t) \subseteq ExportRequest
      BY DEF Admitted
<1>2. IsFiniteSet(Admitted(t))
      BY <1>1, ExportConstants, FS_Subset
<1> QED BY <1>2, FS_CardinalityType

(* A step that leaves a tenant's exports, counter and rows alone keeps its *)
(* ration.                                                                 *)
LEMMA RationFrame ==
    ASSUME NEW t \in Tenant, RationCovers(t), Admitted(t)' = Admitted(t),
           exports'[t] = exports[t], handedOut'[t].hour = handedOut[t].hour
    PROVE  RationCovers(t)'
BY DEF RationCovers

(* A request is admitted on the quota, or refused. *)
LEMMA AdmitKeeps ==
    ASSUME ExportInv, NEW x \in ExportRequest, NEW u \in Tenant, NEW q \in Query, NEW n \in Rows,
           _within_export_rate_limit(x, u, q, n)
    PROVE  ExportInv'
<1>0. ExportsTypeOK /\ exports[u] \in Nat /\ EXPORT_LIMIT \in Nat
      BY ExportConstants DEF ExportInv, ExportsTypeOK
<1>1. /\ exporting[x] = NoExport /\ handedOut' = handedOut
      /\ exports' \in [Tenant -> Nat] /\ exports'[u] = exports[u] + 1
      /\ \A t \in Tenant \ {u} : exports'[t] = exports[t]
      BY <1>0 DEF _within_export_rate_limit, ExportsTypeOK
<1>2. CASE /\ exports[u] + 1 <= EXPORT_LIMIT /\ exportAudit' = exportAudit
           /\ exporting' = [exporting EXCEPT ![x] = [tenant |-> u, query |-> q,
                                                     rows |-> Least(n, MAX_LIMIT), hour |-> TRUE]]
      <2>1. PICK e : e = [tenant |-> u, query |-> q, rows |-> Least(n, MAX_LIMIT), hour |-> TRUE]
            OBVIOUS
      <2>2. Least(n, MAX_LIMIT) \in Nat
            BY ExportConstants DEF Least
      <2>3. e \in Underway /\ e.tenant = u /\ e.hour
            BY <2>1, <2>2 DEF Underway
      <2>4. exporting' = [exporting EXCEPT ![x] = e]
            BY <1>2, <2>1
      <2>5. /\ exporting' \in [ExportRequest -> Underway \cup {NoExport}]
            /\ exporting'[x] = e /\ \A y \in ExportRequest \ {x} : exporting'[y] = exporting[y]
            BY <1>0, <2>3, <2>4 DEF ExportsTypeOK
      <2>6. x \notin Admitted(u) /\ Admitted(u)' = Admitted(u) \cup {x}
            BY <1>1, <2>3, <2>5, UnderwayIsNot DEF Admitted
      <2>7. \A t \in Tenant \ {u} : Admitted(t)' = Admitted(t)
            BY <1>1, <2>3, <2>5, UnderwayIsNot DEF Admitted
      <2>8. ExportsTypeOK'
            BY <1>0, <1>1, <1>2, <2>5 DEF ExportsTypeOK
      <2>9. RationCovers(u)'
            <3>1. PICK S : S = Admitted(u)
                  OBVIOUS
            <3>2. Cardinality(S \cup {x}) = Cardinality(S) + 1 /\ Cardinality(S) \in Nat
                  BY <2>6, <3>1, AdmittedCounts, FS_AddElement
            <3>3. handedOut[u].hour \in Nat
                  BY <1>0 DEF ExportsTypeOK
            <3>4. Cardinality(S) + handedOut[u].hour <= exports[u]
                  BY <3>1 DEF ExportInv, RationCovers
            <3>5. Cardinality(S) + 1 + handedOut[u].hour <= exports[u] + 1
                  BY <1>0, <3>2, <3>3, <3>4
            <3>6. Cardinality(S) + 1 + handedOut[u].hour <= EXPORT_LIMIT
                  BY <1>0, <1>2, <3>2, <3>3, <3>5
            <3> QED BY <1>1, <2>6, <3>1, <3>2, <3>5, <3>6 DEF RationCovers
      <2>10. \A t \in Tenant \ {u} : RationCovers(t)'
            BY <1>1, <2>7, RationFrame DEF ExportInv
      <2> QED BY <1>1, <1>2, <2>8, <2>9, <2>10 DEF ExportInv
<1>3. CASE /\ exportAudit' = [exportAudit EXCEPT ![u].failure = @ + 1] /\ exporting' = exporting
      <2>1. PICK r : r = [exportAudit[u] EXCEPT !.failure = @ + 1]
            OBVIOUS
      <2>2. exportAudit[u] \in [success : Nat, failure : Nat]
            BY <1>0 DEF ExportsTypeOK
      <2>3. r \in [success : Nat, failure : Nat] /\ r.success = exportAudit[u].success
            BY <2>1, <2>2
      <2>4. exportAudit' = [exportAudit EXCEPT ![u] = r]
            BY <1>3, <2>1
      <2>5. /\ exportAudit' \in [Tenant -> [success : Nat, failure : Nat]]
            /\ \A t \in Tenant : exportAudit'[t].success = exportAudit[t].success
            BY <1>0, <2>3, <2>4 DEF ExportsTypeOK
      <2>6. \A t \in Tenant : Admitted(t)' = Admitted(t)
            BY <1>3 DEF Admitted
      <2>7. ExportsTypeOK'
            BY <1>0, <1>1, <1>3, <2>5 DEF ExportsTypeOK
      <2>8. ASSUME NEW t \in Tenant PROVE RationCovers(t)'
            <3>1. /\ Cardinality(Admitted(t)) \in Nat /\ handedOut[t].hour \in Nat
                  /\ exports[t] \in Nat /\ exports[t] <= exports'[t] /\ exports'[t] \in Nat
                  BY <1>0, <1>1, AdmittedCounts DEF ExportsTypeOK
            <3>2. RationCovers(t)
                  BY DEF ExportInv
            <3> QED BY <1>1, <2>6, <3>1, <3>2 DEF RationCovers
      <2> QED BY <1>1, <2>5, <2>7, <2>8 DEF ExportInv
<1> QED BY <1>2, <1>3 DEF _within_export_rate_limit

(* An admitted export that ends, with its file or without, gives back no   *)
(* quota: what it was counted for moves to the files, or is lost.          *)
LEMMA EndsAlone ==
    ASSUME ExportInv, NEW x \in ExportRequest, exporting[x] # NoExport,
           exporting' = [exporting EXCEPT ![x] = NoExport]
    PROVE  /\ exporting[x] \in Underway /\ exporting[x].tenant \in Tenant
           /\ exporting' \in [ExportRequest -> Underway \cup {NoExport}]
           /\ \A t \in Tenant : Admitted(t)' = Admitted(t) \ {x}
           /\ \A t \in Tenant : x \in Admitted(t) <=> /\ t = exporting[x].tenant
                                                      /\ exporting[x].hour
<1>1. exporting \in [ExportRequest -> Underway \cup {NoExport}]
      BY DEF ExportInv, ExportsTypeOK
<1>2. exporting[x] \in Underway /\ exporting[x].tenant \in Tenant
      BY <1>1, UnderwayIsNot
<1>3. /\ exporting' \in [ExportRequest -> Underway \cup {NoExport}] /\ exporting'[x] = NoExport
      /\ \A y \in ExportRequest \ {x} : exporting'[y] = exporting[y]
      BY <1>1
<1>4. \A t \in Tenant : Admitted(t)' = Admitted(t) \ {x}
      BY <1>3, UnderwayIsNot DEF Admitted
<1>5. \A t \in Tenant : x \in Admitted(t) <=> t = exporting[x].tenant /\ exporting[x].hour
      BY <1>2 DEF Admitted
<1> QED BY <1>2, <1>3, <1>4, <1>5

(* Handing out a file keeps the invariant: the row and the file come in    *)
(* one step, and the file takes the place of the export in the ration.     *)
LEMMA HandOutKeeps ==
    ASSUME ExportInv, NEW x \in ExportRequest, HandOut(x)
    PROVE  ExportInv'
<1>0. ExportsTypeOK /\ exporting[x] # NoExport /\ exports' = exports
      /\ exporting' = [exporting EXCEPT ![x] = NoExport]
      BY DEF ExportInv, HandOut
<1>1. PICK u, h : u = exporting[x].tenant /\ h = exporting[x].hour
      OBVIOUS
<1>2. /\ u \in Tenant /\ h \in BOOLEAN /\ exporting' \in [ExportRequest -> Underway \cup {NoExport}]
      /\ \A t \in Tenant : Admitted(t)' = Admitted(t) \ {x}
      /\ \A t \in Tenant : x \in Admitted(t) <=> t = u /\ h
      BY <1>0, <1>1, EndsAlone DEF Underway
<1>3. PICK r, f : /\ r = [exportAudit[u] EXCEPT !.success = @ + 1]
                  /\ f = [handedOut[u] EXCEPT !.all = @ + 1, !.hour = IF h THEN @ + 1 ELSE @]
      OBVIOUS
<1>4. exportAudit' = [exportAudit EXCEPT ![u] = r] /\ handedOut' = [handedOut EXCEPT ![u] = f]
      BY <1>1, <1>3 DEF HandOut
<1>5. exportAudit[u] \in [success : Nat, failure : Nat] /\ handedOut[u] \in [all : Nat, hour : Nat]
      BY <1>0, <1>2 DEF ExportsTypeOK
<1>6. r \in [success : Nat, failure : Nat] /\ r.success = exportAudit[u].success + 1
      BY <1>3, <1>5
<1>7. /\ f \in [all : Nat, hour : Nat] /\ f.all = handedOut[u].all + 1
      /\ f.hour = IF h THEN handedOut[u].hour + 1 ELSE handedOut[u].hour
      <2>1. PICK w : w = IF h THEN handedOut[u].hour + 1 ELSE handedOut[u].hour
            OBVIOUS
      <2>2. w \in Nat
            BY <1>5, <2>1
      <2>3. PICK old, n : old = handedOut[u] /\ n = old.all + 1
            OBVIOUS
      <2>4. f = [old EXCEPT !.all = n, !.hour = w]
            BY <1>3, <2>1, <2>3
      <2>5. old \in [all : Nat, hour : Nat] /\ n \in Nat
            BY <1>5, <2>3
      <2>6. PICK mid : mid = [old EXCEPT !.all = n]
            OBVIOUS
      <2>7. mid \in [all : Nat, hour : Nat] /\ mid.all = n
            BY <2>5, <2>6
      <2>8. f = [mid EXCEPT !.hour = w]
            BY <2>4, <2>6
      <2>9. f \in [all : Nat, hour : Nat] /\ f.all = n /\ f.hour = w
            BY <2>2, <2>7, <2>8
      <2> QED BY <2>1, <2>3, <2>9
<1>8. /\ exportAudit' \in [Tenant -> [success : Nat, failure : Nat]] /\ exportAudit'[u] = r
      /\ handedOut' \in [Tenant -> [all : Nat, hour : Nat]] /\ handedOut'[u] = f
      /\ \A t \in Tenant \ {u} : exportAudit'[t] = exportAudit[t] /\ handedOut'[t] = handedOut[t]
      BY <1>0, <1>2, <1>4, <1>6, <1>7 DEF ExportsTypeOK
<1>9. ExportsTypeOK'
      BY <1>0, <1>2, <1>8 DEF ExportsTypeOK
<1>10. \A t \in Tenant : exportAudit'[t].success = handedOut'[t].all
      BY <1>2, <1>6, <1>7, <1>8 DEF ExportInv
<1>11. \A t \in Tenant \ {u} : RationCovers(t)'
      <2> SUFFICES ASSUME NEW t \in Tenant \ {u} PROVE RationCovers(t)'
          OBVIOUS
      <2>1. Admitted(t)' = Admitted(t)
            BY <1>2
      <2>2. exports'[t] = exports[t] /\ handedOut'[t].hour = handedOut[t].hour
            BY <1>0, <1>8
      <2> QED BY <2>1, <2>2, RationFrame DEF ExportInv
<1>12. RationCovers(u)'
      <2>1. PICK S : S = Admitted(u)
            OBVIOUS
      <2>2. IsFiniteSet(S) /\ Cardinality(S) \in Nat /\ exports[u] \in Nat /\ EXPORT_LIMIT \in Nat
            BY <1>0, <1>2, <2>1, AdmittedCounts, ExportConstants DEF ExportsTypeOK
      <2>3. /\ Cardinality(S) + handedOut[u].hour <= exports[u]
            /\ Cardinality(S) + handedOut[u].hour <= EXPORT_LIMIT /\ handedOut[u].hour \in Nat
            BY <1>2, <1>5, <2>1 DEF ExportInv, RationCovers
      <2>4. CASE h
            <3>1. x \in S
                  BY <1>2, <2>1, <2>4
            <3>2. Cardinality(S \ {x}) = Cardinality(S) - 1
                  BY <2>2, <3>1, FS_RemoveElement
            <3>3. f.hour = handedOut[u].hour + 1
                  BY <1>7, <2>4
            <3>4. /\ Cardinality(S \ {x}) + f.hour <= exports[u]
                  /\ Cardinality(S \ {x}) + f.hour <= EXPORT_LIMIT
                  BY <2>2, <2>3, <3>2, <3>3
            <3> QED BY <1>0, <1>2, <1>8, <2>1, <3>4 DEF RationCovers
      <2>5. CASE ~h
            <3>1. S \ {x} = S
                  BY <1>2, <2>1, <2>5
            <3> QED BY <1>0, <1>2, <1>7, <1>8, <2>1, <2>3, <2>5, <3>1 DEF RationCovers
      <2> QED BY <1>2, <2>4, <2>5
<1> QED BY <1>9, <1>10, <1>11, <1>12 DEF ExportInv

(* An export that fails keeps it: its share of the quota stays used. *)
LEMMA FailKeeps ==
    ASSUME ExportInv, NEW x \in ExportRequest, ExportFails(x)
    PROVE  ExportInv'
<1>0. /\ ExportsTypeOK /\ exporting[x] # NoExport /\ UNCHANGED <<exports, exportAudit, handedOut>>
      /\ exporting' = [exporting EXCEPT ![x] = NoExport]
      BY DEF ExportInv, ExportFails
<1>1. /\ exporting' \in [ExportRequest -> Underway \cup {NoExport}]
      /\ \A t \in Tenant : Admitted(t)' = Admitted(t) \ {x}
      BY <1>0, EndsAlone
<1>2. ASSUME NEW t \in Tenant PROVE RationCovers(t)'
      <2>1. PICK S : S = Admitted(t)
            OBVIOUS
      <2>2. IsFiniteSet(S) /\ Cardinality(S) \in Nat
            BY <2>1, AdmittedCounts
      <2>3. Cardinality(S \ {x}) <= Cardinality(S) /\ Cardinality(S \ {x}) \in Nat
            <3>1. S \ {x} \subseteq S
                  OBVIOUS
            <3>2. IsFiniteSet(S \ {x})
                  BY <2>2, FS_Subset
            <3> QED BY <2>2, <3>1, <3>2, FS_Subset, FS_CardinalityType
      <2>4. /\ Cardinality(S) + handedOut[t].hour <= exports[t]
            /\ Cardinality(S) + handedOut[t].hour <= EXPORT_LIMIT
            BY <2>1 DEF ExportInv, RationCovers
      <2>5. handedOut[t].hour \in Nat /\ exports[t] \in Nat /\ EXPORT_LIMIT \in Nat
            BY <1>0, ExportConstants DEF ExportsTypeOK
      <2>6. /\ Cardinality(S \ {x}) + handedOut[t].hour <= exports[t]
            /\ Cardinality(S \ {x}) + handedOut[t].hour <= EXPORT_LIMIT
            BY <2>2, <2>3, <2>4, <2>5
      <2> QED BY <1>0, <1>1, <2>1, <2>6 DEF RationCovers
<1> QED BY <1>0, <1>1, <1>2 DEF ExportInv, ExportsTypeOK

(* At the turn of the hour nothing under way counts for the new quota. *)
LEMMA HourKeeps == ASSUME ExportInv, NextHour PROVE ExportInv'
<1>0. ExportsTypeOK
      BY DEF ExportInv
<1>1. ASSUME NEW x \in ExportRequest
      PROVE  /\ exporting'[x] \in Underway \cup {NoExport}
             /\ exporting'[x] \in Underway => ~exporting'[x].hour
      <2>1. PICK e : e = exporting[x]
            OBVIOUS
      <2>2. e \in Underway \cup {NoExport}
            BY <1>0, <2>1 DEF ExportsTypeOK
      <2>3. exporting'[x] = IF e = NoExport THEN NoExport ELSE [e EXCEPT !.hour = FALSE]
            BY <2>1 DEF NextHour
      <2>4. CASE e = NoExport
            BY <2>3, <2>4, UnderwayIsNot
      <2>5. CASE e # NoExport
            <3>1. PICK g : g = [e EXCEPT !.hour = FALSE]
                  OBVIOUS
            <3>2. g \in Underway /\ ~g.hour
                  BY <2>2, <2>5, <3>1 DEF Underway
            <3> QED BY <2>3, <2>5, <3>1, <3>2
      <2> QED BY <2>4, <2>5
<1>2. exporting' \in [ExportRequest -> Underway \cup {NoExport}]
      BY <1>1 DEF NextHour
<1>3. ASSUME NEW t \in Tenant
      PROVE  /\ handedOut'[t] \in [all : Nat, hour : Nat]
             /\ handedOut'[t].all = handedOut[t].all /\ handedOut'[t].hour = 0
      <2>1. PICK f : f = handedOut[t]
            OBVIOUS
      <2>2. f \in [all : Nat, hour : Nat]
            BY <1>0, <2>1 DEF ExportsTypeOK
      <2>3. handedOut'[t] = [f EXCEPT !.hour = 0]
            BY <2>1 DEF NextHour
      <2> QED BY <2>1, <2>2, <2>3
<1>4. exports' = [t \in Tenant |-> 0] /\ exportAudit' = exportAudit
      BY DEF NextHour
<1>5. handedOut' \in [Tenant -> [all : Nat, hour : Nat]]
      BY <1>3 DEF NextHour
<1>6. ExportsTypeOK'
      BY <1>0, <1>2, <1>4, <1>5 DEF ExportsTypeOK
<1>7. \A t \in Tenant : Cardinality(Admitted(t)') = 0
      <2>1. \A t \in Tenant : Admitted(t)' = {}
            BY <1>1 DEF Admitted
      <2> QED BY <2>1, FS_EmptySet
<1>8. \A t \in Tenant : RationCovers(t)'
      BY <1>3, <1>4, <1>7, ExportConstants DEF RationCovers
<1> QED BY <1>3, <1>4, <1>6, <1>8 DEF ExportInv

(* The invariant holds in every reachable state. *)
LEMMA ExportInvariant == ExportsSpec => []ExportInv
<1>1. ExportsInit => ExportInv
      <2> SUFFICES ASSUME ExportsInit PROVE ExportInv
          OBVIOUS
      <2>1. ExportsTypeOK /\ \A t \in Tenant : exportAudit[t].success = handedOut[t].all
            BY DEF ExportsInit, ExportsTypeOK
      <2>2. \A t \in Tenant : Admitted(t) = {}
            BY UnderwayIsNot DEF ExportsInit, Admitted
      <2>3. \A t \in Tenant : Cardinality(Admitted(t)) = 0 /\ handedOut[t].hour = 0 /\ exports[t] = 0
            BY <2>2, FS_EmptySet DEF ExportsInit
      <2> QED BY <2>1, <2>3, ExportConstants DEF ExportInv, RationCovers
<1>2. ExportInv /\ [ExportsNext]_exportVars => ExportInv'
      <2> SUFFICES ASSUME ExportInv, [ExportsNext]_exportVars PROVE ExportInv'
          OBVIOUS
      <2>1. CASE UNCHANGED exportVars
            BY <2>1 DEF exportVars, ExportInv, ExportsTypeOK, RationCovers, Admitted
      <2> QED BY <2>1, AdmitKeeps, HandOutKeeps, FailKeeps, HourKeeps DEF ExportsNext
<1> QED BY <1>1, <1>2, PTL DEF ExportsSpec

(* Every file export_hunt hands out has its EXPORT_DATA row, and no more   *)
(* files are handed out on the quota of an hour than                       *)
(* hunt_export_rate_limit_per_hour (services/hunting.py, export_hunt and   *)
(* _within_export_rate_limit), however many exports of however many        *)
(* tenants overlap, fail, or are under way at the turn of the hour.        *)
THEOREM ExportsAreOnRecordHolds == ExportsSpec => []ExportsAreOnRecord
<1>1. ExportInv => ExportsAreOnRecord
      <2> SUFFICES ASSUME ExportInv, NEW t \in Tenant
                   PROVE  exportAudit[t].success = handedOut[t].all /\ handedOut[t].hour <= EXPORT_LIMIT
          BY DEF ExportsAreOnRecord
      <2>1. handedOut[t].hour \in Nat /\ Cardinality(Admitted(t)) \in Nat /\ EXPORT_LIMIT \in Nat
            BY AdmittedCounts, ExportConstants DEF ExportInv, ExportsTypeOK
      <2> QED BY <2>1 DEF ExportInv, RationCovers
<1> QED BY <1>1, ExportInvariant, PTL
=============================================================================
