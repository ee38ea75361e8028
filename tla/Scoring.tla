------------------------------ MODULE Scoring ------------------------------
(***************************************************************************)
(* Risk scoring (backend/app/risk/): the context of an event that the      *)
(* enrichment pipeline puts together from providers that may fail or time  *)
(* out (backend/app/enrichment/), and the explained score of a detection,  *)
(* or of a chain of events, that is worked out from it. What a chain is    *)
(* scored on are the excerpts in its timeline (backend/app/correlation/).  *)
(*                                                                         *)
(* A document is a function with the fields scoring reads; a field that is *)
(* absent is not in its domain. Values are ten-thousandths, the precision  *)
(* factors are rounded to; an exact half is rounded to even, where the     *)
(* code's float may be one unit in the last place off the half.            *)
(***************************************************************************)
EXTENDS Integers, Sequences, FiniteSets, SequencesExt

CONSTANTS
    Subject,       \* events: what the inventory, the indicators and UEBA hold about each
    RiskRule,      \* rules: their severity, confidence and techniques
    MaxRiskWork    \* bound: events and scores altogether

(* What the schemas let in: an event may carry a user risk score and an    *)
(* anomaly, and a field that only enrichment writes is not in it yet; an   *)
(* indicator's confidence is a number; and a rule has a known severity and *)
(* a confidence (in the rule schema both are required).                    *)
ASSUME RiskConstants ==
    /\ MaxRiskWork \in Nat
    /\ \A s \in Subject :
        /\ s.observables \in BOOLEAN
        /\ s.asset = <<>> \/ s.asset = <<s.asset[1]>>
        /\ \A m \in s.matches : m.confidence \in Int
        /\ DOMAIN s.document \subseteq {"risk_context", "anomaly"}
        /\ "risk_context" \in DOMAIN s.document =>
             LET given == s.document["risk_context"]
                 risk == given["user_risk_score"] IN
             DOMAIN given = {"user_risk_score"} /\ risk = <<risk[1]>> /\ risk[1] \in Int
        /\ "anomaly" \in DOMAIN s.document =>
             LET found == s.document["anomaly"] IN
             found = <<found[1]>> /\ found[1].score \in Int /\ found[1].confidence \in Int
    /\ \A r \in RiskRule :
        /\ \E s \in {"informational", "low", "medium", "high", "critical"} : r.severity = <<s>>
        /\ r.confidence = <<r.confidence[1]>> /\ r.confidence[1] \in Int

VARIABLES
    chain,         \* the enriched documents of the last two events, oldest first
    of,            \* history: the subject of each, and the providers that failed on it
    scored,        \* the last explanation, with the context it was worked out from
    riskWork       \* steps so far

riskVars == <<chain, of, scored, riskWork>>

Absent == <<>>                \* a value that is None; given ones are <<v>>
NotScored == [kind |-> "none"]

RiskInit == chain = <<>> /\ of = <<>> /\ scored = NotScored

RiskStep == riskWork < MaxRiskWork /\ riskWork' = riskWork + 1

-----------------------------------------------------------------------------
(* AssetContextProvider and IocMatchProvider: what each adds. An inventory *)
(* that does not know the host, and an event without observables, add      *)
(* nothing; an indicator set that was asked and has none adds an empty     *)
(* list. NetworkContextProvider adds nothing that is scored.               *)
AssetContextProvider(s) ==
    IF s.asset = Absent THEN <<>>
    ELSE [asset |-> s.asset, risk_context |-> [asset_criticality |-> s.asset]]

IocMatchProvider(s) ==
    IF ~s.observables THEN <<>>
    ELSE IF s.matches = {} THEN [ioc_matches |-> {}]
    ELSE [ioc_matches |-> s.matches,
          risk_context |-> [ioc_classification |-> {m.classification : m \in s.matches}]]

Provider == {"asset_context", "ioc_match"}

(* {**old, **new} *)
Updated(old, new) ==
    [k \in DOMAIN old \cup DOMAIN new |-> IF k \in DOMAIN new THEN new[k] ELSE old[k]]

(* _merge: nested fields one level deep, the rest replaced. *)
_merge(target, additions) ==
    [k \in DOMAIN target \cup DOMAIN additions |->
        IF k = "risk_context" /\ k \in DOMAIN target /\ k \in DOMAIN additions
        THEN Updated(target[k], additions[k])
        ELSE IF k \in DOMAIN additions THEN additions[k] ELSE target[k]]

(* EnrichmentPipeline.enrich on the event of s, with the providers that    *)
(* raise or time out: each is contained, and the document is marked.       *)
Enriched(s, failed) ==
    LET asset == IF "asset_context" \in failed THEN <<>> ELSE AssetContextProvider(s)
        intel == IF "ioc_match" \in failed THEN <<>> ELSE IocMatchProvider(s)
        whole == _merge(_merge(s.document, asset), intel) IN
    IF failed = {} THEN whole ELSE Updated(whole, [enrichment_partial |-> TRUE])

enrich(s, failed) ==
    /\ RiskStep
    /\ chain' = Append(IF Len(chain) = 2 THEN Tail(chain) ELSE chain,
                          Enriched(s, failed))
    /\ of' = Append(IF Len(of) = 2 THEN Tail(of) ELSE of, [subject |-> s, failed |-> failed])
    /\ scored' = NotScored

-----------------------------------------------------------------------------
WEIGHTS == <<30, 15, 20, 10, 15, 7, 3>>
MINIMUM_DENOMINATOR == 60
Factor == 1..7

Whole == 10000

SEVERITY_VALUES ==
    [informational |-> 0, low |-> 2500, medium |-> 5000, high |-> 7500, critical |-> Whole]
CRITICALITY_VALUES == [LOW |-> 2500, MEDIUM |-> 5000, HIGH |-> 7500, CRITICAL |-> Whole]
IOC_CLASSIFICATION_VALUES ==
    [malicious |-> Whole, suspicious |-> 6000, unknown |-> 3000, benign |-> 0]
TECHNIQUE_IMPACT ==
    [T1003 |-> Whole, T1486 |-> Whole, T1490 |-> 9000, T1041 |-> 9000, T1567 |-> 9000,
     T1078 |-> 8000, T1098 |-> 8000, T1021 |-> 7000, T1543 |-> 7000, T1547 |-> 6000,
     T1053 |-> 6000, T1070 |-> 6000, T1059 |-> 5000, T1566 |-> 5000, T1110 |-> 4000,
     T1027 |-> 4000]
DEFAULT_TECHNIQUE_IMPACT == 4000

_clamp(v) == IF v < 0 THEN 0 ELSE IF v > Whole THEN Whole ELSE v

(* _score: the factor of a value that is given, and of one that is not. *)
_score(f, value) ==
    IF value = Absent
    THEN [value |-> 0, weight |-> WEIGHTS[f], points |-> 0, available |-> FALSE]
    ELSE [value |-> _clamp(value[1]), weight |-> WEIGHTS[f],
          points |-> WEIGHTS[f] * _clamp(value[1]), available |-> TRUE]

Looked(table, key) == IF key # Absent /\ key[1] \in DOMAIN table THEN <<table[key[1]]>> ELSE Absent
Percent(v) == IF v = Absent THEN Absent ELSE <<v[1] * 100>>
Greatest(S) == IF S = {} THEN 0 ELSE CHOOSE n \in S : \A m \in S : m <= n

severity_factor(c) == _score(1, Looked(SEVERITY_VALUES, c.severity))
confidence_factor(c) == _score(2, Percent(c.confidence))
asset_criticality_factor(c) == _score(3, Looked(CRITICALITY_VALUES, c.asset))
user_risk_factor(c) == _score(4, Percent(c.user))

(* The strongest match: its classification, by how far its source is sure. *)
Strength(m) ==
    LET rank == Looked(IOC_CLASSIFICATION_VALUES, <<m.classification>>) IN
    ((IF rank = Absent THEN 3000 ELSE rank[1]) * _clamp(m.confidence * 100)) \div Whole

threat_intel_factor(c) ==
    _score(5, IF c.matches = Absent THEN Absent
              ELSE <<Greatest({Strength(m) : m \in c.matches[1]})>>)

(* A sub-technique has the impact of its parent. *)
Impact_(t) ==
    IF Head(t) \in DOMAIN TECHNIQUE_IMPACT THEN TECHNIQUE_IMPACT[Head(t)] ELSE DEFAULT_TECHNIQUE_IMPACT

mitre_context_factor(c) ==
    _score(6, IF c.techniques = {} THEN Absent
              ELSE <<Greatest({Impact_(t) : t \in c.techniques})>>)

behavioral_anomaly_factor(c) ==
    _score(7, IF c.anomaly = Absent THEN Absent
              ELSE <<(c.anomaly[1].score * _clamp(c.anomaly[1].confidence * 100)) \div Whole>>)

BUCKET_BOUNDARIES ==
    <<[at |-> 75, is |-> "CRITICAL"], [at |-> 50, is |-> "HIGH"],
      [at |-> 25, is |-> "MEDIUM"], [at |-> 0, is |-> "LOW"]>>

bucket_for(score) ==
    SelectSeq(BUCKET_BOUNDARIES, LAMBDA b : score >= b.at)[1].is

Round(n, d) ==
    LET q == n \div d
        twice == 2 * (n % d) IN
    IF twice > d \/ (twice = d /\ q % 2 = 1) THEN q + 1 ELSE q

SumOf(g) == g[1] + g[2] + g[3] + g[4] + g[5] + g[6] + g[7]
AvailableWeight(fs) == SumOf([f \in Factor |-> IF fs[f].available THEN fs[f].weight ELSE 0])
Points(fs) == SumOf([f \in Factor |-> fs[f].points])

Factors(c) ==
    <<severity_factor(c), confidence_factor(c), asset_criticality_factor(c), user_risk_factor(c),
      threat_intel_factor(c), mitre_context_factor(c), behavioral_anomaly_factor(c)>>

Denominator(weight) == IF weight > MINIMUM_DENOMINATOR THEN weight ELSE MINIMUM_DENOMINATOR

(* Mutant of assess: the weighted mean without its floor. *)
AssessInflated(c) ==
    LET fs == Factors(c)
        weight == AvailableWeight(fs) IN
    IF weight = 0 THEN 0 ELSE Round(Points(fs), 100 * weight)

(* assess: 100 * points / denominator, where points are ten-thousandths. *)
assess(c) ==
    LET fs == Factors(c)
        weight == AvailableWeight(fs)
        score == IF weight = 0 THEN 0 ELSE Round(Points(fs), 100 * Denominator(weight)) IN
    IF score > 100 THEN 100 ELSE score

explanation(c) ==
    LET fs == Factors(c)
        weight == AvailableWeight(fs) IN
    [score |-> assess(c), bucket |-> bucket_for(assess(c)), available_weight |-> weight,
     denominator |-> IF weight = 0 THEN 0 ELSE Denominator(weight), factors |-> fs]

-----------------------------------------------------------------------------
_asset_criticality_of(d) ==
    IF "asset" \in DOMAIN d THEN d["asset"]
    ELSE IF "risk_context" \in DOMAIN d /\ "asset_criticality" \in DOMAIN d["risk_context"]
    THEN d["risk_context"]["asset_criticality"] ELSE Absent

_user_risk_of(d) ==
    IF "risk_context" \in DOMAIN d /\ "user_risk_score" \in DOMAIN d["risk_context"]
    THEN d["risk_context"]["user_risk_score"] ELSE Absent

(* Absent where intel was not consulted, or may not have been. *)
_intel_of(d) ==
    IF "enrichment_partial" \in DOMAIN d \/ "ioc_matches" \notin DOMAIN d THEN Absent
    ELSE <<d["ioc_matches"]>>

context_from_detection(r, d) ==
    [severity |-> r.severity, confidence |-> r.confidence, asset |-> _asset_criticality_of(d),
     user |-> _user_risk_of(d), matches |-> _intel_of(d), techniques |-> r.techniques,
     anomaly |-> IF "anomaly" \in DOMAIN d THEN d["anomaly"] ELSE Absent]

Order(criticality) ==
    CASE criticality = "LOW" -> 0 [] criticality = "MEDIUM" -> 1 [] criticality = "HIGH" -> 2
      [] criticality = "CRITICAL" -> 3 [] OTHER -> -1

(* The most critical asset of the chain's steps; the first of equals. *)
Worst(steps) ==
    LET given == {k \in DOMAIN steps : _asset_criticality_of(steps[k]) # Absent}
        Rank(k) == Order(_asset_criticality_of(steps[k])[1]) IN
    IF given = {} THEN Absent
    ELSE _asset_criticality_of(steps[CHOOSE k \in given :
             \A l \in given : Rank(l) < Rank(k) \/ (Rank(l) = Rank(k) /\ k <= l)])

(* The user risk is that of the first step with one above zero; intel is   *)
(* absent unless a step carries a match.                                   *)
context_from_correlation(r, steps) ==
    LET risky == {k \in DOMAIN steps : _user_risk_of(steps[k]) \notin {Absent, <<0>>}}
        found == UNION {IF _intel_of(steps[k]) = Absent THEN {} ELSE _intel_of(steps[k])[1]
                          : k \in DOMAIN steps} IN
    [severity |-> r.severity, confidence |-> r.confidence, asset |-> Worst(steps),
     user |-> IF risky = {} THEN Absent
              ELSE _user_risk_of(steps[CHOOSE k \in risky : \A l \in risky : k <= l]),
     matches |-> IF found = {} THEN Absent ELSE <<found>>,
     techniques |-> r.techniques, anomaly |-> Absent]

apply_to_detection(r) ==
    /\ chain # <<>>
    /\ RiskStep
    /\ LET c == context_from_detection(r, Last(chain)) IN
       scored' = [kind |-> "detection", context |-> c, says |-> explanation(c)]
    /\ UNCHANGED <<chain, of>>

(* A timeline entry is an excerpt of the document, of these fields. Of     *)
(* what enrichment adds it carries nothing.                                *)
_SUMMARY_FIELDS ==
    {"class", "event_code", "hostname", "source_ip", "destination_ip", "user", "process",
     "authentication", "severity"}

_summarize(d) == [k \in DOMAIN d \cap _SUMMARY_FIELDS |-> d[k]]

build_timeline(steps) == [k \in DOMAIN steps |-> _summarize(steps[k])]

(* The correlation worker scores a completed chain by its timeline. *)
apply_to_correlation(r) ==
    /\ chain # <<>>
    /\ RiskStep
    /\ LET c == context_from_correlation(r, build_timeline(chain)) IN
       scored' = [kind |-> "chain", context |-> c, says |-> explanation(c)]
    /\ UNCHANGED <<chain, of>>

RiskNext ==
    \/ \E s \in Subject, failed \in SUBSET Provider : enrich(s, failed)
    \/ \E r \in RiskRule : apply_to_detection(r) \/ apply_to_correlation(r)

RiskSpec == RiskInit /\ riskWork \in 0..MaxRiskWork /\ [][RiskNext]_riskVars

-----------------------------------------------------------------------------
(* The same context with one input missing, and with one input worse. *)
Without(c) ==
    {[c EXCEPT !.severity = Absent], [c EXCEPT !.confidence = Absent], [c EXCEPT !.asset = Absent],
     [c EXCEPT !.user = Absent], [c EXCEPT !.matches = Absent], [c EXCEPT !.techniques = {}],
     [c EXCEPT !.anomaly = Absent]}

Worse(c) ==
    {[c EXCEPT !.severity = IF @ = Absent THEN @ ELSE <<"critical">>],
     [c EXCEPT !.confidence = IF @ = Absent THEN @ ELSE <<@[1] + 10>>],
     [c EXCEPT !.asset = IF Looked(CRITICALITY_VALUES, @) = Absent THEN @ ELSE <<"CRITICAL">>],
     [c EXCEPT !.user = IF @ = Absent THEN @ ELSE <<@[1] + 10>>],
     [c EXCEPT !.matches = IF @ = Absent THEN @
                           ELSE <<@[1] \cup {[classification |-> "malicious", confidence |-> 70]}>>],
     [c EXCEPT !.techniques = IF @ = {} THEN @ ELSE @ \cup {<<"T1003">>}]}

(* A score can be reconstructed from what its explanation records          *)
(* (model.py:5-7): the points over the denominator it names, each factor   *)
(* capped at its weight. It never exceeds what the factors that had data   *)
(* can account for on a 60-point scale (the floor); a worse input never    *)
(* lowers it; and data that is missing is not a zero: looking and finding  *)
(* nothing, or the least a factor can say, never scores above not having   *)
(* looked.                                                                 *)
Reconstructs ==
    LET e == scored.says
        c == scored.context IN
    /\ e.available_weight = 0 <=> e.denominator = 0
    /\ e.score = IF e.denominator = 0 THEN 0 ELSE Round(Points(e.factors), 100 * e.denominator)
    /\ \A f \in Factor : /\ 0 <= e.factors[f].points
                         /\ e.factors[f].points <= e.factors[f].weight * Whole
    /\ e.score \in 0..100
    /\ e.score * MINIMUM_DENOMINATOR <= 100 * e.available_weight + MINIMUM_DENOMINATOR \div 2
    /\ \A w \in Worse(c) : assess(w) >= e.score
    /\ \A w \in Without(c) :
         LET fs == Factors(w)
             lost == {f \in Factor : e.factors[f].available /\ ~fs[f].available} IN
         (\A f \in lost : e.factors[f].points = 0) => assess(w) >= e.score

(* What the factors had data for: a detection's intel counts only if every *)
(* provider answered and the event had something to look up (_intel_of);   *)
(* a chain stands on its rule alone, whatever was found about its events   *)
(* and whichever provider failed on them, so that it can have 52 points of *)
(* 60 at most (_summarize, context_from_correlation).                      *)
StandsOnWhatWasFound ==
    LET latest == Last(of)
        Known(o) == o.subject.asset # Absent /\ "asset_context" \notin o.failed
        Intel(o) == o.subject.observables /\ o.failed = {}
        Rank(c) == IF Looked(CRITICALITY_VALUES, c) = Absent THEN 0 ELSE CRITICALITY_VALUES[c[1]]
        fs == scored.says.factors IN
    /\ scored.kind = "detection" =>
         /\ fs[5].available <=> Intel(latest)
         /\ fs[3].available <=> Known(latest) /\ Rank(latest.subject.asset) > 0
    /\ scored.kind = "chain" =>
         /\ \A f \in {3, 4, 5, 7} : ~fs[f].available
         /\ fs[1].available /\ fs[2].available
         /\ scored.says.denominator = MINIMUM_DENOMINATOR
         /\ scored.says.score <= 87

(* Every score is explained: it follows from what its explanation records, *)
(* and that from the rule and, of a detection, from what was found out.    *)
ScoresAreExplained == scored # NotScored => Reconstructs /\ StandsOnWhatWasFound
=============================================================================
