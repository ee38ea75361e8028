-------------------------------- MODULE Mitre --------------------------------
(***************************************************************************)
(* The ATT&CK catalogue and what it measures (backend/app/mitre/           *)
(* importer.py, services/mitre.py behind api/mitre.py, and the refresh in  *)
(* workers/feed_worker.py): bundles are parsed and imported over and over, *)
(* a tenant's rules are mapped onto the techniques, and a coverage report  *)
(* counts what the enabled rules detect.                                   *)
(*                                                                         *)
(* A coverage request is a READ COMMITTED transaction that first brings    *)
(* the mapping up to date and then measures; rules are edited and          *)
(* catalogues imported between the two. A bundle is a sequence of STIX     *)
(* objects; one that is not an ATT&CK tactic or technique with the id and  *)
(* the name these need has the id Malformed.                               *)
(***************************************************************************)
EXTENDS Integers, FiniteSets, Sequences

CONSTANTS
    Technique,     \* technique ids
    ParentOf,      \* the parent of each, NoParent for one without a dot
    Tactic,        \* tactics, by the shortname that names them in a bundle
    Rule,          \* the tenant's detection rules
    Bundle,        \* the bundles MITRE or an operator may publish
    Coverage,      \* bound: coverage requests in flight at once
    MaxMitreWork,  \* bound: imports, edits and reports altogether
    Malformed, NoParent

ASSUME MitreConstants ==
    /\ IsFiniteSet(Technique)
    /\ ParentOf \in [Technique -> Technique \cup {NoParent}]
    /\ \A b \in Bundle :
         /\ Len(b) \in Nat /\ DOMAIN b = 1..Len(b)
         /\ \A k \in DOMAIN b : /\ b[k].id \in Technique \cup Tactic \cup {Malformed}
                                /\ b[k].phases \subseteq Tactic
    /\ MaxMitreWork \in Nat

VARIABLES
    technique,     \* rows of mitre_techniques: known, and withdrawn
    tactic,        \* rows of mitre_tactics
    belongs,       \* mitre_technique_tactics: <<technique, tactic>> pairs
    refreshing,    \* the worker has found the catalogue stale and fetches another
    imported,      \* the latest mitre_imports row: "never", "fresh" or "stale"
    rule,          \* detection_rules: the techniques each claims, and its status
    ruleMap,       \* rule_mitre_map: <<rule, technique>> pairs
    covReq,        \* each coverage request's transaction
    report,        \* the last coverage report
    published,     \* history: the tactics a technique had in its last bundle
    mitreWork      \* imports, edits and reports so far

mitreVars == <<technique, tactic, belongs, refreshing, imported, rule, ruleMap, covReq, report,
               published, mitreWork>>

NoCoverage == [phase |-> "idle"]

NoReport == [techniques |-> {}, covered |-> {}, partial |-> {}, tactics |-> [a \in {} |-> 0],
             alone |-> TRUE, claimed |-> {}, placed |-> [t \in {} |-> {}]]

(* Nothing imported yet; rules that claim nothing. *)
MitreInit ==
    /\ technique = [t \in Technique |-> [known |-> FALSE, withdrawn |-> FALSE]]
    /\ tactic = {}
    /\ belongs = {}
    /\ refreshing = FALSE
    /\ imported = "never"
    /\ rule = [r \in Rule |-> [claims |-> {}, enabled |-> TRUE]]
    /\ ruleMap = {}
    /\ covReq = [q \in Coverage |-> NoCoverage]
    /\ report = NoReport
    /\ published = [t \in Technique |-> {}]

MitreRequest == mitreWork < MaxMitreWork /\ mitreWork' = mitreWork + 1

-----------------------------------------------------------------------------
(* parse_bundle: the first object with each id is kept, everything         *)
(* malformed and every repeat is counted as rejected.                      *)
parse_bundle(b) ==
    LET kept == {k \in DOMAIN b : /\ b[k].id # Malformed
                                  /\ \A j \in 1..(k - 1) : b[j].id # b[k].id} IN
    [tactics    |-> {b[k].id : k \in kept} \cap Tactic,
     techniques |-> {b[k] : k \in {j \in kept : b[j].id \in Technique}},
     rejected   |-> Len(b) - Cardinality(kept)]

(* A bundle without a usable technique is refused as a whole. *)
Usable(b) == parse_bundle(b).techniques # {}

(* Mutant of _replace_technique_tactics: the new links are merged in. *)
MergeTechniqueTactics(bundle, tactics) ==
    belongs \cup UNION {{o.id} \X (o.phases \cap tactics) : o \in bundle.techniques}

(* _replace_technique_tactics: the links of the techniques in the bundle   *)
(* are rebuilt, to the tactics the catalogue knows by now.                 *)
_replace_technique_tactics(bundle, tactics) ==
    LET ids == {o.id : o \in bundle.techniques} IN
    {l \in belongs : l[1] \notin ids}
      \cup UNION {{o.id} \X (o.phases \cap tactics) : o \in bundle.techniques}

(* import_bundle: tactics and techniques are inserted or updated, and none *)
(* is ever removed.                                                        *)
import_bundle(bundle) ==
    LET row(t) == CHOOSE o \in bundle.techniques : o.id = t
        ids == {o.id : o \in bundle.techniques} IN
    /\ tactic' = tactic \cup bundle.tactics
    /\ technique' = [t \in Technique |->
                       IF t \in ids THEN [known |-> TRUE, withdrawn |-> row(t).withdrawn]
                       ELSE technique[t]]
    /\ belongs' = _replace_technique_tactics(bundle, tactic \cup bundle.tactics)
    /\ imported' = "fresh"
    /\ published' = [t \in Technique |-> IF t \in ids THEN row(t).phases \cap tactic'
                                         ELSE published[t]]

(* What another request's report may no longer rest on. *)
Disturbs == covReq' = [q \in Coverage |->
                         IF covReq[q].phase = "idle" THEN covReq[q]
                         ELSE [covReq[q] EXCEPT !.alone = FALSE]]

(* mitre_catalog_max_age_days have passed. *)
CatalogAges ==
    /\ imported = "fresh"
    /\ imported' = "stale"
    /\ UNCHANGED <<technique, tactic, belongs, refreshing, rule, ruleMap, covReq, report,
                   published, mitreWork>>

(* refresh_attack_catalog up to its download: only when the catalogue is   *)
(* stale. Somebody else may import one before it is done.                  *)
stale_import ==
    /\ ~refreshing
    /\ imported # "fresh"
    /\ MitreRequest
    /\ refreshing' = TRUE
    /\ UNCHANGED <<technique, tactic, belongs, imported, rule, ruleMap, covReq, report,
                   published>>

(* Its import; a bundle that cannot be read or used leaves the previous    *)
(* one in place.                                                           *)
refresh_attack_catalog(b) ==
    /\ refreshing
    /\ refreshing' = FALSE
    /\ \/ /\ Usable(b)
          /\ import_bundle(parse_bundle(b))
          /\ Disturbs
       \/ /\ ~Usable(b)
          /\ UNCHANGED <<technique, tactic, belongs, imported, covReq, published>>
    /\ UNCHANGED <<rule, ruleMap, report, mitreWork>>

-----------------------------------------------------------------------------
Known == {t \in Technique : technique[t].known}

Claims(techniques) == {l \in Rule \X techniques : l[2] \in rule[l[1]].claims}

(* sync_rule_mappings: the pairs to add and those to remove. *)
sync_rule_mappings(known, existing) ==
    [add |-> Claims(known) \ existing, remove |-> existing \ Claims(known)]

(* import_catalog: the import, and the caller's rules mapped onto it, in   *)
(* one transaction.                                                        *)
import_catalog(b) ==
    /\ Usable(b)
    /\ MitreRequest
    /\ import_bundle(parse_bundle(b))
    /\ LET sync == sync_rule_mappings({t \in Technique : technique'[t].known}, ruleMap) IN
       ruleMap' = (ruleMap \cup sync.add) \ sync.remove
    /\ Disturbs
    /\ UNCHANGED <<refreshing, rule, report>>

(* A rule is edited, enabled or disabled (DetectionRules has the detail).  *)
EditRule(r, claims, enabled) ==
    /\ MitreRequest
    /\ rule' = [rule EXCEPT ![r] = [claims |-> claims, enabled |-> enabled]]
    /\ Disturbs
    /\ UNCHANGED <<technique, tactic, belongs, refreshing, imported, ruleMap, report, published>>

-----------------------------------------------------------------------------
(* coverage up to the flush of its mapping. *)
SyncForCoverage(q) ==
    /\ covReq[q].phase = "idle"
    /\ MitreRequest
    /\ covReq' = [p \in Coverage |->
         IF p = q THEN [phase |-> "synced", sync |-> sync_rule_mappings(Known, ruleMap),
                        alone |-> \A o \in Coverage : covReq[o].phase = "idle"]
         ELSE IF covReq[p].phase = "idle" THEN covReq[p]
         ELSE [covReq[p] EXCEPT !.alone = FALSE]]
    /\ UNCHANGED <<technique, tactic, belongs, refreshing, imported, rule, ruleMap, report,
                   published>>

(* The techniques an enabled rule is mapped to. *)
Covering(mapped) == {l[2] : l \in {m \in mapped : rule[m[1]].enabled}}

(* The rest of coverage: withdrawn techniques are left out unless asked    *)
(* for, the parent of a covered sub-technique is partial unless it is      *)
(* covered itself, and each tactic counts the techniques linked to it.     *)
Measure(mapped, include_deprecated) ==
    LET techniques == {t \in Known : include_deprecated \/ ~technique[t].withdrawn}
        covered == techniques \cap Covering(mapped)
        partial == (techniques \cap {ParentOf[t] : t \in covered}) \ covered
        In(a, S) == Cardinality({t \in S : <<t, a>> \in belongs})
        counted == {a \in tactic : In(a, techniques) > 0} IN
    [techniques |-> techniques, covered |-> covered, partial |-> partial,
     tactics |-> [a \in counted |-> [total |-> In(a, techniques), covered |-> In(a, covered),
                                     partial |-> In(a, partial)]]]

(* The unique constraint of rule_mitre_map refuses a pair another request  *)
(* has added in the meantime: that request fails and rolls back.           *)
coverage(q, include_deprecated) ==
    /\ covReq[q].phase = "synced"
    /\ covReq[q].sync.add \cap ruleMap = {}
    /\ LET mapped == (ruleMap \cup covReq[q].sync.add) \ covReq[q].sync.remove
           m == Measure(mapped, include_deprecated) IN
       /\ ruleMap' = mapped
       /\ report' = [techniques |-> m.techniques, covered |-> m.covered, partial |-> m.partial,
                     tactics |-> m.tactics, alone |-> covReq[q].alone,
                     claimed |-> {t \in Technique :
                                    \E r \in Rule : rule[r].enabled /\ t \in rule[r].claims},
                     placed |-> published]
    /\ covReq' = [covReq EXCEPT ![q] = NoCoverage]
    /\ UNCHANGED <<technique, tactic, belongs, refreshing, imported, rule, published, mitreWork>>

CoverageFails(q) ==
    /\ covReq[q].phase = "synced"
    /\ covReq' = [covReq EXCEPT ![q] = NoCoverage]
    /\ UNCHANGED <<technique, tactic, belongs, refreshing, imported, rule, ruleMap, report,
                   published, mitreWork>>

MitreNext ==
    \/ CatalogAges
    \/ stale_import
    \/ \E b \in Bundle : refresh_attack_catalog(b) \/ import_catalog(b)
    \/ \E r \in Rule, claims \in SUBSET Technique, on \in BOOLEAN : EditRule(r, claims, on)
    \/ \E q \in Coverage :
         SyncForCoverage(q) \/ CoverageFails(q) \/ \E all \in BOOLEAN : coverage(q, all)

MitreSpec == MitreInit /\ mitreWork \in 0..MaxMitreWork /\ [][MitreNext]_mitreVars

-----------------------------------------------------------------------------
(* A coverage report nothing overlapped claims no more and no less than    *)
(* the rules do: covered is what an enabled rule claims now, whatever the  *)
(* stored mapping had missed since the last report; a parent is partial    *)
(* for a sub-technique only; and every tactic counts the techniques the    *)
(* last bundle to mention them put there, however often the catalogue was  *)
(* re-imported (coverage, sync_rule_mappings, _replace_technique_tactics). *)
CoverageIsTrueAlone ==
    LET Placed(a, S) == Cardinality({t \in S : a \in report.placed[t]}) IN
    report.alone =>
      /\ report.covered = report.techniques \cap report.claimed
      /\ \A t \in report.techniques : t \in report.partial <=>
           t \notin report.claimed /\ \E s \in report.covered : ParentOf[s] = t
      /\ \A a \in DOMAIN report.tactics :
           report.tactics[a] = [total   |-> Placed(a, report.techniques),
                                covered |-> Placed(a, report.covered),
                                partial |-> Placed(a, report.partial)]
      /\ \A t \in report.techniques : report.placed[t] \subseteq DOMAIN report.tactics
=============================================================================
