--------------------------------- MODULE Api ---------------------------------
(***************************************************************************)
(* The services behind the REST API: ingestion (Ingestion), incidents      *)
(* (Cases), accounts and sessions (Identity), indicators and feeds         *)
(* (ThreatIntel), the ATT&CK catalogue (Mitre), the rules analysts write   *)
(* (RulePaths), hunting (Hunting) and the scores they read (Scoring). They *)
(* keep separate tables and take no lock on each other's, so that an       *)
(* interleaving of two services is one of each: a behaviour drives one of  *)
(* them, chosen at the start.                                              *)
(***************************************************************************)
EXTENDS Ingestion, Cases, Identity, ThreatIntel, Mitre, RulePaths, Hunting, Scoring

VARIABLE focus         \* the service this behaviour drives

apiVars == <<ingestVars, caseVars, authVars, intelVars, mitreVars, pathsVars, huntVars, riskVars,
             focus>>

(* Requests the other services still take: none. *)
Budget(service, max, work) == work = (IF focus = service THEN 0 ELSE max)

Init ==
    /\ focus \in {"ingestion", "cases", "identity", "intel", "mitre", "rules", "hunting", "risk"}
    /\ IngestInit /\ Budget("ingestion", MaxCalls, calls)
    /\ CasesInit /\ Budget("cases", MaxCaseWork, caseWork)
    /\ IdentityInit /\ Budget("identity", MaxAuthWork, authWork)
    /\ IntelInit /\ Budget("intel", MaxIntelWork, intelWork)
    /\ MitreInit /\ Budget("mitre", MaxMitreWork, mitreWork)
    /\ PathsInit /\ Budget("rules", MaxPathsWork, pathsWork)
    /\ HuntInit /\ Budget("hunting", MaxHuntWork, huntWork)
    /\ RiskInit /\ Budget("risk", MaxRiskWork, riskWork)
    /\ org = "none" => focus = "identity"

Next ==
    /\ UNCHANGED focus
    /\ \/ /\ focus = "ingestion" /\ IngestNext
          /\ UNCHANGED <<caseVars, authVars, intelVars, mitreVars, pathsVars, huntVars, riskVars>>
       \/ /\ focus = "cases" /\ CasesNext
          /\ UNCHANGED <<ingestVars, authVars, intelVars, mitreVars, pathsVars, huntVars, riskVars>>
       \/ /\ focus = "identity" /\ IdentityNext
          /\ UNCHANGED <<ingestVars, caseVars, intelVars, mitreVars, pathsVars, huntVars, riskVars>>
       \/ /\ focus = "intel" /\ IntelNext
          /\ UNCHANGED <<ingestVars, caseVars, authVars, mitreVars, pathsVars, huntVars, riskVars>>
       \/ /\ focus = "mitre" /\ MitreNext
          /\ UNCHANGED <<ingestVars, caseVars, authVars, intelVars, pathsVars, huntVars, riskVars>>
       \/ /\ focus = "rules" /\ PathsNext
          /\ UNCHANGED <<ingestVars, caseVars, authVars, intelVars, mitreVars, huntVars, riskVars>>
       \/ /\ focus = "hunting" /\ HuntNext
          /\ UNCHANGED <<ingestVars, caseVars, authVars, intelVars, mitreVars, pathsVars, riskVars>>
       \/ /\ focus = "risk" /\ RiskNext
          /\ UNCHANGED <<ingestVars, caseVars, authVars, intelVars, mitreVars, pathsVars, huntVars>>

Spec == Init /\ [][Next]_apiVars
=============================================================================
