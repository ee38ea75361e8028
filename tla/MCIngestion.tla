----------------------------- MODULE MCIngestion -----------------------------
(***************************************************************************)
(* Instance of Ingestion by itself for TLC: one event, two attempts at it  *)
(* that may overlap, one fault.                                            *)
(***************************************************************************)
EXTENDS Ingestion, TLC

Init == IngestInit /\ calls = 0

Spec == Init /\ [][IngestNext]_ingestVars

Symmetry == Permutations(Attempt)
=============================================================================
