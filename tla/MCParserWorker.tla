--------------------------- MODULE MCParserWorker ---------------------------
(* Two replicas, three raw messages of which the second cannot be parsed,  *)
(* batches of two so that a batch can be cut short, and two faults.        *)
EXTENDS ParserWorker

CONSTANTS w1, w2

MCWorker == {w1, w2}
MCMalformed == {2}
=============================================================================
