-------------------------- MODULE MCIndexerWorker ---------------------------
(***************************************************************************)
(* Instance of IndexerWorker for TLC: one replica with a backlog and a     *)
(* fault, two replicas that share the topic, and a rolling deployment over *)
(* rollovers without traffic.                                              *)
(***************************************************************************)
EXTENDS IndexerWorker

CONSTANTS r1, r2

Replicas == {r1, r2}

Bounds(R, messages, n, deployed, rolls) ==
    [replicas |-> R, messages |-> messages, faults |-> n, deployed |-> deployed,
     rollovers |-> rolls]

Scenarios == {Bounds({r1}, 4, 2, 1, 0), Bounds({r1, r2}, 3, 1, 1, 0), Bounds({r1, r2}, 0, 2, 2, 2)}

=============================================================================
