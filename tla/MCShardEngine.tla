--------------------------- MODULE MCShardEngine ----------------------------
(* Two processes, which are interchangeable: the run has no liveness.  Two *)
(* timers for the same time, one of which may move to a later one.         *)
EXTENDS ShardEngine, TLC

CONSTANTS a, b

MCInstance == {a, b}

MCTimer == {[at |-> 1, id |-> 1], [at |-> 1, id |-> 2], [at |-> 2, id |-> 1]}

Symmetry == Permutations(MCInstance)
=============================================================================
