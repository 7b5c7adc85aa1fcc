-------------------------- MODULE MCShardOwnership --------------------------
(* Three instances, so that a claim can race two others; versions up to 4. *)
EXTENDS ShardOwnership

CONSTANTS a, b, c

MCInstance == {a, b, c}
=============================================================================
