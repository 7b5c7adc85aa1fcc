-------------------------- MODULE MCPostgresStore ---------------------------
(***************************************************************************)
(* The PostgreSQL store with the history that tells whether a timer was    *)
(* there all the time while a call was under way.                          *)
(***************************************************************************)
EXTENDS PostgresStore

VARIABLE there  \* per client: timers that had a row ever since its call began

MCInit == Init /\ there = [c \in Client |-> {}]

MCNext ==
  /\ Next
  /\ there' = [c \in Client |->
                 {r.id : r \in rows'} \cap (IF open[c] = Idle THEN Id ELSE there[c])]

MCSpec == MCInit /\ [][MCNext]_<<vars, there>>

(* A delete that affects no row answers NotExists: "rowsAffected == 0      *)
(* means timer didn't exist" (postgresql_timer_store_impl.go) - at no      *)
(* moment of the call, that is.                                            *)
NoRowMeansNoTimer ==
  [][\A c \in Client :
       /\ open[c] # Idle /\ open'[c] = Idle
       /\ last'.op \in DeleteOp /\ last'.res = "NotExists"
       => last'.id \notin there[c]]_<<vars, there>>
=============================================================================
