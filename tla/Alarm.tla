------------------------------- MODULE Alarm --------------------------------
(***************************************************************************)
(* What a timer gate promises: it remembers the wake-up times asked for    *)
(* since it last rang, rings when one of them has come, and rings once for *)
(* all of them.                                                            *)
(***************************************************************************)
EXTENDS Integers

CONSTANTS Time    \* the times that may be asked for

VARIABLES now,    \* the clock
          wanted, \* the wake-up times that are unanswered
          rung    \* it rang, and the owner has not seen it yet

vars == <<now, wanted, rung>>

Init == now = 0 /\ wanted = {} /\ rung = FALSE

Ask(t) == wanted' = wanted \cup {t} /\ UNCHANGED <<now, rung>>

Ring == /\ \E t \in wanted : t <= now
        /\ wanted' = {}
        /\ rung' = TRUE
        /\ UNCHANGED now

See == rung /\ rung' = FALSE /\ UNCHANGED <<now, wanted>>

\* The owner calls the alarm off; a ring on its way still arrives.
Cancel == wanted' = {} /\ UNCHANGED <<now, rung>>

\* The alarm is thrown away.
Discard == wanted' = {} /\ rung' = FALSE /\ UNCHANGED now

Tick == now' = now + 1 /\ UNCHANGED <<wanted, rung>>

Next == (\E t \in Time : Ask(t)) \/ Ring \/ See \/ Cancel \/ Discard \/ Tick

Spec == Init /\ [][Next]_vars
=============================================================================
