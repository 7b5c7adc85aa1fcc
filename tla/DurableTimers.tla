--------------------------- MODULE DurableTimers ----------------------------
(***************************************************************************)
(* What the service promises its callers, without shards, owners, offsets  *)
(* or a database: a timer that was accepted waits until it is called back, *)
(* not before its time, or until it is accepted for another time.  Nothing *)
(* else ends its waiting.  That it may be called back once more when it    *)
(* does not wait any longer cannot be seen here.                           *)
(***************************************************************************)
EXTENDS Naturals

CONSTANTS Timer,   \* records with an execution time, at, and an identity, id
          MaxTime  \* bound on the clock

VARIABLES time,     \* the most advanced clock
          waiting   \* the timers whose callback is owed

vars == <<time, waiting>>

Init == time = 0 /\ waiting = {}

(* A timer is accepted for a time still to come; it may take the place of  *)
(* what was accepted for the same timer before.                            *)
Accept(r) ==
  /\ r.at > time
  /\ r \in waiting' /\ waiting' \ {r} \subseteq waiting
  /\ \A w \in waiting \ waiting' : w.id = r.id
  /\ UNCHANGED time

CallBack(r) ==
  /\ r \in waiting /\ r.at <= time
  /\ waiting' = waiting \ {r}
  /\ UNCHANGED time

Pass == time < MaxTime /\ time' = time + 1 /\ UNCHANGED waiting

Next == (\E r \in Timer : Accept(r) \/ CallBack(r)) \/ Pass

Spec == Init /\ [][Next]_vars
=============================================================================
