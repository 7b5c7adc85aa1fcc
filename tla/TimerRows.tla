----------------------------- MODULE TimerRows ------------------------------
(***************************************************************************)
(* The timers of one shard as every store keeps them: rows ordered by      *)
(* (timer_execute_at, timer_uuid), and the range queries over that order.  *)
(* The uuid is a function of namespace and timer id (GenerateTimerUUID),   *)
(* so one number stands for the three; payloads are left out.              *)
(***************************************************************************)
EXTENDS Integers, FiniteSets

\* Rows and offsets are both keys.
Key(Time, Id) == [at : Time, id : Id]

Before(k, l) == k.at < l.at \/ (k.at = l.at /\ k.id < l.id)

NotAfter(k, l) == k.at < l.at \/ (k.at = l.at /\ k.id <= l.id)

\* WHERE (timer_execute_at, timer_uuid) >= lo AND (...) <= hi
Between(rows, lo, hi) == {r \in rows : NotAfter(lo, r) /\ NotAfter(r, hi)}

\* ORDER BY timer_execute_at, timer_uuid LIMIT n
FirstOf(rows, n) == {r \in rows : Cardinality({q \in rows : Before(q, r)}) < n}

(* RangeGetTimers: both ends are part of the range.                        *)
RangeGet(rows, lo, hi, n) == FirstOf(Between(rows, lo, hi), n)

\* The first row of a non-empty set.
Head(rows) == CHOOSE r \in rows : \A q \in rows : NotAfter(r, q)

\* The last one.
Last(rows) == CHOOSE r \in rows : \A q \in rows : NotAfter(q, r)

\* WHERE timer_namespace = ... AND timer_id = ...
RowsOf(rows, id) == {r \in rows : r.id = id}
=============================================================================
