--------------------------- MODULE FencedRegister ---------------------------
(***************************************************************************)
(* What shard ownership promises, without saying how: a register that only *)
(* the holder of the current epoch may write.  An epoch is never reused,   *)
(* taking the register starts a new epoch and leaves its value alone, and  *)
(* a holder that is gone never comes back to its epoch.                    *)
(***************************************************************************)
EXTENDS Naturals

CONSTANTS Instance,   \* the processes that compete for the register
          Offset,     \* the values it may hold
          ZeroOffset, \* the value it starts with
          Nobody      \* "no instance holds the current epoch"

VARIABLES epoch,      \* the number of times the register was taken
          value,      \* its contents
          holder      \* the only process that may write now, or Nobody

vars == <<epoch, value, holder>>

Init == epoch = 0 /\ value = ZeroOffset /\ holder = Nobody

\* A new epoch begins; whoever began it may already be gone (Nobody).
Acquire(i) ==
  /\ epoch' = epoch + 1
  /\ holder' = i
  /\ UNCHANGED value

Write(i, o) ==
  /\ holder = i
  /\ value' = o
  /\ UNCHANGED <<epoch, holder>>

Drop == holder' = Nobody /\ UNCHANGED <<epoch, value>>

Next == \/ \E i \in Instance \cup {Nobody} : Acquire(i)
        \/ \E i \in Instance, o \in Offset : Write(i, o)
        \/ Drop

Spec == Init /\ [][Next]_vars
=============================================================================
