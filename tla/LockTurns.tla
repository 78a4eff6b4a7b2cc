----------------------------- MODULE LockTurns -----------------------------
(***************************************************************************)
(* The runtime lock as one process may rely on it: it gets in when the     *)
(* lock is free, has it until it leaves or dies, and never takes away      *)
(* anybody else's; what it leaves behind may be cleared once it is gone.   *)
(* A process gets in once, a restart is another process.                   *)
(***************************************************************************)

VARIABLES
    lock,    \* "free", "ours" or "other": whose the lock is
    phase    \* "outside", "inside" or "gone": where the process stands

vars == <<lock, phase>>

Init == lock \in {"free", "other"} /\ phase = "outside"

Enter ==
    /\ phase = "outside" /\ phase' = "inside"
    /\ lock = "free" /\ lock' = "ours"

\* Refused, or dead before it got in.
StayOut ==
    /\ phase = "outside" /\ phase' = "gone"
    /\ UNCHANGED lock

\* In order, or by a crash or a failed removal, which leave the lock behind.
Leave ==
    /\ phase = "inside" /\ phase' = "gone"
    /\ lock = "ours" /\ lock' \in {"free", "ours"}

OthersTakeTurns ==
    /\ UNCHANGED phase
    /\ \/ lock = "free" /\ lock' = "other"
       \/ lock = "other" /\ lock' = "free"
       \/ lock = "ours" /\ phase = "gone" /\ lock' = "free"

Next == Enter \/ StayOut \/ Leave \/ OthersTakeTurns

Spec == Init /\ [][Next]_vars
=============================================================================
