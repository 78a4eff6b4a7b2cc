---------------------------- MODULE RecordedRun ----------------------------
(***************************************************************************)
(* What a process promises about the run it leaves behind, with files,     *)
(* signals, lock and release left out: each tick's input is submitted at   *)
(* most once and before its record, no tick begins before the last one is  *)
(* on record, the summary counts what is on record, and success is claimed *)
(* only for what the command was asked to leave.  The process may end at   *)
(* any time; nothing on record is ever taken back.                         *)
(***************************************************************************)
EXTENDS Naturals

CONSTANT MaxTicks

VARIABLES
    command,    \* what the process was started for
    tick,       \* the tick at hand
    submitted,  \* the ticks whose input was submitted
    recorded,   \* the ticks whose record can be read, with all it refers to
    summary,    \* how many ticks the summary counts, 0 without one
    over        \* how the process ended: "no", "success" or "otherwise"

vars == <<command, tick, submitted, recorded, summary, over>>

Init ==
    /\ command \in {"run", "tick", "canary"}
    /\ tick = 1
    /\ submitted = {}
    /\ recorded = {}
    /\ summary = 0
    /\ over = "no"

Submit ==
    /\ tick \notin submitted \cup recorded
    /\ submitted' = submitted \cup {tick}
    /\ UNCHANGED <<tick, recorded, summary, over>>

\* The last thing a tick does; another may follow.
Record ==
    /\ command # "canary"
    /\ tick \notin recorded
    /\ recorded' = recorded \cup {tick}
    /\ \/ UNCHANGED tick
       \/ command = "run" /\ tick < MaxTicks /\ tick' = tick + 1
    /\ UNCHANGED <<submitted, summary, over>>

Summarise ==
    /\ command = "run"
    /\ tick \in recorded
    /\ summary = 0
    /\ summary' = tick
    /\ UNCHANGED <<tick, submitted, recorded, over>>

Succeed ==
    /\ command = "run" => summary = tick
    /\ command = "tick" => tick \in recorded
    /\ over' = "success"
    /\ UNCHANGED <<tick, submitted, recorded, summary>>

Stop ==
    /\ over' = "otherwise"
    /\ UNCHANGED <<tick, submitted, recorded, summary>>

Next ==
    /\ over = "no"
    /\ Submit \/ Record \/ Summarise \/ Succeed \/ Stop
    /\ UNCHANGED command

Spec == Init /\ [][Next]_vars

-----------------------------------------------------------------------------
\* What a reader of the run may conclude from this: only the last tick can lack its record,
\* its input is the only one that no record tells of, and a run that claims success has
\* all of its ticks on record and counted.
Complete ==
    /\ tick \in Nat \ {0}
    /\ \A t \in 1 .. tick - 1 : t \in recorded
    /\ recorded \cup submitted \subseteq 1 .. tick
    /\ summary # 0 => summary = tick /\ tick \in recorded
    /\ over = "success" => /\ command = "run" => summary = tick
                           /\ command = "tick" => tick \in recorded
=============================================================================
