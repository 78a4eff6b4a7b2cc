-------------------------- MODULE TickOrchestrator --------------------------
(***************************************************************************)
(* The supervision of a run: TickOrchestrator.runTick decides tick by tick *)
(* whether the page it reads may be acted on and whether the run goes on   *)
(* (runtime/tickOrchestrator.ts), runLoop repeats it (runtime/runLoop.ts)  *)
(* and main.ts reports how the run ended (app/main.ts).                    *)
(*                                                                         *)
(* The game shows any page at any tick.  What becomes of a decision is     *)
(* modelled in ActionDelivery and SuccessorWatcher, the semantic guard in  *)
(* ProgressCycleGuard; here each is a choice among the results it has.     *)
(***************************************************************************)
EXTENDS Naturals

CONSTANTS
    Snapshots,      \* snapshot ids (a stateHash each)
    Actions,        \* bound action ids
    MaxTicks,       \* AGENT_MAX_TICKS or --max-ticks
    StartupLimit,   \* MAX_REPEATED_STARTUP_UNKNOWN_STATE
    SettlingLimit,  \* MAX_REPEATED_SETTLING_STATE
    RestLimit       \* MAX_REPEATED_NON_ACTIONABLE_STATE

ASSUME LimitsAssumption ==
    /\ MaxTicks \in Nat \ {0}
    /\ StartupLimit \in Nat \ {0}
    /\ SettlingLimit \in Nat \ {0}
    /\ RestLimit \in Nat \ {0}

VARIABLES
    command, options, \* agent:run or agent:tick, and its flags
    pc,               \* the loop runs, is over, or was reported on
    tick,             \* ticks done
    last,             \* the TickResult of the last one
    executedTransitionOccurrences,
    nonActionablePage, nonActionableStateOccurrences, \* the stall guard
    observedKnownState,
    runTerminalObserved,
    summary,          \* what recorder.finalize and process.exitCode say
    page, streak,     \* history: the page last read, how often in a row
    kindsRead,        \* history: the kinds of page read so far
    decidedOn         \* history: the kind of page the last tick decided on

guards  == <<executedTransitionOccurrences, nonActionablePage,
             nonActionableStateOccurrences, observedKnownState,
             runTerminalObserved>>
history == <<page, streak, kindsRead, decidedOn>>
vars    == <<command, options, pc, tick, last, executedTransitionOccurrences,
             nonActionablePage, nonActionableStateOccurrences,
             observedKnownState, runTerminalObserved, summary, page, streak,
             kindsRead, decidedOn>>

\* "startup" is an interaction the connector has no name for (yet).
Kinds       == {"menu", "playing", "run_ended", "startup"}
Stabilities == {"actionable", "non_actionable", "settling", "invalid"}

Pages  == [snapshot : Snapshots, kind : Kinds, stability : Stabilities]
NoPage == [snapshot |-> "none", kind |-> "none", stability |-> "none"]

StopReasons == {"run_boundary", "repeated_exact_transition",
                "repeated_semantic_transition", "repeated_non_actionable_state"}
Outcomes == {"observation_failed", "not_executed_invalid_state",
             "not_executed_non_actionable_state", "dry_run",
             "not_executed_llm_failure", "not_executed_invalid_decision",
             "not_executed_stale_state", "execution_failed",
             "executed_and_settled", "executed_checkpoint_pending",
             "executed_unsettled"}
Terminations == {"completed_run_boundary", "stopped_runtime_guard",
                 "stopped_runtime_failure", "stopped_decision_limit"}

Results == [outcome : Outcomes \cup {"none"}, stop : {"yes", "no"},
            reason : StopReasons \cup {"none"}]
Summaries == [termination : Terminations \cup {"none"},
              completedGame : {"yes", "no"}, exitCode : {0, 1}]

Transitions == Snapshots \X Actions \X Snapshots

TypeOK ==
    /\ command \in {"run", "tick"}
    /\ options \subseteq {"dryRun", "allowRunEntry"}
    /\ pc \in {"running", "over", "reported"}
    /\ tick \in 0 .. MaxTicks
    /\ last \in Results
    /\ executedTransitionOccurrences \in [Transitions -> Nat]
    /\ nonActionablePage \in Pages \cup {NoPage}
    /\ nonActionableStateOccurrences \in Nat
    /\ observedKnownState \in BOOLEAN
    /\ runTerminalObserved \in BOOLEAN
    /\ summary \in Summaries
    /\ page \in Pages \cup {NoPage}
    /\ streak \in Nat
    /\ kindsRead \subseteq Kinds \cup {"starting"}
    /\ decidedOn \in Kinds \cup {"none"}

Init ==
    /\ command \in {"run", "tick"}
    /\ options \in SUBSET {"dryRun", "allowRunEntry"}
    /\ command = "tick" => "allowRunEntry" \notin options
    /\ pc = "running"
    /\ tick = 0
    /\ last = [outcome |-> "none", stop |-> "no", reason |-> "none"]
    /\ executedTransitionOccurrences = [t \in Transitions |-> 0]
    /\ nonActionablePage = NoPage
    /\ nonActionableStateOccurrences = 0
    /\ observedKnownState = FALSE
    /\ runTerminalObserved = FALSE
    /\ summary = [termination |-> "none", completedGame |-> "no", exitCode |-> 0]
    /\ page = NoPage
    /\ streak = 0
    /\ kindsRead = {}
    /\ decidedOn = "none"

-----------------------------------------------------------------------------
TickLimit == IF command = "run" THEN MaxTicks ELSE 1

\* The tick returns its result and the loop goes on or is over.
Finish(outcome, stop, reason) ==
    /\ last' = [outcome |-> outcome, stop |-> stop, reason |-> reason]
    /\ tick' = tick + 1
    /\ pc' = IF stop = "yes" \/ tick + 1 = TickLimit THEN "over" ELSE "running"
    /\ UNCHANGED <<command, options, summary>>

isStartupUnknownState(p) ==
    p.kind = "startup" /\ p.stability \in {"non_actionable", "settling"}

KindOf(p) == IF isStartupUnknownState(p) THEN "starting" ELSE p.kind

ReadActionable(p) ==  \* changed: the end of a run counts only if it can be acted on
    /\ pc = "running"
    /\ runTerminalObserved' =
         (runTerminalObserved \/ (p.kind = "run_ended" /\ p.stability = "actionable"))
    /\ observedKnownState' = (observedKnownState \/ ~isStartupUnknownState(p))
    /\ page' = p
    /\ streak' = IF p = page THEN streak + 1 ELSE 1
    /\ kindsRead' = kindsRead \cup {KindOf(p)}

\* Every tick first reads the game and remembers what it has seen.
Read(p) ==
    /\ pc = "running"
    /\ runTerminalObserved' = (runTerminalObserved \/ p.kind = "run_ended")
    /\ observedKnownState' = (observedKnownState \/ ~isStartupUnknownState(p))
    /\ page' = p
    /\ streak' = IF p = page THEN streak + 1 ELSE 1
    /\ kindsRead' = kindsRead \cup {KindOf(p)}

ResetStallGuard ==
    /\ nonActionablePage' = NoPage
    /\ nonActionableStateOccurrences' = 0

\* A drift during a composite read skips the tick; other failures stop.
ObserveFails ==
    /\ pc = "running"
    /\ ResetStallGuard
    /\ \E stop \in {"yes", "no"} : Finish("observation_failed", stop, "none")
    /\ page' = NoPage /\ streak' = 0 /\ decidedOn' = "none"
    /\ UNCHANGED <<executedTransitionOccurrences, observedKnownState,
                   runTerminalObserved, kindsRead>>

ObserveInvalid(p) ==
    /\ Read(p)
    /\ p.stability = "invalid"
    /\ Finish("not_executed_invalid_state", "yes", "none")
    /\ decidedOn' = "none"
    /\ UNCHANGED <<executedTransitionOccurrences, nonActionablePage,
                   nonActionableStateOccurrences>>

\* How often a page without input may be read in a row.
nonActionableStallLimit(p) ==
    IF isStartupUnknownState(p) /\ ~observedKnownState'
    THEN StartupLimit
    ELSE IF p.stability = "settling" THEN SettlingLimit ELSE RestLimit

observeNonActionableStateAny(p) ==  \* changed: pages are not told apart
    /\ nonActionablePage' = p
    /\ nonActionableStateOccurrences' = nonActionableStateOccurrences + 1

observeNonActionableState(p) ==
    /\ nonActionablePage' = p
    /\ nonActionableStateOccurrences' =
         IF nonActionablePage = p THEN nonActionableStateOccurrences + 1 ELSE 1

ObserveNonActionable(p) ==
    /\ Read(p)
    /\ p.stability \in {"non_actionable", "settling"}
    /\ observeNonActionableState(p)
    /\ IF nonActionableStateOccurrences' >= nonActionableStallLimit(p)
       THEN Finish("not_executed_non_actionable_state", "yes",
                   "repeated_non_actionable_state")
       ELSE Finish("not_executed_non_actionable_state", "no", "none")
    /\ decidedOn' = "none"
    /\ UNCHANGED executedTransitionOccurrences

\* The top-level menu stops agent:run, after a run always, before one unless
\* the command permits the entry.  agent:tick passes no boundary option.
Boundary(p) ==
    /\ p.kind = "menu"
    /\ command = "run"
    /\ runTerminalObserved' \/ "allowRunEntry" \notin options

ObserveBoundary(p) ==
    /\ Read(p)
    /\ p.stability = "actionable" /\ Boundary(p)
    /\ ResetStallGuard
    /\ Finish("not_executed_non_actionable_state", "yes", "run_boundary")
    /\ decidedOn' = "none"
    /\ UNCHANGED executedTransitionOccurrences

\* An actionable page has bound actions and the environment's authority.
ReadDecidable(p) ==
    /\ Read(p)
    /\ p.stability = "actionable" /\ ~Boundary(p)
    /\ ResetStallGuard

DryRun(p) ==
    /\ "dryRun" \in options
    /\ ReadDecidable(p)
    /\ Finish("dry_run", "no", "none")
    /\ decidedOn' = "none"
    /\ UNCHANGED executedTransitionOccurrences

Decide(p) ==
    /\ "dryRun" \notin options
    /\ ReadDecidable(p)
    /\ decidedOn' = p.kind

\* The ways a decision ends other than in a settled successor.
Unsettled == {<<"not_executed_llm_failure", "yes">>,
              <<"not_executed_invalid_decision", "yes">>,
              <<"not_executed_stale_state", "yes">>,
              <<"not_executed_stale_state", "no">>,
              <<"execution_failed", "yes">>,
              <<"executed_unsettled", "yes">>,
              <<"executed_checkpoint_pending", "no">>}

DecideUnsettled(p) ==
    /\ Decide(p)
    /\ \E r \in Unsettled : Finish(r[1], r[2], "none")
    /\ UNCHANGED executedTransitionOccurrences

DecideSettledTolerant(p, a, q) ==  \* changed: stops at the third occurrence
    /\ Decide(p)
    /\ executedTransitionOccurrences' =
         [executedTransitionOccurrences EXCEPT ![<<p.snapshot, a, q>>] = @ + 1]
    /\ IF executedTransitionOccurrences[<<p.snapshot, a, q>>] >= 2
       THEN Finish("executed_and_settled", "yes", "repeated_exact_transition")
       ELSE \/ Finish("executed_and_settled", "no", "none")
            \/ Finish("executed_and_settled", "yes", "repeated_semantic_transition")

\* The exact guard stops a transition at its second occurrence; the semantic
\* guard may stop, plan a recovery or have nothing to say.
DecideSettled(p, a, q) ==
    /\ Decide(p)
    /\ executedTransitionOccurrences' =
         [executedTransitionOccurrences EXCEPT ![<<p.snapshot, a, q>>] = @ + 1]
    /\ IF executedTransitionOccurrences[<<p.snapshot, a, q>>] + 1 >= 2
       THEN Finish("executed_and_settled", "yes", "repeated_exact_transition")
       ELSE \/ Finish("executed_and_settled", "no", "none")
            \/ Finish("executed_and_settled", "yes", "repeated_semantic_transition")

runTick ==
    \/ ObserveFails
    \/ \E p \in Pages :
         \/ ObserveInvalid(p) \/ ObserveNonActionable(p) \/ ObserveBoundary(p)
         \/ DryRun(p) \/ DecideUnsettled(p)
         \/ \E a \in Actions, q \in Snapshots : DecideSettled(p, a, q)

classifyByReason ==  \* changed: a stop without a reason is the tick limit
    CASE last.reason = "run_boundary" -> "completed_run_boundary"
      [] last.reason \notin {"run_boundary", "none"} -> "stopped_runtime_guard"
      [] OTHER -> "stopped_decision_limit"

classifyRunTermination ==
    CASE last.reason = "run_boundary" -> "completed_run_boundary"
      [] last.stop = "yes" /\ last.reason \notin {"run_boundary", "none"} ->
           "stopped_runtime_guard"
      [] last.stop = "yes" /\ last.reason = "none" -> "stopped_runtime_failure"
      [] OTHER -> "stopped_decision_limit"

\* Only the last result of a run can be a stop.
failures ==
    last.stop = "yes" /\ last.reason # "run_boundary"
      /\ last.outcome # "executed_and_settled"

\* agent:run writes run-summary.json and sets the exit code; agent:tick prints.
Report ==
    /\ pc = "over"
    /\ command = "run"
    /\ pc' = "reported"
    /\ summary' =
         [termination |-> classifyRunTermination,
          completedGame |-> IF classifyRunTermination = "completed_run_boundary"
                            THEN "yes" ELSE "no",
          exitCode |-> IF failures \/ classifyRunTermination = "stopped_decision_limit"
                       THEN 1 ELSE 0]
    /\ UNCHANGED <<command, options, tick, last, guards, history>>

Next == runTick \/ Report

Spec == Init /\ [][Next]_vars

-----------------------------------------------------------------------------
\* "A bounded agent:run never starts a second game", as far as it can see: no
\* decision is made on the menu once any tick has read the end of a run, nor
\* ever without the permission.
NoEntryAfterEnd ==
    decidedOn = "menu" /\ command = "run" =>
        /\ "run_ended" \notin kindsRead
        /\ "allowRunEntry" \in options

\* How often in a row a page without input is granted: a starting game is
\* granted more until anything else was seen.
Patience(p) ==
    IF kindsRead = {"starting"}
    THEN StartupLimit
    ELSE IF p.stability = "settling" THEN SettlingLimit ELSE RestLimit

WithoutInput == page # NoPage /\ page.stability \in {"non_actionable", "settling"}

\* A stalled run has read one page as often as that page is granted, without
\* reading another or failing to read in between; and it stops there and then.
StallIsJust ==
    last.reason = "repeated_non_actionable_state"
        <=> WithoutInput /\ streak >= Patience(page)

\* No input is given a third time on the same page with the same result, and
\* the second time ends the run.
ExactRepeatStops ==
    \A t \in Transitions :
        /\ executedTransitionOccurrences[t] <= 2
        /\ executedTransitionOccurrences[t] = 2 =>
              pc # "running" /\ last.reason = "repeated_exact_transition"

\* A run that failed or ran out of ticks is reported as such by its exit code,
\* and whatever is reported, an input that may have been lost is a failure.
FailureIsLoud ==
    pc = "reported" =>
        /\ summary.termination \in {"stopped_runtime_failure",
                                    "stopped_decision_limit"} => summary.exitCode = 1
        /\ last.outcome \in {"executed_unsettled", "execution_failed"} =>
              summary.termination = "stopped_runtime_failure"
=============================================================================
