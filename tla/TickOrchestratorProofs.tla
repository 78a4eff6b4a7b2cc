----------------------- MODULE TickOrchestratorProofs -----------------------
(***************************************************************************)
(* What the supervision of a run guarantees for every tick limit, every    *)
(* patience and every game.                                                *)
(***************************************************************************)
EXTENDS TickOrchestrator, TLAPS

\* The flags say what was read.
FlagsAreTrue ==
    /\ runTerminalObserved <=> "run_ended" \in kindsRead
    /\ observedKnownState <=> \E k \in kindsRead : k # "starting"

\* The stall guard counts the reads in a row of a page without input.
GuardCounts ==
    /\ WithoutInput => /\ nonActionablePage = page
                       /\ nonActionableStateOccurrences = streak
    /\ ~WithoutInput /\ pc = "running" => nonActionablePage = NoPage

\* A run goes on after a tick that does not stop it.
RunningIsUnstopped ==
    /\ pc = "running" => last.stop = "no" /\ last.reason = "none"
    /\ last.outcome \in {"executed_unsettled", "execution_failed"} =>
          last.stop = "yes" /\ last.reason = "none"

\* After a settled decision only a guard stops the run.
SettledStopsAreGuards ==
    last.outcome = "executed_and_settled" /\ last.stop = "yes" =>
        last.reason \in StopReasons

TicksLeft == pc = "running" => tick < TickLimit

IInv ==
    /\ TypeOK
    /\ TicksLeft
    /\ FlagsAreTrue
    /\ GuardCounts
    /\ RunningIsUnstopped
    /\ SettledStopsAreGuards
    /\ NoEntryAfterEnd
    /\ StallIsJust
    /\ ExactRepeatStops
    /\ FailureIsLoud

-----------------------------------------------------------------------------
LEMMA NoPageIsNone == NoPage \notin Pages
  BY DEF NoPage, Pages, Kinds

LEMMA InitType == Init => TypeOK
<1> SUFFICES ASSUME Init PROVE TypeOK
  OBVIOUS
<1>1. last \in Results /\ summary \in Summaries
  BY DEF Init, Results, Summaries
<1>2. tick \in 0 .. MaxTicks
  BY LimitsAssumption DEF Init
<1>3. executedTransitionOccurrences \in [Transitions -> Nat]
  BY DEF Init
<1> QED
  BY <1>1, <1>2, <1>3 DEF Init, TypeOK

\* What every tick does to the loop.
LEMMA FinishType ==
    ASSUME TypeOK, TicksLeft, pc = "running",
           NEW o \in Outcomes, NEW s \in {"yes", "no"},
           NEW r \in StopReasons \cup {"none"}, Finish(o, s, r)
    PROVE  /\ last' \in Results /\ tick' \in 0 .. MaxTicks
           /\ pc' \in {"running", "over"}
           /\ command' \in {"run", "tick"}
           /\ options' \subseteq {"dryRun", "allowRunEntry"}
           /\ summary' \in Summaries
           /\ TicksLeft'
<1>1. TickLimit \in Nat /\ TickLimit <= MaxTicks /\ tick \in Nat /\ tick < TickLimit
  BY LimitsAssumption DEF TickLimit, TypeOK, TicksLeft
<1>2. TickLimit' = TickLimit
  BY DEF Finish, TickLimit
<1>3. last' \in Results
  BY DEF Finish, Results
<1>4. tick' \in 0 .. MaxTicks
  BY <1>1, LimitsAssumption DEF Finish
<1>5. TicksLeft'
  BY <1>1, <1>2 DEF Finish, TicksLeft
<1> QED
  BY <1>3, <1>4, <1>5 DEF Finish, TypeOK

\* What every tick that reads a page remembers.
LEMMA ReadType ==
    ASSUME TypeOK, NEW p \in Pages, Read(p)
    PROVE  /\ runTerminalObserved' \in BOOLEAN /\ observedKnownState' \in BOOLEAN
           /\ page' = p /\ streak' \in Nat
           /\ kindsRead' \subseteq Kinds \cup {"starting"}
           /\ pc = "running"
<1>1. KindOf(p) \in Kinds \cup {"starting"}
  BY DEF KindOf, Pages
<1> QED
  BY <1>1 DEF Read, TypeOK

\* The results of the actions on a page, and what a tick does in each.
LEMMA ActionsOnPages ==
    ASSUME TypeOK, NEW p \in Pages,
           \/ ObserveInvalid(p) \/ ObserveNonActionable(p) \/ ObserveBoundary(p)
           \/ DryRun(p) \/ DecideUnsettled(p)
           \/ \E a \in Actions, q \in Snapshots : DecideSettled(p, a, q)
    PROVE  /\ Read(p)
           /\ \E o \in Outcomes, s \in {"yes", "no"}, r \in StopReasons \cup {"none"} :
                Finish(o, s, r)
           /\ decidedOn' \in {"none", p.kind}
<1>1. CASE ObserveInvalid(p)
  BY <1>1 DEF ObserveInvalid, Outcomes
<1>2. CASE ObserveNonActionable(p)
  BY <1>2 DEF ObserveNonActionable, Outcomes, StopReasons
<1>3. CASE ObserveBoundary(p)
  BY <1>3 DEF ObserveBoundary, Outcomes, StopReasons
<1>4. CASE DryRun(p)
  BY <1>4 DEF DryRun, ReadDecidable, Outcomes
<1>5. CASE DecideUnsettled(p)
  <2>1. PICK u \in Unsettled : Finish(u[1], u[2], "none")
    BY <1>5 DEF DecideUnsettled
  <2>2. u[1] \in Outcomes /\ u[2] \in {"yes", "no"}
    BY DEF Unsettled, Outcomes
  <2> QED
    BY <1>5, <2>1, <2>2 DEF DecideUnsettled, Decide, ReadDecidable
<1>6. CASE \E a \in Actions, q \in Snapshots : DecideSettled(p, a, q)
  BY <1>6 DEF DecideSettled, Decide, ReadDecidable, Outcomes, StopReasons
<1> QED
  BY <1>1, <1>2, <1>3, <1>4, <1>5, <1>6

LEMMA NextType == TypeOK /\ TicksLeft /\ [Next]_vars => TypeOK' /\ TicksLeft'
<1> SUFFICES ASSUME TypeOK, TicksLeft, [Next]_vars PROVE TypeOK' /\ TicksLeft'
  OBVIOUS
<1>1. CASE ObserveFails
  <2>1. PICK s \in {"yes", "no"} : Finish("observation_failed", s, "none")
    BY <1>1 DEF ObserveFails
  <2>2. "observation_failed" \in Outcomes /\ pc = "running"
    BY <1>1 DEF ObserveFails, Outcomes
  <2> QED
    BY <1>1, <2>1, <2>2, FinishType DEF ObserveFails, ResetStallGuard, TypeOK
<1>2. ASSUME NEW p \in Pages,
             \/ ObserveInvalid(p) \/ ObserveNonActionable(p) \/ ObserveBoundary(p)
             \/ DryRun(p) \/ DecideUnsettled(p)
             \/ \E a \in Actions, q \in Snapshots : DecideSettled(p, a, q)
      PROVE TypeOK' /\ TicksLeft'
  <2>1. Read(p) /\ decidedOn' \in {"none", p.kind} /\ p.kind \in Kinds
    BY <1>2, ActionsOnPages DEF Pages
  <2>2. PICK o \in Outcomes, s \in {"yes", "no"}, r \in StopReasons \cup {"none"} :
          Finish(o, s, r)
    BY <1>2, ActionsOnPages
  <2>3. pc = "running"
    BY <2>1 DEF Read
  <2>4. nonActionablePage' \in Pages \cup {NoPage} /\
     nonActionableStateOccurrences' \in Nat
    <3>1. CASE ObserveInvalid(p)
      BY <3>1 DEF ObserveInvalid, TypeOK
    <3>2. CASE ObserveNonActionable(p)
      <4>1. nonActionablePage' = p
        BY <3>2 DEF ObserveNonActionable, observeNonActionableState
      <4>2. \/ nonActionableStateOccurrences' = nonActionableStateOccurrences + 1
            \/ nonActionableStateOccurrences' = 1
        BY <3>2 DEF ObserveNonActionable, observeNonActionableState
      <4>3. nonActionableStateOccurrences' \in Nat
        BY <4>2 DEF TypeOK
      <4> QED
        BY <4>1, <4>3
    <3>3. CASE ResetStallGuard
      BY <3>3 DEF ResetStallGuard
    <3> QED
      BY <1>2, <3>1, <3>2, <3>3 DEF ObserveBoundary, DryRun, DecideUnsettled,
         DecideSettled, Decide, ReadDecidable
  <2>5. executedTransitionOccurrences' \in [Transitions -> Nat]
    <3>1. CASE \E a \in Actions, q \in Snapshots : DecideSettled(p, a, q)
      <4>1. PICK a \in Actions, q \in Snapshots : DecideSettled(p, a, q)
        BY <3>1
      <4>2. <<p.snapshot, a, q>> \in Transitions
        BY DEF Pages, Transitions
      <4>3. executedTransitionOccurrences[<<p.snapshot, a, q>>] + 1 \in Nat
        BY <4>2 DEF TypeOK
      <4> QED
        BY <4>1, <4>2, <4>3 DEF DecideSettled, TypeOK
    <3>2. CASE ~(\E a \in Actions, q \in Snapshots : DecideSettled(p, a, q))
      BY <1>2, <3>2 DEF TypeOK, ObserveInvalid, ObserveNonActionable,
         ObserveBoundary, DryRun, DecideUnsettled
    <3> QED
      BY <3>1, <3>2
  <2> QED
    BY <2>1, <2>2, <2>3, <2>4, <2>5, FinishType, ReadType DEF TypeOK
<1>3. CASE Report
  <2>1. summary' \in Summaries
    BY <1>3 DEF Report, Summaries, classifyRunTermination, Terminations
  <2> QED
    BY <1>3, <2>1 DEF Report, TypeOK, TicksLeft, guards, history
<1>4. CASE UNCHANGED vars
  BY <1>4 DEF vars, TypeOK, TicksLeft, TickLimit
<1> QED
  BY <1>1, <1>2, <1>3, <1>4 DEF Next, runTick

\* The tick numbers, the guards and the reports keep their types, and a run
\* never exceeds its ticks.
THEOREM TypeCorrect == Spec => []TypeOK
<1>1. Init => TypeOK /\ TicksLeft
  <2>1. Init => TicksLeft
    BY LimitsAssumption DEF Init, TicksLeft, TickLimit
  <2> QED
    BY <2>1, InitType
<1>2. TypeOK /\ TicksLeft /\ [Next]_vars => TypeOK' /\ TicksLeft'
  BY NextType
<1> QED
  BY <1>1, <1>2, PTL DEF Spec

-----------------------------------------------------------------------------
\* Reading a page keeps the flags true.
LEMMA ReadingIsTrue ==
    ASSUME TypeOK, FlagsAreTrue, NEW p \in Pages, Read(p)
    PROVE  /\ FlagsAreTrue'
           /\ (isStartupUnknownState(p) /\ ~observedKnownState')
                <=> kindsRead' = {"starting"}
<1>1. /\ p.kind \in Kinds
      /\ KindOf(p) = "starting" <=> isStartupUnknownState(p)
      /\ KindOf(p) = "run_ended" <=> p.kind = "run_ended"
  BY DEF Pages, Kinds, KindOf, isStartupUnknownState
<1>2. kindsRead' = kindsRead \cup {KindOf(p)}
  BY DEF Read
<1>3. runTerminalObserved' <=> "run_ended" \in kindsRead'
  BY <1>1, <1>2 DEF Read, FlagsAreTrue
<1>4. observedKnownState' <=> \E k \in kindsRead' : k # "starting"
  BY <1>1, <1>2 DEF Read, FlagsAreTrue
<1>5. (isStartupUnknownState(p) /\ ~observedKnownState') <=> kindsRead' = {"starting"}
  BY <1>1, <1>2, <1>4
<1> QED
  BY <1>3, <1>4, <1>5 DEF FlagsAreTrue

\* A page that was not read for want of input leaves nothing to be stalled on.
LEMMA Unstalled ==
    ASSUME NEW p \in Pages, page' = p,
           p.stability \notin {"non_actionable", "settling"},
           last'.reason # "repeated_non_actionable_state"
    PROVE  StallIsJust'
  BY DEF StallIsJust, WithoutInput

LEMMA InitIInv == Init => IInv
<1> SUFFICES ASSUME Init PROVE IInv
  OBVIOUS
<1>1. TypeOK /\ TicksLeft
  BY InitType, LimitsAssumption DEF Init, TicksLeft, TickLimit
<1>2. ExactRepeatStops
  BY DEF Init, ExactRepeatStops
<1> QED
  BY <1>1, <1>2 DEF Init, IInv, FlagsAreTrue, GuardCounts, RunningIsUnstopped,
     SettledStopsAreGuards, NoEntryAfterEnd, StallIsJust, FailureIsLoud, WithoutInput

LEMMA NextIInv == IInv /\ [Next]_vars => IInv'
<1> SUFFICES ASSUME IInv, [Next]_vars PROVE IInv'
  OBVIOUS
<1>t. TypeOK /\ TypeOK' /\ TicksLeft'
  BY NextType DEF IInv
<1>r. ASSUME pc = "running"
      PROVE  \A t \in Transitions : executedTransitionOccurrences[t] \in {0, 1}
  BY <1>r, <1>t DEF IInv, ExactRepeatStops, TypeOK
<1>1. CASE ObserveFails
  <2>1. PICK s \in {"yes", "no"} : Finish("observation_failed", s, "none")
    BY <1>1 DEF ObserveFails
  <2>2. /\ pc = "running" /\ pc' # "reported"
        /\ last' = [outcome |-> "observation_failed", stop |-> s, reason |-> "none"]
        /\ pc' = "running" => s = "no"
    BY <1>1, <2>1 DEF ObserveFails, Finish
  <2>3. ExactRepeatStops'
    BY <1>1, <1>r, <2>2 DEF ObserveFails, ExactRepeatStops
  <2> QED
    BY <1>1, <2>2, <2>3, <1>t DEF ObserveFails, ResetStallGuard, IInv, FlagsAreTrue,
       GuardCounts, RunningIsUnstopped, SettledStopsAreGuards, NoEntryAfterEnd,
       StallIsJust,
       FailureIsLoud, WithoutInput
<1>2. ASSUME NEW p \in Pages, ObserveInvalid(p) PROVE IInv'
  <2>1. /\ Read(p) /\ pc = "running" /\ pc' = "over" /\ page' = p
        /\ last' = [outcome |-> "not_executed_invalid_state", stop |-> "yes",
                    reason |-> "none"]
        /\ p.stability = "invalid"
    BY <1>2 DEF ObserveInvalid, Read, Finish
  <2>2. FlagsAreTrue'
    BY <2>1, ReadingIsTrue DEF IInv
  <2>3. StallIsJust'
    BY <2>1, Unstalled
  <2>4. ExactRepeatStops'
    BY <1>2, <1>r, <2>1 DEF ObserveInvalid, ExactRepeatStops
  <2> QED
    BY <1>2, <1>t, <2>1, <2>2, <2>3, <2>4 DEF ObserveInvalid, IInv, GuardCounts,
       WithoutInput, RunningIsUnstopped, SettledStopsAreGuards, NoEntryAfterEnd,
       FailureIsLoud
<1>3. ASSUME NEW p \in Pages, ObserveNonActionable(p) PROVE IInv'
  <2>1. /\ Read(p) /\ pc = "running" /\ page' = p /\ decidedOn' = "none"
        /\ streak' = (IF p = page THEN streak + 1 ELSE 1)
        /\ p.stability \in {"non_actionable", "settling"}
        /\ nonActionablePage' = p
        /\ nonActionableStateOccurrences' =
              (IF nonActionablePage = p THEN nonActionableStateOccurrences + 1 ELSE 1)
    BY <1>3 DEF ObserveNonActionable, Read, observeNonActionableState
  <2>2. FlagsAreTrue'
    BY <2>1, ReadingIsTrue DEF IInv
  <2>3. p # NoPage /\ WithoutInput'
    BY <2>1, NoPageIsNone DEF WithoutInput
  <2>4. nonActionableStateOccurrences' = streak'
    <3>1. nonActionablePage = p <=> page = p
      BY <2>1, <2>3 DEF IInv, GuardCounts, WithoutInput
    <3>2. page = p => nonActionableStateOccurrences = streak
      BY <2>1, <2>3 DEF IInv, GuardCounts, WithoutInput
    <3> QED
      BY <2>1, <3>1, <3>2
  <2>5. nonActionableStallLimit(p) = Patience(p)'
    BY <2>1, ReadingIsTrue DEF IInv, nonActionableStallLimit, Patience
  <2>6. /\ streak' >= Patience(p)' =>
             Finish("not_executed_non_actionable_state", "yes",
                    "repeated_non_actionable_state")
        /\ ~(streak' >= Patience(p)') =>
             Finish("not_executed_non_actionable_state", "no", "none")
    BY <1>3, <2>4, <2>5 DEF ObserveNonActionable
  <2>7. /\ pc' # "reported"
        /\ last'.outcome = "not_executed_non_actionable_state"
        /\ pc' = "running" => last'.stop = "no" /\ last'.reason = "none"
        /\ last'.reason = "repeated_non_actionable_state" <=> streak' >= Patience(p)'
    BY <2>6 DEF Finish
  <2>8. StallIsJust'
    BY <2>1, <2>3, <2>7 DEF StallIsJust, Patience
  <2>9. ExactRepeatStops'
    BY <1>3, <1>r, <2>1 DEF ObserveNonActionable, ExactRepeatStops
  <2> QED
    BY <1>t, <2>1, <2>2, <2>3, <2>4, <2>7, <2>8, <2>9 DEF IInv, GuardCounts,
       RunningIsUnstopped, SettledStopsAreGuards, NoEntryAfterEnd, FailureIsLoud
<1>4. ASSUME NEW p \in Pages, ObserveBoundary(p) PROVE IInv'
  <2>1. /\ Read(p) /\ pc = "running" /\ pc' = "over" /\ page' = p
        /\ last' = [outcome |-> "not_executed_non_actionable_state", stop |-> "yes",
                    reason |-> "run_boundary"]
        /\ p.stability = "actionable"
    BY <1>4 DEF ObserveBoundary, Read, Finish
  <2>2. FlagsAreTrue'
    BY <2>1, ReadingIsTrue DEF IInv
  <2>3. StallIsJust'
    BY <2>1, Unstalled
  <2>4. ExactRepeatStops'
    BY <1>4, <1>r, <2>1 DEF ObserveBoundary, ExactRepeatStops
  <2> QED
    BY <1>4, <1>t, <2>1, <2>2, <2>3, <2>4 DEF ObserveBoundary, IInv, GuardCounts,
       WithoutInput, RunningIsUnstopped, SettledStopsAreGuards, NoEntryAfterEnd,
       FailureIsLoud
<1>5. ASSUME NEW p \in Pages, DryRun(p) PROVE IInv'
  <2>1. /\ Read(p) /\ pc = "running" /\ pc' # "reported" /\ page' = p
        /\ last' = [outcome |-> "dry_run", stop |-> "no", reason |-> "none"]
        /\ p.stability = "actionable" /\ nonActionablePage' = NoPage
    BY <1>5 DEF DryRun, ReadDecidable, ResetStallGuard, Read, Finish
  <2>2. FlagsAreTrue'
    BY <2>1, ReadingIsTrue DEF IInv
  <2>3. StallIsJust'
    BY <2>1, Unstalled
  <2>4. ExactRepeatStops'
    BY <1>5, <1>r, <2>1 DEF DryRun, ExactRepeatStops
  <2> QED
    BY <1>5, <1>t, <2>1, <2>2, <2>3, <2>4 DEF DryRun, IInv, GuardCounts,
       WithoutInput, RunningIsUnstopped, SettledStopsAreGuards, NoEntryAfterEnd,
       FailureIsLoud
<1>d. ASSUME NEW p \in Pages, Decide(p), last'.reason # "repeated_non_actionable_state"
      PROVE  /\ FlagsAreTrue' /\ StallIsJust' /\ GuardCounts'
             /\ (command' = command /\ options' = options => NoEntryAfterEnd')
  <2>1. /\ Read(p) /\ page' = p /\ p.stability = "actionable" /\ ~Boundary(p)
        /\ nonActionablePage' = NoPage /\ decidedOn' = p.kind
    BY <1>d DEF Decide, ReadDecidable, ResetStallGuard, Read
  <2>2. FlagsAreTrue'
    BY <2>1, ReadingIsTrue DEF IInv
  <2>3. StallIsJust'
    BY <1>d, <2>1, Unstalled
  <2> QED
    BY <2>1, <2>2, <2>3 DEF GuardCounts, WithoutInput, NoEntryAfterEnd, Boundary,
       FlagsAreTrue
<1>6. ASSUME NEW p \in Pages, DecideUnsettled(p) PROVE IInv'
  <2>1. PICK u \in Unsettled : Finish(u[1], u[2], "none")
    BY <1>6 DEF DecideUnsettled
  <2>2. /\ Decide(p) /\ pc = "running" /\ pc' # "reported"
        /\ last' = [outcome |-> u[1], stop |-> u[2], reason |-> "none"]
        /\ pc' = "running" => u[2] # "yes"
        /\ command' = command /\ options' = options
    BY <1>6, <2>1 DEF DecideUnsettled, Decide, ReadDecidable, Read, Finish
  <2>3. /\ u[2] \in {"yes", "no"}
        /\ u[1] \in {"executed_unsettled", "execution_failed"} => u[2] = "yes"
        /\ u[1] # "executed_and_settled"
    BY DEF Unsettled
  <2>4. RunningIsUnstopped' /\ SettledStopsAreGuards'
    BY <2>2, <2>3 DEF RunningIsUnstopped, SettledStopsAreGuards
  <2>5. ExactRepeatStops'
    BY <1>6, <1>r, <2>2 DEF DecideUnsettled, ExactRepeatStops
  <2>6. FlagsAreTrue' /\ StallIsJust' /\ GuardCounts' /\ NoEntryAfterEnd'
    BY <1>d, <2>2
  <2> QED
    BY <1>t, <2>2, <2>4, <2>5, <2>6 DEF IInv, FailureIsLoud
<1>7. ASSUME NEW p \in Pages, NEW a \in Actions, NEW q \in Snapshots,
             DecideSettled(p, a, q)
      PROVE  IInv'
  <2>1. PICK s \in {"yes", "no"}, r \in {"none", "repeated_exact_transition",
                                        "repeated_semantic_transition"} :
          /\ Finish("executed_and_settled", s, r)
          /\ s = "no" <=> r = "none"
          /\ executedTransitionOccurrences[<<p.snapshot, a, q>>] + 1 >= 2 =>
               s = "yes" /\ r = "repeated_exact_transition"
    BY <1>7 DEF DecideSettled
  <2>2. /\ Decide(p) /\ pc = "running" /\ pc' # "reported"
        /\ last' = [outcome |-> "executed_and_settled", stop |-> s, reason |-> r]
        /\ pc' = "running" => s = "no"
        /\ command' = command /\ options' = options
    BY <1>7, <2>1 DEF DecideSettled, Decide, ReadDecidable, Read, Finish
  <2>3. RunningIsUnstopped' /\ SettledStopsAreGuards'
    BY <2>1, <2>2 DEF RunningIsUnstopped, SettledStopsAreGuards, StopReasons
  <2>4. ExactRepeatStops'
    <3> DEFINE k == <<p.snapshot, a, q>>
    <3>1. k \in Transitions /\ executedTransitionOccurrences[k] \in {0, 1}
      BY <1>r, <2>2 DEF Pages, Transitions
    <3>2. executedTransitionOccurrences' =
            [executedTransitionOccurrences EXCEPT ![k] =
       executedTransitionOccurrences[k] + 1]
      BY <1>7 DEF DecideSettled
    <3>3. executedTransitionOccurrences'[k] = executedTransitionOccurrences[k] + 1
      BY <3>1, <3>2, <1>t DEF TypeOK
    <3>4. \A t \in Transitions : t # k =>
            executedTransitionOccurrences'[t] = executedTransitionOccurrences[t]
      BY <3>2, <1>t DEF TypeOK
    <3>5. executedTransitionOccurrences'[k] = 2 =>
            pc' # "running" /\ last'.reason = "repeated_exact_transition"
      BY <3>1, <3>3, <2>1, <2>2
    <3>6. \A t \in Transitions : t # k => executedTransitionOccurrences'[t] \in {0, 1}
      BY <3>4, <1>r, <2>2
    <3> QED
      BY <3>1, <3>3, <3>5, <3>6 DEF ExactRepeatStops
  <2>5. FlagsAreTrue' /\ StallIsJust' /\ GuardCounts' /\ NoEntryAfterEnd'
    BY <1>d, <2>2
  <2> QED
    BY <1>t, <2>2, <2>3, <2>4, <2>5 DEF IInv, FailureIsLoud
<1>8. CASE Report
  <2>1. FailureIsLoud'
    <3>1. /\ summary'.termination = classifyRunTermination
          /\ summary'.exitCode =
               (IF failures \/ classifyRunTermination = "stopped_decision_limit"
                THEN 1 ELSE 0)
          /\ last' = last
      BY <1>8 DEF Report
    <3>2. CASE last.reason = "run_boundary"
      <4>1. classifyRunTermination = "completed_run_boundary"
        BY <3>2 DEF classifyRunTermination
      <4>2. last.outcome \notin {"executed_unsettled", "execution_failed"}
        BY <3>2 DEF IInv, RunningIsUnstopped
      <4> QED
        BY <3>1, <4>1, <4>2 DEF FailureIsLoud
    <3>3. CASE last.stop = "yes" /\ last.reason \notin {"run_boundary", "none"}
      <4>1. classifyRunTermination = "stopped_runtime_guard"
        BY <3>3 DEF classifyRunTermination
      <4>2. last.outcome \notin {"executed_unsettled", "execution_failed"}
        BY <3>3 DEF IInv, RunningIsUnstopped
      <4> QED
        BY <3>1, <4>1, <4>2 DEF FailureIsLoud
    <3>4. CASE last.stop = "yes" /\ last.reason = "none"
      <4>1. classifyRunTermination = "stopped_runtime_failure"
        BY <3>4 DEF classifyRunTermination
      <4>2. last.outcome # "executed_and_settled"
        BY <3>4, <1>8 DEF IInv, SettledStopsAreGuards, StopReasons
      <4>3. failures
        BY <3>4, <4>2 DEF failures
      <4> QED
        BY <3>1, <4>1, <4>3 DEF FailureIsLoud
    <3>5. CASE last.stop # "yes" /\ last.reason # "run_boundary"
      <4>1. classifyRunTermination = "stopped_decision_limit"
        BY <3>5 DEF classifyRunTermination
      <4>2. last.outcome \notin {"executed_unsettled", "execution_failed"}
        BY <3>5 DEF IInv, RunningIsUnstopped
      <4> QED
        BY <3>1, <4>1, <4>2 DEF FailureIsLoud
    <3> QED
      BY <3>2, <3>3, <3>4, <3>5
  <2>2. \A r \in Pages : Patience(r)' = Patience(r)
    BY <1>8 DEF Report, history, Patience
  <2>3. StallIsJust'
    BY <1>8, <2>2, <1>t DEF Report, history, IInv, StallIsJust, WithoutInput, TypeOK
  <2> QED
    BY <1>8, <1>t, <2>1, <2>3 DEF Report, guards, history, IInv, FlagsAreTrue,
       GuardCounts, RunningIsUnstopped, SettledStopsAreGuards, NoEntryAfterEnd,
       ExactRepeatStops,
       WithoutInput
<1>9. CASE UNCHANGED vars
  BY <1>9, <1>t DEF vars, IInv, FlagsAreTrue, GuardCounts, RunningIsUnstopped,
     SettledStopsAreGuards, NoEntryAfterEnd, StallIsJust, ExactRepeatStops,
     FailureIsLoud, WithoutInput,
     Patience
<1> QED
  BY <1>1, <1>2, <1>3, <1>4, <1>5, <1>6, <1>7, <1>8, <1>9 DEF Next, runTick

LEMMA Invariant == Spec => []IInv
<1>1. Init => IInv
  BY InitIInv
<1>2. IInv /\ [Next]_vars => IInv'
  BY NextIInv
<1> QED
  BY <1>1, <1>2, PTL DEF Spec

\* agent:run decides on the menu only with the permission and never once any
\* of its ticks has read the end of a run.
THEOREM OneGame == Spec => []NoEntryAfterEnd
<1>1. IInv => NoEntryAfterEnd
  BY DEF IInv
<1> QED
  BY <1>1, Invariant, PTL

\* The stall guard stops a run exactly when one page without input was read
\* as often in a row as it is granted.
THEOREM StallsAreJust == Spec => []StallIsJust
<1>1. IInv => StallIsJust
  BY DEF IInv
<1> QED
  BY <1>1, Invariant, PTL

\* No exact transition is executed a third time.
THEOREM ExactRepeatsStop == Spec => []ExactRepeatStops
<1>1. IInv => ExactRepeatStops
  BY DEF IInv
<1> QED
  BY <1>1, Invariant, PTL

\* Failed and exhausted runs exit with a failure, and an unknown delivery is
\* always reported as one.
THEOREM FailuresAreLoud == Spec => []FailureIsLoud
<1>1. IInv => FailureIsLoud
  BY DEF IInv
<1> QED
  BY <1>1, Invariant, PTL
=============================================================================
