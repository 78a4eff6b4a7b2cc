------------------------- MODULE ProgressCycleGuard -------------------------
(***************************************************************************)
(* The guard against walking in circles (runtime/progressCycleGuard.ts)    *)
(* and the tick's use of it: what it withholds from the language model,    *)
(* what it learns from each settled transition, when it stops the run.     *)
(*                                                                         *)
(* A page is a semanticProgressHash: the player-visible state without the  *)
(* identities the Host renews with every snapshot.  The actions a page     *)
(* offers are part of what it shows.  The game may turn a page by itself,  *)
(* so the page of a tick need not be the successor of the last one.        *)
(***************************************************************************)
EXTENDS Naturals

CONSTANTS
    Pages,     \* semanticProgressHash values
    Actions,   \* semanticActionHash values
    MaxTicks   \* AGENT_MAX_TICKS

ASSUME TicksAssumption == MaxTicks \in Nat

VARIABLES
    legal,             \* the actions each page offers
    occurrences,       \* how often each transition was observed
    transitions,       \* the transitions seen from each page
    suppressedActions, \* the actions withheld on each page
    tick,              \* ticks done
    stopped            \* the guard has stopped the run

guardVars == <<legal, occurrences, transitions, suppressedActions, tick, stopped>>

Keys == Pages \X Actions \X Pages

GuardTypeOK ==
    /\ legal \in [Pages -> SUBSET Actions]
    /\ occurrences \in [Keys -> Nat]
    /\ transitions \in [Pages -> SUBSET (Actions \X Pages)]
    /\ suppressedActions \in [Pages -> SUBSET Actions]
    /\ tick \in 0 .. MaxTicks
    /\ stopped \in {"no", "yes"}

GuardInit ==
    /\ legal \in [Pages -> SUBSET Actions]
    /\ occurrences = [k \in Keys |-> 0]
    /\ transitions = [x \in Pages |-> {}]
    /\ suppressedActions = [x \in Pages |-> {}]
    /\ tick = 0
    /\ stopped = "no"

-----------------------------------------------------------------------------
filterNothing(x) == legal[x]  \* changed: nothing is withheld

\* What the model may choose from: all that is not withheld, or everything
\* if that were nothing.
filterActions(x) ==
    IF legal[x] \ suppressedActions[x] = {}
    THEN legal[x]
    ELSE legal[x] \ suppressedActions[x]

reverseAll(x, y) == {t[1] : t \in transitions[y]}  \* changed: postHash not compared

\* The actions seen to lead from y back to x.
reverseActions(x, y) == {a \in Actions : <<a, x>> \in transitions[y]}

\* A tick on page x executes action a and settles on page y.
Tick(x, a, y) ==
    /\ stopped = "no"
    /\ tick < MaxTicks
    /\ a \in filterActions(x)
    /\ tick' = tick + 1
    /\ occurrences' = [occurrences EXCEPT ![<<x, a, y>>] = @ + 1]
    /\ transitions' = [transitions EXCEPT ![x] = @ \cup {<<a, y>>}]
    /\ UNCHANGED legal

RepeatsAtThird(x, a, y) == occurrences[<<x, a, y>>] >= 2  \* changed: one too many

Repeats(x, a, y) == occurrences[<<x, a, y>>] >= 1

ObserveNew(x, a, y) ==
    /\ Tick(x, a, y)
    /\ ~Repeats(x, a, y)
    /\ UNCHANGED <<suppressedActions, stopped>>

\* A repeated step that can be undone: its undoing is withheld from now on.
ObserveReturning(x, a, y) ==
    /\ Tick(x, a, y)
    /\ Repeats(x, a, y)
    /\ reverseActions(x, y) # {}
    /\ suppressedActions' = [suppressedActions EXCEPT ![y] = @ \cup reverseActions(x, y)]
    /\ UNCHANGED stopped

\* A repeated step no recovery is known for: repeated_semantic_transition.
ObserveRepeated(x, a, y) ==
    /\ Tick(x, a, y)
    /\ Repeats(x, a, y)
    /\ reverseActions(x, y) = {}
    /\ stopped' = "yes"
    /\ UNCHANGED suppressedActions

observe(x, a, y) ==
    \/ ObserveNew(x, a, y)
    \/ ObserveReturning(x, a, y)
    \/ ObserveRepeated(x, a, y)

GuardNext == \E x, y \in Pages, a \in Actions : observe(x, a, y)

GuardSpec == GuardInit /\ [][GuardNext]_guardVars

-----------------------------------------------------------------------------
Times(x, a, y) == occurrences[<<x, a, y>>]

\* "suppress only a proven return edge": whatever is withheld was taken, and
\* the step it undoes had been taken twice.
SuppressionIsProven ==
    \A x \in Pages, a \in Actions : a \in suppressedActions[x] =>
        \E y \in Pages, b \in Actions : Times(x, a, y) >= 1 /\ Times(y, b, x) >= 2

\* A step taken twice that was never undone has stopped the run: longer
\* circles end at their second round.
UnreturnedRepeatStops ==
    \A x, y \in Pages, a \in Actions :
        Times(x, a, y) >= 2 =>
            \/ stopped = "yes"
            \/ \E b \in Actions : Times(y, b, x) >= 1

NothingElse(x) == legal[x] \subseteq suppressedActions[x]

\* Once two pages were left for one another twice each way, the model is no
\* longer offered both ways, unless a page of the two offers nothing else.
CircleIsOpened ==
    \A x, y \in Pages, a, b \in Actions :
        Times(x, a, y) >= 2 /\ Times(y, b, x) >= 2 =>
            \/ a \notin filterActions(x) \/ b \notin filterActions(y)
            \/ NothingElse(x) \/ NothingElse(y)

\* "If every currently legal action was part of the observed loop, keep them
\* and let the existing terminal guard stop on the next repeated transition":
\* a repeat of a step that was withheld but had to be kept stops the run.
\* The code plans the same recovery again and goes on.
KeptLoopStops ==
    [][\A x, y \in Pages, a \in Actions :
          /\ a \in suppressedActions[x]
          /\ Times(x, a, y) >= 1
          /\ occurrences'[<<x, a, y>>] > Times(x, a, y)
          => stopped' = "yes"]_guardVars
=============================================================================
