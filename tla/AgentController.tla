--------------------------- MODULE AgentController ---------------------------
(***************************************************************************)
(* The archived agent's tick: agent/controller.ts with its run memory      *)
(* (agent/memory.ts) and its transition log (agent/decisionRecorder.ts).   *)
(* The game moves whenever it likes; the agent reads a page of it, chooses *)
(* a candidate, perhaps by asking the model, and sends it while the page   *)
(* it was chosen on may already be gone.  Two guards keep it from sending  *)
(* the same thing again, and the end of a game is learned from once.       *)
(***************************************************************************)
EXTENDS EvidenceRoles, Naturals, Sequences, FiniteSets

CONSTANTS
    Pages,       \* what the game can show, see PageType
    MaxMoves,    \* bound: moves of the game
    MaxSends,    \* bound: the actions of a process that are remembered for the properties
    MaxRestarts  \* bound: ends of the agent's process

Toggles == {"pick1", "pick2"}
Actions == {"attack", "end_turn", "confirm", "cancel", "main_menu"} \cup Toggles
Heroes == {"unknown", "ironclad", "defect"}

(* A page: view is what the fingerprint sees of it besides screen and floor, fine what *)
(* only the state hash sees.  Neither sees ready, that no card can be played, that a   *)
(* selection can be confirmed, or that the main menu is offered, nor cancel, that a    *)
(* selection can be canceled.  View 1 of a combat is its first round, floor 0 a page   *)
(* that shows no floor.                                                                *)
PageType == [screen : {"combat", "card_select", "game_over", "waiting"}, floor : Nat,
             hero : Heroes, view : 1..2, fine : 1..2, ready : BOOLEAN,
             cancel : BOOLEAN]
ASSUME PagesAssumption == Pages \subseteq PageType
ASSUME BoundsAssumption == MaxMoves \in Nat /\ MaxSends \in Nat /\ MaxRestarts \in Nat

Games == 1..MaxMoves + 1
Reads == [page : Pages, number : Games]

VARIABLES
    game,       \* the page shown and the number of the game it belongs to
    moves,      \* moves of the game so far
    gate,       \* STS2_ENABLE_LEGACY_FINALIZE_STABLE_WRITES
    restarts,   \* ends of the agent's process so far
    dry,        \* this process runs with --dry-run
    pc,         \* idle, asking, decided, executing, logging, recording or finalizing
    seen,       \* what this tick read
    choice,     \* what it decided so far, and who; scored: the scoring wanted the model;
                \* shadow: how the workspace shadow call went, open until then
    cardGuard, stuckGuard, backoff, \* the controller's memory between ticks
    run,        \* current-run.json: floor and hero last read, games with evidence in it
    learned,    \* what finalizeRun has written about each game, and how often it was cut
    written,    \* stores this finalizeRun has written
    sent,       \* actions this process sent since it last saw the page change
    transition  \* the line the last tick wrote; history: if it executed the model's answer

vars == <<game, moves, gate, restarts, dry, pc, seen, choice, cardGuard, stuckGuard, backoff,
          run, learned, written, sent, transition>>

stateFingerprint(page) == <<page.screen, page.floor, page.view>>
stateHash(page) == <<page.screen, page.floor, page.view, page.fine>>

\* The turn can always be ended; a selection that can be confirmed offers nothing else.
generateCombatCandidates(page) == {"end_turn"} \cup (IF page.ready THEN {} ELSE {"attack"})
generateCardSelectCandidates(page) ==
    IF page.ready THEN {"confirm"} ELSE Toggles \cup (IF page.cancel THEN {"cancel"} ELSE {})
candidates(page) ==
    IF page.screen = "combat" THEN generateCombatCandidates(page)
    ELSE IF page.screen = "card_select" THEN generateCardSelectCandidates(page)
    ELSE IF page.screen = "game_over" /\ page.ready THEN {"main_menu"}
    ELSE {}

NoChoice == [chosen |-> NoCandidate, source |-> "none", scored |-> FALSE,
             proposed |-> NoCandidate, proposedBy |-> "none", answer |-> NoCandidate,
             shadow |-> "open"]
NotSeen == [page |-> [screen |-> "waiting", floor |-> 0, hero |-> "unknown", view |-> 1, fine |-> 1,
                      ready |-> FALSE, cancel |-> FALSE], number |-> 1]
NoTransition == [log |-> [env |-> "incomplete", shadow |-> "uncalled", resolution |-> NotRecorded,
                         authority |-> "local_mechanical", mismatch |-> FALSE],
                 own |-> FALSE]
NoCards == [fingerprint |-> <<>>, selectedIndices |-> {}]
NotStuck == [fingerprint |-> <<>>, actionSignature |-> NoCandidate]
NothingSent == [fingerprint |-> <<>>, entries |-> <<>>]
NewRun == [floor |-> 0, hero |-> "unknown", games |-> {}]
NotLearned == [longTerm |-> 0, experience |-> 0, strategy |-> 0, audit |-> 0, cut |-> 0]

Init ==
    /\ game \in {[page |-> page, number |-> 1] : page \in Pages}
    /\ moves = 0 /\ restarts = 0
    /\ gate \in BOOLEAN /\ dry \in BOOLEAN
    /\ pc = "idle" /\ seen = NotSeen /\ choice = NoChoice
    /\ cardGuard = NoCards /\ stuckGuard = NotStuck /\ backoff = FALSE
    /\ run = NewRun
    /\ learned = [n \in Games |-> NotLearned] /\ written = {}
    /\ sent = NothingSent /\ transition = NoTransition

\* A game is over for good once it shows its end; a floor never goes down within one.
GameMoves ==
    /\ moves < MaxMoves
    /\ \E page \in Pages :
        /\ page # game.page
        /\ LET over == \/ game.page.screen = "game_over" /\ page.screen # "game_over"
                       \/ page.floor < game.page.floor
                       \/ "unknown" \notin {page.hero, game.page.hero} /\ page.hero # game.page.hero
           IN  game' = [page |-> page, number |-> IF over THEN game.number + 1 ELSE game.number]
    /\ moves' = moves + 1
    /\ UNCHANGED <<gate, restarts, dry, pc, seen, choice, cardGuard, stuckGuard, backoff, run,
                   learned, written, sent, transition>>

-----------------------------------------------------------------------------
(* Reading the state                                                       *)

newRunDetected(page) ==
    \/ page.floor # 0 /\ run.floor # 0 /\ page.floor < run.floor
    \/ page.floor = 1 /\ "unknown" \notin {run.hero, page.hero} /\ run.hero # page.hero

\* updateFromState: a run in which something happened counts the first rounds of combats.
updateFromState(read) ==
    LET kept == IF newRunDetected(read.page) THEN NewRun ELSE run
    IN  [floor |-> IF read.page.floor # 0 THEN read.page.floor ELSE kept.floor,
         hero |-> IF read.page.hero # "unknown" THEN read.page.hero ELSE kept.hero,
         games |-> IF read.page.screen = "combat" /\ read.page.view = 1
                   THEN kept.games \cup {read.number} ELSE kept.games]

EndTick == pc' = "idle" /\ choice' = NoChoice /\ seen' = NotSeen

\* The tick reads, and the last action may still be settling or the page offers nothing.
TickWaits ==
    /\ pc = "idle"
    /\ \/ ~dry /\ backoff
       \/ game.page.screen # "game_over" /\ candidates(game.page) = {}
    /\ run' = updateFromState(game) /\ transition' = NoTransition
    /\ UNCHANGED <<game, moves, gate, restarts, dry, pc, seen, choice, cardGuard, stuckGuard, backoff,
                   learned, written, sent>>

BackoffEnds ==
    /\ pc = "idle" /\ backoff
    /\ backoff' = FALSE
    /\ UNCHANGED <<game, moves, gate, restarts, dry, pc, seen, choice, cardGuard, stuckGuard, run,
                   learned, written, sent, transition>>

\* The end of a game: finalizeRun if this run has evidence (also in a dry run), then the menu.
hasActiveRunEvidence(r) == r.games # {}
returnToMenu(read) ==
    IF ~dry /\ candidates(read.page) # {}
    THEN /\ pc' = "executing" /\ seen' = read
         /\ choice' = [NoChoice EXCEPT !.chosen = "main_menu", !.source = "local_mechanical"]
    ELSE EndTick

TickGameOver ==
    /\ pc = "idle" /\ game.page.screen = "game_over" /\ (dry \/ ~backoff)
    /\ run' = updateFromState(game) /\ transition' = NoTransition
    /\ IF hasActiveRunEvidence(run') THEN pc' = "finalizing" /\ choice' = NoChoice /\ seen' = game
       ELSE returnToMenu(game)
    /\ UNCHANGED <<game, moves, gate, restarts, dry, cardGuard, stuckGuard, backoff, learned, written,
                   sent>>

\* saveStableState writes one file after the other; the audit line comes last.
nextStore ==
    IF ~gate THEN "audit"
    ELSE IF "longTerm" \notin written THEN "longTerm"
    ELSE IF "experience" \notin written THEN "experience"
    ELSE IF "strategy" \notin written THEN "strategy"
    ELSE "audit"

FinalizeStore ==
    /\ pc = "finalizing" /\ "audit" \notin written
    /\ learned' = [learned EXCEPT ![seen.number][nextStore] = @ + 1]
    /\ written' = written \cup {nextStore}
    /\ UNCHANGED <<game, moves, gate, restarts, dry, pc, seen, choice, cardGuard, stuckGuard, backoff,
                   run, sent, transition>>

\* archiveCurrentRun, then a new run that is saved at once.
RunAfterFinalize == run  \* changed: the run memory stays
runAfterFinalize == NewRun
FinalizeEnds ==
    /\ pc = "finalizing" /\ "audit" \in written
    /\ run' = runAfterFinalize /\ written' = {}
    /\ returnToMenu(seen)
    /\ UNCHANGED <<game, moves, gate, restarts, dry, cardGuard, stuckGuard, backoff, learned,
                   sent, transition>>

-----------------------------------------------------------------------------
(* Choosing                                                                *)

\* An end of turn that is the only candidate is not worth the model; any other decision
\* may be.
isForcedLocalDecision(page) == candidates(page) = {"end_turn"}
classifyDecisionRoute(page) == IF isForcedLocalDecision(page) THEN {FALSE} ELSE BOOLEAN

\* A fallback may take a safer card than the best one, in a combat whose route wanted
\* the model.
selectFallbackCandidate(page, source, scored, top) ==
    IF source = "local_fallback" /\ scored /\ page.screen = "combat" THEN candidates(page) ELSE {top}

\* Scoring leaves a best candidate and a route that may want the model; an option can
\* want it too.  What is wanted may be blocked: tick limit, whitelist, no provider.
TickChooses ==
    /\ pc = "idle" /\ game.page.screen # "game_over" /\ (dry \/ ~backoff)
    /\ seen' = game /\ run' = updateFromState(game) /\ transition' = NoTransition
    /\ \E top \in candidates(game.page), scored \in classifyDecisionRoute(game.page),
          option, blocked \in BOOLEAN :
        LET wanted == scored \/ option
            local == inferSelectionSource("local", isForcedLocalDecision(game.page))
            source == IF wanted /\ blocked THEN "local_fallback" ELSE local
            asking == wanted /\ ~blocked
        IN  /\ pc' = IF asking THEN "asking" ELSE "decided"
            /\ \E chosen \in selectFallbackCandidate(game.page, source, scored, top) :
                 choice' = [NoChoice EXCEPT !.chosen = chosen, !.source = source,
                                            !.scored = asking /\ scored,
                                            !.proposed = top, !.proposedBy = local]
    /\ UNCHANGED <<game, moves, gate, restarts, dry, cardGuard, stuckGuard, backoff, learned, written,
                   sent>>

validateLlmDecisionForCandidates(answer, page) == answer \in candidates(page)

\* The model answers with a candidate, with something that is none, or not at all.  Until
\* there is an answer the proposal is the local one.
LlmAnswers ==
    /\ pc = "asking"
    /\ \E answer \in candidates(seen.page) \cup {"invalid"} :
        LET valid == validateLlmDecisionForCandidates(answer, seen.page)
            source == IF valid THEN "llm" ELSE "local_fallback"
            top == IF valid THEN answer ELSE choice.chosen
        IN  \E chosen \in selectFallbackCandidate(seen.page, source, choice.scored, top) :
                choice' = [choice EXCEPT !.chosen = chosen, !.source = source, !.scored = FALSE,
                                         !.proposed = answer, !.proposedBy = "llm", !.answer = answer]
    /\ pc' = "decided"
    /\ UNCHANGED <<game, moves, gate, restarts, dry, seen, cardGuard, stuckGuard, backoff, run,
                   learned, written, sent, transition>>

\* It throws, or returns null, which a model wanted by option only may do without blame.
LlmFails ==
    /\ pc = "asking"
    /\ \E throws \in BOOLEAN :
        LET source == IF throws \/ choice.scored THEN "local_fallback" ELSE choice.source
        IN  \E chosen \in selectFallbackCandidate(seen.page, source, choice.scored, choice.chosen) :
                choice' = [choice EXCEPT !.chosen = chosen, !.source = source, !.scored = FALSE]
    /\ pc' = "decided"
    /\ UNCHANGED <<game, moves, gate, restarts, dry, seen, cardGuard, stuckGuard, backoff, run,
                   learned, written, sent, transition>>

\* buildP8WorkspaceShadow, awaited between the choice and the guards: a second call of a
\* model with another prompt, whose answer is only logged.  Whether it is made (flags,
\* readiness, class, budgets) and how it ends is left open.
ShadowReturns ==
    /\ pc = "decided" /\ choice.shadow = "open"
    /\ \E shadow \in Shadows : choice' = [choice EXCEPT !.shadow = shadow]
    /\ UNCHANGED <<game, moves, gate, restarts, dry, pc, seen, cardGuard, stuckGuard, backoff, run,
                   learned, written, sent, transition>>

DryRunEnds ==
    /\ pc = "decided" /\ choice.shadow # "open" /\ dry
    /\ EndTick
    /\ UNCHANGED <<game, moves, gate, restarts, dry, cardGuard, stuckGuard, backoff, run,
                   learned, written, sent, transition>>

-----------------------------------------------------------------------------
(* The guards and the sending                                              *)

\* avoidRepeatedCardSelectToggle: the cards tried on this page without a visible effect.
guardOn(page, action) ==
    IF action \notin Toggles
    THEN IF page.screen # "card_select" THEN NoCards ELSE cardGuard
    ELSE IF cardGuard.fingerprint # stateFingerprint(page)
    THEN [fingerprint |-> stateFingerprint(page), selectedIndices |-> {}]
    ELSE cardGuard
avoidRepeatedCardSelectToggle(page, action) ==
    LET tried == guardOn(page, action).selectedIndices
    IN  IF action \notin Toggles \/ action \notin tried THEN {action}
        ELSE (candidates(page) \cap Toggles) \ tried

\* shouldBlockRepeatedNoProgressAction forgets the action once the page looks different.
stuckOn(page) == IF stuckGuard.fingerprint = stateFingerprint(page) THEN stuckGuard ELSE NotStuck

\* What was sent to a page counts for as long as no tick decides on another one.
sentHere == IF sent.fingerprint = stateFingerprint(seen.page) THEN sent
            ELSE [fingerprint |-> stateFingerprint(seen.page), entries |-> <<>>]
remember(action) ==
    LET all == Append(sentHere.entries, [action |-> action, outcome |-> "pending"])
    IN  [sentHere EXCEPT !.entries = IF Len(all) > MaxSends THEN Tail(all) ELSE all]

GuardWaits ==
    /\ pc = "decided" /\ choice.shadow # "open" /\ ~dry
    /\ LET guarded == avoidRepeatedCardSelectToggle(seen.page, choice.chosen)
       IN  \/ guarded = {} /\ UNCHANGED stuckGuard
           \/ /\ stuckOn(seen.page).actionSignature \in guarded
              /\ stuckGuard' = stuckOn(seen.page)
    /\ cardGuard' = guardOn(seen.page, choice.chosen)
    /\ sent' = sentHere
    /\ EndTick
    /\ UNCHANGED <<game, moves, gate, restarts, dry, backoff, run, learned, written, transition>>

Send ==
    /\ pc = "decided" /\ choice.shadow # "open" /\ ~dry
    /\ \E action \in avoidRepeatedCardSelectToggle(seen.page, choice.chosen) :
        /\ stuckOn(seen.page).actionSignature # action
        /\ choice' = IF action = choice.chosen THEN choice
                     ELSE [choice EXCEPT !.chosen = action, !.source = "local_safety_guard"]
        /\ sent' = remember(action)
    /\ cardGuard' = guardOn(seen.page, choice.chosen)
    /\ stuckGuard' = stuckOn(seen.page)
    /\ pc' = "executing"
    /\ UNCHANGED <<game, moves, gate, restarts, dry, seen, backoff, run, learned, written, transition>>

-----------------------------------------------------------------------------
(* Settlement                                                              *)

\* isSettled over the last page polled.  A card still in its place, or a round that has
\* not changed yet, keeps a changed page unsettled.
isSettled(before, after, action) ==
    IF stateFingerprint(before) = stateFingerprint(after) THEN {FALSE}
    ELSE IF action \in {"attack", "end_turn"} /\ before.screen = after.screen THEN BOOLEAN
    ELSE {TRUE}

NoteWhenSettled(settled, after, action) ==  \* changed: noted only when it settled
    IF settled /\ stateHash(seen.page) = stateHash(after)
    THEN [fingerprint |-> stateFingerprint(after), actionSignature |-> action]
    ELSE NotStuck
noteNoProgress(settled, after, action) ==
    IF ~settled /\ stateHash(seen.page) = stateHash(after)
    THEN [fingerprint |-> stateFingerprint(after), actionSignature |-> action]
    ELSE NotStuck

NoteLastCard(settled, after, action) ==  \* changed: only the last card is remembered
    IF action \notin Toggles \/ settled THEN NoCards
    ELSE [fingerprint |-> stateFingerprint(after), selectedIndices |-> {action}]
noteCardSelectSettlement(settled, after, action) ==
    IF after.screen # "card_select" THEN NoCards
    ELSE IF action \notin Toggles THEN cardGuard
    ELSE IF settled THEN NoCards
    ELSE [fingerprint |-> stateFingerprint(after),
          selectedIndices |-> {action} \cup (IF cardGuard.fingerprint = stateFingerprint(after)
                                             THEN cardGuard.selectedIndices ELSE {})]

withOutcome(outcome) == [sent EXCEPT !.entries[Len(sent.entries)].outcome = outcome]
sentAfter(settled, after) ==
    IF settled THEN NothingSent
    ELSE withOutcome(IF stateHash(seen.page) = stateHash(after) THEN "still" ELSE "unsettled")

Settles ==
    /\ pc = "executing" /\ choice.chosen # "main_menu"
    /\ \E settled \in isSettled(seen.page, game.page, choice.chosen) :
        /\ stuckGuard' = noteNoProgress(settled, game.page, choice.chosen)
        /\ cardGuard' = noteCardSelectSettlement(settled, game.page, choice.chosen)
        /\ backoff' = ~settled
        /\ sent' = sentAfter(settled, game.page)
    /\ pc' = "logging"
    /\ UNCHANGED <<game, moves, gate, restarts, dry, seen, choice, run, learned, written, transition>>

\* The menu is sent outside the guards, its settlement is not noted, and its shadow call
\* comes after it.
MenuSettles ==
    /\ pc = "executing" /\ choice.chosen = "main_menu"
    /\ pc' = "recording"
    /\ \E shadow \in Shadows : choice' = [choice EXCEPT !.shadow = shadow]
    /\ UNCHANGED <<game, moves, gate, restarts, dry, seen, cardGuard, stuckGuard, backoff, run,
                   learned, written, sent, transition>>

\* The Host refuses, or the action is taken and the polling fails: the tick cannot tell.
SendFails ==
    /\ pc = "executing"
    /\ EndTick
    /\ IF choice.chosen = "main_menu" THEN UNCHANGED <<sent, backoff>>
       ELSE /\ sent' = withOutcome("failed")
            /\ backoff' \in {backoff, TRUE}
    /\ UNCHANGED <<game, moves, gate, restarts, dry, cardGuard, stuckGuard, run, learned, written,
                   transition>>

\* recordDecision: the entry makes the run one with evidence.
LogDecision ==
    /\ pc = "logging"
    /\ run' = [run EXCEPT !.games = @ \cup {seen.number}]
    /\ pc' = "recording"
    /\ UNCHANGED <<game, moves, gate, restarts, dry, seen, choice, cardGuard, stuckGuard, backoff,
                   learned, written, sent, transition>>

\* The record of the menu is inferred by the recorder.
resolutionOf(c, page) ==
    IF c.chosen = "main_menu"
    THEN buildSelectionResolutionRecord(c.chosen, c.source, c.chosen, c.source, {c.chosen})
    ELSE buildSelectionResolutionRecord(c.proposed, c.proposedBy, c.chosen, c.source, candidates(page))
transitionOf(c, page, env) ==
    [env |-> env, shadow |-> c.shadow, resolution |-> resolutionOf(c, page),
     authority |-> c.source, mismatch |-> c.answer \notin {NoCandidate, c.chosen}]

\* buildEnvironmentFingerprint and its scope, from the STS2 variables of the process: by
\* default they are not set, and the identity is not complete.
fingerprintScopes == {"organic", "incomplete"}

recordAgentDecision ==
    /\ pc = "recording"
    /\ \E env \in fingerprintScopes :
        transition' = [log |-> transitionOf(choice, seen.page, env),
                       own |-> choice.answer = choice.chosen]
    /\ EndTick
    /\ UNCHANGED <<game, moves, gate, restarts, dry, cardGuard, stuckGuard, backoff, run, learned,
                   written, sent>>

\* The process ends, anywhere: it is stopped, or a read or a write throws.  The next one
\* finds current-run.json and the learned stores as they are.
Restart ==
    /\ restarts < MaxRestarts
    /\ restarts' = restarts + 1
    /\ dry' \in BOOLEAN
    /\ learned' = IF pc = "finalizing" THEN [learned EXCEPT ![seen.number].cut = @ + 1] ELSE learned
    /\ EndTick /\ written' = {} /\ sent' = NothingSent /\ transition' = NoTransition
    /\ cardGuard' = NoCards /\ stuckGuard' = NotStuck /\ backoff' = FALSE
    /\ UNCHANGED <<game, moves, gate, run>>

Next ==
    \/ GameMoves \/ TickWaits \/ BackoffEnds \/ TickGameOver \/ FinalizeStore \/ FinalizeEnds
    \/ TickChooses \/ LlmAnswers \/ LlmFails \/ ShadowReturns \/ DryRunEnds
    \/ GuardWaits \/ Send
    \/ Settles \/ MenuSettles \/ SendFails \/ LogDecision \/ recordAgentDecision \/ Restart

Spec == Init /\ [][Next]_vars

-----------------------------------------------------------------------------
(* Properties                                                              *)

Fingerprints == {stateFingerprint(page) : page \in Pages}
Candidates == Actions \cup {NoCandidate, "invalid"}
Sources == Actors \cup {"none"}

Choices == [chosen : Actions \cup {NoCandidate}, source : Sources, scored : BOOLEAN,
            proposed : Candidates, proposedBy : Sources, answer : Candidates,
            shadow : Shadows \cup {"open"}]
CardGuards == [fingerprint : Fingerprints \cup {<<>>}, selectedIndices : SUBSET Toggles]
StuckGuards == [fingerprint : Fingerprints \cup {<<>>}, actionSignature : Actions \cup {NoCandidate}]
Runs == [floor : Nat, hero : Heroes, games : SUBSET Games]
Stores == {"longTerm", "experience", "strategy", "audit"}
Learned == [longTerm : Nat, experience : Nat, strategy : Nat, audit : Nat, cut : Nat]
Entries == [action : Actions, outcome : {"pending", "still", "unsettled", "failed"}]
Sendings == [fingerprint : Fingerprints \cup {<<>>}, entries : Seq(Entries)]

\* Every variable has its type.
TypeOK ==
    /\ game \in Reads /\ seen \in Reads \cup {NotSeen}
    /\ moves \in 0..MaxMoves /\ game.number <= moves + 1
    /\ restarts \in 0..MaxRestarts /\ gate \in BOOLEAN /\ dry \in BOOLEAN /\ backoff \in BOOLEAN
    /\ pc \in {"idle", "asking", "decided", "executing", "logging", "recording", "finalizing"}
    /\ choice \in Choices /\ cardGuard \in CardGuards /\ stuckGuard \in StuckGuards
    /\ run \in Runs /\ learned \in [Games -> Learned] /\ written \subseteq Stores
    /\ sent \in Sendings

\* The log says that the model selected what was executed exactly when it did: through
\* every fallback, guard and failed answer, a transition has the role of the model's own
\* choice if and only if the model's answer in that tick is the executed candidate.  It
\* seeds a proposal only from an exact organic environment, and there for that choice or
\* for a clean answer of the workspace shadow, and for nothing else.
LlmEvidenceIsTrue ==
    /\ "llm_selected_execution" \in sourceEvidence(transition.log) <=> transition.own
    /\ proposalSeedEligible(transition.log) <=>
         transition.log.env = "organic" /\ (transition.own \/ transition.log.shadow = "clean")

\* An action that changed nothing is not sent again to the same page by this process,
\* whatever sends failed in between, unless a tick decided on another page meanwhile
\* (controller.ts noProgressActionGuard).
NoBlindRepeat ==
    \A i, j \in DOMAIN sent.entries :
        (/\ i < j /\ sent.entries[i].outcome = "still"
         /\ \A k \in i + 1..j - 1 : sent.entries[k].outcome = "failed")
        => sent.entries[j].action # sent.entries[i].action

\* A card that was toggled without a visible effect, and is perhaps selected now, is not
\* toggled back on the same page, however many other cards were tried since, until an
\* action settles there or a tick decides elsewhere (controller.ts cardSelectGuard).
PickedOnce ==
    \A i, j \in DOMAIN sent.entries :
        (i < j /\ sent.entries[i].action \in Toggles /\ sent.entries[i].outcome \in {"still", "unsettled"})
        => sent.entries[j].action # sent.entries[i].action

\* A game is learned from once, and never with the gate closed; every further time, and
\* every store written without its audit line, is one end of the process in the middle
\* of finalizeRun.
LearnedOnce ==
    \A n \in Games :
        LET l == learned[n]
            open == IF pc = "finalizing" /\ n = seen.number THEN 1 ELSE 0
        IN  /\ ~gate => l.longTerm = 0 /\ l.experience = 0 /\ l.strategy = 0
            /\ l.longTerm >= l.experience /\ l.experience >= l.strategy
            /\ l.audit <= 1 + l.cut /\ l.longTerm <= 1 + l.cut
            /\ gate => l.strategy >= l.audit /\ l.longTerm <= l.audit + l.cut + open
=============================================================================
