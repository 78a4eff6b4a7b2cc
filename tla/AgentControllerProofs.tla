------------------------ MODULE AgentControllerProofs ------------------------
(***************************************************************************)
(* Theorems about the agent's tick, for every set of pages and all bounds. *)
(***************************************************************************)
EXTENDS AgentController, TLAPS

\* A tick under way looks at a page it read and has chosen an action for it.
Choosing == {"asking", "decided", "executing", "logging", "recording"}
UnderWay ==
    /\ pc \in Choosing \cup {"finalizing"} => seen \in Reads
    /\ pc \in Choosing => choice.chosen \in Actions

TInv == TypeOK /\ UnderWay

LEMMA CandidatesAreActions ==
    ASSUME NEW page
    PROVE  candidates(page) \subseteq Actions \ {"main_menu"} \/ candidates(page) = {"main_menu"}
BY DEF candidates, generateCombatCandidates, generateCardSelectCandidates, Actions, Toggles

LEMMA CandidatesOffTheEnd ==
    ASSUME NEW page, page.screen # "game_over"
    PROVE  candidates(page) \subseteq Actions \ {"main_menu"}
BY DEF candidates, generateCombatCandidates, generateCardSelectCandidates, Actions, Toggles

LEMMA FallbackIsCandidate ==
    ASSUME NEW page, NEW source, NEW scored, NEW top,
           NEW chosen \in selectFallbackCandidate(page, source, scored, top)
    PROVE  chosen = top \/ chosen \in candidates(page)
BY DEF selectFallbackCandidate

LEMMA GuardedIsCandidate ==
    ASSUME NEW page, NEW action, NEW guarded \in avoidRepeatedCardSelectToggle(page, action)
    PROVE  guarded = action \/ (guarded \in Toggles /\ guarded \in candidates(page))
BY DEF avoidRepeatedCardSelectToggle

LEMMA SourceTypes ==
    ASSUME NEW forced \in BOOLEAN
    PROVE  inferSelectionSource("local", forced) \in Actors \ {"llm", "local_fallback"}
BY DEF inferSelectionSource, Actors

\* What the three steps that choose leave in the choice.
LEMMA TickDecides ==
    ASSUME TickChooses
    PROVE  \E top, chosen \in candidates(game.page), source, local \in Actors \ {"llm"},
              scored \in BOOLEAN :
             choice' = [NoChoice EXCEPT !.chosen = chosen, !.source = source, !.scored = scored,
                                        !.proposed = top, !.proposedBy = local]
<1> PICK top \in candidates(game.page), route \in classifyDecisionRoute(game.page),
         option \in BOOLEAN, blocked \in BOOLEAN :
      LET wanted == route \/ option
          local == inferSelectionSource("local", isForcedLocalDecision(game.page))
          source == IF wanted /\ blocked THEN "local_fallback" ELSE local
          asking == wanted /\ ~blocked
      IN  /\ pc' = IF asking THEN "asking" ELSE "decided"
          /\ \E chosen \in selectFallbackCandidate(game.page, source, route, top) :
               choice' = [NoChoice EXCEPT !.chosen = chosen, !.source = source,
                                          !.scored = asking /\ route,
                                          !.proposed = top, !.proposedBy = local]
  BY Zenon DEF TickChooses
<1> DEFINE local == inferSelectionSource("local", isForcedLocalDecision(game.page))
           source == IF (route \/ option) /\ blocked THEN "local_fallback" ELSE local
           scored == ((route \/ option) /\ ~blocked) /\ route
<1>1. PICK chosen \in selectFallbackCandidate(game.page, source, route, top) :
        choice' = [NoChoice EXCEPT !.chosen = chosen, !.source = source, !.scored = scored,
                                   !.proposed = top, !.proposedBy = local]
  BY Zenon
<1>2. chosen \in candidates(game.page)
  BY FallbackIsCandidate
<1>3. isForcedLocalDecision(game.page) \in BOOLEAN
  BY DEF isForcedLocalDecision
<1>4. local \in Actors \ {"llm"}
  BY <1>3, SourceTypes
<1>5. source \in Actors \ {"llm"}
  BY <1>4 DEF Actors
<1>6. scored \in BOOLEAN
  BY DEF classifyDecisionRoute
<1> HIDE DEF local, source, scored
<1> QED BY <1>1, <1>2, <1>4, <1>5, <1>6

LEMMA AnswerDecides ==
    ASSUME LlmAnswers
    PROVE  \E answer \in candidates(seen.page) \cup {"invalid"},
              chosen \in candidates(seen.page) \cup {choice.chosen}, source \in {"llm", "local_fallback"} :
             /\ choice' = [choice EXCEPT !.chosen = chosen, !.source = source, !.scored = FALSE,
                                         !.proposed = answer, !.proposedBy = "llm", !.answer = answer]
             /\ answer \in candidates(seen.page) => chosen = answer /\ source = "llm"
             /\ answer \notin candidates(seen.page) => source = "local_fallback"
<1> PICK answer \in candidates(seen.page) \cup {"invalid"} :
      LET valid == validateLlmDecisionForCandidates(answer, seen.page)
          source == IF valid THEN "llm" ELSE "local_fallback"
          top == IF valid THEN answer ELSE choice.chosen
      IN  \E chosen \in selectFallbackCandidate(seen.page, source, choice.scored, top) :
              choice' = [choice EXCEPT !.chosen = chosen, !.source = source, !.scored = FALSE,
                                       !.proposed = answer, !.proposedBy = "llm", !.answer = answer]
  BY DEF LlmAnswers
<1>1. CASE answer \in candidates(seen.page)
  <2>1. \E chosen \in selectFallbackCandidate(seen.page, "llm", choice.scored, answer) :
           choice' = [choice EXCEPT !.chosen = chosen, !.source = "llm", !.scored = FALSE,
                                    !.proposed = answer, !.proposedBy = "llm", !.answer = answer]
    BY <1>1 DEF validateLlmDecisionForCandidates
  <2>2. selectFallbackCandidate(seen.page, "llm", choice.scored, answer) = {answer}
    BY DEF selectFallbackCandidate
  <2> QED BY <1>1, <2>1, <2>2
<1>2. CASE answer \notin candidates(seen.page)
  <2>1. \E chosen \in selectFallbackCandidate(seen.page, "local_fallback", choice.scored, choice.chosen) :
           choice' = [choice EXCEPT !.chosen = chosen, !.source = "local_fallback", !.scored = FALSE,
                                    !.proposed = answer, !.proposedBy = "llm", !.answer = answer]
    BY <1>2 DEF validateLlmDecisionForCandidates
  <2> QED BY <1>2, <2>1, FallbackIsCandidate
<1> QED BY <1>1, <1>2

LEMMA FailureDecides ==
    ASSUME LlmFails
    PROVE  \E chosen \in candidates(seen.page) \cup {choice.chosen},
              source \in {"local_fallback", choice.source} :
             choice' = [choice EXCEPT !.chosen = chosen, !.source = source, !.scored = FALSE]
<1> PICK throws \in BOOLEAN :
      LET source == IF throws \/ choice.scored THEN "local_fallback" ELSE choice.source
      IN  \E chosen \in selectFallbackCandidate(seen.page, source, choice.scored, choice.chosen) :
              choice' = [choice EXCEPT !.chosen = chosen, !.source = source, !.scored = FALSE]
  BY DEF LlmFails
<1> DEFINE source == IF throws \/ choice.scored THEN "local_fallback" ELSE choice.source
<1>1. PICK chosen \in selectFallbackCandidate(seen.page, source, choice.scored, choice.chosen) :
        choice' = [choice EXCEPT !.chosen = chosen, !.source = source, !.scored = FALSE]
  OBVIOUS
<1>2. source \in {"local_fallback", choice.source}
  OBVIOUS
<1> HIDE DEF source
<1> QED BY <1>1, <1>2, FallbackIsCandidate

\* A shadow call changes nothing else in the choice.
LEMMA ShadowOnly ==
    ASSUME choice \in Choices, ShadowReturns \/ MenuSettles
    PROVE  /\ choice' \in Choices
           /\ choice'.chosen = choice.chosen /\ choice'.source = choice.source
           /\ choice'.proposed = choice.proposed /\ choice'.proposedBy = choice.proposedBy
           /\ choice'.answer = choice.answer
<1> PICK shadow \in Shadows : choice' = [choice EXCEPT !.shadow = shadow]
  BY DEF ShadowReturns, MenuSettles
<1> QED BY DEF Choices

LEMMA PagesHaveTypes ==
    ASSUME NEW page \in Pages
    PROVE  /\ page.floor \in Nat /\ page.hero \in Heroes
           /\ stateFingerprint(page) \in Fingerprints
BY PagesAssumption DEF PageType, Fingerprints

LEMMA ReadsHaveTypes ==
    ASSUME NEW read \in Reads
    PROVE  read.page \in Pages /\ read.number \in Games
BY DEF Reads

LEMMA UpdateType ==
    ASSUME NEW read \in Reads, run \in Runs
    PROVE  updateFromState(read) \in Runs
<1>1. NewRun \in Runs
  BY DEF NewRun, Runs, Heroes
<1>2. read.page.floor \in Nat /\ read.page.hero \in Heroes /\ read.number \in Games
  BY ReadsHaveTypes, PagesHaveTypes
<1> QED BY <1>1, <1>2 DEF updateFromState, Runs

LEMMA OutcomeType ==
    ASSUME NEW entries \in Seq(Entries), NEW n, NEW outcome \in {"pending", "still", "unsettled", "failed"}
    PROVE  [entries EXCEPT ![n].outcome = outcome] \in Seq(Entries)
<1> DEFINE new == [entries EXCEPT ![n].outcome = outcome]
<1>1. Len(entries) \in Nat /\ DOMAIN entries = 1..Len(entries)
  OBVIOUS
<1>2. \A i \in 1..Len(entries) : entries[i] \in Entries
  OBVIOUS
<1>3. new \in [1..Len(entries) -> Entries]
  BY <1>1, <1>2 DEF Entries
<1> QED BY <1>1, <1>3

LEMMA RememberedType ==
    ASSUME NEW entries \in Seq(Entries), NEW action \in Actions
    PROVE  LET all == Append(entries, [action |-> action, outcome |-> "pending"])
           IN  all \in Seq(Entries) /\ all # <<>> /\ Tail(all) \in Seq(Entries)
<1>1. [action |-> action, outcome |-> "pending"] \in Entries
  BY DEF Entries
<1> QED BY <1>1
-----------------------------------------------------------------------------
(* Types                                                                   *)

LEMMA Constants ==
    /\ NoChoice \in Choices /\ NoCards \in CardGuards /\ NotStuck \in StuckGuards
    /\ NothingSent \in Sendings /\ NotLearned \in Learned
    /\ NewRun \in Runs
<1>1. NoChoice \in Choices
  BY DEF NoChoice, Choices, Sources, Candidates, NoCandidate
<1>2. NoCards \in CardGuards /\ NotStuck \in StuckGuards
  BY DEF NoCards, NotStuck, CardGuards, StuckGuards
<1>3. NothingSent \in Sendings
  BY DEF NothingSent, Sendings
<1> QED BY <1>1, <1>2, <1>3 DEF NotLearned, Learned, NewRun, Runs, Heroes

LEMMA TInvInit == Init => TInv
<1> SUFFICES ASSUME Init PROVE TInv
  OBVIOUS
<1>1. game \in Reads /\ game.number <= moves + 1
  BY BoundsAssumption DEF Init, Reads, Games
<1>2. learned \in [Games -> Learned]
  BY Constants DEF Init
<1>3. UnderWay
  BY DEF Init, UnderWay, Choosing
<1>4. moves \in 0..MaxMoves /\ restarts \in 0..MaxRestarts
  BY BoundsAssumption DEF Init
<1>5. written \subseteq Stores /\ backoff \in BOOLEAN
  BY DEF Init
<1>6. choice \in Choices /\ cardGuard \in CardGuards /\ stuckGuard \in StuckGuards /\ sent \in Sendings
  BY Constants DEF Init
<1>7. run \in Runs /\ seen = NotSeen /\ pc = "idle"
  BY Constants DEF Init
<1>8. gate \in BOOLEAN /\ dry \in BOOLEAN
  BY DEF Init
<1> QED BY <1>1, <1>2, <1>3, <1>4, <1>5, <1>6, <1>7, <1>8 DEF TInv, TypeOK

\* What every tick starts with.
LEMMA TickReads ==
    ASSUME TInv
    PROVE  updateFromState(game) \in Runs
BY UpdateType DEF TInv, TypeOK

LEMMA MenuType ==
    ASSUME TInv, NEW read \in Reads, read.page.screen = "game_over", returnToMenu(read)
    PROVE  /\ pc' \in {"idle", "executing"}
           /\ seen' \in Reads \cup {NotSeen} /\ choice' \in Choices
           /\ UnderWay'
<1>1. CASE pc' = "executing" /\ seen' = read
              /\ choice' = [NoChoice EXCEPT !.chosen = "main_menu", !.source = "local_mechanical"]
  <2>1. choice' \in Choices /\ choice'.chosen = "main_menu"
    BY <1>1, Constants DEF NoChoice, Choices, Sources, Actors, Actions
  <2> QED BY <1>1, <2>1 DEF UnderWay, Choosing, Actions
<1>2. CASE EndTick
  BY <1>2, Constants DEF EndTick, UnderWay, Choosing
<1> QED BY <1>1, <1>2 DEF returnToMenu

LEMMA GuardTypes ==
    ASSUME TInv, seen \in Reads
    PROVE  /\ \A action : guardOn(seen.page, action) \in CardGuards
           /\ stuckOn(seen.page) \in StuckGuards
           /\ sentHere \in Sendings
           /\ \A action \in Actions : remember(action) \in Sendings
<1>1. stateFingerprint(seen.page) \in Fingerprints
  BY ReadsHaveTypes, PagesHaveTypes
<1>2. cardGuard \in CardGuards /\ stuckGuard \in StuckGuards /\ sent \in Sendings
  BY DEF TInv, TypeOK
<1>3. \A action : guardOn(seen.page, action) \in CardGuards
  BY <1>1, <1>2, Constants DEF guardOn, CardGuards
<1>4. sentHere \in Sendings
  BY <1>1, <1>2 DEF sentHere, Sendings
<1>5. ASSUME NEW action \in Actions PROVE remember(action) \in Sendings
  <2> DEFINE all == Append(sentHere.entries, [action |-> action, outcome |-> "pending"])
  <2>1. all \in Seq(Entries) /\ Tail(all) \in Seq(Entries)
    BY <1>4, RememberedType DEF Sendings
  <2>2. remember(action) = [sentHere EXCEPT !.entries = IF Len(all) > MaxSends THEN Tail(all) ELSE all]
    BY DEF remember
  <2> HIDE DEF all
  <2> QED BY <1>4, <2>1, <2>2 DEF Sendings
<1> QED BY <1>2, <1>3, <1>4, <1>5, Constants DEF stuckOn

LEMMA OutcomesNoted ==
    ASSUME TInv, NEW outcome \in {"pending", "still", "unsettled", "failed"}
    PROVE  withOutcome(outcome) \in Sendings
<1>1. sent \in Sendings
  BY DEF TInv, TypeOK
<1>2. [sent.entries EXCEPT ![Len(sent.entries)].outcome = outcome] \in Seq(Entries)
  BY <1>1, OutcomeType DEF Sendings
<1> QED BY <1>1, <1>2 DEF withOutcome, Sendings

LEMMA TInvNext == TInv /\ [Next]_vars => TInv'
<1> SUFFICES ASSUME TInv, [Next]_vars PROVE TInv'
  OBVIOUS
<1> USE DEF TInv, TypeOK
<1>1. CASE GameMoves
  <2> PICK page \in Pages :
        LET over == \/ game.page.screen = "game_over" /\ page.screen # "game_over"
                    \/ page.floor < game.page.floor
                    \/ "unknown" \notin {page.hero, game.page.hero} /\ page.hero # game.page.hero
        IN  game' = [page |-> page, number |-> IF over THEN game.number + 1 ELSE game.number]
    BY <1>1 DEF GameMoves
  <2>1. moves' \in 0..MaxMoves /\ moves' = moves + 1
    BY <1>1, BoundsAssumption DEF GameMoves
  <2>2. game' \in Reads /\ game'.number <= moves' + 1
    <3>1. game.number \in Games
      BY ReadsHaveTypes
    <3>2. game'.page \in Pages /\ game'.number \in {game.number, game.number + 1}
      BY DEF Reads
    <3> QED BY <2>1, <3>1, <3>2, BoundsAssumption DEF Reads, Games
  <2>3. UnderWay'
    BY <1>1 DEF GameMoves, UnderWay
  <2> QED BY <1>1, <2>1, <2>2, <2>3 DEF GameMoves
<1>2. CASE TickWaits
  BY <1>2, TickReads DEF TickWaits, UnderWay, Choosing
<1>3. CASE BackoffEnds
  BY <1>3 DEF BackoffEnds, UnderWay, Choosing
<1>4. CASE TickGameOver
  <2>1. run' \in Runs
    BY <1>4, TickReads DEF TickGameOver
  <2>2. CASE pc' = "finalizing" /\ choice' = NoChoice /\ seen' = game
    <3>1. UnderWay'
      BY <2>2 DEF UnderWay, Choosing
    <3> QED BY <1>4, <2>1, <2>2, <3>1, Constants DEF TickGameOver
  <2>3. CASE returnToMenu(game)
    BY <1>4, <2>1, <2>3, MenuType DEF TickGameOver
  <2> QED BY <1>4, <2>2, <2>3 DEF TickGameOver
<1>5. CASE FinalizeStore
  <2>1. seen \in Reads /\ seen.number \in Games
    BY <1>5, ReadsHaveTypes DEF FinalizeStore, UnderWay
  <2>2. nextStore \in Stores
    BY DEF nextStore, Stores
  <2>3. learned[seen.number] \in Learned
    BY <2>1
  <2>4. [learned[seen.number] EXCEPT ![nextStore] = @ + 1] \in Learned
    BY <2>2, <2>3 DEF Learned, Stores
  <2>5. learned' \in [Games -> Learned]
    BY <1>5, <2>1, <2>4 DEF FinalizeStore
  <2>6. UnderWay'
    BY <1>5 DEF FinalizeStore, UnderWay, Choosing
  <2> QED BY <1>5, <2>2, <2>5, <2>6 DEF FinalizeStore
<1>6. CASE FinalizeEnds
  <2>1. seen \in Reads /\ run' \in Runs
    BY <1>6, Constants DEF FinalizeEnds, runAfterFinalize, UnderWay
  <2>2. CASE pc' = "executing" /\ seen' = seen
    <3>1. choice' = [NoChoice EXCEPT !.chosen = "main_menu", !.source = "local_mechanical"]
      BY <1>6, <2>2 DEF FinalizeEnds, returnToMenu, EndTick
    <3>2. choice' \in Choices /\ choice'.chosen = "main_menu"
      BY <3>1, Constants DEF NoChoice, Choices, Sources, Actors, Actions
    <3>3. UnderWay'
      BY <2>1, <2>2, <3>2 DEF UnderWay, Choosing, Actions
    <3> QED BY <1>6, <2>1, <2>2, <3>2, <3>3 DEF FinalizeEnds
  <2>3. CASE EndTick
    BY <1>6, <2>1, <2>3, Constants DEF FinalizeEnds, EndTick, UnderWay, Choosing
  <2> QED BY <1>6, <2>2, <2>3 DEF FinalizeEnds, returnToMenu
<1>7. CASE TickChooses
  <2> PICK top \in candidates(game.page), chosen \in candidates(game.page),
           source \in Actors \ {"llm"}, local \in Actors \ {"llm"}, scored \in BOOLEAN :
         choice' = [NoChoice EXCEPT !.chosen = chosen, !.source = source, !.scored = scored,
                                    !.proposed = top, !.proposedBy = local]
    BY <1>7, TickDecides
  <2>1. top \in Actions /\ chosen \in Actions
    BY CandidatesAreActions DEF Actions
  <2>2. choice' \in Choices /\ choice'.chosen \in Actions
    BY <2>1, Constants DEF Choices, Candidates, Sources
  <2>3. pc' \in {"asking", "decided"} /\ seen' = game
    BY <1>7 DEF TickChooses
  <2>4. UnderWay'
    BY <2>2, <2>3 DEF UnderWay
  <2>5. run' \in Runs
    BY <1>7, TickReads DEF TickChooses
  <2> QED BY <1>7, <2>2, <2>3, <2>4, <2>5 DEF TickChooses
<1>8. CASE LlmAnswers
  <2> PICK answer \in candidates(seen.page) \cup {"invalid"},
              chosen \in candidates(seen.page) \cup {choice.chosen}, source \in {"llm", "local_fallback"} :
        choice' = [choice EXCEPT !.chosen = chosen, !.source = source, !.scored = FALSE,
                                 !.proposed = answer, !.proposedBy = "llm", !.answer = answer]
    BY <1>8, AnswerDecides
  <2>1. candidates(seen.page) \subseteq Actions /\ choice.chosen \in Actions /\ seen \in Reads
    BY <1>8, CandidatesAreActions DEF LlmAnswers, UnderWay, Choosing, Actions
  <2>2. choice' \in Choices /\ choice'.chosen \in Actions
    BY <2>1 DEF Choices, Candidates, Sources, Actors
  <2>3. UnderWay'
    BY <1>8, <2>1, <2>2 DEF LlmAnswers, UnderWay
  <2> QED BY <1>8, <2>2, <2>3 DEF LlmAnswers
<1>9. CASE LlmFails
  <2> PICK chosen \in candidates(seen.page) \cup {choice.chosen},
              source \in {"local_fallback", choice.source} :
        choice' = [choice EXCEPT !.chosen = chosen, !.source = source, !.scored = FALSE]
    BY <1>9, FailureDecides
  <2>1. seen \in Reads /\ chosen \in Actions
    BY <1>9, CandidatesAreActions DEF LlmFails, UnderWay, Choosing, Actions
  <2>2. choice' \in Choices /\ choice'.chosen \in Actions
    BY <2>1 DEF Choices, Sources, Actors
  <2>3. UnderWay'
    BY <1>9, <2>1, <2>2 DEF LlmFails, UnderWay
  <2> QED BY <1>9, <2>2, <2>3 DEF LlmFails
<1>10. CASE DryRunEnds
  BY <1>10, Constants DEF DryRunEnds, EndTick, UnderWay, Choosing
<1>11. CASE GuardWaits
  <2>1. seen \in Reads
    BY <1>11 DEF GuardWaits, UnderWay, Choosing
  <2>2. cardGuard' \in CardGuards /\ stuckGuard' \in StuckGuards /\ sent' \in Sendings
    BY <1>11, <2>1, GuardTypes DEF GuardWaits
  <2> QED BY <1>11, <2>2, Constants DEF GuardWaits, EndTick, UnderWay, Choosing
<1>12. CASE Send
  <2> PICK action \in avoidRepeatedCardSelectToggle(seen.page, choice.chosen) :
        /\ choice' = IF action = choice.chosen THEN choice
                     ELSE [choice EXCEPT !.chosen = action, !.source = "local_safety_guard"]
        /\ sent' = remember(action)
    BY <1>12 DEF Send
  <2>1. seen \in Reads /\ choice.chosen \in Actions
    BY <1>12 DEF Send, UnderWay, Choosing
  <2>2. action \in Actions
    BY <2>1, GuardedIsCandidate DEF Actions
  <2>3. cardGuard' \in CardGuards /\ stuckGuard' \in StuckGuards /\ sent' \in Sendings
    BY <1>12, <2>1, <2>2, GuardTypes DEF Send
  <2>4. choice' \in Choices /\ choice'.chosen \in Actions
    BY <2>1, <2>2 DEF Choices, Sources, Actors
  <2>5. UnderWay'
    BY <1>12, <2>1, <2>4 DEF Send, UnderWay
  <2> QED BY <1>12, <2>3, <2>4, <2>5 DEF Send
<1>13. CASE Settles
  <2> PICK settled \in isSettled(seen.page, game.page, choice.chosen) :
        /\ stuckGuard' = noteNoProgress(settled, game.page, choice.chosen)
        /\ cardGuard' = noteCardSelectSettlement(settled, game.page, choice.chosen)
        /\ backoff' = ~settled
        /\ sent' = sentAfter(settled, game.page)
    BY <1>13 DEF Settles
  <2>1. seen \in Reads /\ choice.chosen \in Actions
    BY <1>13 DEF Settles, UnderWay, Choosing
  <2>2. stateFingerprint(game.page) \in Fingerprints
    BY ReadsHaveTypes, PagesHaveTypes
  <2>3. stuckGuard' \in StuckGuards
    BY <2>1, <2>2, Constants DEF noteNoProgress, StuckGuards
  <2>4. cardGuard' \in CardGuards
    BY <2>1, <2>2, Constants DEF noteCardSelectSettlement, CardGuards
  <2>5. sent' \in Sendings
    BY OutcomesNoted, Constants DEF sentAfter
  <2>6. backoff' \in BOOLEAN
    OBVIOUS
  <2>7. UnderWay'
    BY <1>13, <2>1 DEF Settles, UnderWay
  <2> QED BY <1>13, <2>3, <2>4, <2>5, <2>6, <2>7 DEF Settles
<1>14. CASE MenuSettles
  BY <1>14, ShadowOnly DEF MenuSettles, UnderWay, Choosing
<1>15. CASE SendFails
  <2>1. sent' \in Sendings /\ backoff' \in BOOLEAN
    BY <1>15, OutcomesNoted DEF SendFails
  <2> QED BY <1>15, <2>1, Constants DEF SendFails, EndTick, UnderWay, Choosing
<1>16. CASE LogDecision
  <2>1. seen.number \in Games
    BY <1>16, ReadsHaveTypes DEF LogDecision, UnderWay, Choosing
  <2>2. run' \in Runs
    BY <1>16, <2>1 DEF LogDecision, Runs
  <2> QED BY <1>16, <2>2 DEF LogDecision, UnderWay, Choosing
<1>17. CASE recordAgentDecision
  BY <1>17, Constants DEF recordAgentDecision, EndTick, UnderWay, Choosing
<1>18. CASE Restart
  <2>1. restarts' \in 0..MaxRestarts
    BY <1>18, BoundsAssumption DEF Restart
  <2>2. learned' \in [Games -> Learned]
    <3>1. seen.number \in Games => [learned[seen.number] EXCEPT !.cut = @ + 1] \in Learned
      BY DEF Learned
    <3> QED BY <1>18, <3>1 DEF Restart
  <2>3. UnderWay'
    BY <1>18 DEF Restart, EndTick, UnderWay, Choosing
  <2> QED BY <1>18, <2>1, <2>2, <2>3, Constants DEF Restart, EndTick
<1>19. CASE ShadowReturns
  BY <1>19, ShadowOnly DEF ShadowReturns, UnderWay, Choosing
<1>20. CASE UNCHANGED vars
  BY <1>20 DEF vars, UnderWay
<1> QED BY <1>1, <1>2, <1>3, <1>4, <1>5, <1>6, <1>7, <1>8, <1>9, <1>10, <1>11, <1>12, <1>13, <1>14,
           <1>15, <1>16, <1>17, <1>18, <1>19, <1>20 DEF Next

LEMMA TInvAlways == Spec => []TInv
<1> QED BY TInvInit, TInvNext, PTL DEF Spec

\* The tick's variables keep their types for all pages and bounds.
THEOREM TypeCorrect == Spec => []TypeOK
<1>1. TInv => TypeOK
  BY DEF TInv
<1> QED BY <1>1, TInvAlways, PTL
-----------------------------------------------------------------------------
(* The log names the model exactly when it chose                           *)

\* What a tick carries along about its choice.  An answer is the model's proposal, and it
\* is chosen if and only if the source still says so.  Until it is sent there is no menu.
ChoiceIsAttributed ==
    /\ pc \in {"asking", "decided"} => seen.page.screen # "game_over" /\ choice.chosen # "main_menu"
    /\ pc = "asking" => choice.answer = NoCandidate
    /\ pc = "decided" => choice.answer \in {NoCandidate, "invalid"} \/ choice.source = "llm"
    /\ choice.chosen = "main_menu" => choice.source = "local_mechanical"
    /\ choice.chosen \notin {"main_menu", NoCandidate} => choice.proposedBy \in Actors
    /\ choice.answer = NoCandidate => choice.proposedBy # "llm"
    /\ choice.answer # NoCandidate =>
        /\ choice.chosen # "main_menu" /\ choice.proposedBy = "llm" /\ choice.proposed = choice.answer
        /\ \/ choice.source = "llm" /\ choice.chosen = choice.answer
              /\ choice.chosen \in candidates(seen.page)
           \/ choice.source # "llm" /\ choice.chosen # choice.answer

EvidenceInv == TInv /\ ChoiceIsAttributed /\ LlmEvidenceIsTrue

\* A transition with a record has the role of the model's choice by that record alone, and
\* seeds a proposal for that role or for a clean shadow.
LEMMA EvidenceOfRecord ==
    ASSUME NEW t, t.resolution # NotRecorded, t.resolution.proposed \in Actors,
           t.resolution.eligible \in BOOLEAN
    PROVE  /\ "llm_selected_execution" \in sourceEvidence(t)
                <=> t.resolution.proposed = "llm" /\ t.resolution.eligible
           /\ proposalSeedEligible(t) <=>
                /\ t.env = "organic"
                /\ "llm_selected_execution" \in sourceEvidence(t) \/ t.shadow = "clean"
<1>1. "llm_selected_execution" \in sourceEvidence(t)
        <=> t.resolution.proposed = "llm" /\ t.resolution.eligible
  BY DEF sourceEvidence, localObservationRole, Actors
<1>2. t.shadow = "clean" => "workspace_shadow_provider" \in sourceEvidence(t)
  BY DEF sourceEvidence
<1>3. proposalSeedEligible(t) <=>
        /\ t.env = "organic"
        /\ \/ "llm_selected_execution" \in sourceEvidence(t)
           \/ "workspace_shadow_provider" \in sourceEvidence(t) /\ t.shadow = "clean"
  BY DEF proposalSeedEligible, legacyMismatchExcluded, eligibleForProposalSeed
<1> QED BY <1>1, <1>2, <1>3

LEMMA TransitionIsTrue ==
    ASSUME EvidenceInv, recordAgentDecision
    PROVE  LlmEvidenceIsTrue'
<1> PICK env \in fingerprintScopes :
      transition' = [log |-> transitionOf(choice, seen.page, env),
                     own |-> choice.answer = choice.chosen]
  BY DEF recordAgentDecision
<1> DEFINE t == transitionOf(choice, seen.page, env)
           r == resolutionOf(choice, seen.page)
<1>1. t.resolution = r /\ transition'.log = t
  BY DEF transitionOf
<1>2. choice.chosen \in Actions /\ choice \in Choices
  BY DEF EvidenceInv, TInv, TypeOK, UnderWay, Choosing, recordAgentDecision
<1>3. /\ r.proposed \in Actors /\ r.eligible \in BOOLEAN
      /\ r.proposed = "llm" /\ r.eligible <=> choice.answer = choice.chosen
  <2>1. CASE choice.chosen = "main_menu"
    <3>1. choice.answer # choice.chosen
      BY <1>2, <2>1 DEF EvidenceInv, ChoiceIsAttributed, NoCandidate
    <3>2. choice.source = "local_mechanical"
      BY <2>1 DEF EvidenceInv, ChoiceIsAttributed
    <3> QED BY <2>1, <3>1, <3>2 DEF resolutionOf, buildSelectionResolutionRecord, Actors
  <2>2. CASE choice.chosen # "main_menu" /\ choice.answer = NoCandidate
    <3>1. choice.answer # choice.chosen
      BY <1>2, <2>2 DEF Actions, Toggles, NoCandidate
    <3>2. choice.proposedBy \in Actors \ {"llm"}
      BY <1>2, <2>2 DEF EvidenceInv, ChoiceIsAttributed, Actions, Toggles, NoCandidate
    <3> QED BY <2>2, <3>1, <3>2 DEF resolutionOf, buildSelectionResolutionRecord
  <2>3. CASE choice.chosen # "main_menu" /\ choice.answer # NoCandidate
    <3>1. r = buildSelectionResolutionRecord(choice.answer, "llm", choice.chosen, choice.source,
                                             candidates(seen.page))
      BY <2>3 DEF EvidenceInv, ChoiceIsAttributed, resolutionOf
    <3> QED BY <2>3, <3>1 DEF EvidenceInv, ChoiceIsAttributed, buildSelectionResolutionRecord, Actors
  <2> QED BY <2>1, <2>2, <2>3
<1>4. r # NotRecorded
  BY <1>3 DEF NotRecorded, Actors
<1>5. transition'.own = (choice.answer = choice.chosen)
  OBVIOUS
<1> HIDE DEF t, r
<1> QED BY <1>1, <1>3, <1>4, <1>5, EvidenceOfRecord DEF LlmEvidenceIsTrue

LEMMA NothingLogged == transition = NoTransition => LlmEvidenceIsTrue
BY DEF NoTransition, LlmEvidenceIsTrue, sourceEvidence, proposalSeedEligible, NotRecorded,
       localObservationRole, Actors

LEMMA EvidenceInit == Init => EvidenceInv
<1> SUFFICES ASSUME Init PROVE EvidenceInv
  OBVIOUS
<1>1. ChoiceIsAttributed
  BY DEF Init, ChoiceIsAttributed, NoChoice, NoCandidate
<1>2. LlmEvidenceIsTrue
  BY NothingLogged DEF Init
<1> QED BY <1>1, <1>2, TInvInit DEF EvidenceInv

LEMMA EndTickAttributes ==
    ASSUME EndTick
    PROVE  ChoiceIsAttributed'
BY DEF EndTick, ChoiceIsAttributed, NoChoice, NoCandidate

LEMMA MenuAttributes ==
    ASSUME NEW read, returnToMenu(read)
    PROVE  ChoiceIsAttributed'
<1>1. CASE pc' = "executing"
           /\ choice' = [NoChoice EXCEPT !.chosen = "main_menu", !.source = "local_mechanical"]
  BY <1>1 DEF ChoiceIsAttributed, NoChoice, NoCandidate
<1>2. CASE EndTick
  BY <1>2, EndTickAttributes
<1> QED BY <1>1, <1>2 DEF returnToMenu

LEMMA EvidenceNext == EvidenceInv /\ [Next]_vars => EvidenceInv'
<1> SUFFICES ASSUME EvidenceInv, [Next]_vars PROVE EvidenceInv'
  OBVIOUS
<1>1. TInv'
  BY TInvNext DEF EvidenceInv
<1>2. LlmEvidenceIsTrue'
  <2>1. CASE recordAgentDecision
    BY <2>1, TransitionIsTrue
  <2>2. CASE transition' = NoTransition
    BY <2>2 DEF NoTransition, LlmEvidenceIsTrue, sourceEvidence, proposalSeedEligible,
                NotRecorded, localObservationRole, Actors
  <2>3. CASE transition' = transition
    BY <2>3 DEF EvidenceInv, LlmEvidenceIsTrue
  <2>4. recordAgentDecision \/ transition' = NoTransition \/ transition' = transition
    BY DEF Next, vars, GameMoves, TickWaits, BackoffEnds, TickGameOver, FinalizeStore, FinalizeEnds,
           TickChooses, LlmAnswers, LlmFails, ShadowReturns, DryRunEnds, GuardWaits, Send, Settles, MenuSettles,
           SendFails, LogDecision, Restart
  <2> QED BY <2>1, <2>2, <2>3, <2>4
<1>3. ChoiceIsAttributed'
  <2> USE DEF EvidenceInv
  <2>1. CASE TickGameOver
    <3>1. CASE pc' = "finalizing" /\ choice' = NoChoice
      BY <3>1 DEF ChoiceIsAttributed, NoChoice, NoCandidate
    <3> QED BY <2>1, <3>1, MenuAttributes DEF TickGameOver
  <2>2. CASE FinalizeEnds
    BY <2>2, MenuAttributes DEF FinalizeEnds
  <2>3. CASE TickChooses
    <3>1. /\ choice'.chosen \in candidates(game.page) /\ choice'.answer = NoCandidate
          /\ choice'.proposedBy \in Actors \ {"llm"}
      BY <2>3, TickDecides DEF NoChoice
    <3>2. game.page.screen # "game_over" /\ seen' = game /\ pc' \in {"asking", "decided"}
      BY <2>3 DEF TickChooses
    <3>3. choice'.chosen # "main_menu"
      BY <3>1, <3>2, CandidatesOffTheEnd
    <3> QED BY <3>1, <3>2, <3>3 DEF ChoiceIsAttributed
  <2>4. CASE LlmAnswers
    <3>1. /\ seen.page.screen # "game_over" /\ choice.chosen \in Actions \ {"main_menu"}
          /\ seen' = seen /\ pc' = "decided" /\ choice \in Choices
      BY <2>4 DEF LlmAnswers, ChoiceIsAttributed, TInv, TypeOK, UnderWay, Choosing
    <3>2. candidates(seen.page) \subseteq Actions \ {"main_menu"}
      BY <3>1, CandidatesOffTheEnd
    <3>3. PICK answer \in candidates(seen.page) \cup {"invalid"},
              chosen \in candidates(seen.page) \cup {choice.chosen}, source \in {"llm", "local_fallback"} :
            /\ choice' = [choice EXCEPT !.chosen = chosen, !.source = source, !.scored = FALSE,
                                        !.proposed = answer, !.proposedBy = "llm", !.answer = answer]
            /\ answer \in candidates(seen.page) => chosen = answer /\ source = "llm"
            /\ answer \notin candidates(seen.page) => source = "local_fallback"
      BY <2>4, AnswerDecides
    <3>4. /\ choice'.chosen = chosen /\ choice'.source = source
          /\ choice'.proposedBy = "llm" /\ choice'.proposed = answer /\ choice'.answer = answer
      BY <3>1, <3>3 DEF Choices
    <3>5. answer # NoCandidate /\ "invalid" \notin Actions /\ chosen # "main_menu" /\ "llm" \in Actors
      BY <3>1, <3>2, <3>3 DEF Actions, Toggles, NoCandidate, Actors
    <3> QED BY <3>1, <3>2, <3>3, <3>4, <3>5 DEF ChoiceIsAttributed
  <2>5. CASE LlmFails
    <3>1. PICK chosen \in candidates(seen.page) \cup {choice.chosen},
              source \in {"local_fallback", choice.source} :
            choice' = [choice EXCEPT !.chosen = chosen, !.source = source, !.scored = FALSE]
      BY <2>5, FailureDecides
    <3>2. /\ seen.page.screen # "game_over" /\ choice.chosen # "main_menu"
          /\ choice.answer = NoCandidate /\ choice.proposedBy # "llm"
          /\ seen' = seen /\ pc' = "decided" /\ choice \in Choices
      BY <2>5 DEF LlmFails, ChoiceIsAttributed, TInv, TypeOK
    <3>3. choice'.chosen # "main_menu"
      BY <3>1, <3>2, CandidatesOffTheEnd DEF Choices
    <3>4. choice.proposedBy \in Actors
      BY <2>5, <3>2 DEF LlmFails, ChoiceIsAttributed, TInv, UnderWay, Choosing, Actions, Toggles,
                        NoCandidate
    <3>5. choice'.answer = NoCandidate /\ choice'.proposedBy \in Actors \ {"llm"}
      BY <3>1, <3>2, <3>4 DEF Choices
    <3> QED BY <3>2, <3>3, <3>5 DEF ChoiceIsAttributed
  <2>6. CASE Send
    <3>1. PICK action \in avoidRepeatedCardSelectToggle(seen.page, choice.chosen) :
            choice' = IF action = choice.chosen THEN choice
                      ELSE [choice EXCEPT !.chosen = action, !.source = "local_safety_guard"]
      BY <2>6 DEF Send
    <3>2. pc = "decided" /\ pc' = "executing" /\ seen' = seen /\ choice \in Choices
      BY <2>6 DEF Send, TInv, TypeOK
    <3>3. CASE action = choice.chosen
      BY <3>1, <3>2, <3>3 DEF ChoiceIsAttributed
    <3>4. CASE action # choice.chosen
      <4>1. action \in Toggles
        BY <3>1, <3>4, GuardedIsCandidate
      <4>2. /\ choice'.chosen = action /\ choice'.source = "local_safety_guard"
            /\ choice'.answer = choice.answer /\ choice'.proposed = choice.proposed
            /\ choice'.proposedBy = choice.proposedBy
        BY <3>1, <3>2, <3>4 DEF Choices
      <4>3. action # "main_menu" /\ action # "invalid"
        BY <4>1 DEF Toggles
      <4>4. choice.proposedBy \in Actors
        BY <3>2 DEF ChoiceIsAttributed, TInv, UnderWay, Choosing, Actions, Toggles, NoCandidate
      <4> QED BY <3>2, <3>4, <4>2, <4>3, <4>4 DEF ChoiceIsAttributed
    <3> QED BY <3>3, <3>4
  <2>7. CASE /\ seen' = seen /\ choice' = choice
             /\ pc' \notin {"asking", "decided"} \/ pc' = pc
    BY <2>7 DEF ChoiceIsAttributed
  <2>8. CASE EndTick
    BY <2>8, EndTickAttributes
  <2>9. CASE ShadowReturns \/ MenuSettles
    <3>1. seen' = seen /\ pc' \in {pc, "recording"} /\ choice \in Choices
      BY <2>9 DEF ShadowReturns, MenuSettles, TInv, TypeOK
    <3> QED BY <2>9, <3>1, ShadowOnly DEF ChoiceIsAttributed
  <2> QED BY <2>1, <2>2, <2>3, <2>4, <2>5, <2>6, <2>7, <2>8, <2>9
          DEF Next, vars, GameMoves, TickWaits, BackoffEnds, FinalizeStore, DryRunEnds, GuardWaits, Settles,
              SendFails, LogDecision, recordAgentDecision, Restart
<1> QED BY <1>1, <1>2, <1>3 DEF EvidenceInv

\* For all pages and bounds: a transition has the role of the model's own choice if and only
\* if the model's answer in that tick is the candidate that was executed, and it seeds a
\* proposal if and only if its environment is exact and organic and it is such a choice, or
\* has a clean answer of the workspace shadow.
THEOREM LlmEvidence == Spec => []LlmEvidenceIsTrue
<1>1. EvidenceInv => LlmEvidenceIsTrue
  BY DEF EvidenceInv
<1> QED BY <1>1, EvidenceInit, EvidenceNext, PTL DEF Spec
-----------------------------------------------------------------------------
(* A game is learned from once                                             *)

Finalizing(n) == pc = "finalizing" /\ seen.number = n
Wrote(n, store) == IF Finalizing(n) /\ store \in written THEN 1 ELSE 0

\* Game n cannot be finalized any more: another one is on, or its end is shown to a run
\* without evidence and no tick that will still log a decision is under way.
Over(n) ==
    \/ game.number > n
    \/ /\ game.number = n /\ game.page.screen = "game_over" /\ run.games = {}
       /\ pc = "idle" \/ choice.chosen = "main_menu"
Finished(n) == IF Over(n) /\ ~Finalizing(n) THEN 1 ELSE 0

\* Apart from the finalizeRun under way, every store has one entry per finished finalizeRun
\* and at most one per cut; the stores are written in order.
Counted(n) ==
    LET l == learned[n]
    IN  /\ ~gate => l.longTerm = 0 /\ l.experience = 0 /\ l.strategy = 0
        /\ l.longTerm <= l.cut + Wrote(n, "longTerm") + Finished(n)
        /\ l.audit <= l.cut + Wrote(n, "audit") + Finished(n)
        /\ gate => /\ l.experience + Wrote(n, "longTerm") <= l.longTerm + Wrote(n, "experience")
                   /\ l.strategy + Wrote(n, "experience") <= l.experience + Wrote(n, "strategy")
                   /\ l.audit + Wrote(n, "strategy") <= l.strategy + Wrote(n, "audit")
                   /\ l.longTerm + Wrote(n, "audit") <= l.audit + l.cut + Wrote(n, "longTerm")

InOrder ==
    /\ pc # "finalizing" => written = {}
    /\ gate => written \in {{}, {"longTerm"}, {"longTerm", "experience"},
                            {"longTerm", "experience", "strategy"}, Stores}
    /\ ~gate => written \in {{}, {"audit"}}
    /\ pc = "finalizing" =>
        \/ game.number > seen.number
        \/ game.number = seen.number /\ game.page.screen = "game_over"
    /\ pc = "logging" => choice.chosen # "main_menu"

LearnInv == EvidenceInv /\ InOrder /\ \A n \in Games : Counted(n)

LEMMA LearnedHasType ==
    ASSUME TypeOK, NEW n \in Games
    PROVE  /\ learned[n].longTerm \in Nat /\ learned[n].experience \in Nat /\ learned[n].strategy \in Nat
           /\ learned[n].audit \in Nat /\ learned[n].cut \in Nat
           /\ n \in Nat /\ gate \in BOOLEAN /\ game.number \in Nat
BY DEF TypeOK, Learned, Games, Reads

LEMMA LearnedOnceFollows == LearnInv => LearnedOnce
<1> SUFFICES ASSUME LearnInv, NEW n \in Games
             PROVE  LET l == learned[n]
                        open == IF pc = "finalizing" /\ n = seen.number THEN 1 ELSE 0
                    IN  /\ ~gate => l.longTerm = 0 /\ l.experience = 0 /\ l.strategy = 0
                        /\ l.longTerm >= l.experience /\ l.experience >= l.strategy
                        /\ l.audit <= 1 + l.cut /\ l.longTerm <= 1 + l.cut
                        /\ gate => l.strategy >= l.audit /\ l.longTerm <= l.audit + l.cut + open
  BY DEF LearnedOnce
<1>1. TypeOK /\ Counted(n) /\ InOrder
  BY DEF LearnInv, EvidenceInv, TInv
<1>2. /\ gate => Wrote(n, "longTerm") >= Wrote(n, "experience")
                /\ Wrote(n, "experience") >= Wrote(n, "strategy")
                /\ Wrote(n, "strategy") >= Wrote(n, "audit")
      /\ Wrote(n, "longTerm") <= IF pc = "finalizing" /\ n = seen.number THEN 1 ELSE 0
  BY <1>1 DEF InOrder, Wrote, Finalizing, Stores
<1>3. \A store : Wrote(n, store) \in {0, 1} /\ Wrote(n, store) + Finished(n) <= 1
  BY DEF Wrote, Finished
<1>4. Finished(n) \in {0, 1}
  BY DEF Finished
<1> DEFINE open == IF pc = "finalizing" /\ n = seen.number THEN 1 ELSE 0
<1>5. open \in {0, 1} /\ Wrote(n, "longTerm") <= open
  BY <1>2
<1> HIDE DEF open
<1>6. CASE ~gate
  BY <1>1, <1>3, <1>4, <1>6, LearnedHasType DEF Counted
<1>7. CASE gate
  BY <1>1, <1>2, <1>3, <1>4, <1>5, <1>7, LearnedHasType DEF Counted
<1> QED BY <1>6, <1>7, LearnedHasType, <1>1 DEF open

LEMMA LearnInit == Init => LearnInv
<1> SUFFICES ASSUME Init PROVE LearnInv
  OBVIOUS
<1>1. InOrder
  BY DEF Init, InOrder
<1>2. ASSUME NEW n \in Games PROVE Counted(n)
  BY DEF Init, Counted, NotLearned, Wrote, Finished, Finalizing
<1> QED BY <1>1, <1>2, EvidenceInit DEF LearnInv

\* Nothing reopens a game.
LEMMA OverStays ==
    ASSUME LearnInv, [Next]_vars, NEW n \in Games, Over(n)
    PROVE  Over(n)'
<1>0. TypeOK /\ n \in Nat /\ game.number \in Nat
  BY LearnedHasType DEF LearnInv, EvidenceInv, TInv
<1>1. CASE GameMoves
  <2> PICK page \in Pages :
        LET over == \/ game.page.screen = "game_over" /\ page.screen # "game_over"
                    \/ page.floor < game.page.floor
                    \/ "unknown" \notin {page.hero, game.page.hero} /\ page.hero # game.page.hero
        IN  game' = [page |-> page, number |-> IF over THEN game.number + 1 ELSE game.number]
    BY <1>1 DEF GameMoves
  <2>1. game'.page = page /\ game'.number \in {game.number, game.number + 1}
    OBVIOUS
  <2>2. game.page.screen = "game_over" /\ page.screen # "game_over" => game'.number = game.number + 1
    OBVIOUS
  <2>3. UNCHANGED <<run, pc, choice>>
    BY <1>1 DEF GameMoves
  <2> QED BY <1>0, <2>1, <2>2, <2>3 DEF Over
<1>2. CASE game' = game /\ game.number > n
  BY <1>2 DEF Over
<1>3. CASE game' = game /\ ~(game.number > n)
  <2>1. /\ game.number = n /\ game.page.screen = "game_over" /\ run.games = {}
        /\ pc = "idle" \/ choice.chosen = "main_menu"
    BY <1>3 DEF Over
  <2>2. pc \notin {"asking", "decided", "logging"}
    BY <2>1 DEF LearnInv, EvidenceInv, ChoiceIsAttributed, InOrder
  <2>3. updateFromState(game).games = {}
    BY <2>1 DEF updateFromState, NewRun
  <2>4. CASE TickWaits
    BY <1>3, <2>1, <2>3, <2>4 DEF TickWaits, Over
  <2>5. CASE TickGameOver
    <3>1. run'.games = {} /\ ~hasActiveRunEvidence(run')
      BY <2>3, <2>5 DEF TickGameOver, hasActiveRunEvidence
    <3>2. returnToMenu(game)
      BY <2>5, <3>1 DEF TickGameOver
    <3>3. pc' = "idle" \/ choice'.chosen = "main_menu"
      BY <3>2 DEF returnToMenu, EndTick, NoChoice
    <3> QED BY <1>3, <2>1, <3>1, <3>3 DEF Over
  <2>6. CASE FinalizeEnds
    <3>1. run'.games = {}
      BY <2>6 DEF FinalizeEnds, runAfterFinalize, NewRun
    <3>2. pc' = "idle" \/ choice'.chosen = "main_menu"
      BY <2>6 DEF FinalizeEnds, returnToMenu, EndTick, NoChoice
    <3> QED BY <1>3, <2>1, <3>1, <3>2 DEF Over
  <2>7. CASE UNCHANGED <<run, choice>> /\ pc' = pc
    BY <1>3, <2>1, <2>7 DEF Over
  <2>8. CASE UNCHANGED run /\ pc' = "idle"
    BY <1>3, <2>1, <2>8 DEF Over
  <2>9. CASE UNCHANGED <<run, choice>> /\ choice.chosen = "main_menu"
    BY <1>3, <2>1, <2>9 DEF Over
  <2>10. ~TickChooses /\ ~LlmAnswers /\ ~LlmFails /\ ~ShadowReturns /\ ~DryRunEnds
         /\ ~GuardWaits /\ ~Send /\ ~LogDecision
    BY <2>1, <2>2 DEF TickChooses, LlmAnswers, LlmFails, ShadowReturns, DryRunEnds, GuardWaits, Send, LogDecision
  <2>11. CASE Settles
    BY <2>1, <2>11 DEF Settles
  <2>12. CASE GameMoves
    BY <1>1, <2>12
  <2>13. CASE MenuSettles
    <3>1. choice'.chosen = "main_menu"
      BY <1>0, <2>13, ShadowOnly DEF TypeOK, MenuSettles
    <3> QED BY <1>3, <2>1, <2>13, <3>1 DEF MenuSettles, Over
  <2> QED BY <2>4, <2>5, <2>6, <2>7, <2>8, <2>9, <2>10, <2>11, <2>12, <2>13
          DEF Next, vars, BackoffEnds, FinalizeStore, SendFails, EndTick, recordAgentDecision,
              Restart
<1>4. GameMoves \/ game' = game
  BY DEF Next, vars, TickWaits, BackoffEnds, TickGameOver, FinalizeStore, FinalizeEnds,
         TickChooses, LlmAnswers, LlmFails, ShadowReturns, DryRunEnds, GuardWaits, Send, Settles, MenuSettles,
         SendFails, LogDecision, recordAgentDecision, Restart
<1> QED BY <1>1, <1>2, <1>3, <1>4

\* A step that finalizes nothing.
LEMMA CountKept ==
    ASSUME LearnInv, [Next]_vars, NEW n \in Games, learned' = learned, gate' = gate,
           \A store : Wrote(n, store)' = Wrote(n, store),
           Finalizing(n)' <=> Finalizing(n)
    PROVE  Counted(n)'
<1>1. TypeOK /\ Counted(n)
  BY DEF LearnInv, EvidenceInv, TInv
<1>2. Finished(n) <= Finished(n)' /\ Finished(n) \in {0, 1} /\ Finished(n)' \in {0, 1}
  BY OverStays DEF Finished
<1>3. \A store : Wrote(n, store) \in {0, 1}
  BY DEF Wrote
<1> QED BY <1>1, <1>2, <1>3, LearnedHasType DEF Counted

\* The end of finalizeRun or of the process in the middle of it: what was written counts.
LEMMA CountStarts ==
    ASSUME LearnInv, NEW n \in Games, ~Over(n), ~Finalizing(n), learned' = learned, gate' = gate,
           \A store : Wrote(n, store)' = 0
    PROVE  Counted(n)'
<1>1. TypeOK /\ Counted(n)
  BY DEF LearnInv, EvidenceInv, TInv
<1>2. Finished(n) = 0 /\ Finished(n)' \in {0, 1}
  BY DEF Finished
<1>3. \A store : Wrote(n, store) = 0
  BY DEF Wrote
<1> QED BY <1>1, <1>2, <1>3, LearnedHasType DEF Counted

LEMMA InOrderNext ==
    ASSUME LearnInv, [Next]_vars
    PROVE  InOrder'
<1> USE DEF LearnInv
<1>0. TypeOK /\ gate \in BOOLEAN
  BY DEF EvidenceInv, TInv, TypeOK
<1>1. CASE GameMoves
  <2> PICK page \in Pages :
        LET over == \/ game.page.screen = "game_over" /\ page.screen # "game_over"
                    \/ page.floor < game.page.floor
                    \/ "unknown" \notin {page.hero, game.page.hero} /\ page.hero # game.page.hero
        IN  game' = [page |-> page, number |-> IF over THEN game.number + 1 ELSE game.number]
    BY <1>1 DEF GameMoves
  <2>1. game'.page = page /\ game'.number \in {game.number, game.number + 1}
    OBVIOUS
  <2>2. game.page.screen = "game_over" /\ page.screen # "game_over" => game'.number = game.number + 1
    OBVIOUS
  <2>3. UNCHANGED <<gate, written, seen, pc, choice>>
    BY <1>1 DEF GameMoves
  <2>4. game.number \in Nat
    BY <1>0 DEF TypeOK, Reads, Games
  <2>5. pc = "finalizing" => seen.number \in Nat
    BY DEF EvidenceInv, TInv, UnderWay, Reads, Games
  <2>6. pc = "finalizing" =>
            game'.number > seen.number \/ (game'.number = seen.number /\ game'.page.screen = "game_over")
    BY <2>1, <2>2, <2>4, <2>5 DEF InOrder
  <2> QED BY <2>3, <2>6 DEF InOrder
<1>2. CASE TickGameOver
  <2>1. written' = written /\ gate' = gate /\ game' = game /\ written = {}
    BY <1>2 DEF TickGameOver, InOrder
  <2>2. CASE pc' = "finalizing" /\ seen' = game
    BY <1>2, <2>1, <2>2 DEF InOrder, TickGameOver
  <2>3. CASE returnToMenu(game)
    BY <2>1, <2>3 DEF returnToMenu, EndTick, InOrder
  <2> QED BY <1>2, <2>2, <2>3 DEF TickGameOver
<1>3. CASE FinalizeStore
  <2>1. gate => written' \in {{}, {"longTerm"}, {"longTerm", "experience"},
                             {"longTerm", "experience", "strategy"}, Stores}
    BY <1>3 DEF FinalizeStore, nextStore, InOrder, Stores
  <2>2. ~gate => written' \in {{}, {"audit"}}
    BY <1>3 DEF FinalizeStore, nextStore, InOrder
  <2> QED BY <1>3, <2>1, <2>2 DEF FinalizeStore, InOrder
<1>4. CASE FinalizeEnds
  BY <1>4 DEF FinalizeEnds, returnToMenu, EndTick, InOrder
<1>5. CASE written' = written /\ gate' = gate /\ pc # "finalizing" /\ pc' \notin {"finalizing", "logging"}
  BY <1>5 DEF InOrder
<1>6. CASE Settles
  BY <1>6 DEF Settles, InOrder
<1>7. CASE UNCHANGED <<game, written, gate, pc, seen, choice>>
  BY <1>7 DEF InOrder
<1>8. CASE Restart
  BY <1>8 DEF Restart, EndTick, InOrder
<1>9. CASE TickChooses
  BY <1>9, <1>5 DEF TickChooses
<1> QED BY <1>1, <1>2, <1>3, <1>4, <1>5, <1>6, <1>7, <1>8, <1>9
        DEF Next, vars, TickWaits, BackoffEnds, LlmAnswers, LlmFails, ShadowReturns, DryRunEnds, GuardWaits, Send,
            MenuSettles, SendFails, EndTick, LogDecision, recordAgentDecision

LEMMA CountedNext ==
    ASSUME LearnInv, [Next]_vars, NEW n \in Games
    PROVE  Counted(n)'
<1>1. TypeOK /\ Counted(n) /\ InOrder
  BY DEF LearnInv, EvidenceInv, TInv
<1>2. CASE TickGameOver
  <2>1. pc = "idle" /\ learned' = learned /\ gate' = gate /\ written' = {}
    BY <1>1, <1>2 DEF TickGameOver, InOrder
  <2>2. \A store : Wrote(n, store) = 0 /\ Wrote(n, store)' = 0
    BY <2>1 DEF Wrote, Finalizing
  <2>3. CASE Finalizing(n)'
    <3>1. game.number = n /\ hasActiveRunEvidence(run') /\ run' = updateFromState(game)
      BY <1>2, <2>3 DEF TickGameOver, Finalizing, returnToMenu, EndTick
    <3>2. ~Over(n)
      <4>1. updateFromState(game).games # {} => run.games # {}
        BY <1>2 DEF updateFromState, NewRun, TickGameOver
      <4> QED BY <3>1, <4>1, LearnedHasType, <1>1 DEF Over, hasActiveRunEvidence
    <3> QED BY <2>1, <2>2, <3>2, CountStarts DEF Finalizing
  <2>4. CASE ~Finalizing(n)'
    BY <2>1, <2>2, <2>4, CountKept DEF Finalizing
  <2> QED BY <2>3, <2>4
<1>3. CASE FinalizeStore
  <2>1. pc = "finalizing" /\ pc' = pc /\ seen' = seen /\ gate' = gate /\ "audit" \notin written
    BY <1>3 DEF FinalizeStore
  <2>2. written' = written \cup {nextStore} /\ nextStore \in Stores \ written
    BY <1>1, <1>3 DEF FinalizeStore, nextStore, Stores
  <2>3. learned' = [learned EXCEPT ![seen.number][nextStore] = @ + 1]
    BY <1>3 DEF FinalizeStore
  <2>4. CASE seen.number # n
    <3>1. learned'[n] = learned[n] /\ ~Finalizing(n) /\ ~Finalizing(n)'
      BY <1>1, <2>1, <2>3, <2>4 DEF Finalizing, TypeOK
    <3>2. \A store : Wrote(n, store) = 0 /\ Wrote(n, store)' = 0
      BY <3>1 DEF Wrote
    <3>3. Finished(n) <= Finished(n)' /\ Finished(n) \in {0, 1} /\ Finished(n)' \in {0, 1}
      BY <3>1, OverStays DEF Finished
    <3> QED BY <1>1, <2>1, <3>1, <3>2, <3>3, LearnedHasType DEF Counted
  <2>5. CASE seen.number = n
    <3>1. Finalizing(n) /\ Finalizing(n)'
      BY <2>1, <2>5 DEF Finalizing
    <3>2. Finished(n) = 0 /\ Finished(n)' = 0
      BY <3>1 DEF Finished
    <3>3. \A store : /\ store = nextStore => Wrote(n, store) = 0 /\ Wrote(n, store)' = 1
                     /\ store # nextStore => Wrote(n, store)' = Wrote(n, store)
      BY <2>2, <3>1 DEF Wrote
    <3>4. learned[n] \in Learned
      BY <1>1 DEF TypeOK
    <3>5. learned'[n] = [learned[n] EXCEPT ![nextStore] = @ + 1]
      BY <1>1, <2>3, <2>5 DEF TypeOK
    <3>6. \A store : Wrote(n, store) \in {0, 1} /\ Wrote(n, store)' \in {0, 1}
      BY DEF Wrote
    <3>7. ~gate => nextStore = "audit"
      BY DEF nextStore
    <3>8. CASE nextStore = "longTerm"
      <4>1. /\ learned'[n].longTerm = learned[n].longTerm + 1 /\ learned'[n].experience = learned[n].experience
            /\ learned'[n].strategy = learned[n].strategy /\ learned'[n].audit = learned[n].audit
            /\ learned'[n].cut = learned[n].cut
        BY <3>4, <3>5, <3>8 DEF Learned
      <4> QED BY <1>1, <2>1, <3>2, <3>3, <3>6, <3>7, <3>8, <4>1, LearnedHasType DEF Counted
    <3>9. CASE nextStore = "experience"
      <4>1. /\ learned'[n].longTerm = learned[n].longTerm /\ learned'[n].experience = learned[n].experience + 1
            /\ learned'[n].strategy = learned[n].strategy /\ learned'[n].audit = learned[n].audit
            /\ learned'[n].cut = learned[n].cut
        BY <3>4, <3>5, <3>9 DEF Learned
      <4> QED BY <1>1, <2>1, <3>2, <3>3, <3>6, <3>7, <3>9, <4>1, LearnedHasType DEF Counted
    <3>10. CASE nextStore = "strategy"
      <4>1. /\ learned'[n].longTerm = learned[n].longTerm /\ learned'[n].experience = learned[n].experience
            /\ learned'[n].strategy = learned[n].strategy + 1 /\ learned'[n].audit = learned[n].audit
            /\ learned'[n].cut = learned[n].cut
        BY <3>4, <3>5, <3>10 DEF Learned
      <4> QED BY <1>1, <2>1, <3>2, <3>3, <3>6, <3>7, <3>10, <4>1, LearnedHasType DEF Counted
    <3>11. CASE nextStore = "audit"
      <4>1. /\ learned'[n].longTerm = learned[n].longTerm /\ learned'[n].experience = learned[n].experience
            /\ learned'[n].strategy = learned[n].strategy /\ learned'[n].audit = learned[n].audit + 1
            /\ learned'[n].cut = learned[n].cut
        BY <3>4, <3>5, <3>11 DEF Learned
      <4> QED BY <1>1, <2>1, <3>2, <3>3, <3>6, <3>7, <3>11, <4>1, LearnedHasType DEF Counted
    <3> QED BY <2>2, <3>8, <3>9, <3>10, <3>11 DEF Stores
  <2> QED BY <2>4, <2>5
<1>4. CASE FinalizeEnds
  <2>1. /\ pc = "finalizing" /\ pc' # "finalizing" /\ learned' = learned /\ gate' = gate /\ game' = game
        /\ written' = {} /\ "audit" \in written
    BY <1>4 DEF FinalizeEnds, returnToMenu, EndTick
  <2>2. \A store : Wrote(n, store)' = 0 /\ Wrote(n, store) \in {0, 1}
    BY <2>1 DEF Wrote
  <2>3. CASE seen.number # n
    BY <2>1, <2>3, CountKept DEF Wrote, Finalizing
  <2>4. CASE seen.number = n
    <3>1. Finished(n) = 0 /\ Wrote(n, "audit") = 1
      BY <2>1, <2>4 DEF Finished, Wrote, Finalizing
    <3>2. Finished(n)' = 1
      <4>1. pc' = "idle" \/ choice'.chosen = "main_menu"
        BY <1>4 DEF FinalizeEnds, returnToMenu, EndTick, NoChoice
      <4>2. run'.games = {}
        BY <1>4 DEF FinalizeEnds, runAfterFinalize, NewRun
      <4>3. Over(n)'
        BY <1>1, <2>1, <2>4, <4>1, <4>2 DEF InOrder, Over
      <4> QED BY <2>1, <4>3 DEF Finished, Finalizing
    <3>3. gate => /\ Wrote(n, "longTerm") = 1 /\ Wrote(n, "experience") = 1 /\ Wrote(n, "strategy") = 1
      BY <1>1, <2>1, <2>4 DEF InOrder, Wrote, Finalizing, Stores
    <3> QED BY <1>1, <2>1, <2>2, <3>1, <3>2, <3>3, LearnedHasType DEF Counted
  <2> QED BY <2>3, <2>4
<1>5. CASE Restart
  <2>1. /\ pc' = "idle" /\ gate' = gate /\ written' = {}
        /\ learned' = IF pc = "finalizing" THEN [learned EXCEPT ![seen.number].cut = @ + 1] ELSE learned
    BY <1>5 DEF Restart, EndTick
  <2>2. \A store : Wrote(n, store)' = 0 /\ Wrote(n, store) \in {0, 1}
    BY <2>1 DEF Wrote, Finalizing
  <2>3. CASE ~Finalizing(n)
    <3>1. learned'[n] = learned[n] /\ ~Finalizing(n)'
      BY <1>1, <2>1, <2>3 DEF Finalizing, TypeOK
    <3>2. Finished(n) <= Finished(n)' /\ Finished(n) \in {0, 1} /\ Finished(n)' \in {0, 1}
      BY <2>3, <3>1, OverStays DEF Finished
    <3>3. \A store : Wrote(n, store) = 0
      BY <2>3 DEF Wrote
    <3> QED BY <1>1, <2>1, <2>2, <3>1, <3>2, <3>3, LearnedHasType DEF Counted
  <2>4. CASE Finalizing(n)
    <3>1. learned[n] \in Learned
      BY <1>1 DEF TypeOK
    <3>2. learned'[n] = [learned[n] EXCEPT !.cut = @ + 1]
      BY <1>1, <2>1, <2>4 DEF Finalizing, TypeOK
    <3>3. /\ learned'[n].longTerm = learned[n].longTerm /\ learned'[n].experience = learned[n].experience
          /\ learned'[n].strategy = learned[n].strategy /\ learned'[n].audit = learned[n].audit
          /\ learned'[n].cut = learned[n].cut + 1
      BY <3>1, <3>2 DEF Learned
    <3>4. Finished(n) = 0 /\ Finished(n)' \in {0, 1}
      BY <2>4 DEF Finished
    <3>5. gate => /\ Wrote(n, "longTerm") >= Wrote(n, "experience")
                  /\ Wrote(n, "experience") >= Wrote(n, "strategy")
                  /\ Wrote(n, "strategy") >= Wrote(n, "audit")
      BY <1>1 DEF InOrder, Wrote, Stores
    <3> QED BY <1>1, <2>1, <2>2, <3>3, <3>4, <3>5, LearnedHasType DEF Counted
  <2> QED BY <2>3, <2>4
<1>6. CASE learned' = learned /\ gate' = gate /\ written' = written /\ pc # "finalizing" /\ pc' # "finalizing"
  BY <1>6, CountKept DEF Wrote, Finalizing
<1>7. CASE UNCHANGED <<learned, gate, written, pc, seen>>
  BY <1>7, CountKept DEF Wrote, Finalizing
<1>8. CASE TickChooses
  <2>1. pc' # "finalizing"
    BY <1>8 DEF TickChooses
  <2> QED BY <1>6, <1>8, <2>1 DEF TickChooses
<1> QED BY <1>2, <1>3, <1>4, <1>5, <1>6, <1>7, <1>8
        DEF Next, vars, GameMoves, TickWaits, BackoffEnds, LlmAnswers, LlmFails, ShadowReturns, DryRunEnds, GuardWaits, Send,
            Settles, MenuSettles, SendFails, EndTick, LogDecision, recordAgentDecision

LEMMA LearnNext == LearnInv /\ [Next]_vars => LearnInv'
BY EvidenceNext, InOrderNext, CountedNext DEF LearnInv

\* For all pages and bounds: a game is learned from once, further times and halves only by
\* an end of the process in the middle of finalizeRun, and never with the gate closed.
THEOREM OneLearning == Spec => []LearnedOnce
<1> QED BY LearnInit, LearnNext, LearnedOnceFollows, PTL DEF Spec
-----------------------------------------------------------------------------
(* What is not sent again                                                  *)

Quiet(s, i) ==
    /\ s[i].outcome = "still"
    /\ \A k \in i + 1..Len(s) : s[k].outcome \in {"failed", "pending"}
Picked(s, i) == s[i].action \in Toggles /\ s[i].outcome \in {"still", "unsettled"}

\* What was sent and the two guards agree: the last action without effect is the stuck
\* guard's, the cards picked are the card guard's, both on the page they were sent to.
Agrees(s, fingerprint, stuck, cards) ==
    /\ \A i \in 1..Len(s) : Quiet(s, i) =>
            stuck.fingerprint = fingerprint /\ stuck.actionSignature = s[i].action
    /\ \A i \in 1..Len(s) : Picked(s, i) =>
            cards.fingerprint = fingerprint /\ s[i].action \in cards.selectedIndices
    /\ \A i \in 1..Len(s) : s[i].action \in Toggles => fingerprint[1] = "card_select"

NoRepeats(s) ==
    \A i, j \in 1..Len(s) :
        (i < j /\ s[i].outcome = "still" /\ \A k \in i + 1..j - 1 : s[k].outcome = "failed")
        => s[j].action # s[i].action
NoRepicks(s) ==
    \A i, j \in 1..Len(s) : (i < j /\ Picked(s, i)) => s[j].action # s[i].action

SentInv ==
    /\ Agrees(sent.entries, sent.fingerprint, stuckGuard, cardGuard)
    /\ NoRepeats(sent.entries) /\ NoRepicks(sent.entries)
    /\ \A i \in 1..Len(sent.entries) : sent.entries[i].outcome = "pending" =>
            i = Len(sent.entries) /\ pc = "executing" /\ choice.chosen # "main_menu"
    /\ (pc = "executing" /\ choice.chosen # "main_menu") =>
            /\ sent.fingerprint = stateFingerprint(seen.page)
            /\ \A i \in 1..Len(sent.entries) : i = Len(sent.entries) =>
                    sent.entries[i].action = choice.chosen /\ sent.entries[i].outcome = "pending"
    /\ (pc \in {"asking", "decided", "executing"} /\ choice.chosen \in Toggles) =>
            seen.page.screen = "card_select"

RepeatInv == EvidenceInv /\ SentInv

LEMMA NothingAgrees ==
    ASSUME NEW fingerprint, NEW stuck, NEW cards
    PROVE  Agrees(<<>>, fingerprint, stuck, cards) /\ NoRepeats(<<>>) /\ NoRepicks(<<>>)
BY DEF Agrees, NoRepeats, NoRepicks

\* Forgetting the oldest action.
LEMMA TailAgrees ==
    ASSUME NEW s \in Seq(Entries), s # <<>>, NEW fingerprint, NEW stuck, NEW cards,
           Agrees(s, fingerprint, stuck, cards), NoRepeats(s), NoRepicks(s)
    PROVE  Agrees(Tail(s), fingerprint, stuck, cards) /\ NoRepeats(Tail(s)) /\ NoRepicks(Tail(s))
<1> DEFINE t == Tail(s)
<1>1. Len(s) \in Nat \ {0} /\ Len(t) = Len(s) - 1 /\ \A i \in 1..Len(t) : t[i] = s[i + 1]
  OBVIOUS
<1> DEFINE n == Len(s)
<1> HIDE DEF t, n
<1>2. n \in Nat \ {0} /\ Len(t) = n - 1 /\ Len(s) = n /\ \A i \in 1..n - 1 : t[i] = s[i + 1]
  BY <1>1 DEF n
<1>3. ASSUME NEW i \in 1..n - 1, Quiet(t, i) PROVE Quiet(s, i + 1)
  <2>1. ASSUME NEW k \in i + 2..n PROVE s[k].outcome \in {"failed", "pending"}
    <3>1. k - 1 \in i + 1..n - 1 /\ k - 1 \in 1..n - 1 /\ (k - 1) + 1 = k
      BY <1>2
    <3>2. t[k - 1].outcome \in {"failed", "pending"}
      BY <1>2, <1>3, <3>1 DEF Quiet
    <3> QED BY <1>2, <3>1, <3>2
  <2> QED BY <1>2, <1>3, <2>1 DEF Quiet
<1>4. ASSUME NEW i \in 1..n - 1 PROVE i + 1 \in 1..n /\ t[i] = s[i + 1]
  BY <1>2
<1>5. Agrees(t, fingerprint, stuck, cards)
  BY <1>2, <1>3, <1>4 DEF Agrees, Picked
<1>6. NoRepeats(t)
  <2> SUFFICES ASSUME NEW i \in 1..n - 1, NEW j \in 1..n - 1, i < j, t[i].outcome = "still",
                      \A k \in i + 1..j - 1 : t[k].outcome = "failed"
               PROVE  t[j].action # t[i].action
    BY <1>2 DEF NoRepeats
  <2>1. ASSUME NEW k \in (i + 1) + 1..(j + 1) - 1 PROVE s[k].outcome = "failed"
    <3>1. k - 1 \in i + 1..j - 1 /\ k - 1 \in 1..n - 1 /\ (k - 1) + 1 = k
      BY <1>2
    <3> QED BY <1>2, <3>1
  <2>2. i + 1 < j + 1 /\ s[i + 1].outcome = "still"
    BY <1>4
  <2> QED BY <1>2, <1>4, <2>1, <2>2 DEF NoRepeats
<1>7. NoRepicks(t)
  BY <1>2, <1>4 DEF NoRepicks, Picked
<1> QED BY <1>5, <1>6, <1>7 DEF t

\* Sending what the guards let pass.
LEMMA AppendAgrees ==
    ASSUME NEW s \in Seq(Entries), NEW fingerprint, NEW stuck, NEW cards, NEW action,
           Agrees(s, fingerprint, stuck, cards), NoRepeats(s), NoRepicks(s),
           action # stuck.actionSignature,
           action \in Toggles => fingerprint[1] = "card_select" /\ action \notin cards.selectedIndices
    PROVE  LET all == Append(s, [action |-> action, outcome |-> "pending"])
           IN  Agrees(all, fingerprint, stuck, cards) /\ NoRepeats(all) /\ NoRepicks(all)
<1> DEFINE entry == [action |-> action, outcome |-> "pending"]
           all == Append(s, entry)
           n == Len(s)
<1>1. n \in Nat /\ Len(all) = n + 1 /\ (\A i \in 1..n : all[i] = s[i]) /\ all[n + 1] = entry
  OBVIOUS
<1>2. entry.action = action /\ entry.outcome = "pending"
  OBVIOUS
<1>3. Len(s) = n
  OBVIOUS
<1> HIDE DEF all, n, entry
<1>4. ASSUME NEW i \in 1..n + 1, Quiet(all, i) PROVE i \in 1..n /\ Quiet(s, i)
  <2>1. i # n + 1
    BY <1>1, <1>2, <1>4 DEF Quiet
  <2>2. i \in 1..n
    BY <1>1, <2>1
  <2>3. ASSUME NEW k \in i + 1..n PROVE k \in i + 1..n + 1 /\ all[k] = s[k]
    BY <1>1, <2>2
  <2> QED BY <1>1, <1>3, <1>4, <2>2, <2>3 DEF Quiet
<1>5. ASSUME NEW i \in 1..n + 1, Picked(all, i) PROVE i \in 1..n /\ Picked(s, i)
  BY <1>1, <1>2, <1>5 DEF Picked
<1>6. Agrees(all, fingerprint, stuck, cards)
  <2>1. \A i \in 1..n + 1 : i \in 1..n \/ i = n + 1
    BY <1>1
  <2>2. \A i \in 1..n + 1 : all[i].action \in Toggles => fingerprint[1] = "card_select"
    BY <1>1, <1>2, <1>3, <2>1 DEF Agrees
  <2>3. \A i \in 1..n + 1 : Quiet(all, i) =>
            stuck.fingerprint = fingerprint /\ stuck.actionSignature = all[i].action
    BY <1>1, <1>3, <1>4 DEF Agrees
  <2>4. \A i \in 1..n + 1 : Picked(all, i) =>
            cards.fingerprint = fingerprint /\ all[i].action \in cards.selectedIndices
    BY <1>1, <1>3, <1>5 DEF Agrees
  <2> QED BY <1>1, <2>2, <2>3, <2>4 DEF Agrees
<1>7. NoRepeats(all)
  <2> SUFFICES ASSUME NEW i \in 1..n + 1, NEW j \in 1..n + 1, i < j, all[i].outcome = "still",
                      \A k \in i + 1..j - 1 : all[k].outcome = "failed"
               PROVE  all[j].action # all[i].action
    BY <1>1 DEF NoRepeats
  <2>1. i \in 1..n
    BY <1>1
  <2>2. CASE j = n + 1
    <3>1. \A k \in i + 1..n : s[k].outcome = "failed"
      BY <1>1, <2>1, <2>2
    <3>2. Quiet(s, i)
      BY <1>1, <1>3, <2>1, <3>1 DEF Quiet
    <3>3. stuck.actionSignature = s[i].action
      BY <1>3, <2>1, <3>2 DEF Agrees
    <3> QED BY <1>1, <1>2, <2>1, <2>2, <3>3
  <2>3. CASE j # n + 1
    <3>1. j \in 1..n
      BY <1>1, <2>3
    <3>2. \A k \in i + 1..j - 1 : s[k].outcome = "failed"
      BY <1>1, <2>1, <3>1
    <3> QED BY <1>1, <1>3, <2>1, <3>1, <3>2 DEF NoRepeats
  <2> QED BY <2>2, <2>3
<1>8. NoRepicks(all)
  <2> SUFFICES ASSUME NEW i \in 1..n + 1, NEW j \in 1..n + 1, i < j, Picked(all, i)
               PROVE  all[j].action # all[i].action
    BY <1>1 DEF NoRepicks
  <2>1. i \in 1..n /\ Picked(s, i) /\ all[i] = s[i]
    BY <1>1, <1>5
  <2>2. CASE j = n + 1
    BY <1>1, <1>2, <1>3, <2>1, <2>2 DEF Agrees, Picked
  <2>3. CASE j # n + 1
    <3>1. j \in 1..n
      BY <1>1, <2>3
    <3> QED BY <1>1, <1>3, <2>1, <3>1 DEF NoRepicks
  <2> QED BY <2>2, <2>3
<1> QED BY <1>6, <1>7, <1>8 DEF all, entry

\* Learning how the last one went, with the guards as they are then.
LEMMA OutcomeAgrees ==
    ASSUME NEW s \in Seq(Entries), NEW fingerprint, NEW stuck, NEW cards, NEW newStuck, NEW newCards,
           NEW outcome \in {"still", "unsettled", "failed"},
           Agrees(s, fingerprint, stuck, cards), NoRepeats(s), NoRepicks(s),
           \A i \in 1..Len(s) : i = Len(s) => s[i].outcome = "pending",
           outcome = "failed" => newStuck = stuck,
           outcome = "still" => /\ newStuck.fingerprint = fingerprint
                                /\ \A i \in 1..Len(s) : i = Len(s) => newStuck.actionSignature = s[i].action,
           \A i \in 1..Len(s) : Picked(s, i) =>
                newCards.fingerprint = fingerprint /\ s[i].action \in newCards.selectedIndices,
           \A i \in 1..Len(s) : (outcome # "failed" /\ i = Len(s) /\ s[i].action \in Toggles) =>
                newCards.fingerprint = fingerprint /\ s[i].action \in newCards.selectedIndices
    PROVE  LET new == [s EXCEPT ![Len(s)].outcome = outcome]
           IN  Agrees(new, fingerprint, newStuck, newCards) /\ NoRepeats(new) /\ NoRepicks(new)
<1> DEFINE new == [s EXCEPT ![Len(s)].outcome = outcome]
           n == Len(s)
<1>1. n \in Nat /\ DOMAIN s = 1..n
  OBVIOUS
<1>2. \A i \in 1..n : s[i] \in Entries
  OBVIOUS
<1>3. new \in Seq(Entries) /\ Len(new) = n
  <2>1. new \in [1..n -> Entries]
    BY <1>1, <1>2 DEF Entries
  <2> QED BY <1>1, <2>1
<1>4. \A i \in 1..n : /\ new[i].action = s[i].action
                      /\ i # n => new[i] = s[i]
                      /\ i = n => new[i].outcome = outcome
  BY <1>1, <1>2 DEF Entries
<1>5. Len(s) = n
  OBVIOUS
<1> HIDE DEF new, n
<1>6. ASSUME NEW i \in 1..n, Quiet(new, i), i # n
      PROVE  outcome = "failed" /\ Quiet(s, i)
  <2>1. n \in i + 1..n /\ n \in 1..n
    BY <1>1, <1>6
  <2>2. outcome \in {"failed", "pending"}
    BY <1>3, <1>4, <1>6, <2>1 DEF Quiet
  <2>3. ASSUME NEW k \in i + 1..n PROVE s[k].outcome \in {"failed", "pending"}
    <3>1. k \in 1..n
      BY <1>1
    <3>2. new[k].outcome \in {"failed", "pending"}
      BY <1>3, <1>6 DEF Quiet
    <3>3. CASE k = n
      BY <1>5, <3>1, <3>3
    <3>4. CASE k # n
      BY <1>4, <3>1, <3>2, <3>4
    <3> QED BY <3>3, <3>4
  <2> QED BY <1>4, <1>5, <1>6, <2>2, <2>3 DEF Quiet
<1>7. Agrees(new, fingerprint, newStuck, newCards)
  <2>1. ASSUME NEW i \in 1..n, Quiet(new, i)
        PROVE  newStuck.fingerprint = fingerprint /\ newStuck.actionSignature = new[i].action
    <3>1. CASE i = n
      <4>1. outcome = "still"
        BY <1>4, <2>1, <3>1 DEF Quiet
      <4> QED BY <1>4, <1>5, <3>1, <4>1
    <3>2. CASE i # n
      BY <1>4, <1>5, <1>6, <2>1, <3>2 DEF Agrees
    <3> QED BY <3>1, <3>2
  <2>2. ASSUME NEW i \in 1..n, Picked(new, i)
        PROVE  newCards.fingerprint = fingerprint /\ new[i].action \in newCards.selectedIndices
    <3>1. CASE i = n
      BY <1>4, <1>5, <2>2, <3>1 DEF Picked
    <3>2. CASE i # n
      BY <1>4, <1>5, <2>2, <3>2 DEF Picked
    <3> QED BY <3>1, <3>2
  <2>3. \A i \in 1..n : new[i].action \in Toggles => fingerprint[1] = "card_select"
    BY <1>4, <1>5 DEF Agrees
  <2> QED BY <1>3, <2>1, <2>2, <2>3 DEF Agrees
<1>8. NoRepeats(new)
  <2> SUFFICES ASSUME NEW i \in 1..n, NEW j \in 1..n, i < j, new[i].outcome = "still",
                      \A k \in i + 1..j - 1 : new[k].outcome = "failed"
               PROVE  new[j].action # new[i].action
    BY <1>3 DEF NoRepeats
  <2>1. ASSUME NEW k \in i + 1..j - 1 PROVE s[k].outcome = "failed"
    <3>1. k \in 1..n /\ k # n
      BY <1>1
    <3> QED BY <1>4, <3>1
  <2>2. i # n
    BY <1>1
  <2> QED BY <1>4, <1>5, <2>1, <2>2 DEF NoRepeats
<1>9. NoRepicks(new)
  <2> SUFFICES ASSUME NEW i \in 1..n, NEW j \in 1..n, i < j, Picked(new, i)
               PROVE  new[j].action # new[i].action
    BY <1>3 DEF NoRepicks
  <2>1. i # n
    BY <1>1
  <2> QED BY <1>4, <1>5, <2>1 DEF NoRepicks, Picked
<1> QED BY <1>7, <1>8, <1>9 DEF new

LEMMA RepeatInit == Init => RepeatInv
<1> SUFFICES ASSUME Init PROVE RepeatInv
  OBVIOUS
<1>1. sent.entries = <<>>
  BY DEF Init, NothingSent
<1>2. Agrees(<<>>, sent.fingerprint, stuckGuard, cardGuard) /\ NoRepeats(<<>>) /\ NoRepicks(<<>>)
  BY NothingAgrees
<1> QED BY <1>1, <1>2, EvidenceInit DEF RepeatInv, SentInv, Init

\* A tick that decides looks at a page: what was sent there, and what the guards make of it.
LEMMA DecidedAgrees ==
    ASSUME RepeatInv, pc = "decided"
    PROVE  LET s == sentHere.entries
           IN  /\ sentHere.fingerprint = stateFingerprint(seen.page)
               /\ Agrees(s, sentHere.fingerprint, stuckOn(seen.page), guardOn(seen.page, choice.chosen))
               /\ NoRepeats(s) /\ NoRepicks(s)
               /\ \A i \in 1..Len(s) : s[i].outcome # "pending"
<1>1. CASE sent.fingerprint # stateFingerprint(seen.page)
  <2>1. sentHere.entries = <<>> /\ sentHere.fingerprint = stateFingerprint(seen.page)
    BY <1>1 DEF sentHere
  <2>2. /\ Agrees(<<>>, sentHere.fingerprint, stuckOn(seen.page), guardOn(seen.page, choice.chosen))
        /\ NoRepeats(<<>>) /\ NoRepicks(<<>>)
    BY NothingAgrees
  <2> QED BY <2>1, <2>2
<1>2. CASE sent.fingerprint = stateFingerprint(seen.page)
  <2> DEFINE s == sent.entries
             cards == guardOn(seen.page, choice.chosen)
  <2>1. sentHere = sent
    BY <1>2 DEF sentHere
  <2>2. Agrees(s, sent.fingerprint, stuckGuard, cardGuard) /\ NoRepeats(s) /\ NoRepicks(s)
    BY DEF RepeatInv, SentInv
  <2>3. \A i \in 1..Len(s) : s[i].outcome # "pending"
    BY DEF RepeatInv, SentInv
  <2>4. stateFingerprint(seen.page)[1] = seen.page.screen
    BY DEF stateFingerprint
  <2>5. choice.chosen \in Toggles => seen.page.screen = "card_select"
    BY DEF RepeatInv, SentInv
  <2>6. ASSUME NEW i \in 1..Len(s), Quiet(s, i)
        PROVE  /\ stuckOn(seen.page).fingerprint = sent.fingerprint
               /\ stuckOn(seen.page).actionSignature = s[i].action
    BY <1>2, <2>2, <2>6 DEF Agrees, stuckOn
  <2>7. ASSUME NEW i \in 1..Len(s), Picked(s, i)
        PROVE  cards.fingerprint = sent.fingerprint /\ s[i].action \in cards.selectedIndices
    <3>1. /\ cardGuard.fingerprint = stateFingerprint(seen.page)
          /\ s[i].action \in cardGuard.selectedIndices
      BY <1>2, <2>2, <2>7 DEF Agrees
    <3>2. seen.page.screen = "card_select"
      BY <1>2, <2>2, <2>4, <2>7 DEF Agrees, Picked
    <3>3. cards = cardGuard
      BY <3>1, <3>2 DEF guardOn
    <3> QED BY <1>2, <3>1, <3>3
  <2>8. Agrees(s, sent.fingerprint, stuckOn(seen.page), cards)
    BY <2>2, <2>6, <2>7 DEF Agrees
  <2> QED BY <1>2, <2>1, <2>2, <2>3, <2>8
<1> QED BY <1>1, <1>2

LEMMA SendAgrees ==
    ASSUME RepeatInv, Send
    PROVE  SentInv'
<1> DEFINE fp == stateFingerprint(seen.page)
           cards == guardOn(seen.page, choice.chosen)
           stuck == stuckOn(seen.page)
           s == sentHere.entries
<1>1. PICK action \in avoidRepeatedCardSelectToggle(seen.page, choice.chosen) :
        /\ stuckOn(seen.page).actionSignature # action
        /\ choice' = IF action = choice.chosen THEN choice
                     ELSE [choice EXCEPT !.chosen = action, !.source = "local_safety_guard"]
        /\ sent' = remember(action)
  BY DEF Send
<1>2. /\ pc = "decided" /\ pc' = "executing" /\ seen' = seen
      /\ cardGuard' = cards /\ stuckGuard' = stuck
  BY DEF Send
<1>3. /\ sentHere.fingerprint = fp /\ Agrees(s, fp, stuck, cards) /\ NoRepeats(s) /\ NoRepicks(s)
      /\ \A i \in 1..Len(s) : s[i].outcome # "pending"
  BY <1>2, DecidedAgrees
<1>4. TInv /\ choice \in Choices /\ choice.chosen \in Actions /\ seen \in Reads
  BY <1>2 DEF RepeatInv, EvidenceInv, TInv, TypeOK, UnderWay, Choosing
<1>5. action \in Toggles => seen.page.screen = "card_select" /\ action \notin cards.selectedIndices
  <2>1. choice.chosen \in Toggles => seen.page.screen = "card_select"
    BY <1>2 DEF RepeatInv, SentInv
  <2> QED BY <1>1, <2>1 DEF avoidRepeatedCardSelectToggle
<1>6. choice'.chosen = action
  BY <1>1, <1>4 DEF Choices
<1>7. fp[1] = seen.page.screen
  BY DEF stateFingerprint
<1>8. sentHere \in Sendings /\ s \in Seq(Entries) /\ action \in Actions
  BY <1>1, <1>4, GuardTypes, GuardedIsCandidate DEF Sendings, Actions
<1> DEFINE all == Append(s, [action |-> action, outcome |-> "pending"])
<1>9. Agrees(all, fp, stuck, cards) /\ NoRepeats(all) /\ NoRepicks(all)
  <2> HIDE DEF fp, cards, stuck, s
  <2> QED BY <1>1, <1>3, <1>5, <1>7, <1>8, AppendAgrees DEF stuck
<1>10. /\ all \in Seq(Entries) /\ all # <<>> /\ Tail(all) \in Seq(Entries)
  BY <1>8, RememberedType
<1>11. Agrees(Tail(all), fp, stuck, cards) /\ NoRepeats(Tail(all)) /\ NoRepicks(Tail(all))
  <2> HIDE DEF fp, cards, stuck, s, all
  <2> QED BY <1>9, <1>10, TailAgrees
<1>12. sent'.fingerprint = fp /\ sent'.entries \in {all, Tail(all)}
  BY <1>1, <1>3, <1>8 DEF remember, Sendings
<1>13. /\ Len(s) \in Nat /\ Len(all) = Len(s) + 1 /\ (\A i \in 1..Len(s) : all[i] = s[i])
       /\ all[Len(s) + 1] = [action |-> action, outcome |-> "pending"]
       /\ Len(Tail(all)) = Len(s) /\ \A i \in 1..Len(s) : Tail(all)[i] = all[i + 1]
  BY <1>8
<1>14. ASSUME NEW new \in {all, Tail(all)}, NEW i \in 1..Len(new)
       PROVE  IF i = Len(new) THEN new[i].action = action /\ new[i].outcome = "pending"
              ELSE new[i].outcome # "pending"
  <2> DEFINE n == Len(s)
             entry == [action |-> action, outcome |-> "pending"]
  <2>1. /\ n \in Nat /\ Len(all) = n + 1 /\ (\A k \in 1..n : all[k] = s[k]) /\ all[n + 1] = entry
        /\ Len(Tail(all)) = n /\ \A k \in 1..n : Tail(all)[k] = all[k + 1]
    BY <1>13
  <2>2. entry.action = action /\ entry.outcome = "pending" /\ \A k \in 1..n : s[k].outcome # "pending"
    BY <1>3
  <2> HIDE DEF n, entry, all, s
  <2>3. CASE new = all
    <3>1. i \in 1..n \/ i = n + 1
      BY <2>1, <2>3
    <3> QED BY <2>1, <2>2, <2>3, <3>1
  <2>4. CASE new = Tail(all)
    <3>1. i \in 1..n /\ new[i] = all[i + 1]
      BY <2>1, <2>4
    <3>2. CASE i = n
      BY <2>1, <2>2, <2>4, <3>1, <3>2
    <3>3. CASE i # n
      <4>1. i + 1 \in 1..n
        BY <2>1, <3>1, <3>3
      <4> QED BY <2>1, <2>2, <2>4, <3>1, <3>3, <4>1
    <3> QED BY <3>2, <3>3
  <2> QED BY <2>3, <2>4
<1>15. choice'.chosen # "main_menu"
  <2>1. choice.chosen # "main_menu"
    BY <1>2 DEF RepeatInv, EvidenceInv, ChoiceIsAttributed
  <2> QED BY <1>1, <1>6, <2>1, GuardedIsCandidate DEF Toggles
<1>16. Agrees(sent'.entries, sent'.fingerprint, stuckGuard', cardGuard')
  BY <1>2, <1>9, <1>11, <1>12
<1>17. NoRepeats(sent'.entries) /\ NoRepicks(sent'.entries)
  BY <1>9, <1>11, <1>12
<1> HIDE DEF all, s, cards, stuck
<1>18. \A i \in 1..Len(sent'.entries) :
          IF i = Len(sent'.entries)
          THEN sent'.entries[i].action = action /\ sent'.entries[i].outcome = "pending"
          ELSE sent'.entries[i].outcome # "pending"
  BY <1>12, <1>14
<1> QED BY <1>2, <1>5, <1>6, <1>12, <1>15, <1>16, <1>17, <1>18 DEF SentInv

\* What is recorded about the last action that was sent, once its tick is told how it went.
LEMMA NotedAgrees ==
    ASSUME RepeatInv, pc = "executing", choice.chosen # "main_menu", pc' # "executing",
           NEW outcome \in {"still", "unsettled", "failed"}, sent' = withOutcome(outcome),
           pc' \in {"asking", "decided"} => choice'.chosen \notin Toggles,
           outcome = "failed" => stuckGuard' = stuckGuard,
           outcome = "still" => /\ stuckGuard'.fingerprint = stateFingerprint(seen.page)
                                /\ stuckGuard'.actionSignature = choice.chosen,
           \A i \in 1..Len(sent.entries) : Picked(sent.entries, i) =>
                /\ cardGuard'.fingerprint = stateFingerprint(seen.page)
                /\ sent.entries[i].action \in cardGuard'.selectedIndices,
           outcome # "failed" /\ choice.chosen \in Toggles =>
                /\ cardGuard'.fingerprint = stateFingerprint(seen.page)
                /\ choice.chosen \in cardGuard'.selectedIndices
    PROVE  SentInv'
<1> DEFINE fp == stateFingerprint(seen.page)
           s == sent.entries
           new == [s EXCEPT ![Len(s)].outcome = outcome]
<1>1. sent \in Sendings /\ s \in Seq(Entries)
  BY DEF RepeatInv, EvidenceInv, TInv, TypeOK, Sendings
<1>2. /\ sent.fingerprint = fp
      /\ \A i \in 1..Len(s) : i = Len(s) => s[i].action = choice.chosen /\ s[i].outcome = "pending"
      /\ \A i \in 1..Len(s) : s[i].outcome = "pending" => i = Len(s)
  BY DEF RepeatInv, SentInv
<1>3. Agrees(s, fp, stuckGuard, cardGuard) /\ NoRepeats(s) /\ NoRepicks(s)
  BY <1>2 DEF RepeatInv, SentInv
<1>4. sent'.fingerprint = fp /\ sent'.entries = new
  BY <1>1, <1>2 DEF withOutcome, Sendings
<1>5. Agrees(new, fp, stuckGuard', cardGuard') /\ NoRepeats(new) /\ NoRepicks(new)
  <2>1. \A i \in 1..Len(s) : i = Len(s) => s[i].outcome = "pending"
    BY <1>2
  <2>2. outcome = "still" => /\ stuckGuard'.fingerprint = fp
                             /\ \A i \in 1..Len(s) : i = Len(s) => stuckGuard'.actionSignature = s[i].action
    BY <1>2
  <2>3. \A i \in 1..Len(s) : (outcome # "failed" /\ i = Len(s) /\ s[i].action \in Toggles) =>
                cardGuard'.fingerprint = fp /\ s[i].action \in cardGuard'.selectedIndices
    BY <1>2
  <2>4. \A i \in 1..Len(s) : Picked(s, i) =>
                cardGuard'.fingerprint = fp /\ s[i].action \in cardGuard'.selectedIndices
    OBVIOUS
  <2> HIDE DEF fp, s
  <2> QED BY <1>1, <1>3, <2>1, <2>2, <2>3, <2>4, OutcomeAgrees
<1>6. \A i \in 1..Len(new) : new[i].outcome # "pending"
  <2>1. Len(s) \in Nat /\ Len(new) = Len(s) /\ DOMAIN s = 1..Len(s)
    <3>1. Len(s) \in Nat /\ DOMAIN s = 1..Len(s)
      BY <1>1
    <3>2. DOMAIN new = 1..Len(s)
      BY <3>1
    <3>3. new \in Seq(Entries)
      BY <1>1, OutcomeType
    <3> QED BY <3>1, <3>2, <3>3
  <2>2. \A i \in 1..Len(s) : s[i] \in Entries
    BY <1>1
  <2>3. ASSUME NEW i \in 1..Len(s) PROVE new[i].outcome # "pending"
    <3>1. CASE i = Len(s)
      BY <2>1, <2>2, <3>1 DEF Entries
    <3>2. CASE i # Len(s)
      BY <1>2, <2>1, <3>2
    <3> QED BY <3>1, <3>2
  <2> QED BY <2>1, <2>3
<1> HIDE DEF new, s, fp
<1>7. ~(pc' \in {"asking", "decided", "executing"} /\ choice'.chosen \in Toggles)
  OBVIOUS
<1> QED BY <1>4, <1>5, <1>6, <1>7 DEF SentInv

LEMMA SettlesAgrees ==
    ASSUME RepeatInv, Settles
    PROVE  SentInv'
<1> DEFINE fp == stateFingerprint(seen.page)
<1>1. PICK settled \in isSettled(seen.page, game.page, choice.chosen) :
        /\ stuckGuard' = noteNoProgress(settled, game.page, choice.chosen)
        /\ cardGuard' = noteCardSelectSettlement(settled, game.page, choice.chosen)
        /\ sent' = sentAfter(settled, game.page)
  BY DEF Settles
<1>2. pc = "executing" /\ choice.chosen # "main_menu" /\ pc' = "logging"
  BY DEF Settles
<1>3. CASE settled
  <2>1. sent'.entries = <<>>
    BY <1>1, <1>3 DEF sentAfter, NothingSent
  <2>2. /\ Agrees(<<>>, sent'.fingerprint, stuckGuard', cardGuard')
        /\ NoRepeats(<<>>) /\ NoRepicks(<<>>)
    BY NothingAgrees
  <2> QED BY <1>2, <2>1, <2>2 DEF SentInv
<1>4. CASE ~settled
  <2>1. \/ stateFingerprint(game.page) = fp
        \/ choice.chosen \in {"attack", "end_turn"} /\ seen.page.screen = game.page.screen
    BY <1>1, <1>4 DEF isSettled
  <2>2. stateFingerprint(game.page) = fp => game.page.screen = seen.page.screen
    BY DEF stateFingerprint
  <2>3. fp[1] = seen.page.screen
    BY DEF stateFingerprint
  <2>4. stateHash(seen.page) = stateHash(game.page) => stateFingerprint(game.page) = fp
    BY DEF stateHash, stateFingerprint
  <2>5. choice.chosen \in Toggles => choice.chosen \notin {"attack", "end_turn"}
    BY DEF Toggles
  <2> DEFINE outcome == IF stateHash(seen.page) = stateHash(game.page) THEN "still" ELSE "unsettled"
  <2>6. sent' = withOutcome(outcome) /\ outcome \in {"still", "unsettled", "failed"} /\ outcome # "failed"
    BY <1>1, <1>4 DEF sentAfter
  <2>7. outcome = "still" => stuckGuard'.fingerprint = fp /\ stuckGuard'.actionSignature = choice.chosen
    BY <1>1, <1>4, <2>4 DEF noteNoProgress
  <2>8. ASSUME NEW i \in 1..Len(sent.entries), Picked(sent.entries, i)
        PROVE  cardGuard'.fingerprint = fp /\ sent.entries[i].action \in cardGuard'.selectedIndices
    <3>1. sent.fingerprint = fp /\ Agrees(sent.entries, fp, stuckGuard, cardGuard)
      BY <1>2 DEF RepeatInv, SentInv
    <3>2. cardGuard.fingerprint = fp /\ sent.entries[i].action \in cardGuard.selectedIndices
      BY <2>8, <3>1 DEF Agrees
    <3>3. seen.page.screen = "card_select" /\ game.page.screen = "card_select"
      BY <2>1, <2>2, <2>3, <2>8, <3>1 DEF Agrees, Picked
    <3> QED BY <1>1, <1>4, <2>1, <2>5, <3>2, <3>3 DEF noteCardSelectSettlement
  <2>9. ASSUME choice.chosen \in Toggles
        PROVE  cardGuard'.fingerprint = fp /\ choice.chosen \in cardGuard'.selectedIndices
    <3>1. seen.page.screen = "card_select"
      BY <1>2, <2>9 DEF RepeatInv, SentInv
    <3>2. stateFingerprint(game.page) = fp /\ game.page.screen = "card_select"
      BY <2>1, <2>2, <2>5, <2>9, <3>1
    <3> QED BY <1>1, <1>4, <2>9, <3>2 DEF noteCardSelectSettlement
  <2> HIDE DEF outcome
  <2> QED BY <1>2, <2>6, <2>7, <2>8, <2>9, NotedAgrees
<1> QED BY <1>3, <1>4

LEMMA SendFailsAgrees ==
    ASSUME RepeatInv, SendFails
    PROVE  SentInv'
<1>1. /\ pc = "executing" /\ pc' = "idle"
      /\ stuckGuard' = stuckGuard /\ cardGuard' = cardGuard
  BY DEF SendFails, EndTick
<1>2. CASE choice.chosen = "main_menu"
  BY <1>1, <1>2 DEF SendFails, RepeatInv, SentInv
<1>3. CASE choice.chosen # "main_menu"
  <2>1. sent' = withOutcome("failed")
    BY <1>3 DEF SendFails
  <2>2. sent.fingerprint = stateFingerprint(seen.page)
    BY <1>1, <1>3 DEF RepeatInv, SentInv
  <2>3. \A i \in 1..Len(sent.entries) : Picked(sent.entries, i) =>
            /\ cardGuard'.fingerprint = stateFingerprint(seen.page)
            /\ sent.entries[i].action \in cardGuard'.selectedIndices
    BY <1>1, <2>2 DEF RepeatInv, SentInv, Agrees
  <2> QED BY <1>1, <1>3, <2>1, <2>3, NotedAgrees
<1> QED BY <1>2, <1>3

\* Every other step leaves what was sent and the guards alone.
LEMMA KeptAgrees ==
    ASSUME RepeatInv, UNCHANGED <<sent, stuckGuard, cardGuard>>,
           pc = "executing" => choice.chosen = "main_menu",
           pc' = "executing" => choice'.chosen = "main_menu",
           (pc' \in {"asking", "decided"} /\ choice'.chosen \in Toggles) =>
                seen'.page.screen = "card_select"
    PROVE  SentInv'
<1>1. choice'.chosen = "main_menu" => choice'.chosen \notin Toggles
  BY DEF Toggles
<1>2. \A i \in 1..Len(sent.entries) : sent.entries[i].outcome # "pending"
  BY DEF RepeatInv, SentInv
<1>3. /\ Agrees(sent.entries, sent.fingerprint, stuckGuard, cardGuard)
      /\ NoRepeats(sent.entries) /\ NoRepicks(sent.entries)
  BY DEF RepeatInv, SentInv
<1> QED BY <1>1, <1>2, <1>3 DEF SentInv

LEMMA TogglesOnCardSelect ==
    ASSUME NEW page, NEW action \in candidates(page) \cap Toggles
    PROVE  page.screen = "card_select"
BY DEF candidates, generateCombatCandidates, generateCardSelectCandidates, Toggles

LEMMA RepeatNext == RepeatInv /\ [Next]_vars => RepeatInv'
<1> SUFFICES ASSUME RepeatInv, [Next]_vars PROVE RepeatInv'
  OBVIOUS
<1>1. EvidenceInv'
  BY EvidenceNext DEF RepeatInv
<1>2. SentInv'
  <2>1. CASE GameMoves
    BY <2>1 DEF GameMoves, RepeatInv, SentInv
  <2>2. CASE TickWaits \/ BackoffEnds \/ FinalizeStore
    BY <2>2, KeptAgrees DEF TickWaits, BackoffEnds, FinalizeStore
  <2>3. CASE TickGameOver \/ FinalizeEnds
    <3>1. pc' = "executing" => choice'.chosen = "main_menu"
      <4>1. CASE \E read : returnToMenu(read)
        BY <4>1 DEF returnToMenu, EndTick, NoChoice
      <4>2. CASE pc' = "finalizing"
        BY <4>2
      <4> QED BY <2>3, <4>1, <4>2 DEF TickGameOver, FinalizeEnds
    <3>2. pc' \in {"idle", "executing", "finalizing"}
      BY <2>3 DEF TickGameOver, FinalizeEnds, returnToMenu, EndTick
    <3>3. pc # "executing" /\ UNCHANGED <<sent, stuckGuard, cardGuard>>
      BY <2>3 DEF TickGameOver, FinalizeEnds
    <3> QED BY <3>1, <3>2, <3>3, KeptAgrees
  <2>4. CASE TickChooses
    <3>1. choice'.chosen \in candidates(game.page)
      BY <2>4, TickDecides DEF NoChoice
    <3>2. seen' = game /\ pc = "idle" /\ UNCHANGED <<sent, stuckGuard, cardGuard>>
      BY <2>4 DEF TickChooses
    <3>3. choice'.chosen \in Toggles => seen'.page.screen = "card_select"
      BY <3>1, <3>2, TogglesOnCardSelect
    <3>4. pc' # "executing"
      BY <2>4 DEF TickChooses
    <3> QED BY <3>2, <3>3, <3>4, KeptAgrees
  <2>5. CASE LlmAnswers \/ LlmFails
    <3>1. choice'.chosen = choice.chosen \/ choice'.chosen \in candidates(seen.page)
      <4>1. choice \in Choices
        BY DEF RepeatInv, EvidenceInv, TInv, TypeOK
      <4>2. CASE LlmAnswers
        BY <4>1, <4>2, AnswerDecides DEF Choices
      <4>3. CASE LlmFails
        BY <4>1, <4>3, FailureDecides DEF Choices
      <4> QED BY <2>5, <4>2, <4>3
    <3>2. pc = "asking" /\ pc' = "decided" /\ seen' = seen /\ UNCHANGED <<sent, stuckGuard, cardGuard>>
      BY <2>5 DEF LlmAnswers, LlmFails
    <3>3. choice.chosen \in Toggles => seen.page.screen = "card_select"
      BY <3>2 DEF RepeatInv, SentInv
    <3>4. choice'.chosen \in Toggles => seen'.page.screen = "card_select"
      BY <3>1, <3>2, <3>3, TogglesOnCardSelect
    <3> QED BY <3>2, <3>4, KeptAgrees
  <2>6. CASE DryRunEnds
    BY <2>6, KeptAgrees DEF DryRunEnds, EndTick
  <2>7. CASE GuardWaits
    <3>1. pc = "decided" /\ pc' = "idle" /\ sent' = sentHere /\ cardGuard' = guardOn(seen.page, choice.chosen)
      BY <2>7 DEF GuardWaits, EndTick
    <3>2. /\ Agrees(sentHere.entries, sentHere.fingerprint, stuckOn(seen.page), cardGuard')
          /\ sentHere.fingerprint = stateFingerprint(seen.page)
          /\ NoRepeats(sentHere.entries) /\ NoRepicks(sentHere.entries)
          /\ \A i \in 1..Len(sentHere.entries) : sentHere.entries[i].outcome # "pending"
      BY <3>1, DecidedAgrees
    <3>3. stuckGuard' = stuckGuard \/ stuckGuard' = stuckOn(seen.page)
      BY <2>7 DEF GuardWaits
    <3>4. Agrees(sentHere.entries, sentHere.fingerprint, stuckGuard, cardGuard')
      <4>1. ASSUME NEW i \in 1..Len(sentHere.entries), Quiet(sentHere.entries, i)
            PROVE  /\ stuckGuard.fingerprint = sentHere.fingerprint
                   /\ stuckGuard.actionSignature = sentHere.entries[i].action
        <5>1. CASE sent.fingerprint = stateFingerprint(seen.page)
          <6>1. sentHere = sent
            BY <5>1 DEF sentHere
          <6> QED BY <4>1, <6>1 DEF RepeatInv, SentInv, Agrees
        <5>2. CASE sent.fingerprint # stateFingerprint(seen.page)
          <6>1. sentHere.entries = <<>>
            BY <5>2 DEF sentHere
          <6> QED BY <6>1
        <5> QED BY <5>1, <5>2
      <4> QED BY <3>2, <4>1 DEF Agrees
    <3>5. Agrees(sent'.entries, sent'.fingerprint, stuckGuard', cardGuard')
      BY <3>1, <3>2, <3>3, <3>4
    <3>6. NoRepeats(sent'.entries) /\ NoRepicks(sent'.entries)
      BY <3>1, <3>2
    <3>7. \A i \in 1..Len(sent'.entries) : sent'.entries[i].outcome # "pending"
      BY <3>1, <3>2
    <3> QED BY <3>1, <3>5, <3>6, <3>7 DEF SentInv
  <2>8. CASE MenuSettles \/ LogDecision \/ recordAgentDecision
    <3>1. pc' \in {"idle", "recording"} /\ UNCHANGED <<sent, stuckGuard, cardGuard>>
      BY <2>8 DEF MenuSettles, LogDecision, recordAgentDecision, EndTick
    <3>2. pc = "executing" => choice.chosen = "main_menu"
      BY <2>8 DEF MenuSettles, LogDecision, recordAgentDecision
    <3> QED BY <3>1, <3>2, KeptAgrees
  <2>9. CASE Restart
    <3>1. pc' = "idle" /\ sent'.entries = <<>>
      BY <2>9 DEF Restart, EndTick, NothingSent
    <3>2. /\ Agrees(<<>>, sent'.fingerprint, stuckGuard', cardGuard')
          /\ NoRepeats(<<>>) /\ NoRepicks(<<>>)
      BY NothingAgrees
    <3> QED BY <3>1, <3>2 DEF SentInv
  <2>10. CASE ShadowReturns
    <3>1. choice'.chosen = choice.chosen
      BY <2>10, ShadowOnly DEF RepeatInv, EvidenceInv, TInv, TypeOK
    <3>2. pc = "decided" /\ pc' = pc /\ seen' = seen /\ UNCHANGED <<sent, stuckGuard, cardGuard>>
      BY <2>10 DEF ShadowReturns
    <3>3. choice'.chosen \in Toggles => seen'.page.screen = "card_select"
      BY <3>1, <3>2 DEF RepeatInv, SentInv
    <3> QED BY <3>2, <3>3, KeptAgrees
  <2>11. CASE UNCHANGED vars
    BY <2>11 DEF vars, RepeatInv, SentInv
  <2> QED BY <2>1, <2>2, <2>3, <2>4, <2>5, <2>6, <2>7, <2>8, <2>9, <2>10, <2>11,
             SendAgrees, SettlesAgrees, SendFailsAgrees DEF Next
<1> QED BY <1>1, <1>2 DEF RepeatInv

LEMMA RepeatAlways == Spec => []RepeatInv
BY RepeatInit, RepeatNext, PTL DEF Spec

LEMMA SentIsSequence ==
    ASSUME RepeatInv
    PROVE  DOMAIN sent.entries = 1..Len(sent.entries)
BY DEF RepeatInv, EvidenceInv, TInv, TypeOK, Sendings

\* The stuck guard of controller.ts always holds the last action without effect on the
\* page it was sent to, so until a tick decides on another page that action is not sent
\* again, however many sends fail in between.
THEOREM NothingRepeatedBlindly == Spec => []NoBlindRepeat
<1>1. RepeatInv => NoBlindRepeat
  BY SentIsSequence DEF RepeatInv, SentInv, NoRepeats, NoBlindRepeat
<1> QED BY <1>1, RepeatAlways, PTL

\* The card guard of controller.ts holds every card picked on the page since the last
\* settled action, so no picked card is toggled back, for any number of cards and ticks.
THEOREM PickedCardsStay == Spec => []PickedOnce
<1>1. RepeatInv => PickedOnce
  BY SentIsSequence DEF RepeatInv, SentInv, NoRepicks, Picked, PickedOnce
<1> QED BY <1>1, RepeatAlways, PTL
=============================================================================
