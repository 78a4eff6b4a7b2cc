--------------------------- MODULE LearningLedger ---------------------------
(***************************************************************************)
(* The learning ledger of the archived agent: npm run learning:proposals.  *)
(* Every invocation is a process of its own over four append-only files    *)
(* of one run: it reads them, does one command and exits.  Nothing locks   *)
(* the files, so invocations overlap; one that dies in an append may leave *)
(* a torn last line, which the next append of anyone runs into.            *)
(***************************************************************************)
EXTENDS EvidenceRoles, Naturals, SequencesExt, FiniteSets

CONSTANTS
    Invocations,    \* the command lines run on this run's files
    Kinds,          \* what a logged transition can be, see TransitionKind
    NumTransitions, \* transitions of the run
    Requests,       \* what a human passes to "record --proposal-json"
    CommandLines,   \* the commands tried, some of Commands
    ProviderAnswers,\* the answers tried, some of Answers
    MaxTears        \* bound: appends torn by a death

Files == {"proposals", "feedback", "reviews", "manifests"}
TransitionIds == 1..NumTransitions
Ids == ({"prediction", "workspace", "reason", "budget"} \X TransitionIds) \cup {q.id : q \in Requests}
Patches == {"none", "guidance", "unknown_future", "other_note"}
Qualities == {"adequate", "thin", "missing"}
Proposals == [id : Ids, status : {"draft", "pending_review"}, complete : BOOLEAN, canary : BOOLEAN,
              patch : Patches, source : TransitionIds]

(* A transition: its evidence (EvidenceRoles), whether the product mode was the      *)
(* model's, what the generator finds in it, the seeds with a type feedback is written *)
(* for, whether its signal and its reason note name the same thing (missing_tradeoff  *)
(* is both), and what a same-slice rerun finds: the recorded provider profile,        *)
(* whether the recorded prompt is still the one built today, and the quality of the   *)
(* recorded reason.  A log is unreplayable if the provider profile has no timeout, or *)
(* there is no packet or no scored candidate.                                         *)
TransitionKind(t) ==
    /\ t.env \in Environments /\ t.shadow \in Shadows /\ t.mismatch \in BOOLEAN
    /\ t.authority \in Actors /\ t.product \in BOOLEAN
    /\ t.prediction \in {"none", "open", "unsupported"}
    /\ t.signal \in BOOLEAN /\ t.noted \in BOOLEAN /\ t.overBudget \in BOOLEAN
    /\ t.linked \subseteq {"prediction", "workspace"}
    /\ t.sameTarget \in BOOLEAN /\ (t.sameTarget => t.signal /\ t.noted)
    /\ t.profile \in {"complete", "unreplayable", "incomplete"}
    /\ t.replays \in BOOLEAN /\ t.reason \in Qualities
ASSUME KindsAssumption == \A t \in Kinds : TransitionKind(t)
ASSUME RequestsAssumption == Requests \subseteq Proposals
ASSUME NumbersAssumption == NumTransitions \in Nat \ {0} /\ MaxTears \in Nat

(* One invocation; "record" carries its request, the others name a proposal by id; a  *)
(* record with a status other than these two, or a review without notes, is malformed. *)
Commands ==
    [name : {"record"}, request : Requests]
    \cup [name : {"malformed"}]
    \cup [name : {"generate"}, include : BOOLEAN]
    \cup [name : {"approve", "reject", "expire"}, id : Ids]
    \cup [name : {"shadow-run"}, id : Ids, transition : TransitionIds, keep : BOOLEAN]

ASSUME CommandLinesAssumption == CommandLines \subseteq Commands

Answers == [outcome : {"valid", "invalid_choice", "invalid_output", "error", "unavailable"},
            stopped : BOOLEAN, reason : Qualities, sameProfile : BOOLEAN]
ASSUME ProviderAnswersAssumption == ProviderAnswers \subseteq Answers
NoAnswer == [outcome |-> "not_called", stopped |-> FALSE, reason |-> "missing",
             sameProfile |-> FALSE]

VARIABLES
    log,        \* TransitionIds -> Kinds: the run's transitions, fixed
    store,      \* Files -> sequence of lines
    pc,         \* idle, reading, asking, writing or done
    cmd,        \* what each invocation was asked to do
    snapshot,   \* the proposals it read
    plan,       \* the lines it decided to append, as [file, line]
    written,    \* how many of them it has appended
    answer,     \* what the provider answered it
    result,     \* how it ended: "none" until then
    tears       \* appends torn so far

vars == <<log, store, pc, cmd, snapshot, plan, written, answer, result, tears>>

\* What createLearningProposal keeps of an input: missing fields make it a draft.
applyLearningProposalValidation(pr) ==
    [pr EXCEPT !.status = IF pr.complete THEN @ ELSE "draft"]
actionable(pr) == pr.status = "pending_review" /\ pr.complete

proposalLine(pr, p) == [kind |-> "proposal", by |-> p, proposal |-> applyLearningProposalValidation(pr)]
torn == [kind |-> "torn"]
glued == [kind |-> "glued"]

\* An append does not look at the file: after a torn line it continues that line.
AppendDropped(lines, line) ==  \* changed: nothing is written after a torn line
    IF lines # <<>> /\ Last(lines) = torn THEN lines ELSE Append(lines, line)
appendJsonl(lines, line) ==
    IF lines # <<>> /\ Last(lines) = torn
    THEN [lines EXCEPT ![Len(lines)] = glued]
    ELSE Append(lines, line)

\* One unparsable line makes the whole file unreadable; a torn one is that as well.
readJsonlIfExists(lines) == \A i \in DOMAIN lines : lines[i] \notin {torn, glued}

idsOf(lines) == {lines[i].proposal.id : i \in DOMAIN lines}
\* proposals.find: the first line with the id speaks for it.
FindLast(lines, id) ==  \* changed: the last record of an id speaks for it
    lines[CHOOSE i \in DOMAIN lines :
    lines[i].proposal.id = id /\ \A j \in i + 1..Len(lines) : lines[j].proposal.id # id].proposal
find(lines, id) == lines[CHOOSE i \in DOMAIN lines :
    lines[i].proposal.id = id /\ \A j \in 1..i - 1 : lines[j].proposal.id # id].proposal

-----------------------------------------------------------------------------
(* generateLearningProposalSeeds                                           *)

Seed(source, i, status) ==
    [id |-> <<source, i>>, status |-> status, complete |-> log[i].env = "organic",
     canary |-> source = "reason" /\ log[i].env = "organic", patch |-> "none", source |-> i]

proposalsFromPredictionError(i) ==
    IF log[i].prediction = "none" THEN <<>>
    ELSE <<Seed("prediction", i,
                IF log[i].prediction = "unsupported" /\ proposalSeedEligible(log[i])
                THEN "pending_review" ELSE "draft")>>
proposalsFromWorkspaceSignals(i) == IF log[i].signal THEN <<Seed("workspace", i, "draft")>> ELSE <<>>
proposalsFromReasonQuality(i) == IF log[i].noted THEN <<Seed("reason", i, "draft")>> ELSE <<>>
proposalsFromBudgetSignals(i) == IF log[i].overBudget THEN <<Seed("budget", i, "draft")>> ELSE <<>>

seedsOf(i, include) ==
    IF include \/ proposalSeedEligible(log[i]) \/ isDraftOnlyLocalObservation(log[i])
    THEN proposalsFromPredictionError(i) \o proposalsFromWorkspaceSignals(i)
         \o proposalsFromReasonQuality(i) \o proposalsFromBudgetSignals(i)
    ELSE <<>>
generateLearningProposalSeeds(include) ==
    FlattenSeq([i \in TransitionIds |-> seedsOf(i, include)])

\* Array.filter: the elements of s that are among those kept, in their order.
filterTo(s, kept) == FlattenSeq([k \in DOMAIN s |-> IF s[k] \in kept THEN <<s[k]>> ELSE <<>>])
newSeeds(seeds, lines) == filterTo(seeds, {s \in ToSet(seeds) : s.id \notin idsOf(lines)})

\* Feedback is written for the types candidate_template, scaffold_policy and
\* reason_policy, under an id made of the run, the transition and what the seed is about.
hasFeedback(s) == s.id[1] = "reason" \/ s.id[1] \in log[s.source].linked
feedbackId(s) ==
    <<IF s.id[1] = "reason" /\ log[s.source].sameTarget THEN "workspace" ELSE s.id[1], s.source>>
feedbackLine(s) == [kind |-> "feedback", id |-> feedbackId(s)]
reverseFeedback(seeds) ==
    LET linked == filterTo(seeds, {s \in ToSet(seeds) : hasFeedback(s)})
    IN  [k \in DOMAIN linked |-> feedbackLine(linked[k])]

\* What "generate --write" appends: the seeds, then the feedback, each only if its id
\* was not on file when the invocation read and it has not just appended it.
Lines(seeds, feedback, p) ==
    [k \in DOMAIN seeds |-> [file |-> "proposals", line |-> proposalLine(seeds[k], p)]]
    \o [k \in DOMAIN feedback |-> [file |-> "feedback", line |-> feedback[k]]]
firstOfEach(s) == FlattenSeq(
    [k \in DOMAIN s |-> IF \E j \in 1..k - 1 : s[j] = s[k] THEN <<>> ELSE <<s[k]>>])
newFeedback(seeds) ==
    LET feedback == firstOfEach(reverseFeedback(seeds))
    IN  filterTo(feedback, ToSet(feedback) \ ToSet(store["feedback"]))
PlanRegardless(p) ==  \* changed: what is on file already is not looked at
    LET seeds == generateLearningProposalSeeds(cmd[p].include)
    IN  Lines(seeds, newFeedback(seeds), p)
PlanNewOnly(p) ==  \* changed: feedback only for new seeds
    LET seeds == newSeeds(generateLearningProposalSeeds(cmd[p].include), snapshot[p])
    IN  Lines(seeds, reverseFeedback(seeds), p)
generatePlan(p) ==
    LET seeds == generateLearningProposalSeeds(cmd[p].include)
    IN  Lines(newSeeds(seeds, snapshot[p]), newFeedback(seeds), p)

-----------------------------------------------------------------------------
(* The same-slice shadow run: overlay policy, preflight, evaluation        *)

assessShadowWorkspaceOverlayEligibility(pr, i) ==
    actionable(pr) /\ pr.canary /\ pr.source = i /\ proposalSeedEligible(log[i]) /\ pr.patch # "none"

PreflightSeedOnly(pr, i) ==  \* changed: any seed evidence will do
    /\ log[i].product
    /\ log[i].profile # "incomplete"
    /\ assessShadowWorkspaceOverlayEligibility(pr, i)
assessLearningExperimentPreflight(pr, i) ==
    /\ log[i].product
    /\ sameSliceProviderEligible(log[i])
    /\ log[i].profile # "incomplete"
    /\ assessShadowWorkspaceOverlayEligibility(pr, i)

\* The overlay is built only if the patch names futures of this packet and the note that
\* triggers it was made on this transition.
assembled(pr, i) == pr.patch = "guidance" /\ log[i].noted

\* What evaluateLearningProposalShadowPair and validateOutcome hold against a pair.
regressed(i, a) ==
    \/ a.outcome # "valid" \/ ~a.stopped
    \/ a.reason = "missing"
    \/ log[i].reason = "adequate" /\ a.reason # "adequate"
evaluateLearningProposalShadowPair(i, a) ==
    IF regressed(i, a) THEN "regression_detected"
    ELSE IF ~a.sameProfile \/ ~log[i].replays \/ log[i].reason = "missing" THEN "incomplete"
    ELSE "paired_evidence_ready_for_review"

manifestLine(p, status) ==
    [kind |-> "manifest", by |-> p, id |-> cmd[p].id, transition |-> cmd[p].transition, status |-> status]
manifestPlan(p, status) ==
    IF cmd[p].keep THEN <<[file |-> "manifests", line |-> manifestLine(p, status)]>> ELSE <<>>

-----------------------------------------------------------------------------
Init ==
    /\ log \in [TransitionIds -> Kinds]
    /\ store = [f \in Files |-> <<>>]
    /\ pc = [p \in Invocations |-> "idle"]
    /\ cmd = [p \in Invocations |-> [name |-> "none"]]
    /\ snapshot = [p \in Invocations |-> <<>>]
    /\ plan = [p \in Invocations |-> <<>>]
    /\ written = [p \in Invocations |-> 0]
    /\ answer = [p \in Invocations |-> NoAnswer]
    /\ result = [p \in Invocations |-> "none"]
    /\ tears = 0

Exit(p, how) ==
    /\ pc' = [pc EXCEPT ![p] = "done"]
    /\ result' = [result EXCEPT ![p] = how]
    /\ UNCHANGED <<plan, written>>

\* The command goes on to write, or is over if it has nothing to write.
Write(p, lines) ==
    IF lines = <<>> THEN Exit(p, "ok")
    ELSE /\ pc' = [pc EXCEPT ![p] = "writing"]
         /\ plan' = [plan EXCEPT ![p] = lines]
         /\ UNCHANGED <<written, result>>

\* Every command reads every file before it does anything: the proposals...
Start(p, c) ==
    /\ pc[p] = "idle"
    /\ readJsonlIfExists(store["proposals"])
    /\ pc' = [pc EXCEPT ![p] = "reading"]
    /\ cmd' = [cmd EXCEPT ![p] = c]
    /\ snapshot' = [snapshot EXCEPT ![p] = store["proposals"]]
    /\ UNCHANGED <<log, store, plan, written, answer, result, tears>>

\* ...and then the others.  What a command does up to its first append or its request
\* is local, and one step with this second read.
ReadOthers(p) ==
    pc[p] = "reading" /\ readJsonlIfExists(store["feedback"]) /\ readJsonlIfExists(store["reviews"])

ReadFails(p) ==
    /\ \/ pc[p] = "idle" /\ ~readJsonlIfExists(store["proposals"])
       \/ /\ pc[p] = "reading"
          /\ ~readJsonlIfExists(store["feedback"]) \/ ~readJsonlIfExists(store["reviews"])
    /\ Exit(p, "failed")
    /\ UNCHANGED <<log, store, cmd, snapshot, answer, tears>>

Record(p) ==
    /\ ReadOthers(p) /\ cmd[p].name = "record"
    /\ Write(p, <<[file |-> "proposals", line |-> proposalLine(cmd[p].request, p)]>>)
    /\ UNCHANGED <<log, store, cmd, snapshot, answer, tears>>

Generate(p) ==
    /\ ReadOthers(p) /\ cmd[p].name = "generate"
    /\ Write(p, generatePlan(p))
    /\ UNCHANGED <<log, store, cmd, snapshot, answer, tears>>

found(p) == cmd[p].id \in idsOf(snapshot[p])
target(p) == find(snapshot[p], cmd[p].id)

\* approve, reject and expire only write down the decision.
Review(p) ==
    /\ ReadOthers(p) /\ cmd[p].name \in {"approve", "reject", "expire"}
    /\ found(p) /\ (cmd[p].name = "approve" => actionable(target(p)))
    /\ Write(p, <<[file |-> "reviews",
                   line |-> [kind |-> "review", by |-> p, decision |-> cmd[p].name, id |-> cmd[p].id]]>>)
    /\ UNCHANGED <<log, store, cmd, snapshot, answer, tears>>

ReviewFails(p) ==
    /\ ReadOthers(p) /\ cmd[p].name \in {"approve", "reject", "expire"}
    /\ ~(found(p) /\ (cmd[p].name = "approve" => actionable(target(p))))
    /\ Exit(p, "failed")
    /\ UNCHANGED <<log, store, cmd, snapshot, answer, tears>>

\* A refused request or a review without notes leaves nothing behind.
Malformed(p) ==
    /\ ReadOthers(p) /\ cmd[p].name = "malformed"
    /\ Exit(p, "failed")
    /\ UNCHANGED <<log, store, cmd, snapshot, answer, tears>>

\* No proposal with the id, or the recorded provider profile or packet cannot be rebuilt.
ShadowRunFails(p) ==
    /\ ReadOthers(p) /\ cmd[p].name = "shadow-run"
    /\ \/ ~found(p)
       \/ /\ found(p)
          /\ assessLearningExperimentPreflight(target(p), cmd[p].transition)
          /\ log[cmd[p].transition].profile = "unreplayable"
    /\ Exit(p, "failed")
    /\ UNCHANGED <<log, store, cmd, snapshot, answer, tears>>

ShadowRunRefused(p) ==
    /\ ReadOthers(p) /\ cmd[p].name = "shadow-run"
    /\ found(p) /\ ~assessLearningExperimentPreflight(target(p), cmd[p].transition)
    /\ Exit(p, "refused")
    /\ UNCHANGED <<log, store, cmd, snapshot, answer, tears>>

\* Past preflight the overlay may still not fit this packet: no provider call, and the
\* evaluation counts the missing overlay as a regression.
ShadowRun(p) ==
    /\ ReadOthers(p) /\ cmd[p].name = "shadow-run"
    /\ found(p) /\ assessLearningExperimentPreflight(target(p), cmd[p].transition)
    /\ log[cmd[p].transition].profile # "unreplayable"
    /\ IF assembled(target(p), cmd[p].transition)
       THEN /\ pc' = [pc EXCEPT ![p] = "asking"]
            /\ UNCHANGED <<plan, written, result>>
       ELSE Write(p, manifestPlan(p, "regression_detected"))
    /\ UNCHANGED <<log, store, cmd, snapshot, answer, tears>>

ProviderReturns(p, a) ==
    /\ pc[p] = "asking"
    /\ answer' = [answer EXCEPT ![p] = a]
    /\ Write(p, manifestPlan(p, evaluateLearningProposalShadowPair(cmd[p].transition, a)))
    /\ UNCHANGED <<log, store, cmd, snapshot, tears>>

AppendNext(p) ==
    /\ pc[p] = "writing"
    /\ LET next == plan[p][written[p] + 1]
       IN  store' = [store EXCEPT ![next.file] = appendJsonl(@, next.line)]
    /\ written' = [written EXCEPT ![p] = @ + 1]
    /\ IF written[p] + 1 = Len(plan[p])
       THEN pc' = [pc EXCEPT ![p] = "done"] /\ result' = [result EXCEPT ![p] = "ok"]
       ELSE UNCHANGED <<pc, result>>
    /\ UNCHANGED <<log, cmd, snapshot, plan, answer, tears>>

\* The process dies between two of its steps...
Dies(p) ==
    /\ pc[p] \in {"asking", "writing"}
    /\ Exit(p, "died")
    /\ UNCHANGED <<log, store, cmd, snapshot, answer, tears>>

\* ...or in the middle of an append, which then has no newline.
DiesAppending(p) ==
    /\ pc[p] = "writing" /\ tears < MaxTears
    /\ LET next == plan[p][written[p] + 1]
           lines == store[next.file]
       IN  store' = [store EXCEPT ![next.file] =
                         IF lines # <<>> /\ Last(lines) = torn THEN lines ELSE Append(lines, torn)]
    /\ tears' = tears + 1
    /\ Exit(p, "died")
    /\ UNCHANGED <<log, cmd, snapshot, answer>>

Done == (\A p \in Invocations : pc[p] = "done") /\ UNCHANGED vars

Next ==
    \/ \E p \in Invocations :
        \/ \E c \in CommandLines : Start(p, c)
        \/ ReadFails(p)
        \/ Record(p) \/ Generate(p) \/ Malformed(p)
        \/ Review(p) \/ ReviewFails(p)
        \/ ShadowRunFails(p) \/ ShadowRunRefused(p) \/ ShadowRun(p)
        \/ \E a \in ProviderAnswers : ProviderReturns(p, a)
        \/ AppendNext(p)
        \/ Dies(p) \/ DiesAppending(p)
    \/ Done

Spec == Init /\ [][Next]_vars

-----------------------------------------------------------------------------
(* Properties                                                              *)

onFile(f) == ToSet(store[f]) \ {torn, glued}
lostBy(p) == {k \in 1..written[p] : plan[p][k].line \notin onFile(plan[p][k].file)}
lost == UNION {{p} \X lostBy(p) : p \in Invocations}

\* A line whose append returned is readable from then on; a death in the middle of an
\* append costs, besides its own line, at most the one that runs into the torn end, and
\* a torn end that nobody has run into yet counts against the same death (utils.ts
\* appendJsonl).
LossNeedsTear ==
    Cardinality(lost) + Cardinality({f \in Files : torn \in ToSet(store[f])}) <= tears

\* Two lines for one id, the later from a generator: that invocation had read the file
\* before the earlier line was there, and did not write it itself (cli.ts generate).
DuplicatesOverlap ==
    LET lines == store["proposals"]
    IN  \A j \in DOMAIN lines : \A i \in 1..j - 1 :
            (/\ {lines[i], lines[j]} \cap {torn, glued} = {}
             /\ lines[i].proposal.id = lines[j].proposal.id
             /\ cmd[lines[j].by].name = "generate")
            => /\ lines[i].by # lines[j].by
               /\ lines[i] \notin ToSet(snapshot[lines[j].by])

\* Once a generate --write has run to its end, whoever died before it, every seed of the
\* run and, under its id, the feedback of every seed that has one is on file, or the file
\* is torn.
GenerateCompletes ==
    \A p \in Invocations :
        (cmd[p].name = "generate" /\ result[p] = "ok") =>
            LET seeds == generateLearningProposalSeeds(cmd[p].include)
            IN  /\ readJsonlIfExists(store["proposals"]) =>
                       {seeds[k].id : k \in DOMAIN seeds} \subseteq idsOf(store["proposals"])
                /\ readJsonlIfExists(store["feedback"]) =>
                       \A k \in DOMAIN seeds : hasFeedback(seeds[k]) =>
                           \E l \in onFile("feedback") : l.id = feedbackId(seeds[k])

\* An approval stays true: whoever looks up the approved id later, after any number of
\* records under the same id, finds a proposal that is actionable; one that no human
\* recorded rests on a transition with clean, exact, organic evidence.
ApprovalsHold ==
    \A r \in onFile("reviews") :
        (r.decision = "approve" /\ readJsonlIfExists(store["proposals"])) =>
            LET pr == find(store["proposals"], r.id)
            IN  /\ actionable(pr)
                /\ \/ \E q \in Invocations : cmd[q].name = "record" /\ cmd[q].request = pr
                   \/ proposalSeedEligible(log[pr.source])

\* The provider is asked only about a proposal a human recorded with an explicit patch,
\* and only where the run's own model answered cleanly in the same, exact environment.
ProviderNeedsCleanBaseline ==
    \A p \in Invocations :
        (pc[p] = "asking" \/ answer[p] # NoAnswer) =>
            LET t == log[cmd[p].transition]
            IN  /\ t.env = "organic" /\ t.shadow = "clean" /\ t.product
                /\ \E q \in Invocations : /\ cmd[q].name = "record" /\ cmd[q].request.id = cmd[p].id
                                          /\ cmd[q].request.patch = "guidance"
=============================================================================
