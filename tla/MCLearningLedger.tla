------------------------- MODULE MCLearningLedger -------------------------
EXTENDS LearningLedger, TLC

\* One kind per outcome of the evidence rules: clean evidence of both sorts, a model's
\* own choice whose shadow call failed, a local choice, an old log whose proposal and
\* execution differ, and the same with what the shadow run checks later gone wrong;
\* in Changed the signal and the note of the reason make the same feedback id.
LlmChose == buildSelectionResolutionRecord("a", "llm", "a", "llm", {"a", "b"})
LocalChose == buildSelectionResolutionRecord(NoCandidate, "local_scaffold", "b", "local_scaffold", {"a", "b"})
Clean == [env |-> "organic", shadow |-> "clean", resolution |-> LlmChose, authority |-> "llm",
          mismatch |-> FALSE, product |-> TRUE, prediction |-> "unsupported", signal |-> FALSE,
          noted |-> TRUE, overBudget |-> FALSE, linked |-> {"prediction"}, sameTarget |-> FALSE,
          profile |-> "complete", replays |-> TRUE,
          reason |-> "adequate"]
Failed == [Clean EXCEPT !.shadow = "failed", !.prediction = "none"]
Local == [Clean EXCEPT !.shadow = "uncalled", !.resolution = LocalChose, !.authority = "local_scaffold",
                       !.noted = FALSE, !.prediction = "open", !.signal = TRUE,
                       !.linked = {"workspace"}]
Legacy == [Clean EXCEPT !.resolution = NotRecorded, !.mismatch = TRUE, !.overBudget = TRUE,
                        !.noted = FALSE, !.linked = {}]
Stale == [Clean EXCEPT !.profile = "unreplayable", !.prediction = "none", !.noted = FALSE]
Changed == [Clean EXCEPT !.prediction = "none", !.replays = FALSE, !.reason = "thin",
                         !.signal = TRUE, !.sameTarget = TRUE, !.linked = {"workspace"}]
AllKinds == {Clean, Failed, Local, Legacy, Stale, Changed}

ByHand == [id |-> <<"hand", 1>>, status |-> "pending_review", complete |-> TRUE, canary |-> TRUE,
           patch |-> "guidance", source |-> 1]
Unfinished == [ByHand EXCEPT !.complete = FALSE]
Elsewhere == [ByHand EXCEPT !.patch = "unknown_future"]
Squatter == [ByHand EXCEPT !.id = <<"prediction", 1>>, !.status = "draft"]
AllRequests == {ByHand, Unfinished, Elsewhere, Squatter}

SomeCommands ==
    [name : {"record"}, request : AllRequests]
    \cup [name : {"malformed"}]
    \cup [name : {"generate"}, include : BOOLEAN]
    \cup [name : {"approve"}, id : {ByHand.id, Squatter.id}]
    \cup [name : {"shadow-run"}, id : {ByHand.id}, transition : {1}, keep : {TRUE}]

\* A full answer, and each way it can fall short of one.
Full == [outcome |-> "valid", stopped |-> TRUE, reason |-> "adequate", sameProfile |-> TRUE]
SomeAnswers == {Full, [Full EXCEPT !.sameProfile = FALSE],
                [Full EXCEPT !.stopped = FALSE], [Full EXCEPT !.reason = "thin"],
                [Full EXCEPT !.outcome = "invalid_choice", !.reason = "missing"]}

Sym == Permutations(Invocations)
=============================================================================
