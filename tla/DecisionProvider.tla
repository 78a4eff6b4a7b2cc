-------------------------- MODULE DecisionProvider --------------------------
(***************************************************************************)
(* One decision of the language model: DeepSeekDecisionProvider.decide     *)
(* with its primary call, transport retry and format retry                 *)
(* (llm/deepseekProvider.ts), and what runTick makes of the last answer    *)
(* (llm/decisionSchema.ts).                                                *)
(*                                                                         *)
(* A call is open from fetch to the end of the body.  The model provider   *)
(* may answer anything, late or never; the connection may break at any     *)
(* time; the abort timer runs over both waits, for the status and for the  *)
(* body.                                                                   *)
(***************************************************************************)
EXTENDS Naturals, Sequences

CONSTANTS
    Statuses,     \* HTTP statuses the provider can answer with
    Ids,          \* action ids the model can name
    Advertised,   \* ids of allowedActions
    Secretlike,   \* ids that redactText takes for a credential
    Redacted,     \* what it leaves of them
    NoId,         \* no action
    Timeout       \* deepseek.timeoutMs, in steps of the clock

NoStatus   == 0
Unreadable == {"blank", "prose", "misfit"}  \* nothing, no JSON, not the schema

ASSUME ProviderAssumption ==
    /\ Statuses \subseteq 200 .. 599
    /\ Advertised \subseteq Ids /\ Secretlike \subseteq Ids
    /\ Redacted \in Ids \ Advertised
    /\ NoId \notin Ids
    /\ Unreadable \cap (Ids \cup {NoId}) = {}
    /\ Timeout \in Nat \ {0}

VARIABLES
    keyed,     \* is there an API key?
    pc,        \* what decide is about to do
    kind,      \* requestKind of the open call
    status,    \* its HTTP status, once received
    waited,    \* for how long it has been open
    attempts,  \* attempts
    selected,  \* id of the selected action, NoId if none
    sent,      \* history: kinds of the requests sent
    answers,   \* history: what came of each, the status sent and if the body was whole
    heard      \* history: ids named by answers that arrived whole

vars == <<keyed, pc, kind, status, waited, attempts, selected, sent, answers, heard>>

Kinds    == {"primary", "transport_retry", "format_retry"}
Outcomes == {"valid_json", "timeout", "provider_error", "empty", "truncated",
             "invalid_json", "invalid_schema"}
Attempts == [kind : Kinds, outcome : Outcomes,
             status : Statuses \cup {NoStatus}, id : Ids \cup {NoId}]
Answered == [status : Statuses \cup {NoStatus}, whole : BOOLEAN]
Bodies   == [choice : BOOLEAN, finish : {"stop", "length"},
             content : Ids \cup Unreadable]

TypeOK ==
    /\ keyed \in BOOLEAN
    /\ pc \in {"idle", "calling", "returned", "decided", "threw"}
    /\ kind \in Kinds
    /\ status \in Statuses \cup {NoStatus}
    /\ waited \in 0 .. Timeout
    /\ attempts \in Seq(Attempts)
    /\ selected \in Ids \cup {NoId}
    /\ sent \in Seq(Kinds)
    /\ answers \in Seq(Answered)
    /\ heard \subseteq Ids

Init ==
    /\ keyed \in BOOLEAN
    /\ pc = "idle"
    /\ kind = "primary"
    /\ status = NoStatus
    /\ waited = 0
    /\ attempts = <<>>
    /\ selected = NoId
    /\ sent = <<>>
    /\ answers = <<>>
    /\ heard = {}

latest == attempts[Len(attempts)]

-----------------------------------------------------------------------------
\* The response is redacted before it is read.
redactText(t) == IF t \in Secretlike THEN Redacted ELSE t

parseDecisionText(t) ==
    IF t = "blank" THEN "empty"
    ELSE IF t = "prose" THEN "invalid_json"
    ELSE IF t = "misfit" THEN "invalid_schema"
    ELSE "valid_json"

Ok(s) == s \in 200 .. 299

OutcomePartial(s, b) ==  \* changed: finish_reason is not looked at
    IF ~Ok(s) \/ ~b.choice THEN "provider_error"
    ELSE parseDecisionText(redactText(b.content))

OutcomeOf(s, b) ==
    IF ~Ok(s) \/ ~b.choice THEN "provider_error"
    ELSE IF b.finish = "length" THEN "truncated"
    ELSE parseDecisionText(redactText(b.content))

parsedDecision(o, b) == IF o = "valid_json" THEN redactText(b.content) ELSE NoId

isTransientByStatus(a) ==  \* changed: a call without a status is not retried
    \/ a.outcome = "timeout"
    \/ /\ a.outcome = "provider_error"
       /\ a.status \in {408, 409, 425, 429} \/ a.status >= 500

isTransientError(a) ==  \* changed: every provider_error is retried
    a.outcome \in {"timeout", "provider_error"}

isTransientProviderFailure(a) ==
    \/ a.outcome = "timeout"
    \/ /\ a.outcome = "provider_error"
       /\ \/ a.status = NoStatus
          \/ a.status \in {408, 409, 425, 429}
          \/ a.status >= 500

isMalformed(a) == a.outcome \in {"empty", "truncated", "invalid_json", "invalid_schema"}

-----------------------------------------------------------------------------
requestOnce(k) ==
    /\ pc' = "calling"
    /\ kind' = k
    /\ status' = NoStatus
    /\ waited' = 0
    /\ sent' = Append(sent, k)
    /\ UNCHANGED <<keyed, attempts, selected, answers, heard>>

Primary == pc = "idle" /\ keyed /\ requestOnce("primary")

NoKey ==
    /\ pc = "idle" /\ ~keyed
    /\ pc' = "threw"
    /\ UNCHANGED <<keyed, kind, status, waited, attempts, selected, sent, answers, heard>>

\* fetch resolves: the status and the headers are there.
Respond(s) ==
    /\ pc = "calling" /\ status = NoStatus
    /\ status' = s
    /\ UNCHANGED <<keyed, pc, kind, waited, attempts, selected, sent, answers, heard>>

Return(o, s, i) ==
    /\ pc' = "returned"
    /\ attempts' = Append(attempts, [kind |-> kind, outcome |-> o, status |-> s, id |-> i])
    /\ UNCHANGED <<keyed, kind, status, waited, selected, sent>>

Came(whole) == answers' = Append(answers, [status |-> status, whole |-> whole])

\* response.text() resolves: the body is classified.
ReadBody(b) ==
    /\ pc = "calling" /\ status # NoStatus
    /\ LET o == OutcomeOf(status, b) IN Return(o, status, parsedDecision(o, b))
    /\ heard' = IF Ok(status) /\ b.choice /\ b.finish = "stop" /\ b.content \in Ids
                THEN heard \cup {b.content} ELSE heard
    /\ Came(TRUE)

FetchFailsThrowing ==  \* changed: the body is read outside the try block
    /\ pc = "calling"
    /\ IF status = NoStatus
       THEN Return("provider_error", NoStatus, NoId)
       ELSE pc' = "threw" /\ UNCHANGED <<keyed, kind, status, waited, attempts,
                                         selected, sent>>
    /\ Came(FALSE)
    /\ UNCHANGED heard

\* The connection breaks; a status already received is not recorded.
FetchFails ==
    /\ pc = "calling"
    /\ Return("provider_error", NoStatus, NoId)
    /\ Came(FALSE)
    /\ UNCHANGED heard

AbortConnecting ==  \* changed: the timer is cleared when fetch has resolved
    /\ pc = "calling" /\ waited = Timeout /\ status = NoStatus
    /\ Return("timeout", NoStatus, NoId)
    /\ Came(FALSE)
    /\ UNCHANGED heard

\* The abort timer fires.
Abort ==
    /\ pc = "calling" /\ waited = Timeout
    /\ Return("timeout", NoStatus, NoId)
    /\ Came(FALSE)
    /\ UNCHANGED heard

Wait ==
    /\ pc = "calling" /\ waited < Timeout
    /\ waited' = waited + 1
    /\ UNCHANGED <<keyed, pc, kind, status, attempts, selected, sent, answers, heard>>

RetriesTransport == isTransientProviderFailure(latest) /\ latest.kind = "primary"
RetriesFormat    == isMalformed(latest) /\ latest.kind # "format_retry"

TransportRetry ==
    /\ pc = "returned"
    /\ RetriesTransport
    /\ requestOnce("transport_retry")

FormatRetry ==
    /\ pc = "returned"
    /\ RetriesFormat
    /\ requestOnce("format_retry")

\* validateDecisionForActions: the last attempt is the decision, if it parsed
\* and names an allowed action.
Conclude ==
    /\ pc = "returned"
    /\ ~RetriesTransport /\ ~RetriesFormat
    /\ pc' = "decided"
    /\ selected' = IF latest.outcome = "valid_json" /\ latest.id \in Advertised
                   THEN latest.id ELSE NoId
    /\ UNCHANGED <<keyed, kind, status, waited, attempts, sent, answers, heard>>

Network ==
    \/ FetchFails
    \/ \E s \in Statuses : Respond(s)
    \/ \E b \in Bodies : ReadBody(b)

Agent == NoKey \/ Primary \/ Wait \/ Abort \/ TransportRetry \/ FormatRetry \/ Conclude

Next == Network \/ Agent

Spec == Init /\ [][Next]_vars

\* The agent's code runs and its timers fire; the network owes nothing.
FairSpec == Spec /\ WF_vars(Agent)

-----------------------------------------------------------------------------
\* Whatever breaks, the record of the session names every request that was
\* sent, in its order, except the one still open: no call is lost from the
\* audit and none is made behind it.
EveryCallIsOnRecord ==
    /\ Len(sent) = Len(attempts) + (IF pc = "calling" THEN 1 ELSE 0)
    /\ \A i \in 1 .. Len(attempts) : attempts[i].kind = sent[i]

\* Statuses that do not speak against trying again: isTransientProviderFailure.
Passing(s) == s \in {408, 409, 425, 429} \/ s >= 500

\* At most three calls are made.  Judged by what the provider sent, not by the record: a
\* request it refused is not sent again once the refusal has arrived in full, and a format
\* retry follows an answer the model really gave.  A refusal whose body breaks off or runs
\* into the timeout is excepted: its status is lost, and the code does send it again, which
\* PREVIEW_69 (docs/history/audits) says of no 401.
RetriesAreDueUnlessCutOff ==
    /\ Len(sent) <= 3
    /\ \A i \in 1 .. Len(sent) :
         /\ sent[i] = "primary" <=> i = 1
         /\ sent[i] = "transport_retry" =>
              i = 2 /\ (answers[1].whole => Passing(answers[1].status))
         /\ sent[i] = "format_retry" =>
              i = Len(sent) /\ answers[i - 1].whole /\ Ok(answers[i - 1].status)

Rejected(a) == a.status \in 300 .. 499 \ {408, 409, 425, 429}

\* decide gives up only on a recorded refusal, on a response that is none, or after the
\* retry the failure calls for.
FailureUsedItsRetry ==
    pc = "decided" =>
        \/ latest.outcome = "valid_json"
        \/ latest.outcome = "provider_error" /\ (Rejected(latest) \/ Ok(latest.status))
        \/ latest.outcome \in {"timeout", "provider_error"} /\ latest.kind # "primary"
        \/ latest.kind = "format_retry"

\* What the model said in full is what is done: no second answer is asked for
\* once it named an action, an advertised one is selected, and nothing is
\* selected that it did not say (a partial answer, an earlier attempt).  Only
\* an id that looks like a credential is lost.
AnswerIsTheDecision ==
    pc = "decided" =>
        /\ \A x, y \in heard : x = y
        /\ selected # NoId => selected \in heard \cap Advertised
        /\ selected = NoId => heard \cap Advertised \subseteq Secretlike

\* A provider that does not answer, or stops in the middle of a body, cannot
\* hold up a tick for ever.
DecideEnds == <>(pc \in {"decided", "threw"})
=============================================================================
