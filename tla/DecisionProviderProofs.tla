----------------------- MODULE DecisionProviderProofs -----------------------
(***************************************************************************)
(* What DecisionProvider promises, for all statuses, ids and timeouts.     *)
(***************************************************************************)
EXTENDS DecisionProvider, TLAPS

\* An attempt says the truth about its call.
Truthful(a) ==
    /\ isMalformed(a) => Ok(a.status)
    /\ a.outcome = "timeout" => a.status = NoStatus
    /\ a.outcome = "valid_json" <=> a.id # NoId

\* Where the attempts stand when a call is open.
OpenCall ==
    pc = "calling" =>
        /\ sent[Len(sent)] = kind
        /\ kind = "primary" => attempts = <<>>
        /\ kind = "transport_retry" =>
             Len(attempts) = 1 /\ isTransientProviderFailure(attempts[1])
        /\ kind = "format_retry" =>
             /\ Len(attempts) \in {1, 2}
             /\ isMalformed(latest) /\ latest.kind # "format_retry"

\* The ids heard are those of a last attempt that parsed.
HeardLast ==
    /\ pc \in {"idle", "calling", "threw"} => heard = {}
    /\ pc \in {"returned", "decided"} =>
         /\ Len(attempts) > 0
         /\ latest.outcome # "valid_json" => heard = {}
         /\ latest.outcome = "valid_json" => \E x \in Ids : heard = {x} /\ latest.id = redactText(x)

\* What RetriesAreDueUnlessCutOff says of the calls, said of their record.
RecordedDue ==
    /\ Len(attempts) <= 3
    /\ \A i \in 1 .. Len(attempts) :
         /\ attempts[i].kind = "primary" <=> i = 1
         /\ attempts[i].kind = "transport_retry" =>
              /\ i = 2
              /\ attempts[1].outcome \in {"timeout", "provider_error"}
              /\ ~Rejected(attempts[1]) /\ ~Ok(attempts[1].status)
         /\ attempts[i].kind = "format_retry" =>
              i = Len(attempts) /\ Ok(attempts[i - 1].status)

\* The record has the status of an answer that came whole, and of no other.
AnswersMatch ==
    /\ Len(answers) = Len(attempts)
    /\ \A i \in 1 .. Len(attempts) :
         IF answers[i].whole
         THEN attempts[i].status = answers[i].status /\ answers[i].status \in Statuses
         ELSE attempts[i].status = NoStatus

IInv ==
    /\ TypeOK
    /\ \A i \in 1 .. Len(attempts) : Truthful(attempts[i])
    /\ pc \in {"idle", "threw"} => attempts = <<>>
    /\ OpenCall
    /\ HeardLast
    /\ EveryCallIsOnRecord
    /\ RecordedDue
    /\ AnswersMatch
    /\ FailureUsedItsRetry
    /\ AnswerIsTheDecision

-----------------------------------------------------------------------------
\* An answer is malformed or valid only if it came with a success.
LEMMA OutcomeTrue ==
    ASSUME NEW s \in Statuses, NEW b \in Bodies
    PROVE  LET o == OutcomeOf(s, b) i == parsedDecision(o, b) IN
             /\ o \in Outcomes /\ i \in Ids \cup {NoId}
             /\ o \in {"empty", "truncated", "invalid_json", "invalid_schema",
                       "valid_json"} => Ok(s)
             /\ o = "valid_json" <=> i # NoId
             /\ o = "valid_json" => i = redactText(b.content)
             /\ o = "valid_json" <=>
                  Ok(s) /\ b.choice /\ b.finish = "stop" /\ b.content \in Ids
<1> DEFINE t == redactText(b.content)
<1>1. /\ b.content \in Ids => t \in Ids
      /\ b.content \notin Ids => t = b.content /\ t \in Unreadable
      /\ b.choice \in BOOLEAN /\ b.finish \in {"stop", "length"}
  BY ProviderAssumption DEF redactText, Bodies
<1>2. /\ t \in Ids => parseDecisionText(t) = "valid_json"
      /\ t \in Unreadable => parseDecisionText(t) \in {"empty", "invalid_json", "invalid_schema"}
  BY ProviderAssumption DEF parseDecisionText, Unreadable
<1> HIDE DEF t
<1>3. OutcomeOf(s, b) = IF ~Ok(s) \/ ~b.choice THEN "provider_error"
                        ELSE IF b.finish = "length" THEN "truncated"
                        ELSE parseDecisionText(t)
  BY DEF OutcomeOf, t
<1>4. parsedDecision(OutcomeOf(s, b), b) =
         IF OutcomeOf(s, b) = "valid_json" THEN t ELSE NoId
  BY DEF parsedDecision, t
<1>5. b.content \in Ids \cup Unreadable
  BY DEF Bodies
<1> QED
  BY <1>1, <1>2, <1>3, <1>4, <1>5, ProviderAssumption DEF Outcomes, t

\* A recorded status is a status, or none.
LEMMA StatusRange ==
    ASSUME NEW a \in Attempts
    PROVE  a.status \in Nat /\ (a.status = NoStatus \/ a.status \in 200 .. 599)
<1>1. a.status \in Statuses \cup {NoStatus}
  BY DEF Attempts
<1>2. \A n \in Statuses : n \in 200 .. 599
  BY ProviderAssumption
<1>3. a.status = 0 \/ a.status \in 200 .. 599
  BY <1>1, <1>2 DEF NoStatus
<1>4. \A n \in 200 .. 599 : n \in Nat
  OBVIOUS
<1> HIDE DEF NoStatus
<1> QED
  BY <1>3, <1>4 DEF NoStatus

LEMMA InitType == Init => TypeOK
  BY ProviderAssumption DEF Init, TypeOK, Kinds

LEMMA NextType == TypeOK /\ [Next]_vars => TypeOK'
<1> SUFFICES ASSUME TypeOK, [Next]_vars PROVE TypeOK'
  OBVIOUS
<1> USE DEF TypeOK
<1>r. ASSUME NEW k \in Kinds, requestOnce(k) PROVE TypeOK'
  BY <1>r, ProviderAssumption DEF requestOnce
<1>t. ASSUME NEW o \in Outcomes, NEW s \in Statuses \cup {NoStatus},
             NEW i \in Ids \cup {NoId}, Return(o, s, i), heard' \subseteq Ids,
             NEW whole \in BOOLEAN, Came(whole)
      PROVE  TypeOK'
  <2>1. [kind |-> kind, outcome |-> o, status |-> s, id |-> i] \in Attempts
    BY DEF Attempts
  <2>2. [status |-> status, whole |-> whole] \in Answered
    BY DEF Answered
  <2> QED
    BY <1>t, <2>1, <2>2 DEF Return, Came
<1>1. CASE NoKey
  BY <1>1 DEF NoKey
<1>2. CASE Primary \/ TransportRetry \/ FormatRetry
  BY <1>2, <1>r DEF Primary, TransportRetry, FormatRetry, Kinds
<1>3. CASE Wait
  BY <1>3, ProviderAssumption DEF Wait
<1>4. CASE Abort \/ FetchFails
  BY <1>4, <1>t DEF Abort, FetchFails, Outcomes
<1>5. CASE Conclude
  BY <1>5, ProviderAssumption DEF Conclude
<1>6. ASSUME NEW s \in Statuses, Respond(s) PROVE TypeOK'
  BY <1>6 DEF Respond
<1>7. ASSUME NEW b \in Bodies, ReadBody(b) PROVE TypeOK'
  <2>1. status \in Statuses
    BY <1>7 DEF ReadBody
  <2>2. PICK o \in Outcomes, i \in Ids \cup {NoId} : Return(o, status, i)
    BY <1>7, <2>1, OutcomeTrue DEF ReadBody
  <2>3. heard' \subseteq Ids /\ Came(TRUE)
    BY <1>7 DEF ReadBody
  <2> QED
    BY <1>t, <2>1, <2>2, <2>3
<1>8. CASE UNCHANGED vars
  BY <1>8 DEF vars
<1> QED
  BY <1>1, <1>2, <1>3, <1>4, <1>5, <1>6, <1>7, <1>8 DEF Next, Network, Agent

\* The session's variables keep their types.
THEOREM TypeCorrect == Spec => []TypeOK
<1>1. Init => TypeOK
  BY InitType
<1>2. TypeOK /\ [Next]_vars => TypeOK'
  BY NextType
<1> QED
  BY <1>1, <1>2, PTL DEF Spec

-----------------------------------------------------------------------------
LEMMA InitIInv == Init => IInv
  BY InitType DEF Init, IInv, OpenCall, HeardLast, EveryCallIsOnRecord,
     RecordedDue, AnswersMatch, FailureUsedItsRetry, AnswerIsTheDecision

LEMMA OneToThree ==
    ASSUME NEW n \in Nat, n > 0, n <= 3
    PROVE  n \in 1 .. 3 /\ n \in 1 .. n
  OBVIOUS

\* A request is sent: the first, or the retry the last attempt is due.
LEMMA SendKeeps ==
    ASSUME IInv, TypeOK', NEW k \in Kinds, requestOnce(k),
           \/ pc = "idle" /\ k = "primary"
           \/ pc = "returned" /\ k = "transport_retry" /\ RetriesTransport
           \/ pc = "returned" /\ k = "format_retry" /\ RetriesFormat
    PROVE  IInv'
<1>1. /\ pc' = "calling" /\ kind' = k /\ sent' = Append(sent, k)
      /\ attempts' = attempts /\ answers' = answers /\ heard' = heard /\ pc # "calling"
      /\ Len(attempts) \in Nat /\ sent \in Seq(Kinds)
  BY DEF requestOnce, IInv, TypeOK
<1>2. pc = "returned" => Len(attempts) > 0
  BY DEF IInv, HeardLast
<1>3. heard = {}
  BY DEF IInv, HeardLast, RetriesTransport, RetriesFormat, isTransientProviderFailure,
     isMalformed
<1>4. HeardLast'
  BY <1>1, <1>3 DEF HeardLast
<1>5. EveryCallIsOnRecord'
  BY <1>1 DEF IInv, EveryCallIsOnRecord
<1>6. OpenCall'
  <2>1. CASE pc = "idle"
    BY <2>1, <1>1 DEF IInv, OpenCall
  <2>2. CASE k = "transport_retry"
    <3>1. Len(attempts) \in 1 .. Len(attempts) /\ RetriesTransport
      BY <2>2, <1>1, <1>2
    <3>2. attempts[Len(attempts)].kind = "primary"
      BY <3>1 DEF RetriesTransport, latest
    <3>3. Len(attempts) = 1
      BY <3>1, <3>2 DEF IInv, RecordedDue
    <3> QED
      BY <2>2, <3>1, <3>3, <1>1 DEF OpenCall, RetriesTransport, latest
  <2>3. CASE pc = "returned" /\ k = "format_retry"
    <3>1. attempts[Len(attempts)].kind # "format_retry" /\ isMalformed(attempts[Len(attempts)])
      BY <2>3 DEF RetriesFormat, latest
    <3>0. Len(attempts) <= 3
      BY DEF IInv, RecordedDue
    <3>5. Len(attempts) \in Nat
      BY <1>1
    <3>6. Len(attempts) > 0
      BY <2>3, <1>2
    <3>2. Len(attempts) \in 1 .. 3 /\ Len(attempts) \in 1 .. Len(attempts)
      BY <3>0, <3>5, <3>6, OneToThree
    <3>3. attempts[Len(attempts)] \in Attempts
      BY <3>2 DEF IInv, TypeOK
    <3>4. Len(attempts) # 3
      BY <3>1, <3>2, <3>3 DEF IInv, RecordedDue, Attempts, Kinds
    <3> QED
      BY <2>3, <3>1, <3>2, <3>4, <1>1 DEF OpenCall, latest
  <2> QED
    BY <2>1, <2>2, <2>3
<1>7. /\ RecordedDue' /\ AnswersMatch'
      /\ FailureUsedItsRetry' /\ AnswerIsTheDecision'
  BY <1>1 DEF IInv, RecordedDue, AnswersMatch, FailureUsedItsRetry, AnswerIsTheDecision,
     Rejected
<1> QED
  BY <1>1, <1>4, <1>5, <1>6, <1>7 DEF IInv

\* A call returns: its attempt is truthful and due.
LEMMA ReturnKeeps ==
    ASSUME IInv, TypeOK', pc = "calling", NEW o \in Outcomes,
           NEW s \in Statuses \cup {NoStatus}, NEW i \in Ids \cup {NoId},
           Return(o, s, i), NEW whole \in BOOLEAN, Came(whole),
           IF whole THEN s = status /\ s \in Statuses ELSE s = NoStatus,
           o \in {"empty", "truncated", "invalid_json", "invalid_schema"} => Ok(s),
           o = "timeout" => s = NoStatus,
           o = "valid_json" <=> i # NoId,
           o # "valid_json" => heard' = {},
           o = "valid_json" => \E x \in Ids : heard' = {x} /\ i = redactText(x)
    PROVE  IInv'
<1> DEFINE a == [kind |-> kind, outcome |-> o, status |-> s, id |-> i]
<1>1. /\ pc' = "returned" /\ attempts' = Append(attempts, a) /\ sent' = sent
      /\ Len(attempts) \in Nat /\ Len(attempts') = Len(attempts) + 1
      /\ attempts'[Len(attempts) + 1] = a
      /\ \A j \in 1 .. Len(attempts) : attempts'[j] = attempts[j]
  BY DEF Return, IInv, TypeOK
<1>2. latest' = a
  BY <1>1 DEF latest
<1>3. \A j \in 1 .. Len(attempts') : Truthful(attempts'[j])
  <2>1. Truthful(a)
    BY DEF Truthful, isMalformed
  <2> QED
    BY <1>1, <2>1 DEF IInv
<1>4. HeardLast'
  BY <1>1, <1>2 DEF HeardLast
<1>5. EveryCallIsOnRecord'
  <2>1. Len(sent) = Len(attempts) + 1 /\ \A j \in 1 .. Len(attempts) : attempts[j].kind = sent[j]
    BY DEF IInv, EveryCallIsOnRecord
  <2>2. sent[Len(attempts) + 1] = kind
    BY <2>1 DEF IInv, OpenCall
  <2> QED
    BY <1>1, <2>1, <2>2 DEF EveryCallIsOnRecord
<1>6. RecordedDue'
  <2>1. CASE kind = "primary"
    BY <2>1, <1>1 DEF IInv, OpenCall, RecordedDue
  <2>2. CASE kind = "transport_retry"
    <3>1. Len(attempts) = 1 /\ attempts[1].kind = "primary"
          /\ isTransientProviderFailure(attempts[1]) /\ attempts[1] \in Attempts
      <4>1. Len(attempts) = 1 /\ isTransientProviderFailure(attempts[1])
        BY <2>2 DEF IInv, OpenCall
      <4>2. attempts[1].kind = "primary"
        BY <4>1 DEF IInv, RecordedDue
      <4>4. attempts \in Seq(Attempts)
        BY DEF IInv, TypeOK
      <4>3. attempts[1] \in Attempts
        BY <4>1, <4>4
      <4> QED
        BY <4>1, <4>2, <4>3
    <3>2. attempts[1].status \in Nat
      BY <3>1, StatusRange
    <3>3. /\ attempts[1].outcome \in {"timeout", "provider_error"}
          /\ ~Rejected(attempts[1]) /\ ~Ok(attempts[1].status)
      BY <3>1, <3>2 DEF IInv, isTransientProviderFailure, Truthful, Rejected, Ok, NoStatus
    <3> QED
      BY <2>2, <1>1, <3>1, <3>3 DEF RecordedDue
  <2>3. CASE kind = "format_retry"
    <3>1. /\ Len(attempts) \in {1, 2} /\ isMalformed(attempts[Len(attempts)])
          /\ attempts[Len(attempts)].kind # "format_retry"
      BY <2>3 DEF IInv, OpenCall, latest
    <3>2. Ok(attempts[Len(attempts)].status)
      BY <3>1 DEF IInv, Truthful
    <3>3. attempts'[Len(attempts') - 1] = attempts[Len(attempts)]
      BY <1>1, <3>1
    <3>4. \A j \in 1 .. Len(attempts) : attempts[j].kind # "format_retry"
      BY <3>1 DEF IInv, RecordedDue
    <3>5. Len(attempts') <= 3 /\ Len(attempts') # 1
      BY <1>1, <3>1
    <3>6. a.kind = "format_retry"
      BY <2>3
    <3> HIDE DEF a
    <3>7. ASSUME NEW j \in 1 .. Len(attempts')
          PROVE  /\ attempts'[j].kind = "primary" <=> j = 1
                 /\ attempts'[j].kind = "transport_retry" =>
                      /\ j = 2
                      /\ attempts'[1].outcome \in {"timeout", "provider_error"}
                      /\ ~Rejected(attempts'[1]) /\ ~Ok(attempts'[1].status)
                 /\ attempts'[j].kind = "format_retry" =>
                      j = Len(attempts') /\ Ok(attempts'[j - 1].status)
      <4>1. CASE j = Len(attempts')
        BY <1>1, <3>2, <3>3, <3>5, <3>6, <4>1
      <4>2. CASE j # Len(attempts')
        <5>1. j \in 1 .. Len(attempts) /\ 1 \in 1 .. Len(attempts)
          BY <1>1, <4>2
        <5>2. attempts'[j] = attempts[j] /\ attempts'[1] = attempts[1]
          BY <1>1, <5>1
        <5> QED
          BY <5>1, <5>2, <3>4 DEF IInv, RecordedDue
      <4> QED
        BY <4>1, <4>2
    <3> QED
      BY <3>5, <3>7 DEF RecordedDue, Rejected
  <2> QED
    BY <2>1, <2>2, <2>3 DEF IInv, TypeOK, Kinds
<1>7. OpenCall' /\ FailureUsedItsRetry' /\ AnswerIsTheDecision'
  BY <1>1 DEF OpenCall, FailureUsedItsRetry, AnswerIsTheDecision
<1>8. AnswersMatch'
  <2>1. /\ answers' = Append(answers, [status |-> status, whole |-> whole])
        /\ answers \in Seq(Answered) /\ Len(answers) = Len(attempts)
    BY DEF Came, IInv, TypeOK, AnswersMatch
  <2>2. /\ Len(answers') = Len(attempts')
        /\ answers'[Len(attempts) + 1] = [status |-> status, whole |-> whole]
        /\ \A j \in 1 .. Len(attempts) : answers'[j] = answers[j]
    BY <1>1, <2>1
  <2> HIDE DEF a
  <2>3. a.status = s
    BY DEF a
  <2>4. ASSUME NEW j \in 1 .. Len(attempts')
        PROVE  IF answers'[j].whole
               THEN attempts'[j].status = answers'[j].status /\ answers'[j].status \in Statuses
               ELSE attempts'[j].status = NoStatus
    <3>1. CASE j \in 1 .. Len(attempts)
      BY <1>1, <2>2, <3>1 DEF IInv, AnswersMatch
    <3>2. CASE j = Len(attempts) + 1
      BY <1>1, <2>2, <2>3, <3>2
    <3> QED
      BY <1>1, <3>1, <3>2
  <2> QED
    BY <2>2, <2>4 DEF AnswersMatch
<1> QED
  BY <1>1, <1>3, <1>4, <1>5, <1>6, <1>7, <1>8 DEF IInv

LEMMA NextIInv == IInv /\ [Next]_vars => IInv'
<1> SUFFICES ASSUME IInv, [Next]_vars PROVE IInv'
  OBVIOUS
<1>t. TypeOK /\ TypeOK'
  BY NextType DEF IInv
<1>1. CASE NoKey
  BY <1>1, <1>t DEF NoKey, IInv, OpenCall, HeardLast, EveryCallIsOnRecord,
     RecordedDue, AnswersMatch, FailureUsedItsRetry, AnswerIsTheDecision, Rejected
<1>2. CASE Primary
  BY <1>2, <1>t, SendKeeps DEF Primary, Kinds
<1>3. CASE TransportRetry
  BY <1>3, <1>t, SendKeeps DEF TransportRetry, Kinds
<1>4. CASE FormatRetry
  BY <1>4, <1>t, SendKeeps DEF FormatRetry, Kinds
<1>5. CASE Wait
  BY <1>5, <1>t DEF Wait, IInv, OpenCall, HeardLast, EveryCallIsOnRecord,
     RecordedDue, AnswersMatch, FailureUsedItsRetry, AnswerIsTheDecision, Rejected, latest
<1>6. CASE Abort \/ FetchFails
  <2>1. PICK o \in {"timeout", "provider_error"} : Return(o, NoStatus, NoId)
    BY <1>6 DEF Abort, FetchFails
  <2>2. pc = "calling" /\ heard' = {} /\ Came(FALSE)
    BY <1>6 DEF Abort, FetchFails, IInv, HeardLast
  <2> QED
    BY <1>t, <2>1, <2>2, ReturnKeeps DEF Outcomes
<1>7. ASSUME NEW s \in Statuses, Respond(s) PROVE IInv'
  BY <1>7, <1>t DEF Respond, IInv, OpenCall, HeardLast, EveryCallIsOnRecord,
     RecordedDue, AnswersMatch, FailureUsedItsRetry, AnswerIsTheDecision, Rejected, latest
<1>8. ASSUME NEW b \in Bodies, ReadBody(b) PROVE IInv'
  <2> DEFINE o == OutcomeOf(status, b)
             i == parsedDecision(o, b)
  <2>1. /\ status \in Statuses /\ pc = "calling" /\ heard = {} /\ Return(o, status, i)
        /\ Came(TRUE)
    BY <1>8, <1>t DEF ReadBody, TypeOK, IInv, HeardLast
  <2>2. /\ o \in Outcomes /\ i \in Ids \cup {NoId}
        /\ o \in {"empty", "truncated", "invalid_json", "invalid_schema"} => Ok(status)
        /\ o = "valid_json" <=> i # NoId
        /\ o = "valid_json" => i = redactText(b.content)
        /\ o = "valid_json" <=>
             Ok(status) /\ b.choice /\ b.finish = "stop" /\ b.content \in Ids
    BY <2>1, OutcomeTrue
  <2>3. o # "timeout"
    BY DEF OutcomeOf, parseDecisionText
  <2>4. heard' = IF o = "valid_json" THEN {b.content} ELSE {}
    BY <1>8, <2>1, <2>2 DEF ReadBody
  <2>5. o = "valid_json" => \E x \in Ids : heard' = {x} /\ i = redactText(x)
    BY <2>2, <2>4
  <2> HIDE DEF o, i
  <2> QED
    BY <1>t, <2>1, <2>2, <2>3, <2>4, <2>5, ReturnKeeps
<1>9. CASE Conclude
  <2>1. /\ pc = "returned" /\ pc' = "decided" /\ Len(attempts) > 0
        /\ attempts' = attempts /\ answers' = answers
        /\ heard' = heard /\ sent' = sent /\ latest' = latest
        /\ selected' = IF latest.outcome = "valid_json" /\ latest.id \in Advertised
                       THEN latest.id ELSE NoId
    BY <1>9 DEF Conclude, IInv, HeardLast, latest
  <2>2. latest \in Attempts /\ Truthful(latest)
    BY <2>1, <1>t DEF IInv, TypeOK, latest
  <2>3. FailureUsedItsRetry'
    <3>1. latest.kind = "primary" => ~isTransientProviderFailure(latest)
      BY <1>9 DEF Conclude, RetriesTransport
    <3>2. latest.kind = "format_retry" \/ ~isMalformed(latest)
      BY <1>9 DEF Conclude, RetriesFormat
    <3>3. latest.status \in Nat /\ (latest.status = NoStatus \/ latest.status \in 200 .. 599)
      BY <2>2, StatusRange
    <3>4. CASE isMalformed(latest)
      BY <2>1, <3>2, <3>4 DEF FailureUsedItsRetry
    <3>5. CASE latest.outcome \in {"timeout", "provider_error"} /\ latest.kind # "primary"
      BY <2>1, <3>5 DEF FailureUsedItsRetry
    <3>6. CASE latest.outcome \in {"timeout", "provider_error"} /\ latest.kind = "primary"
      <4>1. /\ latest.outcome = "provider_error"
            /\ latest.status # NoStatus /\ latest.status < 500
            /\ latest.status \notin {408, 409, 425, 429}
        BY <3>1, <3>3, <3>6 DEF isTransientProviderFailure
      <4>2. Ok(latest.status) \/ Rejected(latest)
        BY <3>3, <4>1 DEF Ok, Rejected
      <4>3. Rejected(latest)' <=> Rejected(latest)
        BY <2>1 DEF Rejected
      <4> QED
        BY <2>1, <4>1, <4>2, <4>3 DEF FailureUsedItsRetry
    <3>7. CASE latest.outcome = "valid_json"
      BY <2>1, <3>7 DEF FailureUsedItsRetry
    <3> QED
      BY <2>2, <3>4, <3>5, <3>6, <3>7 DEF Attempts, Outcomes, isMalformed
  <2>4. AnswerIsTheDecision'
    <3>1. CASE latest.outcome # "valid_json"
      BY <2>1, <3>1, ProviderAssumption DEF IInv, HeardLast, AnswerIsTheDecision
    <3>2. CASE latest.outcome = "valid_json"
      <4>1. PICK x \in Ids : heard = {x} /\ latest.id = redactText(x)
        BY <2>1, <3>2 DEF IInv, HeardLast
      <4>2. CASE x \in Secretlike
        <5>1. selected' = NoId
          BY <2>1, <4>1, <4>2, ProviderAssumption DEF redactText
        <5> QED
          BY <2>1, <4>1, <4>2, <5>1 DEF AnswerIsTheDecision
      <4>3. CASE x \notin Secretlike
        <5>1. selected' = IF x \in Advertised THEN x ELSE NoId
          BY <2>1, <3>2, <4>1, <4>3 DEF redactText
        <5> QED
          BY <2>1, <4>1, <5>1, ProviderAssumption DEF AnswerIsTheDecision
      <4> QED
        BY <4>2, <4>3
    <3> QED
      BY <3>1, <3>2
  <2>5. /\ HeardLast' /\ OpenCall' /\ EveryCallIsOnRecord'
        /\ RecordedDue' /\ AnswersMatch'
    BY <2>1 DEF IInv, HeardLast, OpenCall, EveryCallIsOnRecord, RecordedDue, AnswersMatch,
       Rejected
  <2> QED
    BY <2>1, <2>3, <2>4, <2>5, <1>t DEF IInv
<1>10. CASE UNCHANGED vars
  BY <1>10, <1>t DEF vars, IInv, OpenCall, HeardLast, EveryCallIsOnRecord,
     RecordedDue, AnswersMatch, FailureUsedItsRetry, AnswerIsTheDecision, Rejected, latest
<1> QED
  BY <1>1, <1>2, <1>3, <1>4, <1>5, <1>6, <1>7, <1>8, <1>9, <1>10
     DEF Next, Network, Agent

LEMMA Invariant == Spec => []IInv
<1>1. Init => IInv
  BY InitIInv
<1>2. IInv /\ [Next]_vars => IInv'
  BY NextIInv
<1> QED
  BY <1>1, <1>2, PTL DEF Spec

\* No request is missing from the record of a session, however calls break.
THEOREM CallsOnRecord == Spec => []EveryCallIsOnRecord
<1>1. IInv => EveryCallIsOnRecord
  BY DEF IInv
<1> QED
  BY <1>1, Invariant, PTL

LEMMA PassingStatus ==
    ASSUME NEW a \in Attempts, a.status \in 200 .. 599, Truthful(a),
           isTransientProviderFailure(a) \/ (~Rejected(a) /\ ~Ok(a.status))
    PROVE  Passing(a.status)
<1> DEFINE s == a.status
<1>1. s \in 200 .. 599 /\ s # NoStatus
  BY DEF NoStatus
<1>2. a.outcome # "timeout"
  BY <1>1 DEF Truthful
<1>3. CASE isTransientProviderFailure(a)
  BY <1>1, <1>2, <1>3 DEF isTransientProviderFailure, Passing
<1>4. CASE ~Rejected(a) /\ ~Ok(a.status)
  BY <1>1, <1>4 DEF Rejected, Ok, Passing
<1> QED
  BY <1>3, <1>4

\* The open call and the recorded ones are due by what the provider sent.
LEMMA DueAsSent == IInv => RetriesAreDueUnlessCutOff
<1> SUFFICES ASSUME IInv PROVE RetriesAreDueUnlessCutOff
  OBVIOUS
<1> DEFINE n == Len(attempts)
<1>1. n \in Nat /\ n <= 3 /\ attempts \in Seq(Attempts)
  BY DEF IInv, TypeOK, RecordedDue
<1>2. /\ Len(sent) = n + (IF pc = "calling" THEN 1 ELSE 0)
      /\ \A i \in 1 .. n : attempts[i].kind = sent[i]
  BY DEF IInv, EveryCallIsOnRecord
<1>3. pc = "calling" => n <= 2 /\ sent[n + 1] = kind
  BY <1>1, <1>2 DEF IInv, OpenCall, TypeOK, Kinds
<1>4. ASSUME n >= 1, isTransientProviderFailure(attempts[1]) \/
               (~Rejected(attempts[1]) /\ ~Ok(attempts[1].status)),
             answers[1].whole
      PROVE  Passing(answers[1].status)
  <2>1. /\ 1 \in 1 .. n
        /\ attempts[1] \in Attempts /\ attempts[1].status = answers[1].status
        /\ attempts[1].status \in Statuses /\ Truthful(attempts[1])
    BY <1>1, <1>4 DEF IInv, AnswersMatch
  <2>2. attempts[1].status \in 200 .. 599
    BY <2>1, ProviderAssumption
  <2> QED
    BY <1>4, <2>1, <2>2, PassingStatus
<1>5. ASSUME NEW i \in 1 .. n, Ok(attempts[i].status)
      PROVE  answers[i].whole /\ Ok(answers[i].status)
  <2>1. IF answers[i].whole THEN attempts[i].status = answers[i].status
                            ELSE attempts[i].status = NoStatus
    BY DEF IInv, AnswersMatch
  <2>2. ~Ok(NoStatus)
    BY DEF Ok, NoStatus
  <2> QED
    BY <1>5, <2>1, <2>2
<1>6. ASSUME NEW i \in 1 .. n
      PROVE  /\ sent[i] = "primary" <=> i = 1
             /\ sent[i] = "transport_retry" =>
                  i = 2 /\ (answers[1].whole => Passing(answers[1].status))
             /\ sent[i] = "format_retry" =>
                  i = n /\ pc # "calling" /\ answers[i - 1].whole /\ Ok(answers[i - 1].status)
  <2>1. attempts[i].kind = sent[i]
    BY <1>2
  <2>2. /\ attempts[i].kind = "primary" <=> i = 1
        /\ attempts[i].kind = "transport_retry" =>
             i = 2 /\ ~Rejected(attempts[1]) /\ ~Ok(attempts[1].status)
        /\ attempts[i].kind = "format_retry" =>
             i = n /\ Ok(attempts[i - 1].status)
    BY DEF IInv, RecordedDue
  <2>3. sent[i] = "format_retry" => i - 1 \in 1 .. n
    BY <1>1, <2>1, <2>2
  <2>4. ASSUME sent[i] = "format_retry", pc = "calling" PROVE FALSE
    <3>1. /\ i = n /\ attempts[n].kind = "format_retry" /\ n > 1
      BY <1>1, <2>1, <2>2, <2>3, <2>4
    <3>2. /\ kind \in Kinds
          /\ kind = "primary" => n = 0
          /\ kind = "transport_retry" => n = 1
          /\ kind = "format_retry" => attempts[n].kind # "format_retry"
      BY <2>4 DEF IInv, OpenCall, latest, TypeOK
    <3> QED
      BY <3>1, <3>2 DEF Kinds
  <2> QED
    BY <1>1, <1>4, <1>5, <2>1, <2>2, <2>3, <2>4
<1>7. ASSUME pc = "calling"
      PROVE  /\ kind = "primary" <=> n = 0
             /\ kind = "transport_retry" =>
                  n = 1 /\ (answers[1].whole => Passing(answers[1].status))
             /\ kind = "format_retry" =>
                  n >= 1 /\ answers[n].whole /\ Ok(answers[n].status)
  <2>1. /\ kind = "primary" => attempts = <<>>
        /\ kind = "transport_retry" =>
             n = 1 /\ isTransientProviderFailure(attempts[1])
        /\ kind = "format_retry" => n \in {1, 2} /\ isMalformed(attempts[n])
        /\ kind \in Kinds
    BY <1>7 DEF IInv, OpenCall, latest, TypeOK
  <2>2. n \in 1 .. n => Truthful(attempts[n])
    BY DEF IInv
  <2>3. kind = "format_retry" => n \in 1 .. n /\ Ok(attempts[n].status)
    BY <2>1, <2>2 DEF Truthful
  <2> QED
    BY <1>1, <1>4, <1>5, <2>1, <2>3 DEF Kinds
<1>8. Len(sent) <= 3
  BY <1>1, <1>2, <1>3
<1>9. ASSUME NEW i \in 1 .. Len(sent)
      PROVE  /\ sent[i] = "primary" <=> i = 1
             /\ sent[i] = "transport_retry" =>
                  i = 2 /\ (answers[1].whole => Passing(answers[1].status))
             /\ sent[i] = "format_retry" =>
                  i = Len(sent) /\ answers[i - 1].whole /\ Ok(answers[i - 1].status)
  <2>1. CASE i \in 1 .. n
    BY <1>1, <1>2, <1>6, <2>1
  <2>2. CASE pc = "calling" /\ i = n + 1
    BY <1>1, <1>2, <1>3, <1>7, <2>2
  <2> QED
    BY <1>1, <1>2, <2>1, <2>2
<1> QED
  BY <1>8, <1>9 DEF RetriesAreDueUnlessCutOff

\* At most three calls; no refusal that arrived in full is sent again, and a format retry
\* follows an answer the model gave, both judged by what the provider sent.
THEOREM RetriesDue == Spec => []RetriesAreDueUnlessCutOff
<1>1. IInv => RetriesAreDueUnlessCutOff
  BY DueAsSent
<1> QED
  BY <1>1, Invariant, PTL

\* A session fails only on a refusal or after the retry it was entitled to.
THEOREM RetriesUsed == Spec => []FailureUsedItsRetry
<1>1. IInv => FailureUsedItsRetry
  BY DEF IInv
<1> QED
  BY <1>1, Invariant, PTL

\* The one answer heard in full is the decision, and nothing else is.
THEOREM DecisionIsAnswer == Spec => []AnswerIsTheDecision
<1>1. IInv => AnswerIsTheDecision
  BY DEF IInv
<1> QED
  BY <1>1, Invariant, PTL
=============================================================================
