------------------------ MODULE ActionDeliveryProofs ------------------------
(***************************************************************************)
(* For any number of ticks, snapshots and leases: ActionDelivery keeps its *)
(* types, gives each decision at most one input, reports only what is true *)
(* and implements InputOnce.                                               *)
(***************************************************************************)
EXTENDS ActionDelivery, TLAPS

BeforeSubmit == {"observe", "decide", "preflight", "execute", "submit"}
AfterSubmit  == {"await", "poll", "classify"}

\* Nothing has happened to later ticks, and nothing is recorded of this one.
Untouched ==
    \A t \in Ticks :
        /\ t > tick => outcome[t] = "none" /\ inputs[t] = 0
        /\ t = tick /\ pc # "stopped" => outcome[t] = "none"
        /\ inputs[t] = 0 => landed[t] = {}

\* Until it submits, a tick has given the game nothing.
NothingYet == pc \in BeforeSubmit => wire = {} /\ inputs[tick] = 0

\* The one request that can be on the wire.
Current == [tick |-> tick, request |-> requestId, snapshot |-> pre,
            lease |-> credentials]

OneRequest ==
    /\ wire \subseteq {Current}
    /\ wire # {} => /\ pc \in AfterSubmit \cup {"stopped"}
                    /\ pc = "stopped" => outcome[tick] \in Unsettled
                    /\ inputs[tick] = 0
                    /\ \A e \in ledger : e.request # requestId

\* The ledger tells the truth about the request of this tick.
LedgerTruth ==
    /\ \A e \in ledger : e.request <= requestId
    /\ pc \in AfterSubmit =>
         \A e \in ledger : e.request = requestId =>
            /\ e.delivery = "delivered" => inputs[tick] = 1
            /\ e.delivery = "not_delivered" => inputs[tick] = 0

\* A receipt that passes the identity check came from the ledger.
ReceiptTruth == pc = "classify" /\ ReceiptMatches => receipt \in ledger

Settling == pc = "settle" => inputs[tick] = 1

\* What a request needs is there when it is built and compared.
Prepared ==
    /\ pc \in {"submit", "settle"} \cup AfterSubmit => credentials \in Leases
    /\ pc \in AfterSubmit => requestId > 0

\* The adapter's own stale check never fires behind the executor's: what the
\* re-read let through is bound to the adapter's latest snapshot.
BindingIsCurrent == pc \in {"execute", "submit"} => token = pre

IInv ==
    /\ TypeOK
    /\ Untouched /\ NothingYet /\ OneRequest /\ LedgerTruth /\ ReceiptTruth
    /\ Settling /\ Prepared
    /\ BindingIsCurrent /\ LandsOnItsDecision
    /\ AtMostOneInput /\ NotExecutedIsTrue /\ ExecutedIsTrue

LEMMA InitIInv == Init => IInv
<1> SUFFICES ASSUME Init PROVE IInv
  OBVIOUS
<1> USE BoundsAssumption
        DEF Init, Ticks, Snapshots, Leases, Requests
<1>1. TypeOK
  BY DEF TypeOK, NoReceipt, Receipts, Deliveries, Reasons, NoLease, Places
<1>2. Untouched /\ NothingYet /\ OneRequest /\ LedgerTruth /\ ReceiptTruth
  BY DEF Untouched, NothingYet, OneRequest, LedgerTruth, ReceiptTruth,
         BeforeSubmit, AfterSubmit
<1>3. Settling /\ Prepared /\ BindingIsCurrent /\ LandsOnItsDecision
  BY DEF Settling, Prepared, AfterSubmit, BindingIsCurrent, LandsOnItsDecision
<1>4. AtMostOneInput /\ NotExecutedIsTrue /\ ExecutedIsTrue
  BY DEF AtMostOneInput, NotExecutedIsTrue, ExecutedIsTrue, NotExecuted, Executed
<1> QED
  BY <1>1, <1>2, <1>3, <1>4 DEF IInv

\* Recording a verdict that is true, with nothing left on the wire unless the
\* run stops on an unknown, keeps the invariant.
LEMMA FinishKeeps ==
    ASSUME IInv,
           NEW o \in Outcomes, NEW stop \in BOOLEAN, Finish(o, stop),
           UNCHANGED <<hostVars, pre, credentials, requestId, receipt>>,
           token' \in Snapshots,
           pc # "stopped",
           o \in Executed => inputs[tick] = 1,
           o \in NotExecuted => inputs[tick] = 0,
           wire # {} => stop /\ o \in Unsettled
    PROVE  IInv'
<1> USE DEF IInv, TypeOK, Ticks, hostVars
<1>1. /\ outcome' = [outcome EXCEPT ![tick] = o]
      /\ \/ pc' = "stopped" /\ tick' = tick
         \/ pc' = "observe" /\ tick' = tick + 1 /\ tick' \in Ticks /\ wire = {}
  BY BoundsAssumption DEF Finish
<1>2. TypeOK'
  BY <1>1 DEF Outcomes, Places
<1>3. Untouched'
  BY <1>1 DEF Untouched
<1>4. NothingYet'
  BY <1>1 DEF NothingYet, BeforeSubmit, Untouched
<1>5. OneRequest'
  BY <1>1 DEF OneRequest, Current, AfterSubmit
<1>6. LedgerTruth' /\ ReceiptTruth' /\ Settling' /\ Prepared' /\ BindingIsCurrent'
  BY <1>1 DEF LedgerTruth, ReceiptTruth, Settling, Prepared, BindingIsCurrent,
              AfterSubmit
<1>7. LandsOnItsDecision'
  BY <1>1 DEF LandsOnItsDecision, Untouched
<1>8. AtMostOneInput' /\ NotExecutedIsTrue' /\ ExecutedIsTrue'
  BY <1>1 DEF AtMostOneInput, NotExecutedIsTrue, ExecutedIsTrue
<1> QED
  BY <1>2, <1>3, <1>4, <1>5, <1>6, <1>7, <1>8

-----------------------------------------------------------------------------
(* Host steps.                                                             *)

LEMMA HostMoves ==
    ASSUME IInv, GameMoves \/ LeaseMoves PROVE IInv'
<1> USE DEF IInv, agentVars
<1>1. snapshot' \in Snapshots /\ lease' \in Leases
  BY BoundsAssumption DEF TypeOK, GameMoves, LeaseMoves, Snapshots, Leases
<1>2. UNCHANGED <<ledger, wire, inputs, landed, agentVars>>
  BY DEF GameMoves, LeaseMoves
<1>3. TypeOK'
  BY <1>1, <1>2 DEF TypeOK
<1>4. Untouched' /\ NothingYet' /\ OneRequest' /\ LedgerTruth' /\ ReceiptTruth'
  BY <1>2 DEF Untouched, NothingYet, OneRequest, Current, LedgerTruth,
              ReceiptTruth, ReceiptMatches
<1>5. Settling' /\ Prepared' /\ BindingIsCurrent' /\ LandsOnItsDecision'
  BY <1>2 DEF Settling, Prepared, BindingIsCurrent, LandsOnItsDecision
<1>6. AtMostOneInput' /\ NotExecutedIsTrue' /\ ExecutedIsTrue'
  BY <1>2 DEF AtMostOneInput, NotExecutedIsTrue, ExecutedIsTrue
<1> QED
  BY <1>3, <1>4, <1>5, <1>6

\* What OneRequest says of a request that is still on the wire.
LEMMA OnTheWire ==
    ASSUME IInv, NEW s \in wire
    PROVE  /\ wire = {s} /\ s = Current
           /\ s.tick = tick /\ s.request = requestId /\ s.snapshot = pre
           /\ s.lease = credentials
           /\ pc \in AfterSubmit \cup {"stopped"}
           /\ pc = "stopped" => outcome[tick] \in Unsettled
           /\ inputs[tick] = 0 /\ landed[tick] = {}
           /\ \A e \in ledger : e.request # requestId
<1>1. wire = {s} /\ s = Current
  BY DEF IInv, OneRequest
<1>2. landed[tick] = {}
  BY <1>1 DEF IInv, OneRequest, Untouched, TypeOK
<1> QED
  BY <1>1, <1>2 DEF IInv, OneRequest, Current

\* The Host takes a request off the wire and files one receipt for it.
LEMMA HostAnswers ==
    ASSUME IInv, NEW s \in wire, HostDelivers(s) \/ HostRefuses(s)
    PROVE  IInv'
<1> DEFINE delivered == HostDelivers(s)
<1> USE OnTheWire DEF IInv, agentVars
<1>1. /\ wire' = {}
      /\ UNCHANGED <<snapshot, lease, agentVars>>
      /\ inputs' = IF delivered THEN [inputs EXCEPT ![tick] = 1] ELSE inputs
      /\ landed' = IF delivered THEN [landed EXCEPT ![tick] = {pre}] ELSE landed
  <2>1. CASE delivered
    <3>1. s.tick = tick /\ snapshot = pre
      BY <2>1 DEF HostDelivers
    <3>2. inputs[tick] + 1 = 1 /\ landed[tick] \cup {snapshot} = {pre}
      BY <3>1
    <3>3. /\ inputs' = [inputs EXCEPT ![tick] = inputs[tick] + 1]
          /\ landed' = [landed EXCEPT ![tick] = landed[tick] \cup {snapshot}]
      BY <2>1, <3>1 DEF HostDelivers
    <3>4. inputs' = [inputs EXCEPT ![tick] = 1]
      BY <3>2, <3>3
    <3>5. landed' = [landed EXCEPT ![tick] = {pre}]
      BY <3>2, <3>3
    <3>6. wire' = {} /\ UNCHANGED <<snapshot, lease, agentVars>>
      BY <2>1 DEF HostDelivers
    <3> QED
      BY <2>1, <3>4, <3>5, <3>6
  <2>2. CASE ~delivered
    BY <2>2 DEF HostRefuses
  <2> QED
    BY <2>1, <2>2
<1>2. PICK d \in Deliveries, w \in Reasons, l \in Leases \cup {NoLease} :
        /\ ledger' = ledger \cup {[request |-> requestId, delivery |-> d,
                                  reason |-> w, lease |-> l]}
        /\ delivered => d # "not_delivered"
        /\ ~delivered => d # "delivered"
  <2>1. s.lease \in Leases
    BY DEF TypeOK, Submissions
  <2>2. CASE delivered
    BY <2>1, <2>2 DEF HostDelivers, Deliveries, Reasons
  <2>3. CASE ~delivered
    BY <2>1, <2>3 DEF HostRefuses, Deliveries
  <2> QED
    BY <2>2, <2>3
<1>3. /\ inputs' \in [Ticks -> Nat] /\ landed' \in [Ticks -> SUBSET Snapshots]
      /\ \A t \in Ticks : t # tick => inputs'[t] = inputs[t] /\ landed'[t] = landed[t]
      /\ inputs'[tick] = IF delivered THEN 1 ELSE 0
      /\ landed'[tick] = IF delivered THEN {pre} ELSE {}
  BY <1>1 DEF TypeOK
<1>4. TypeOK'
  <2>1. ledger' \in SUBSET Receipts
    BY <1>2 DEF TypeOK, Receipts, Requests
  <2> QED
    BY <1>1, <1>3, <2>1 DEF TypeOK
<1>5. Untouched' /\ NothingYet' /\ OneRequest' /\ ReceiptTruth'
  <2>1. Untouched'
    BY <1>1, <1>3 DEF Untouched, TypeOK, Ticks
  <2>2. NothingYet'
    BY <1>1 DEF NothingYet, BeforeSubmit, AfterSubmit
  <2>3. OneRequest'
    BY <1>1 DEF OneRequest
  <2>4. ReceiptTruth'
    BY <1>1, <1>2 DEF ReceiptTruth, ReceiptMatches
  <2> QED
    BY <2>1, <2>2, <2>3, <2>4
<1>6. LedgerTruth'
  BY <1>1, <1>2, <1>3 DEF LedgerTruth, TypeOK
<1>7. Settling' /\ Prepared' /\ BindingIsCurrent' /\ LandsOnItsDecision'
  BY <1>1, <1>3 DEF Settling, Prepared, BindingIsCurrent, LandsOnItsDecision,
                    AfterSubmit
<1>8. AtMostOneInput' /\ NotExecutedIsTrue' /\ ExecutedIsTrue'
  <2>1. outcome[tick] \notin NotExecuted \cup Executed
    BY DEF AfterSubmit, Untouched, NotExecuted, Executed, Unsettled, TypeOK
  <2> QED
    BY <1>1, <1>3, <2>1 DEF AtMostOneInput, NotExecutedIsTrue, ExecutedIsTrue
<1> QED
  BY <1>4, <1>5, <1>6, <1>7, <1>8

LEMMA HostLoses ==
    ASSUME IInv, NEW s \in wire, RequestLost(s) PROVE IInv'
<1> USE OnTheWire DEF IInv, agentVars, RequestLost
<1>1. TypeOK'
  BY DEF TypeOK
<1>2. Untouched' /\ NothingYet' /\ OneRequest' /\ LedgerTruth' /\ ReceiptTruth'
  BY DEF Untouched, NothingYet, OneRequest, Current, LedgerTruth, ReceiptTruth,
         ReceiptMatches, BeforeSubmit, AfterSubmit
<1>3. Settling' /\ Prepared' /\ BindingIsCurrent' /\ LandsOnItsDecision'
  BY DEF Settling, Prepared, BindingIsCurrent, LandsOnItsDecision
<1>4. AtMostOneInput' /\ NotExecutedIsTrue' /\ ExecutedIsTrue'
  BY DEF AtMostOneInput, NotExecutedIsTrue, ExecutedIsTrue
<1> QED
  BY <1>1, <1>2, <1>3, <1>4

-----------------------------------------------------------------------------
(* Agent steps.                                                            *)

\* The steps that record an outcome.
LEMMA FinishingSteps ==
    ASSUME IInv,
           \/ ObserveNonActionable \/ ObserveFails \/ DecideFails
           \/ Preflight /\ snapshot # pre
           \/ PreflightFails \/ ExecuteRefuses \/ PollFails
           \/ ReceiptUnknown \/ ReceiptNotDelivered \/ Settle
    PROVE  IInv'
<1> USE DEF IInv, TypeOK, Outcomes, NotExecuted, Executed, Unsettled, hostVars
<1>1. CASE \/ ObserveNonActionable \/ ObserveFails \/ DecideFails
           \/ (Preflight /\ snapshot # pre) \/ PreflightFails \/ ExecuteRefuses
  <2>1. wire = {} /\ inputs[tick] = 0
    BY <1>1 DEF ObserveNonActionable, ObserveFails, DecideFails, Preflight,
                PreflightFails, ExecuteRefuses, NothingYet, BeforeSubmit
  <2>2. PICK o \in NotExecuted, stop \in BOOLEAN :
          /\ Finish(o, stop) /\ pc # "stopped" /\ token' \in Snapshots
          /\ UNCHANGED <<hostVars, pre, credentials, requestId, receipt>>
    BY <1>1 DEF ObserveNonActionable, ObserveFails, DecideFails, Preflight,
                PreflightFails, ExecuteRefuses, Read
  <2> QED
    BY <2>1, <2>2, FinishKeeps
<1>2. CASE PollFails \/ ReceiptUnknown
  <2>1. PICK stop \in {TRUE} :
          /\ Finish("executed_unsettled", stop) /\ pc # "stopped"
          /\ token' \in Snapshots
          /\ UNCHANGED <<hostVars, pre, credentials, requestId, receipt>>
    BY <1>2 DEF PollFails, ReceiptUnknown
  <2> QED
    BY <2>1, FinishKeeps
<1>3. CASE ReceiptNotDelivered
  <2>1. /\ receipt \in ledger /\ receipt.request = requestId
        /\ receipt.delivery = "not_delivered" /\ pc = "classify"
    BY <1>3 DEF ReceiptNotDelivered, ReceiptTruth, ReceiptMatches
  <2>2. wire = {} /\ inputs[tick] = 0
    BY <2>1 DEF OneRequest, LedgerTruth, AfterSubmit
  <2>3. PICK o \in NotExecuted, stop \in BOOLEAN :
          /\ Finish(o, stop) /\ token' \in Snapshots
          /\ UNCHANGED <<hostVars, pre, credentials, requestId, receipt>>
    BY <1>3 DEF ReceiptNotDelivered
  <2> QED
    BY <2>1, <2>2, <2>3, FinishKeeps
<1>4. CASE Settle
  <2>1. wire = {} /\ inputs[tick] = 1 /\ pc # "stopped"
    BY <1>4 DEF Settle, Settling, OneRequest, AfterSubmit
  <2>2. PICK o \in Executed, stop \in BOOLEAN :
          /\ Finish(o, stop) /\ token' \in Snapshots
          /\ UNCHANGED <<hostVars, pre, credentials, requestId, receipt>>
    BY <1>4 DEF Settle
  <2> QED
    BY <2>1, <2>2, FinishKeeps
<1> QED
  BY <1>1, <1>2, <1>3, <1>4

\* The steps that stay within the tick leave its history alone.
LEMMA WithinTheTick ==
    ASSUME IInv, UNCHANGED <<tick, outcome, inputs>>, pc' # "stopped",
           pc # "stopped"
    PROVE  /\ landed' = landed => Untouched'
           /\ AtMostOneInput' /\ NotExecutedIsTrue' /\ ExecutedIsTrue'
BY DEF IInv, Untouched, AtMostOneInput, NotExecutedIsTrue, ExecutedIsTrue

\* Reading, deciding and comparing, before there is a request.
LEMMA PreparingSteps ==
    ASSUME IInv,
           ObserveDecidable \/ Decide \/ (Preflight /\ snapshot = pre) \/ HaveControl
    PROVE  IInv'
<1> USE DEF IInv
<1>1. /\ pc \in BeforeSubmit /\ pc' \in {"decide", "preflight", "execute", "submit"}
      /\ (pc = "observe") <=> (pc' = "decide")
      /\ UNCHANGED <<snapshot, ledger, wire, inputs, landed, tick, requestId,
                     receipt, outcome>>
      /\ pc # "observe" => pre' = pre
      /\ pre' \in Snapshots /\ token' \in Snapshots
      /\ lease' \in Leases /\ credentials' \in Leases \cup {NoLease}
      /\ pc' = "submit" => credentials' \in Leases
      /\ pc' \in {"execute", "submit"} => token' = pre'
  <2> USE BoundsAssumption DEF hostVars, BeforeSubmit, TypeOK, Leases
  <2>1. CASE ObserveDecidable
    BY <2>1 DEF ObserveDecidable, Read
  <2>2. CASE Decide
    BY <2>2 DEF Decide
  <2>3. CASE Preflight /\ snapshot = pre
    BY <2>3 DEF Preflight, Read
  <2>4. CASE HaveControl
    BY <2>4 DEF HaveControl
  <2> QED
    BY <2>1, <2>2, <2>3, <2>4
<1>2. wire = {} /\ inputs[tick] = 0 /\ landed[tick] = {} /\ tick \in Ticks
  BY <1>1 DEF NothingYet, Untouched, TypeOK
<1>3. TypeOK'
  BY <1>1 DEF TypeOK, Places
<1>4. Untouched' /\ AtMostOneInput' /\ NotExecutedIsTrue' /\ ExecutedIsTrue'
  BY <1>1, WithinTheTick DEF BeforeSubmit
<1>5. NothingYet' /\ OneRequest' /\ LedgerTruth' /\ ReceiptTruth'
  BY <1>1, <1>2 DEF NothingYet, OneRequest, LedgerTruth, ReceiptTruth, AfterSubmit
<1>6. Settling' /\ Prepared' /\ BindingIsCurrent' /\ LandsOnItsDecision'
  BY <1>1, <1>2 DEF Settling, Prepared, AfterSubmit, BindingIsCurrent,
                    LandsOnItsDecision
<1> QED
  BY <1>3, <1>4, <1>5, <1>6

LEMMA SubmitStep == ASSUME IInv, Submit PROVE IInv'
<1> USE DEF IInv, Submit
<1>1. /\ wire = {} /\ inputs[tick] = 0 /\ token = pre /\ credentials \in Leases
      /\ requestId \in Nat /\ \A e \in ledger : e.request <= requestId
  BY DEF NothingYet, BeforeSubmit, BindingIsCurrent, Prepared, TypeOK, LedgerTruth
<1>2. wire' = {Current'}
  BY <1>1 DEF Current
<1>3. \A e \in ledger : e.request \in Nat /\ e.request # requestId'
  BY <1>1 DEF TypeOK, Receipts, Requests
<1>4. TypeOK'
  <2>1. Current' \in Submissions
    BY <1>1 DEF Current, Submissions, TypeOK, Requests
  <2> QED
    BY <1>1, <1>2, <2>1 DEF TypeOK, Places
<1>5. Untouched' /\ AtMostOneInput' /\ NotExecutedIsTrue' /\ ExecutedIsTrue'
  BY WithinTheTick
<1>6. NothingYet' /\ OneRequest' /\ LedgerTruth' /\ ReceiptTruth'
  BY <1>1, <1>2, <1>3 DEF NothingYet, BeforeSubmit, OneRequest, LedgerTruth,
                          ReceiptTruth, AfterSubmit
<1>7. Settling' /\ Prepared' /\ BindingIsCurrent' /\ LandsOnItsDecision'
  BY <1>1 DEF Settling, Prepared, AfterSubmit, BindingIsCurrent, LandsOnItsDecision
<1> QED
  BY <1>4, <1>5, <1>6, <1>7

LEMMA AnswerSteps ==
    ASSUME IInv, SubmitAnswered \/ PollAnswered \/ SubmitFails PROVE IInv'
<1> USE DEF IInv, SubmitAnswered, PollAnswered, SubmitFails, hostVars
<1>1. /\ pc \in {"await", "poll"} /\ pc' \in {"poll", "classify"}
      /\ UNCHANGED <<snapshot, lease, ledger, wire, inputs, landed, tick, pre,
                     token, credentials, requestId, outcome>>
      /\ pc' = "poll" => receipt' = receipt
      /\ pc' = "classify" =>
           receipt' \in {e \in ledger : e.request = requestId} \cup WrongReceipts
  BY DEF Answer
<1>2. requestId > 0 /\ requestId \in Nat /\ credentials \in Leases
  BY <1>1 DEF Prepared, AfterSubmit, TypeOK
<1>3. TypeOK'
  <2>1. WrongReceipts \subseteq Receipts
    BY <1>2 DEF WrongReceipts, Receipts, Requests, Reasons
  <2>2. receipt' \in Receipts
    BY <1>1, <2>1 DEF TypeOK
  <2> QED
    BY <1>1, <2>2 DEF TypeOK, Places
<1>4. Untouched' /\ AtMostOneInput' /\ NotExecutedIsTrue' /\ ExecutedIsTrue'
  BY <1>1, WithinTheTick
<1>5. NothingYet' /\ OneRequest' /\ LedgerTruth'
  BY <1>1 DEF NothingYet, BeforeSubmit, OneRequest, Current, LedgerTruth, AfterSubmit
<1>6. ReceiptTruth'
  BY <1>1 DEF ReceiptTruth, ReceiptMatches, WrongReceipts
<1>7. Settling' /\ Prepared' /\ BindingIsCurrent' /\ LandsOnItsDecision'
  BY <1>1 DEF Settling, Prepared, AfterSubmit, BindingIsCurrent, LandsOnItsDecision
<1> QED
  BY <1>3, <1>4, <1>5, <1>6, <1>7

LEMMA DeliveredStep == ASSUME IInv, ReceiptDelivered PROVE IInv'
<1> USE DEF IInv, ReceiptDelivered, hostVars
<1>1. receipt \in ledger /\ receipt.request = requestId
  BY DEF ReceiptTruth, ReceiptMatches
<1>2. wire = {} /\ inputs[tick] = 1
  BY <1>1 DEF OneRequest, LedgerTruth, AfterSubmit
<1>3. TypeOK'
  BY DEF TypeOK, Places
<1>4. Untouched' /\ AtMostOneInput' /\ NotExecutedIsTrue' /\ ExecutedIsTrue'
  BY WithinTheTick
<1>5. NothingYet' /\ OneRequest' /\ LedgerTruth' /\ ReceiptTruth'
  BY <1>2 DEF NothingYet, BeforeSubmit, OneRequest, LedgerTruth, ReceiptTruth,
              AfterSubmit
<1>6. Settling' /\ Prepared' /\ BindingIsCurrent' /\ LandsOnItsDecision'
  BY <1>2 DEF Settling, Prepared, AfterSubmit, BindingIsCurrent, LandsOnItsDecision
<1> QED
  BY <1>3, <1>4, <1>5, <1>6

LEMMA StepIInv == ASSUME IInv, [Next]_vars PROVE IInv'
<1>1. CASE Host
  BY <1>1, HostMoves, HostAnswers, HostLoses DEF Host
<1>2. CASE Asked
  BY <1>2, FinishingSteps, PreparingSteps, AnswerSteps DEF Asked
<1>3. CASE Alone
  BY <1>3, FinishingSteps, SubmitStep, AnswerSteps, DeliveredStep DEF Alone
<1>4. CASE UNCHANGED vars
  <2> USE <1>4 DEF vars, IInv
  <2>1. TypeOK' /\ Untouched' /\ NothingYet' /\ OneRequest' /\ LedgerTruth'
    BY DEF TypeOK, Untouched, NothingYet, OneRequest, Current, LedgerTruth
  <2>2. ReceiptTruth' /\ Settling' /\ Prepared' /\ BindingIsCurrent'
    BY DEF ReceiptTruth, ReceiptMatches, Settling, Prepared, BindingIsCurrent
  <2>3. LandsOnItsDecision' /\ AtMostOneInput' /\ NotExecutedIsTrue' /\ ExecutedIsTrue'
    BY DEF LandsOnItsDecision, AtMostOneInput, NotExecutedIsTrue, ExecutedIsTrue
  <2> QED
    BY <2>1, <2>2, <2>3
<1> QED
  BY <1>1, <1>2, <1>3, <1>4 DEF Next

LEMMA InvariantHolds == Spec => []IInv
BY InitIInv, StepIInv, PTL DEF Spec

-----------------------------------------------------------------------------
\* Every reachable state is well-typed, for all bounds.
THEOREM TypeCorrect == Spec => []TypeOK
<1>1. IInv => TypeOK
  BY DEF IInv
<1> QED
  BY <1>1, InvariantHolds, PTL

\* No decision gives the game more than one input, however requests and
\* responses are lost or delayed.
THEOREM InputAtMostOnce == Spec => []AtMostOneInput
<1>1. IInv => AtMostOneInput
  BY DEF IInv
<1> QED
  BY <1>1, InvariantHolds, PTL

\* An input acts on the snapshot its decision was made on.
THEOREM InputLandsRight == Spec => []LandsOnItsDecision
<1>1. IInv => LandsOnItsDecision
  BY DEF IInv
<1> QED
  BY <1>1, InvariantHolds, PTL

\* What is recorded about an execution is true and stays true.
THEOREM RecordsAreTrue == Spec => [](NotExecutedIsTrue /\ ExecutedIsTrue)
<1>1. IInv => NotExecutedIsTrue /\ ExecutedIsTrue
  BY DEF IInv
<1> QED
  BY <1>1, InvariantHolds, PTL

\* No later tick begins while a request may still reach the game.
THEOREM NoStrayRequest == Spec => []NoRequestOutlivesItsTick
<1>1. IInv => NoRequestOutlivesItsTick
  BY OnTheWire DEF NoRequestOutlivesItsTick
<1> QED
  BY <1>1, InvariantHolds, PTL

-----------------------------------------------------------------------------
(* Implementation of InputOnce.                                            *)

\* A step gives an input, records one outcome, or does neither.
LEMMA StepEffects ==
    ASSUME IInv, [Next]_vars
    PROVE  \/ UNCHANGED <<outcome, inputs>>
           \/ \E s \in wire : HostDelivers(s)
           \/ /\ inputs' = inputs /\ pc # "stopped"
              /\ \E o \in Outcomes : outcome' = [outcome EXCEPT ![tick] = o]
<1> USE DEF hostVars, agentVars
<1>1. CASE Host
  BY <1>1 DEF Host, GameMoves, LeaseMoves, HostRefuses, RequestLost
<1>2. CASE Asked
  BY <1>2 DEF Asked, ObserveDecidable, ObserveNonActionable, Decide, Preflight,
              HaveControl, SubmitAnswered, PollAnswered, Finish, Outcomes,
              NotExecuted
<1>3. CASE Alone
  BY <1>3 DEF Alone, ObserveFails, DecideFails, PreflightFails, ExecuteRefuses,
              Submit, SubmitFails, PollFails, ReceiptDelivered, ReceiptUnknown,
              ReceiptNotDelivered, Settle, Finish, Outcomes, NotExecuted,
              Executed, Unsettled
<1>4. CASE UNCHANGED vars
  BY <1>4 DEF vars
<1> QED
  BY <1>1, <1>2, <1>3, <1>4 DEF Next

LEMMA StepImplements ==
    ASSUME IInv, IInv', [Next]_vars
    PROVE  [Abstract!Next]_(Abstract!vars)
<1> USE DEF IInv, Abstract!Next, Abstract!vars, Abstract!Verdicts
<1>1. tick \in Ticks /\ inputs \in [Ticks -> Nat]
      /\ outcome \in [Ticks -> Outcomes \cup {"none"}]
  BY DEF TypeOK
<1>2. CASE UNCHANGED <<outcome, inputs>>
  BY <1>2 DEF verdict
<1>3. CASE \E s \in wire : HostDelivers(s)
  <2>1. PICK s \in wire : HostDelivers(s)
    BY <1>3
  <2>2. /\ s.tick = tick /\ inputs[tick] = 0
        /\ outcome[tick] \in Unsettled \cup {"none"}
    <3>1. pc \in AfterSubmit => outcome[tick] = "none"
      BY <1>1 DEF AfterSubmit, Untouched
    <3> QED
      BY <3>1, OnTheWire
  <2>3. inputs' = [inputs EXCEPT ![tick] = inputs[tick] + 1] /\ outcome' = outcome
    BY <2>1, <2>2 DEF HostDelivers, agentVars
  <2>4. inputs[tick] + 1 = 1
    BY <2>2
  <2>5. inputs' = [inputs EXCEPT ![tick] = 1]
    BY <2>3, <2>4
  <2>6. verdict[tick] \in {"none", "unknown"} /\ verdict' = verdict
    BY <1>1, <2>2, <2>3 DEF verdict, NotExecuted, Executed, Unsettled
  <2> QED
    BY <1>1, <2>2, <2>5, <2>6 DEF Abstract!Give
<1>4. ASSUME inputs' = inputs, pc # "stopped", NEW o \in Outcomes,
             outcome' = [outcome EXCEPT ![tick] = o]
      PROVE  Abstract!Next
  <2> DEFINE v == IF o \in NotExecuted THEN "not_executed"
                  ELSE IF o \in Executed THEN "executed" ELSE "unknown"
  <2>1. outcome[tick] = "none" /\ outcome'[tick] = o
    BY <1>1, <1>4 DEF Untouched
  <2>2. verdict[tick] = "none"
    BY <1>1, <2>1 DEF verdict, NotExecuted, Executed, Unsettled
  <2>3. verdict' = [verdict EXCEPT ![tick] = v]
    <3>1. \A t \in Ticks \ {tick} : outcome'[t] = outcome[t]
      BY <1>1, <1>4
    <3>2. \A t \in Ticks \ {tick} : verdict'[t] = verdict[t]
      BY <3>1 DEF verdict
    <3>3. verdict'[tick] = v
      BY <1>1, <2>1 DEF verdict, Outcomes, NotExecuted, Executed, Unsettled
    <3>4. /\ verdict = [t \in Ticks |-> verdict[t]]
          /\ verdict' = [t \in Ticks |-> verdict'[t]]
      BY DEF verdict
    <3>5. \A t \in Ticks : verdict'[t] = [verdict EXCEPT ![tick] = v][t]
      BY <3>2, <3>3, <3>4
    <3> HIDE DEF v
    <3> QED
      BY <3>4, <3>5
  <2>4. v = "executed" => inputs[tick] = 1
    BY <1>1, <1>4, <2>1 DEF ExecutedIsTrue
  <2>5. v = "not_executed" => inputs[tick] = 0
    BY <1>1, <1>4, <2>1 DEF NotExecutedIsTrue
  <2>6. v \in Abstract!Verdicts \ {"none"}
    OBVIOUS
  <2>7. Abstract!Report(tick, v)
    BY <1>4, <2>2, <2>3, <2>4, <2>5 DEF Abstract!Report
  <2> QED
    BY <1>1, <2>6, <2>7
<1> QED
  BY <1>2, <1>3, <1>4, StepEffects

\* The protocol implements the promise of InputOnce, for all bounds.
THEOREM Implements == Spec => ImplementsInputOnce
<1>1. Init => Abstract!Init
  BY DEF Init, Abstract!Init, verdict, NotExecuted, Executed, Unsettled
<1>2. IInv /\ IInv' /\ [Next]_vars => [Abstract!Next]_(Abstract!vars)
  BY StepImplements
<1> QED
  BY <1>1, <1>2, InvariantHolds, PTL DEF Spec, ImplementsInputOnce, Abstract!Spec
=============================================================================
