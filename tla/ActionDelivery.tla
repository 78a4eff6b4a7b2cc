--------------------------- MODULE ActionDelivery ---------------------------
(***************************************************************************)
(* How one decision reaches the game: the tick reads a snapshot, the model *)
(* chooses a bound action of it, executeAdvertisedAction re-reads and      *)
(* compares, Sts2PlayerEnvironmentAdapter.execute submits under a control  *)
(* lease and classifies the receipt, and the tick records the outcome.     *)
(*                                                                         *)
(* The Player Environment Host and the network are not part of this        *)
(* repository; they are modelled from what the adapter relies on: a ledger *)
(* that answers the same receipt for the same request, an input only under *)
(* the bound snapshot and the current lease, requests and responses that   *)
(* can be lost or late.  The game and other controllers move at any time.  *)
(***************************************************************************)
EXTENDS Naturals, FiniteSets

CONSTANTS
    MaxTicks,      \* ticks of the run (AGENT_MAX_TICKS)
    MaxSnapshot,   \* bound: how many snapshots the game goes through
    MaxLease       \* bound: how many control leases are granted

ASSUME BoundsAssumption ==
    /\ MaxTicks \in Nat \ {0}
    /\ MaxSnapshot \in Nat \ {0}
    /\ MaxLease \in Nat \ {0}

Ticks     == 1 .. MaxTicks
Snapshots == 1 .. MaxSnapshot
Leases    == 1 .. MaxLease
NoLease   == 0      \* no lease obtained, or a receipt without attribution
Requests  == Nat    \* randomUUID, numbered in the order of generation

VARIABLES
    snapshot,   \* Host: the current snapshot id
    lease,      \* Host: the controller lease in force
    ledger,     \* Host: the receipts of the requests it has processed
    wire,       \* requests sent and not yet processed or lost
    inputs,     \* history: native inputs the game received, per decision
    landed,     \* history: the snapshots those inputs acted on
    tick, pc,   \* the tick in progress and where it stands
    pre,        \* the snapshot the decision of this tick was made on
    token,      \* the adapter's latestStateToken, bound into its invocations
    credentials,\* the lease the control session holds
    requestId,  \* the last request id generated
    receipt,    \* the receipt being classified
    outcome     \* the recorded outcome of each tick

hostVars  == <<snapshot, lease, ledger, wire, inputs, landed>>
agentVars == <<tick, pc, pre, token, credentials, requestId, receipt, outcome>>
vars      == <<snapshot, lease, ledger, wire, inputs, landed,
               tick, pc, pre, token, credentials, requestId, receipt, outcome>>

Deliveries == {"delivered", "not_delivered", "unknown"}
Reasons    == {"stale_state", "other"}

Receipts == [request : Requests, delivery : Deliveries, reason : Reasons,
             lease : Leases \cup {NoLease}]
NoReceipt == [request |-> 0, delivery |-> "unknown", reason |-> "other",
              lease |-> NoLease]
Submissions == [tick : Ticks, request : Requests, snapshot : Snapshots,
                lease : Leases]

NotExecuted == {"observation_failed", "not_executed_non_actionable_state",
                "not_executed_llm_failure", "not_executed_stale_state",
                "execution_failed"}
Executed    == {"executed_and_settled", "executed_checkpoint_pending"}
Unsettled   == {"executed_unsettled"}
Outcomes    == NotExecuted \cup Executed \cup Unsettled

Places == {"observe", "decide", "preflight", "execute", "submit", "await",
           "poll", "classify", "settle", "stopped"}

TypeOK ==
    /\ snapshot \in Snapshots
    /\ lease \in Leases
    /\ ledger \in SUBSET Receipts
    /\ wire \in SUBSET Submissions
    /\ inputs \in [Ticks -> Nat]
    /\ landed \in [Ticks -> SUBSET Snapshots]
    /\ tick \in Ticks
    /\ pc \in Places
    /\ pre \in Snapshots
    /\ token \in Snapshots
    /\ credentials \in Leases \cup {NoLease}
    /\ requestId \in Nat
    /\ receipt \in Receipts
    /\ outcome \in [Ticks -> Outcomes \cup {"none"}]

Init ==
    /\ snapshot = 1
    /\ lease = 1
    /\ ledger = {}
    /\ wire = {}
    /\ inputs = [t \in Ticks |-> 0]
    /\ landed = [t \in Ticks |-> {}]
    /\ tick = 1
    /\ pc = "observe"
    /\ pre = 1
    /\ token = 1
    /\ credentials = NoLease
    /\ requestId = 0
    /\ receipt = NoReceipt
    /\ outcome = [t \in Ticks |-> "none"]

-----------------------------------------------------------------------------
(* The Host, the game and the network (external).                          *)

GameMoves ==
    /\ snapshot < MaxSnapshot
    /\ snapshot' = snapshot + 1
    /\ UNCHANGED <<lease, ledger, wire, inputs, landed, agentVars>>

\* A lease expires or another controller takes over.
LeaseMoves ==
    /\ lease < MaxLease
    /\ lease' = lease + 1
    /\ UNCHANGED <<snapshot, ledger, wire, inputs, landed, agentVars>>

Answered(r) == \E e \in ledger : e.request = r

\* The Host carries the input out and files whether it could confirm it.
HostDelivers(s) ==
    /\ s \in wire
    /\ ~Answered(s.request)
    /\ s.snapshot = snapshot
    /\ s.lease = lease
    /\ \E d \in {"delivered", "unknown"} :
         ledger' = ledger \cup {[request |-> s.request, delivery |-> d,
                                 reason |-> "other", lease |-> s.lease]}
    /\ wire' = wire \ {s}
    /\ inputs' = [inputs EXCEPT ![s.tick] = @ + 1]
    /\ landed' = [landed EXCEPT ![s.tick] = @ \cup {snapshot}]
    /\ UNCHANGED <<snapshot, lease, agentVars>>

\* The Host turns the request down: stale, not the controller, not legal;
\* or it cannot tell, though nothing happened.
HostRefuses(s) ==
    /\ s \in wire
    /\ ~Answered(s.request)
    /\ \E d \in {"not_delivered", "unknown"}, w \in Reasons,
          l \in {NoLease, s.lease} :
         /\ w = "stale_state" => s.snapshot # snapshot
         /\ ledger' = ledger \cup {[request |-> s.request, delivery |-> d,
                                    reason |-> w, lease |-> l]}
    /\ wire' = wire \ {s}
    /\ UNCHANGED <<snapshot, lease, inputs, landed, agentVars>>

RequestLost(s) ==
    /\ s \in wire
    /\ wire' = wire \ {s}
    /\ UNCHANGED <<snapshot, lease, ledger, inputs, landed, agentVars>>

-----------------------------------------------------------------------------
(* The agent.                                                              *)

\* The record is appended; the run goes on with the next tick or stops.
Finish(o, stop) ==
    /\ outcome' = [outcome EXCEPT ![tick] = o]
    /\ IF stop \/ tick = MaxTicks
       THEN pc' = "stopped" /\ UNCHANGED tick
       ELSE pc' = "observe" /\ tick' = tick + 1

\* adapter.readCurrentState rebuilds the invocations for what it reads.
Read == token' = snapshot

ObserveDecidable ==
    /\ pc = "observe"
    /\ Read
    /\ pre' = snapshot
    /\ pc' = "decide"
    /\ UNCHANGED <<hostVars, tick, credentials, requestId, receipt, outcome>>

ObserveNonActionable ==
    /\ pc = "observe"
    /\ Read
    /\ Finish("not_executed_non_actionable_state", FALSE)
    /\ UNCHANGED <<hostVars, pre, credentials, requestId, receipt>>

ObserveFails ==
    /\ pc = "observe"
    /\ Finish("observation_failed", TRUE)
    /\ UNCHANGED <<hostVars, pre, token, credentials, requestId, receipt>>

Decide ==
    /\ pc = "decide"
    /\ pc' = "preflight"
    /\ UNCHANGED <<hostVars, tick, pre, token, credentials, requestId, receipt,
                   outcome>>

DecideFails ==
    /\ pc = "decide"
    /\ Finish("not_executed_llm_failure", TRUE)
    /\ UNCHANGED <<hostVars, pre, token, credentials, requestId, receipt>>

\* executeAdvertisedAction: the state is read again before it is acted on.
Preflight ==
    /\ pc = "preflight"
    /\ Read
    /\ IF snapshot = pre
       THEN pc' = "execute" /\ UNCHANGED <<tick, outcome>>
       ELSE Finish("not_executed_stale_state", FALSE)
    /\ UNCHANGED <<hostVars, pre, credentials, requestId, receipt>>

PreflightFails ==
    /\ pc = "preflight"
    /\ Finish("not_executed_stale_state", TRUE)
    /\ UNCHANGED <<hostVars, pre, token, credentials, requestId, receipt>>

\* execute() refuses before it submits: the invocation is not of the latest
\* snapshot, execution is switched off, or no control lease can be had.
ExecuteRefuses ==
    /\ pc = "execute"
    /\ Finish("execution_failed", TRUE)
    /\ UNCHANGED <<hostVars, pre, token, credentials, requestId, receipt>>

\* control.credentials(): the lease the session already has, or a new one.
HaveControl ==
    /\ pc = "execute"
    /\ token = pre
    /\ \/ credentials # NoLease /\ UNCHANGED <<lease, credentials>>
       \/ lease < MaxLease /\ lease' = lease + 1 /\ credentials' = lease + 1
    /\ pc' = "submit"
    /\ UNCHANGED <<snapshot, ledger, wire, inputs, landed, tick, pre, token,
                   requestId, receipt, outcome>>

SubmitRebound ==  \* changed: bound to what is current, not to what was decided
    /\ pc = "submit"
    /\ requestId' = requestId + 1
    /\ wire' = wire \cup {[tick |-> tick, request |-> requestId + 1,
                           snapshot |-> snapshot, lease |-> credentials]}
    /\ pc' = "await"
    /\ UNCHANGED <<snapshot, lease, ledger, inputs, landed, tick, pre, token,
                   credentials, receipt, outcome>>

\* connector.submit under a fresh request id.
Submit ==
    /\ pc = "submit"
    /\ requestId' = requestId + 1
    /\ wire' = wire \cup {[tick |-> tick, request |-> requestId + 1,
                           snapshot |-> token, lease |-> credentials]}
    /\ pc' = "await"
    /\ UNCHANGED <<snapshot, lease, ledger, inputs, landed, tick, pre, token,
                   credentials, receipt, outcome>>

\* A response that is not this request's receipt: another request's, or one
\* without this lease's attribution.
WrongReceipts ==
    {e \in [request : {requestId - 1, requestId}, delivery : Deliveries,
            reason : {"other"}, lease : {credentials, NoLease}] :
        e.request # requestId \/ e.lease # credentials}

\* The response of submit, or of the one poll for the same request.
Answer ==
    /\ receipt' \in {e \in ledger : e.request = requestId} \cup WrongReceipts
    /\ pc' = "classify"

SubmitAnswered ==
    /\ pc = "await"
    /\ Answer
    /\ UNCHANGED <<hostVars, tick, pre, token, credentials, requestId, outcome>>

SubmitFailsResubmitting ==  \* changed: an ambiguous submission is sent again
    /\ pc = "await"
    /\ pc' = "submit"
    /\ UNCHANGED <<hostVars, tick, pre, token, credentials, requestId, receipt,
                   outcome>>

\* The response is lost or times out; the request may still be on its way.
SubmitFails ==
    /\ pc = "await"
    /\ pc' = "poll"
    /\ UNCHANGED <<hostVars, tick, pre, token, credentials, requestId, receipt,
                   outcome>>

PollAnswered ==
    /\ pc = "poll"
    /\ Answer
    /\ UNCHANGED <<hostVars, tick, pre, token, credentials, requestId, outcome>>

PollFailsAsRejected ==  \* changed: no receipt is taken for no input
    /\ pc = "poll"
    /\ Finish("execution_failed", TRUE)
    /\ UNCHANGED <<hostVars, pre, token, credentials, requestId, receipt>>

PollFailsRetrying ==  \* changed: polls until there is an answer
    /\ pc = "poll"
    /\ UNCHANGED vars

\* The lookup fails too: whether the input happened stays unknown.
PollFails ==
    /\ pc = "poll"
    /\ Finish("executed_unsettled", TRUE)
    /\ UNCHANGED <<hostVars, pre, token, credentials, requestId, receipt>>

\* Is the receipt of this request, under the lease it was sent with?
ReceiptMatches ==
    /\ receipt.request = requestId
    /\ receipt.lease = credentials

ReceiptDelivered ==
    /\ pc = "classify"
    /\ ReceiptMatches
    /\ receipt.delivery = "delivered"
    /\ pc' = "settle"
    /\ UNCHANGED <<hostVars, tick, pre, token, credentials, requestId, receipt,
                   outcome>>

ReceiptUnknownContinuing ==  \* changed: the run goes on after an unknown
    /\ pc = "classify"
    /\ ~ReceiptMatches \/ receipt.delivery = "unknown"
    /\ Finish("executed_unsettled", FALSE)
    /\ UNCHANGED <<hostVars, pre, token, credentials, requestId, receipt>>

\* "the action will not be retried automatically": the run stops.
ReceiptUnknown ==
    /\ pc = "classify"
    /\ ~ReceiptMatches \/ receipt.delivery = "unknown"
    /\ Finish("executed_unsettled", TRUE)
    /\ UNCHANGED <<hostVars, pre, token, credentials, requestId, receipt>>

\* Only a refusal for staleness lets the run go on.
ReceiptNotDelivered ==
    /\ pc = "classify"
    /\ ReceiptMatches
    /\ receipt.delivery = "not_delivered"
    /\ IF receipt.reason = "stale_state"
       THEN Finish("not_executed_stale_state", FALSE)
       ELSE Finish("execution_failed", TRUE)
    /\ UNCHANGED <<hostVars, pre, token, credentials, requestId, receipt>>

\* The successor watcher reads until it sees a settled successor or gives up;
\* a guard of the tick may stop the run on a settled one.
Settle ==
    /\ pc = "settle"
    /\ token' \in {token, snapshot}
    /\ \/ \E stop \in BOOLEAN : Finish("executed_and_settled", stop)
       \/ Finish("executed_checkpoint_pending", FALSE)
    /\ UNCHANGED <<hostVars, pre, credentials, requestId, receipt>>

-----------------------------------------------------------------------------
Host ==
    \/ GameMoves \/ LeaseMoves
    \/ \E s \in wire : HostDelivers(s) \/ HostRefuses(s) \/ RequestLost(s)

\* Steps that need an answer from the Host or from the language model.
Asked ==
    \/ ObserveDecidable \/ ObserveNonActionable
    \/ Decide
    \/ Preflight
    \/ HaveControl
    \/ SubmitAnswered \/ PollAnswered

\* Steps the agent takes by itself: every awaited call has a timeout and the
\* settlement loop a deadline.
Alone ==
    \/ ObserveFails \/ DecideFails \/ PreflightFails \/ ExecuteRefuses
    \/ Submit \/ SubmitFails \/ PollFails
    \/ ReceiptDelivered \/ ReceiptUnknown \/ ReceiptNotDelivered
    \/ Settle

Next == Host \/ Asked \/ Alone

Spec == Init /\ [][Next]_vars

\* Timeouts fire; nothing is asked of the Host, the model or the network.
FairSpec == Spec /\ WF_vars(Alone)

-----------------------------------------------------------------------------
\* An ambiguous submission is looked up and never sent again, so the game
\* receives the input of one decision at most once.
AtMostOneInput == \A t \in Ticks : inputs[t] <= 1

\* Whatever moved while the model was thinking or the lease was acquired, an
\* input acts on the very snapshot its decision was made on.
\* (Inputs of earlier ticks are settled: see NoRequestOutlivesItsTick.)
LandsOnItsDecision == landed[tick] \subseteq {pre}

\* A tick recorded as not executed, or as failed, did nothing to the game and
\* never will: not even a delayed request of it gets through later.
NotExecutedIsTrue ==
    \A t \in Ticks : outcome[t] \in NotExecuted => inputs[t] = 0

\* A tick recorded as executed was: no lost or foreign receipt claims it.
ExecutedIsTrue ==
    \A t \in Ticks : outcome[t] \in Executed => inputs[t] = 1

\* While a request may still reach the game no later decision is begun.
NoRequestOutlivesItsTick == \A s \in wire : s.tick = tick

\* Every run ends, by its last tick at the latest, even if the Host and the
\* network never answer.
RunEnds == <>(pc = "stopped")

verdict ==
    [t \in Ticks |-> CASE outcome[t] \in NotExecuted -> "not_executed"
                      [] outcome[t] \in Executed    -> "executed"
                      [] outcome[t] \in Unsettled   -> "unknown"
                      [] OTHER                      -> "none"]

Abstract == INSTANCE InputOnce WITH Decisions <- Ticks, given <- inputs

\* The protocol implements what delivery promises.
ImplementsInputOnce == Abstract!Spec
=============================================================================
