# Re-SpireAgent: a TLA+ verification project

Re-SpireAgent (`src/Re-SpireAgent`) plays Slay the Spire 2 through the *Player
Environment Host* of the STS2 Connector. It reads a snapshot of the game, lets a
language model choose one of the actions the Host has bound to it, submits that
action under a control lease, waits for a stable successor and appends a record
of it all; `agent:run` repeats this for one game. The Host, its client library
(`@rsgcsg/sts2-connector-client`), the game and the model are not in the repository.

What makes it hard is not computation but time: the game moves while the model
thinks, requests get lost after they were sent, a game animates, a process is
killed between an input and its record, two runtimes are started together. The
project states what the agent promises through all of this, model-checks it with
TLC and proves most of it with TLAPS for every value of the constants.

The repository also keeps the agent's predecessor, `src/archive/original-spireagent`: a
larger program that learns between games. The parts of it that decide, remember and learn
are modelled too.

- [Inventory](#inventory)
- [Modules and the code](#modules-and-the-code)
- [Runs](#runs): what is checked, the bounds, the fairness
- [Proofs](#proofs)
- [Findings](#findings)
- [What is not modelled](#what-is-not-modelled)
- [Plan](#plan)

Paths below are relative to `src/Re-SpireAgent/src`; *archive/* stands for
`src/archive/original-spireagent/src`.

## Inventory

### The parts that keep state

| Part | State | Operations | What is hard about it |
|---|---|---|---|
| Runtime lock, `runtime/runtimeLock.ts` | the lock file `.active-runtime.lock` with a pid, shared by all processes of a data directory; `released` | `acquireRuntimeLock` (create, else read, probe the owner, unlink a dead one's file and call itself), `release` | concurrent processes, crashes between any two file-system calls, decisions on a file that has changed since |
| Adapter, `integrations/sts2Connector/playerEnvironmentAdapter.ts` | `latestStateToken`, `invocations`, `capabilities`, the controller session | `initialize` (waits for the Host), `readCurrentState`, `execute`, `close` | lost, late and foreign answers; a lease that changes hands; no retry is allowed |
| Executor, `runtime/advertisedActionExecutor.ts` | none of its own | `executeAdvertisedAction`: re-read, compare, execute, settle | the state is read before an await (the model call) and used after it |
| Successor watcher, `runtime/successorWatcher.ts` | `lastChanged`, `stableCandidate`, the deadline | `waitForReadySuccessor` | which of many readings is the successor; a deadline against a last observation |
| Progress cycle guard, `runtime/progressCycleGuard.ts` | `transitionOccurrences`, `transitionsByPre`, `suppressedActions` | `filterActions`, `observe` | long legal sequences that walk in circles |
| Tick orchestrator, `runtime/tickOrchestrator.ts` | exact-transition counts, the stall counter, `observedKnownState`, `runTerminalObserved` | `runTick` | several guards over the whole run, each reset by other events |
| Run loop and report, `runtime/runLoop.ts`, `app/main.ts` | the results; `process.exitCode` | `runLoop`, `classifyRunTermination`, the summary | a run must say truthfully how it ended |
| Process lifecycle, `app/runtimeFactory.ts`, `app/gracefulShutdown.ts`, `app/connectorCanary.ts` | the memoised release, the listeners, `handling` | `createRuntime`, `createConnectorRuntime`, signal handlers, `release` | signals at every await; two callers of one release; failures half way through starting |
| Decision recorder, `recording/fileDecisionRecorder.ts` | the run directory: snapshots, prompts, responses, `decisions.jsonl`, summary | `initialize`, `prepare`, `append`, `finalize`, readers | crashes and write errors between files and the line that refers to them |
| Decision provider, `llm/deepseekProvider.ts` | the attempts of one session | `decide`: primary, one transport retry, one format retry | which attempt is the decision |

The archived agent:

| Part | State | Operations | What is hard about it |
|---|---|---|---|
| Agent controller, *archive/* `agent/controller.ts`, `fallback.ts`, `checkpoint.ts` | the two repeat guards, the settlement backoff | `tick`: read, finalize a finished game or choose, perhaps ask the model, guard, send, settle, record | the page may be gone at any await; a send may fail after it was taken; who chose is decided in five places |
| Run memory, *archive/* `agent/memory.ts`, `protectedPathGate.ts` | `current-run.json`, the learned stores | `updateFromState`, `recordDecision`, `finalizeRun` | which game an observation belongs to; a process that ends between two stores |
| Evidence roles, *archive/* `agent/selectionResolution.ts`, `replay/evidenceRoleClassifier.ts` | none | `buildSelectionResolutionRecord`, `classifyTransitionEvidenceRole` | telling the model's own choices from those made for it |
| Learning ledger, *archive/* `learning/` | four append-only JSONL files of a run | the commands of `cli.ts` | overlapping invocations without a lock, deaths inside an append, reruns |

### How they interact

`main` creates the runtime (lock, adapter, recorder), installs the signal
handlers and runs `runLoop`. Each `runTick` calls, in this order and awaiting
each: the adapter's `readCurrentState`, the pure normalisation, the cycle guard's
`filterActions`, the recorder's `prepare`, the provider's `decide`,
`executeAdvertisedAction` (adapter read, adapter `execute`, watcher), the cycle
guard's `observe` and the recorder's `append`. There is one such flow per process.
Concurrency comes from the signal handlers, which call the same `release` as
`main`, from other processes on the data directory, and from the Host, the game
and the network. Shared state is the lock file, the control lease at the Host and
the run directory.

In the archived agent one process ticks in a loop: the controller reads the game, hands each
state to the run memory and logs what it executed; the ledger's commands are run by hand, in
processes of their own, over what the ticks logged. They share files only.

### Pure parts

Normalisation and parsers, allowed actions, prompt building, hashes, command line
and configuration, the audit and report tools over recorded runs. They hold no
state and nothing runs concurrently in them; see
[What is not modelled](#what-is-not-modelled).

### What makes each part correct

- *Lock*: two live runtimes never share a data directory; whoever is refused is
  refused for a live one; acquiring ends, if dead locks can be removed.
- *Delivery*: one decision gives at most one input, on the snapshot it was made
  on, and what is recorded of it is true for good.
- *Watcher*: the next decision is made on a page that is new and at rest, and the
  watcher gives up only if there was none.
- *Guards*: circles end, and nothing is withheld that was not proven to be part of one.
- *Orchestrator and loop*: one game per run, stalls and repeats stop at the right
  tick, the report is true.
- *Archived controller and run memory*: nothing that had no effect is blindly repeated, the
  log names the model exactly when it chose, a game is learned from once.
- *Ledger*: nothing is lost but by a death inside an append, no proposal is there twice but by
  overlapping generations, a provider is asked on clean evidence only.
- *Lifecycle and recorder*: whatever ends the process, its records are complete up to the
  tick at hand and the lock is given back once, by its owner.

## Modules and the code

Each component module has the code's variables as `VARIABLES` (history variables,
which only the properties read, are commented `history`), one action per step
between two awaits, and the code's names where TLA+ allows it. Definitions
commented `changed:` are the code with one plausible bug; no specification uses
them, they exist to show that each property can fail.

| Module | Models | Composed with |
|---|---|---|
| `RuntimeLock` | `acquireRuntimeLock` and `release`, one file-system call per action, any number of process lifetimes `Proc` | implements `LockTurns` for each process, until a theft |
| `LockTurns` | the lock as one process may rely on it | what `RuntimeLock` grants and `RunLifecycle` keeps to |
| `ActionDelivery` | a run as a sequence of deliveries: `readCurrentState`, `executeAdvertisedAction` and `execute`, with Host, game, lease and network | implements `InputOnce` |
| `InputOnce` | the promise: each decision's input is given at most once and its verdict is true | |
| `SuccessorWatcher` | `waitForReadySuccessor` | its result is the choice of `Settle` in `ActionDelivery` and of `DecideSettled` in `TickOrchestrator` |
| `ProgressCycleGuard` | `filterActions`, `observe` and the tick's reaction | its verdict is a choice in `DecideSettled` |
| `TickOrchestrator` | `runTick` with every outcome and guard, `runLoop`, `classifyRunTermination`, the report | delivery, watcher and cycle guard are choices among their results |
| `RunLifecycle` | one process: starting, ticks as reads and writes of evidence, signals, release, exit | decisions and inputs are choices; other runtimes move the lock; implements `RecordedRun` and `LockTurns` |
| `RecordedRun` | the promise: whatever interrupts the process, what it leaves behind is a run in order | |
| `AgentController` | the archived `tick` with run memory, guards, settlement and decision log | uses `EvidenceRoles` |
| `LearningLedger` | the archived proposal command line, any number of overlapping processes | uses `EvidenceRoles` |
| `EvidenceRoles` | the selection record and its classification, as operators | |
| `DecisionProvider` | `decide`, `requestOnce` and `validateDecisionForActions`: one decision of the model with its retries | its result is the choice of `Decide` in `TickOrchestrator` and `ActionDelivery` |

Each specification has an `MC…` module that instantiates it for TLC and a `…Proofs` module with
its theorems. The watcher and the cycle guard, the two parts that judge what was observed, share
`ObservationProofs`; the guard's specification is called `GuardSpec` (with `GuardInit`, `GuardNext`)
so that one module can extend both.

**RuntimeLock.** A process is a *lifetime*: after a crash or exit its pid is dead
for good (a restart is another member of `Proc`; pids are not reused). `file` is
the directory entry: who created it and whether the payload is in it, because
`writeFile` with `wx` creates first and writes then. `seen` is the pid a contender
has read. The history variable `stolen` says that an unlink removed a file other
than the one it was decided for, or that a release removed somebody else's. A release whose unlink
fails is rethrown and ends the process with its file left behind (`ReleaseFails`).

**ActionDelivery.** `pc` follows one tick through its awaits. The Host keeps a
`ledger` of receipts by request, `wire` holds requests that are under way; the game
takes an input only under the bound snapshot and the lease in force. That is the Host's
contract as the adapter relies on it (its comment at line 161 of
`playerEnvironmentAdapter.ts`), and is mapped as external. Requests are lost or
late, answers are lost, a receipt may be of another request or lease. The code's
receipt check and its three verdicts are one action each.

**SuccessorWatcher.** A reading is a snapshot id and a stability. The id stands for
all that `stateHash` covers, because the Host renews the interaction and its bound
actions with every snapshot. Time is counted in poll intervals; a poll may take up to
`MaxPause` of them. `TransientObservationError` is handled as the code handles it,
although nothing in the repository throws it today.

**ProgressCycleGuard.** A page is a `semanticProgressHash`, an action a
`semanticActionHash`. `legal` is any assignment of actions to pages; a tick may be
on any page, because the game may turn pages by itself.

**TickOrchestrator.** A page is a snapshot, a kind of context and a stability; every
tick may read any page. `Read` is what every tick does first, `Finish` the
`TickResult` and what the loop makes of it. Two branches of `runTick` are absent
because the normaliser makes them unreachable: an actionable page always has bound
actions (lines 151-162) and the environment's authority (137-149).

**RunLifecycle.** Steps lie between two awaits. A record is the set of files it refers
to (`refs`), `files` what is on disk, and a line of `decisions.jsonl` is torn until
`appendFile` returns. `StartRelease` is `onceAsync`: the first caller starts the
release and everyone awaits the same promise; the handler's continuation was
registered before `main`'s, so a handled signal decides the exit code. A second call would be
absorbed once more, by the `released` flag of the lock itself (`lockRelease`). A signal
whose listener `process.once` has taken off, or that comes before the installation
or after the removal, has its default action. The canary has neither handlers nor
a recorder.

Two abstract specifications say what this amounts to. `RecordedRun` sees the ticks on record (a whole
line with all its files), the inputs submitted, the summary and whether the process claimed success:
no input twice or after its record, no tick before the last one is on record, no success without what
the command was asked to leave. `LockTurns` sees the lock and where the process stands towards it.
`RuntimeLock` implements it for each of its processes as long as nothing was stolen, and `RunLifecycle`
implements it with `Phase`: that is why one process can be modelled with a lock that others take and
give back (`OtherRuntime`). The [first finding](#findings) takes that away, and so `OtherRuntime` may
also steal the lock from the process: the history `robbed` says that it did, and what is promised of
the lock is promised until then. A robbed process does remove the thief's file when it releases.

**DecisionProvider.** A call is open from `fetch` to the end of the body: `Respond` brings
the status, `ReadBody` the body, `FetchFails` breaks it in either wait and `Abort` is the
timer, which runs over both (`waited` counts its steps; an answer may still win at the
deadline). A body is what `extractChoice` and the schema tell apart: is there a choice, did
it end by `length`, and is its content empty, no JSON, off the schema or a decision for an
id. The response is redacted before it is read, so an id that looks like a credential
(`Secretlike`) does not survive; `sent`, `answers` and `heard` are histories of the requests, of
what the provider answered to each (its status, and whether it arrived in full) and of the ids named
by complete answers. What is said of retries is judged by `answers`, not by the session's own record.

**AgentController.** A page keeps what the code's two digests of a state tell apart: `view` is
in `stateFingerprint` and `stateHash`, `fine` only in the latter, `ready` in neither. The game
moves by itself between any two awaits; `number` counts games and is what the code does not
know. `TickChooses` leaves the scores open (best candidate, whether the model is wanted, whether
it is blocked) but knows the forced decision, an end of turn that is the only candidate, for which
no route wants the model. `LlmAnswers` and `LlmFails` are the outcomes of the model's call,
`ShadowReturns` that of the workspace shadow call, which is awaited before the guards and ends up
in the log's evidence beside the model's own. The environment a transition is logged with is that of
the process: complete and organic only if its `STS2_*` variables say so, which by default they do not
(`fingerprintScopes`). For the end of a game the controller gives no selection record and the
recorder infers one.
`sent` is a history: the actions of this process since a tick last decided on another page or an
action settled, the last `MaxSends` of them. Left out are advice, lessons, deficits and counters
of the run memory, the archive of finished runs, the map plan, the conditions of the workspace
shadow call, the gated memory update after an answer (`controller.ts:372-386`), the backoff at rest
options that settled (603-606) and all prompts. A death between the line of the decision log and the
save of the run memory is not told apart from one before both. A dry run finalizes games too, as the
code does.

**LearningLedger.** A process reads the proposals, then the other files, plans its lines, and
appends them one by one; another process may read or append in between, and `DiesAppending`
leaves a line without its end, into which the next append runs. `readJsonlIfExists` fails on
what it cannot parse, except for manifests, which are read tolerantly. A write that is cut
exactly before its newline, texts of proposals, and the read-only commands are left out. Feedback is
made for three types of proposals only, under an id of the transition and what the proposal is about
(`hasFeedback`, `feedbackId`): a workspace signal and a note on the reason that are about the same
thing share one id, and the second of the two records is not written. Of the
seeds generated from workspace and budget signals the model keeps kind and target; a baseline
that finished for length is not told apart, and an overlay that cannot be assembled counts as a
regression, as it is reported.

**EvidenceRoles.** A transition is reduced to what classification reads: the environment, the
shadow call, the selection record, the authority and whether candidates differ. Reasons and notes
are left out.

## Runs

`tlc -config X.cfg MCModule` in this directory. State counts are distinct states.

| Run | Configuration | Shows |
|---|---|---|
| `runtime_lock` | `RuntimeLock.cfg`, 7 745 states | Two live holders need a theft (`ExclusionUnlessStolen`), a theft needs three lifetimes (`TheftNeedsThree`), until then every process sees the others take turns (`TurnsUnlessStolen`), and every acquire ends if its removals of dead locks do not fail for ever (`AcquireEndsIfUnlinksWork`). |
| `action_delivery` | `ActionDelivery.cfg`, 172 164 states | At most one input per decision, on its own snapshot; the protocol implements `InputOnce`, by which "executed" and "not executed" are true now and later; no request outlives its tick; every run ends. |
| `successor_watcher` | `SuccessorWatcher.cfg`, 358 024 states | The watcher settles on news that repeated, and times out only when nothing could be settled on. |
| `progress_cycle_guard` | `ProgressCycleGuard.cfg`, 161 324 states | Only proven return edges are withheld, a repeat that cannot be undone stops the run, a circle of two pages is opened. |
| `tick_orchestrator` | `TickOrchestrator.cfg`, 918 030 states | No decision on the menu after a seen end of a run; stalls happen exactly when one page used up its patience; the second exact repeat stops; failures have exit code 1. |
| `run_lifecycle` | `RunLifecycle.cfg`, 183 993 states | What is left behind is a `RecordedRun`: only the tick at hand can lack its record, exit 0 means recorded and reported; lines are backed by files; until it is robbed the process takes its turn at the lock (`TurnsUnlessRobbed`) and touches nobody else's file (`OnlyTheRobbedRob`); orderly exits free the lock; inputs go out under the lock, up to the unlink that ends a signal's release (`InputsUnderLock`); a begun shutdown ends. |
| `decision_provider` | `DecisionProvider.cfg`, 7 686 states | At most three calls, none of them missing from the record, and none after a refusal that arrived in full (`RetriesAreDueUnlessCutOff`); a session fails only on a refusal or after its retry; the complete answer, and only it, is the decision; `decide` ends whatever the provider does. |
| `agent_controller` | `AgentController.cfg`, 9 824 468 states | The log names the model exactly when its answer was executed, and seeds proposals only from an exact organic environment (`LlmEvidenceIsTrue`); what changed nothing is not blindly sent again (`NoBlindRepeat`), no card is toggled back (`PickedOnce`); a game is learned from once per end inside `finalizeRun` (`LearnedOnce`). |
| `learning_ledger` | `LearningLedger.cfg`, 1 819 237 states | One torn line loses at most one other (`LossNeedsTear`); only overlapping generations record a proposal twice (`DuplicatesOverlap`); a finished generation is complete, feedback included (`GenerateCompletes`); an approval stays true (`ApprovalsHold`); the provider is asked only on a clean baseline (`ProviderNeedsCleanBaseline`). |
| `runtime_lock_race`, `progress_cycle_kept`, `run_lifecycle_signals` | one property each | The [findings](#findings): TLC finds the counterexample. |

### Bounds, and why they are enough

- *Lock*: three lifetimes. A theft needs exactly three, so everything that two can do
  and the smallest theft are covered; the theorems hold for any set.
- *Delivery*: 3 ticks, 3 snapshots, 3 leases. A decision, one whose request is late,
  and a later one it could hit; each snapshot and lease can be left and be two behind.
  Request ids need no bound of their own: one is made per tick.
- *Watcher*: 3 snapshots (the pre-state, a passing page, the successor), 4 poll
  intervals, a poll of 1 or 2. Four readings hold candidate, drift or pre-state,
  candidate, and one more; the last can lie beyond the deadline. The two later
  snapshots are interchangeable, which the symmetry set uses; the run has no liveness.
- *Cycle guard*: 3 pages, 2 actions, 7 ticks. A circle of two takes four ticks to be
  opened and a third page makes a detour; the seventh tick can repeat what was kept.
- *Orchestrator*: 2 snapshots, 2 actions, 4 ticks; patience 4, 3 and 2 stands for 40,
  40 and 8 (`MAX_REPEATED_*`): different values, so that a mixed-up limit shows, all
  within the ticks.
- *Lifecycle*: 2 ticks, so that one is past while the process ends in the other.
- *Provider*: one status of each class (200, 401, 408, 503), an advertised id, an advertised
  one that looks like a credential, one that is not advertised; 2 clock steps per call. The
  number of calls is not bounded: that it stays at three is `RetriesAreDueUnlessCutOff`.
- *Archived controller*: 7 pages (a combat, its change that only the hash sees and that leaves
  nothing to play, and one of a next game; a selection before, when it can be canceled, and after;
  the end; the menu), 2 moves of the game, the last 3 actions, 1 restart. Two
  moves put a change before and one after the send; three actions hold a failed one between two equal ones; the theorems need no bound.
- *Ledger*: 3 invocations, so that two overlap and a third runs over what they left; 1 transition,
  1 torn line. The requests, kinds and answers in `MCLearningLedger` are one of each that the
  code treats differently.

Types are not run: every `TypeOK` is a theorem.

The models stop at these bounds and `CHECK_DEADLOCK FALSE` is set where the system
itself stops (a process that has ended, a run that is over). `run_lifecycle` needs no
such line, since other runtimes go on.

### Fairness

- `RuntimeLock`: weak fairness of each process's acquire steps: the event loop runs a
  started call to its end. Nothing is assumed of the removals: that the directory does not
  refuse them for ever (`UnlinksWork`) is the premise inside `AcquireEndsIfUnlinksWork`,
  because the code swallows the error and recurses, with `EACCES` for ever.
- `ActionDelivery`: weak fairness of `Alone` only: the steps the agent takes when nobody
  answers. Every awaited call has a timeout, the watcher a deadline. Nothing is assumed of
  Host, game, model or network, and `RunEnds` holds all the same.
- `RunLifecycle`: weak fairness of the release's steps and of what awaits it. The close is
  one client call with a timeout, the unlink one file-system call. Ticks need not move:
  `ShutdownEnds` holds with a tick hanging for ever.
- `DecisionProvider`: weak fairness of the agent's own steps, the clock and the timer among
  them; nothing of the network.

## Proofs

`tlapm XProofs.tla`. Everything below holds for all constants that satisfy the named
assumptions (positive bounds; `NoFile` is not a file; `Before` is a snapshot and
`NoSnapshot` is none; the cycle guard assumes only `MaxTicks \in Nat`; the ledger's and the
controller's constants are sets of transitions, command lines, answers and pages of the given types). Each module proves an
inductive invariant from `InitIInv` and one step per action, then reads the theorems off it.

| Module | Theorems | The inductive invariant adds |
|---|---|---|
| `RuntimeLockProofs` | `TypeCorrect`, `ExclusionHolds`, `TheftTakesThree`, `TurnsAreTaken` | unless something was stolen, the file is that of whoever fills or holds it; a file has a creator that got that far; what a contender remembers stays true of the old owner. The last is why a stale memory can hurt only through a third process. `TurnsAreTaken` is the refinement of `LockTurns` by each process. |
| `ActionDeliveryProofs` | `TypeCorrect`, `InputAtMostOnce`, `InputLandsRight`, `RecordsAreTrue`, `NoStrayRequest`, `Implements` | later ticks are untouched; there is one request per tick and it is on the wire, in the ledger or lost; the ledger and every matching receipt tell the truth about the inputs. `Implements` is the refinement: each step is a `Give`, a `Report` or a stutter of `InputOnce`. |
| `ObservationProofs`, watcher | `TypeCorrect`, `SuccessorIsNews`, `SuccessorRepeats`, `TimeoutsAreHonest`, `TimeoutKeeps` | the candidate is a reading of the log with nothing but the pre-state after it; a fresh last reading is the candidate; nothing was missed so far. `TimeoutKeeps` has an invariant of its own: `lastChanged` is the latest differing observation. |
| `ObservationProofs`, cycle guard | `GuardTypeCorrect`, `OnlyReturnsWithheld`, `RepeatsStop`, `CirclesOpen` | the transition lists are the counts seen per page; of two opposite edges taken twice one is withheld |
| `TickOrchestratorProofs` | `TypeCorrect`, `OneGame`, `StallsAreJust`, `ExactRepeatsStop`, `FailuresAreLoud` | the flags are what the history says; the stall counter is the streak while a page without input is read; a running run has not been told to stop |
| `DecisionProviderProofs` | `TypeCorrect`, `CallsOnRecord`, `RetriesDue`, `RetriesUsed`, `DecisionIsAnswer` | an open call of a kind has the attempts before it that call for it; attempts are truthful about their status, and an answer that arrived in full has its status on record; what was heard is the last attempt's |
| `AgentControllerProofs` | `TypeCorrect`, `LlmEvidence`, `OneLearning`, `NothingRepeatedBlindly`, `PickedCardsStay` | a choice under way is the model's answer exactly while its source says so; a game that is over stays over for a run without evidence, and every store has one entry per finished `finalizeRun` and at most one per cut; the two guards hold what was sent without effect to the page of the last decision, and a toggle is chosen on a card selection only |
| `RunLifecycleProofs` | `TypeCorrect`, `OnlyLastTickUnrecorded`, `LinesAreBacked`, `ZeroIsEarned`, `LockGivenBack`, `ForeignLockSafe`, `InputsAreLocked`, `Implements`, `RunsAreComplete`, `TurnsTaken` | lines follow the ticks; an exit code of 0 has its summary; a begun release has a caller; unless it was robbed the lock file is ours from the acquisition to the unlink, and the `released` flag follows it; a tick has not submitted before it gets there. `Implements` and `TurnsTaken` are the refinements of `RecordedRun` and `LockTurns`; `RunsAreComplete` proves of `RecordedRun` what a reader may conclude and carries it over. |
| `LearningLedgerProofs` | `TypeCorrect`, `LossesArePaidByTears`, `DuplicatesNeedOverlap`, `GeneratorsComplete`, `LinesStay`, `IdsAreStable`, `ApprovalsStayTrue`, `ProviderOnCleanBaseline` | see below |

**The ledger's invariant.** Invocations overlap without a lock, so that what one of them knows is
what it read at its start. The argument rests on `SnapshotsAreOld`: as long as a file can be read,
what an invocation read is how the file begins. `find` takes the first line of an id, so it gives for ever
what it gave to whoever found anything (`FoundAsRead`), and a review justified on the snapshot
(`ReviewsAreJustified`) or a preflight passed on it (`AskersPassedPreflight`) stays justified. Whose
proposal that is follows from `LinesAreAuthored`: a line is a person's request, or a seed of a transition whose
evidence was eligible. For the generator the invariant follows the plan from reading to writing
(`PlansAreAuthored`, `PlansAreDistinct`, `PlansAreComplete`, `GeneratedWasPlanned`, `GeneratedOnce`,
`WrittenIsOnFile`). `LossIsPaid` is the count of lost lines and torn ends against
the tears: each of the three ways to touch a file's end (a line, a line run into a torn end, a torn
append) keeps it. `LinesStay` and `IdsAreStable` are action properties: the files are append-only, and
the lookup of an id never changes its answer.

The plan of a generator is a concatenation over the transitions (`FlattenSeq`, a recursive
function). What is in it, and that its ids are distinct when those of its parts are, is proved
for any number of transitions by taking the least prefix for which it would fail (`LeastNumber`);
that each transition's four kinds of seeds differ is proved from the generator's definitions.

Only model-checked: the liveness properties (`AcquireEndsIfUnlinksWork`, `RunEnds`, `ShutdownEnds`,
`DecideEnds`; liveness under fairness is out of the prover's reach) and the violations.

## Findings

Each is the counterexample of one run.

1. **The lock can be held twice** (`runtime_lock_race`, `AtMostOneRuntime`;
   `runtimeLock.ts:24`). Two contenders read a dead pid; one unlinks, creates and holds;
   the other then unlinks by path, which removes the new file, and creates its own.
   `test/runtime-lock.test.ts` promises one action-capable runtime. `TheftNeedsThree`
   says how rare it is: never without a dead owner's file.
2. **A kept loop does not stop** (`progress_cycle_kept`, `KeptLoopStops`;
   `progressCycleGuard.ts:82`). The comment at lines 45-47 relies on the terminal guard
   for pages whose every action is withheld; the repeat plans the same recovery again and
   the run goes on. `CircleIsOpened` and `UnreturnedRepeatStops` say what does hold.
3. **A repeated signal kills the shutdown** (`run_lifecycle_signals`,
   `RepeatedSignalsIgnored`; `gracefulShutdown.ts:33`). `process.once` takes the listener
   off at the first SIGINT, so a second SIGINT has its default action and ends the process
   before lease and lock are released. The test named "ignores repeated signals" calls
   the handler directly, with two different signals, and cannot see it.

Also met, without a run: a crash between the creation and the write of the lock file leaves
an empty one, and every later start is told that another runtime holds it
(`runtimeLock.ts:28`; the model has it, `WriteFails` and `Crash`). A run stopped at the menu for
want of `--allow-run-entry` is summarised with `completedGame: true` (`main.ts:127`). A torn last
line of `decisions.jsonl` makes `readRunRecords` throw for the whole run
(`fileDecisionRecorder.ts:108`). The PREVIEW75 close-out document asks for two *consecutive* equal
observations, while the watcher settles also when the pre-state is read in between
(`successorWatcher.ts:81`); `SettledIsRepeated` states exactly what holds. It also says that a
read failure after a confirmed command preserves the last changed successor, which the
`read_error` result (`successorWatcher.ts:65`) drops; on a timeout it is kept
(`TimeoutKeepsLastChange`). The PREVIEW_69 close-out says that a refusal such as 401 is not
retried. Judged by what the provider sent that holds of refusals that arrive in full only
(`RetriesAreDueUnlessCutOff`): when the body of one breaks off or runs into the timeout, its status
is lost (`deepseekProvider.ts:142-166`) and the refused request is sent again as after a transport
failure; the property names this exception, and without it TLC refutes it by a 401. And
`docs/DECISION_RECORD_SCHEMA.md:7` says that each tick appends one record, which a tick cut
off by a signal or a failed write does not; `PastTicksAreOnRecord` states the part that holds.

In the archived agent: the run memory tells a new game from the old one by a lower floor or, on
floor 1, another hero (`agent/memory.ts:51`), so a game abandoned on its first floor leaves its
evidence in the next one's, while `MEMORY_SYSTEM.md:21` says that it tracks the current run. The state
is not read again after the model's call (`agent/controller.ts:469`); the action may hit a page the
choice was not made on, which the current agent's `LandsOnItsDecision` rules out. The menu at the
end of a game is sent outside both guards. A manifest line that runs into a torn one is lost though
`manifestRecorded: true` was printed. And `REPLAY_AND_EVAL.md:191` asks for the same provider on
both sides of a shadow pair, of which `learning/shadowEvaluation.ts:83` compares the profile only; the
manifest records an identity mismatch separately.

## What is not modelled

- *The Host, its client library, the game, the model*: outside the repository; modelled
  as far as the adapter relies on them, and marked external. In particular whether the
  client's controller session refuses to register again after `close()` is not known here:
  `InputsUnderLock` therefore excepts a tick still in flight under a signal, in the moment between
  the unlink that ends the release and the exit.
- *`initialize`'s wait for the Host*: planned, below.
- *Normalisation, parsers, allowed actions, prompts*: pure, field by field, without
  state. The models use what they decide (stability, kind, the hashes) as the code derives it.
- *Text of records and prompts*, ids and hashes: abstracted to identities.
- *Reuse of pids*: a reused pid makes a dead owner look alive, which refuses a start and never
  lets two in.
- *Configuration, command line, audits, reports, tools*: no state shared with a run.
- *Archive*: the scores, the cognitive scaffold, the workspace packet and the prompts
  (`agent/scoring.ts`, `cognitiveScaffold.ts`, `workspace.ts`, `llm.ts`) are heuristics over one state;
  the controller model takes their result as any choice. `replay/reader.ts` and `eval/runner.ts` read
  recorded runs and write reports, `agent/smoke.ts` is a test program. They are most of the
  repository's lines and none of its protocols: a model of them would restate them.
  The retries inside the archived provider (`agent/llm.ts`, `DeepSeekV4FlashDecider`) end in one of the
  outcomes `LlmAnswers` and `LlmFails` have; their audit is not modelled.
  The other programs under `src/archive` are superseded documents and tools.

`PROJECT.json` lists every component with its status, every definition with the lines it
stands for, and every hazard with the property that watches it, or why none does.

## Plan

Done, in this order: `RuntimeLock`, `ActionDelivery` with `InputOnce`, `SuccessorWatcher`,
`ProgressCycleGuard`, `TickOrchestrator`, `RunLifecycle`, `DecisionProvider`, `EvidenceRoles`,
`LearningLedger`, `AgentController`, each state machine with its proofs.

What a continuation would take up, most valuable first:

1. Composition: `TickOrchestrator` with `ProgressCycleGuard` in place of its free choice, and
   with `SuccessorWatcher` for the successor and `DecisionProvider` for the decision, so that
   the exact and the semantic guard are seen together.
2. `Normalisation`: stability, authority and the binding of actions as pure operators, and the lemma
   that an actionable page has actions and authority, which `TickOrchestrator` uses.
3. The archived provider's rescue calls and their audit, beside `DecisionProvider`.
4. The start-up wait of `initialize` and the canary's own protocol on top of `ActionDelivery`.
