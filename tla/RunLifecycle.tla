---------------------------- MODULE RunLifecycle ----------------------------
(***************************************************************************)
(* One action-capable process from its start to its end: createRuntime and *)
(* createConnectorRuntime (app/runtimeFactory.ts), the commands run, tick  *)
(* and connector-canary (app/main.ts, app/connectorCanary.ts), the signal  *)
(* handlers (app/gracefulShutdown.ts) and the evidence it leaves on disk   *)
(* (recording/fileDecisionRecorder.ts).                                    *)
(*                                                                         *)
(* A step is what happens between two awaits of the main flow or of the    *)
(* release; signals, a crash and other runtimes come in between.  What a   *)
(* tick decides is modelled in TickOrchestrator, what becomes of an input  *)
(* in ActionDelivery, how the lock is taken in RuntimeLock.                *)
(***************************************************************************)
EXTENDS Naturals

CONSTANT MaxTicks   \* AGENT_MAX_TICKS or --max-ticks

ASSUME MaxTicksAssumption == MaxTicks \in Nat \ {0}

VARIABLES
    command,    \* what the process was started for
    pc,         \* where the main flow awaits
    tick,       \* the tick at hand
    submitted,  \* the ticks that called connector.submit
    refs,       \* the files each tick's record refers to
    files,      \* the files of each tick that are on disk
    lines,      \* the line of each tick in decisions.jsonl
    summary,    \* decisionCount of run-summary.json, 0 without one
    exitCode,   \* process.exitCode
    lock,       \* whose pid the lock file holds
    released,   \* lock.release was called
    robbed,     \* history: another runtime took this one's lock file away
    handlers,   \* signals with a listener
    handling,   \* the signal being handled
    release,    \* how far the one release has come
    ended       \* how the process ended

evidence == <<submitted, refs, files, lines, summary>>
shutdown == <<handlers, handling, release>>
given    == <<command, robbed>>
theLock  == <<lock, released>>
own      == <<command, pc, tick, evidence, exitCode, released, shutdown, ended>>
vars     == <<command, pc, tick, submitted, refs, files, lines, summary,
              exitCode, lock, released, robbed, handlers, handling, release, ended>>

Ticks   == 1 .. MaxTicks
Signals == {"SIGINT", "SIGTERM"}
Kinds   == {"pre", "prompt", "response", "post"}
Rank    == [pre |-> 1, prompt |-> 2, response |-> 3, post |-> 4]

TypeOK ==
    /\ command \in {"run", "tick", "canary"}
    /\ pc \in {"acquire", "initialize", "unlock", "recorder", "observe", "prepare",
               "decide", "execute", "settle", "append", "line", "finalize", "release"}
    /\ tick \in Ticks
    /\ submitted \subseteq Ticks
    /\ refs \in [Ticks -> SUBSET Kinds]
    /\ files \in [Ticks -> SUBSET Kinds]
    /\ lines \in [Ticks -> {"none", "torn", "whole"}]
    /\ summary \in 0 .. MaxTicks
    /\ exitCode \in {0, 1}
    /\ lock \in {"free", "ours", "other"}
    /\ released \in BOOLEAN /\ robbed \in BOOLEAN
    /\ handlers \subseteq Signals
    /\ handling \in Signals \cup {"no"}
    /\ release \in {"idle", "closing", "unlinking", "unlinking_unclosed",
                    "released", "failed"}
    /\ ended \in {"no", "exit0", "exit1", "exit130", "exit143", "signalled", "crashed"}

Init ==
    /\ command \in {"run", "tick", "canary"}
    /\ pc = "acquire"
    /\ tick = 1
    /\ submitted = {}
    /\ refs = [t \in Ticks |-> {}]
    /\ files = [t \in Ticks |-> {}]
    /\ lines = [t \in Ticks |-> "none"]
    /\ summary = 0
    /\ exitCode = 0
    /\ lock \in {"free", "other"}
    /\ released = FALSE /\ robbed = FALSE
    /\ handlers = {}
    /\ handling = "no"
    /\ release = "idle"
    /\ ended = "no"

-----------------------------------------------------------------------------
(* Starting: the lock, the adapter, the recorder, the signal handlers. *)

Await(place) ==
    /\ pc' = place
    /\ UNCHANGED <<given, exitCode, shutdown, ended>>

End(how) ==
    /\ ended' = how
    /\ UNCHANGED <<given, pc, tick, evidence, exitCode, shutdown>>

At(place) == ended = "no" /\ pc = place

AcquireAnyway ==  \* changed: a held lock does not keep the process out
    /\ At("acquire")
    /\ lock' = IF lock = "free" THEN "ours" ELSE lock
    /\ Await("initialize")
    /\ UNCHANGED <<tick, evidence, released>>

AcquireOverExisting ==  \* changed: flag "w", not "wx"
    /\ At("acquire")
    /\ lock' = "ours"
    /\ Await("initialize")
    /\ UNCHANGED <<tick, evidence, released>>

Acquire ==
    /\ At("acquire")
    /\ lock = "free"
    /\ lock' = "ours"
    /\ Await("initialize")
    /\ UNCHANGED <<tick, evidence, released>>

AcquireRefused ==
    /\ At("acquire")
    /\ lock = "other"
    /\ End("exit1")
    /\ UNCHANGED theLock

\* The canary has no recorder; its runtime is complete without one.
Initialize ==
    /\ At("initialize")
    /\ \/ Await(IF command = "canary" THEN "observe" ELSE "recorder")
       \/ Await("unlock")
    /\ UNCHANGED <<tick, evidence, theLock>>

\* lock.release(): the first call unlinks the path, whoever's file it is by now; the
\* others do nothing.
lockRelease ==
    /\ lock' = IF released THEN lock ELSE "free"
    /\ released' = TRUE

\* An error other than ENOENT is rethrown.
lockReleaseFails ==
    /\ ~released /\ released' = TRUE
    /\ UNCHANGED lock

\* createConnectorRuntime gives the lock back itself when it fails.
Unlock ==
    /\ At("unlock")
    /\ End("exit1")
    /\ lockRelease \/ lockReleaseFails

\* onceAsync: the first call starts the release, later ones await the same.
StartRelease ==
    release' = IF release = "idle" THEN "closing" ELSE release

\* The finally of main, and of the canary: handlers off, then release.
Leave(code) ==
    /\ pc' = "release"
    /\ exitCode' = code
    /\ handlers' = {}
    /\ StartRelease
    /\ UNCHANGED <<given, handling, ended>>

InitializeRecorder ==
    /\ At("recorder")
    /\ \/ /\ pc' = "observe"
          /\ handlers' = Signals
          /\ UNCHANGED <<given, exitCode, handling, release, ended>>
       \/ Leave(1)
    /\ UNCHANGED <<tick, evidence, theLock>>

-----------------------------------------------------------------------------
(* One tick, and the record it leaves. *)

\* The record at hand will refer to these files.
Refer(kinds) ==
    /\ refs' = [refs EXCEPT ![tick] = @ \cup kinds]
    /\ UNCHANGED <<tick, submitted, files, lines, summary, theLock>>

Observe ==
    /\ At("observe")
    /\ \/ command # "canary" /\ Await("append") /\ Refer({})
       \/ command # "canary" /\ Await("prepare") /\ Refer({"pre"})
       \/ command # "canary" /\ Await("prepare") /\ Refer({"pre", "prompt"})
       \/ command = "canary" /\ Await("execute") /\ Refer({})
       \/ command = "canary" /\ Leave(1) /\ Refer({})

Missing == refs[tick] \ files[tick]

\* writeJson of the next file; prepare and append write them one by one.
WriteFile ==
    /\ At("prepare") \/ At("append")
    /\ \E kind \in Missing :
         /\ \A other \in Missing : Rank[kind] <= Rank[other]
         /\ files' = [files EXCEPT ![tick] = @ \cup {kind}]
    /\ Await(pc)
    /\ UNCHANGED <<tick, submitted, refs, lines, summary, theLock>>

Prepared ==
    /\ At("prepare")
    /\ Missing = {}
    /\ Await(IF "prompt" \in refs[tick] THEN "decide" ELSE "append")
    /\ UNCHANGED <<tick, evidence, theLock>>

\* A dry run or a failed model call, an unusable answer, a chosen action.
Decide ==
    /\ At("decide")
    /\ \/ Await("append") /\ Refer({})
       \/ Await("append") /\ Refer({"response"})
       \/ Await("execute") /\ Refer({"response"})

\* The page moved on before the input, or the adapter refused.
NotSubmitted ==
    /\ At("execute")
    /\ \/ command # "canary" /\ Await("append") /\ Refer({})
       \/ command # "canary" /\ Await("append") /\ Refer({"post"})
       \/ command = "canary" /\ Leave(0) /\ Refer({})

Submit ==
    /\ At("execute")
    /\ submitted' = submitted \cup {tick}
    /\ Await("settle")
    /\ UNCHANGED <<tick, refs, files, lines, summary, theLock>>

\* The receipt, the poll for it and the wait for the successor are over.
Settle ==
    /\ At("settle")
    /\ \/ command # "canary" /\ Await("append") /\ Refer({})
       \/ command # "canary" /\ Await("append") /\ Refer({"post"})
       \/ command = "canary" /\ Leave(0) /\ Refer({})

BeginLineEarly ==  \* changed: the line does not wait for its files
    /\ At("append")
    /\ lines' = [lines EXCEPT ![tick] = "torn"]
    /\ Await("line")
    /\ UNCHANGED <<tick, submitted, refs, files, summary, theLock>>

BeginLine ==
    /\ At("append")
    /\ Missing = {}
    /\ lines' = [lines EXCEPT ![tick] = "torn"]
    /\ Await("line")
    /\ UNCHANGED <<tick, submitted, refs, files, summary, theLock>>

\* runTick returns: the next tick, the summary of agent:run, or the end of agent:tick.
NextTick ==
    \/ command = "run" /\ tick < MaxTicks /\ tick' = tick + 1 /\ Await("observe")
    \/ command = "run" /\ Await("finalize") /\ UNCHANGED tick
    \/ command = "tick" /\ Leave(0) /\ UNCHANGED tick

EndLine ==
    /\ At("line")
    /\ lines' = [lines EXCEPT ![tick] = "whole"]
    /\ NextTick
    /\ UNCHANGED <<submitted, refs, files, summary, theLock>>

\* A file that cannot be written ends the run through the finally of main.
WriteFails ==
    /\ At("prepare") \/ At("append") \/ At("line")
    /\ Leave(1)
    /\ UNCHANGED <<tick, evidence, theLock>>

FinalizeQuietly ==  \* changed: a summary that cannot be written is not missed
    /\ At("finalize")
    /\ summary' \in {summary, tick}
    /\ \E code \in {0, 1} : Leave(code)
    /\ UNCHANGED <<tick, submitted, refs, files, lines, theLock>>

\* The results were all failures of a kind, or not: TickOrchestrator.
Finalize ==
    /\ At("finalize")
    /\ \/ summary' = tick /\ \E code \in {0, 1} : Leave(code)
       \/ summary' = summary /\ Leave(1)
    /\ UNCHANGED <<tick, submitted, refs, files, lines, theLock>>

-----------------------------------------------------------------------------
(* Ending: the memoised release, signals, crashes. *)

Releasing ==
    /\ ended = "no"
    /\ UNCHANGED <<given, pc, tick, evidence, exitCode, handlers, handling, ended>>

CloseAfterUnlock ==  \* changed: the lock is given back before the adapter is closed
    /\ Releasing
    /\ release = "closing"
    /\ release' \in {"unlinking", "unlinking_unclosed"}
    /\ lockRelease

CloseAdapter ==
    /\ Releasing
    /\ release = "closing"
    /\ release' \in {"unlinking", "unlinking_unclosed"}
    /\ UNCHANGED theLock

UnlinkLock ==
    /\ Releasing
    /\ \/ release = "unlinking" /\ release' = "released"
       \/ release = "unlinking_unclosed" /\ release' = "failed"
    /\ lockRelease

UnlinkLockFails ==
    /\ Releasing
    /\ release \in {"unlinking", "unlinking_unclosed"}
    /\ release' = "failed"
    /\ lockReleaseFails

ExitCodeOf(signal) == IF signal = "SIGINT" THEN "exit130" ELSE "exit143"

HandleInstantly(signal) ==  \* changed: terminate does not wait for the release
    /\ ended = "no"
    /\ signal \in handlers
    /\ ended' = ExitCodeOf(signal)
    /\ UNCHANGED <<given, pc, tick, evidence, exitCode, theLock, shutdown>>

\* process.once takes the listener off, then the handler runs.
HandleSignal(signal) ==
    /\ ended = "no"
    /\ signal \in handlers
    /\ handlers' = handlers \ {signal}
    /\ \/ handling = "no" /\ handling' = signal /\ StartRelease
       \/ handling # "no" /\ UNCHANGED <<handling, release>>
    /\ UNCHANGED <<given, pc, tick, evidence, exitCode, theLock, ended>>

TerminateIfReleased ==  \* changed: a failed release does not terminate
    /\ ended = "no"
    /\ handling # "no"
    /\ release = "released"
    /\ End(ExitCodeOf(handling))
    /\ UNCHANGED theLock

\* The handler registered with the release before main could.
Terminate ==
    /\ ended = "no"
    /\ handling # "no"
    /\ \/ release = "released" /\ End(ExitCodeOf(handling))
       \/ release = "failed" /\ End("exit1")
    /\ UNCHANGED theLock

\* main returns or throws, and nothing keeps the event loop.
Exit ==
    /\ At("release")
    /\ handling = "no"
    /\ \/ release = "released" /\ End(IF exitCode = 0 THEN "exit0" ELSE "exit1")
       \/ release = "failed" /\ End("exit1")
    /\ UNCHANGED theLock

\* Without a listener a signal has its default action.
DefaultSignal(signal) ==
    /\ ended = "no"
    /\ signal \notin handlers
    /\ End("signalled")
    /\ UNCHANGED theLock

Crash ==
    /\ ended = "no"
    /\ End("crashed")
    /\ UNCHANGED theLock

\* Other runtimes take a free lock, give it back, clear a dead process's, and by the race
\* of RuntimeLock (UnlinkStale, Release) take away the file of one that is alive.
OtherRuntime ==
    /\ \/ lock = "free" /\ lock' = "other" /\ UNCHANGED robbed
       \/ lock = "other" /\ lock' = "free" /\ UNCHANGED robbed
       \/ lock = "ours" /\ ended # "no" /\ lock' = "free" /\ UNCHANGED robbed
       \/ lock = "ours" /\ ended = "no" /\ lock' = "free" /\ robbed' = TRUE
    /\ UNCHANGED own

-----------------------------------------------------------------------------
Main ==
    \/ Acquire \/ AcquireRefused \/ Initialize \/ Unlock \/ InitializeRecorder
    \/ Observe \/ WriteFile \/ Prepared \/ Decide \/ NotSubmitted \/ Submit
    \/ Settle \/ BeginLine \/ EndLine \/ WriteFails \/ Finalize \/ Exit

ReleaseStep == CloseAdapter \/ UnlinkLock \/ UnlinkLockFails

Next ==
    \/ Main
    \/ ReleaseStep
    \/ Terminate
    \/ \E signal \in Signals : HandleSignal(signal) \/ DefaultSignal(signal)
    \/ Crash
    \/ OtherRuntime

Spec == Init /\ [][Next]_vars

\* The client's timeouts end the close, the file system ends the unlink, and
\* what awaits the release runs then; the game, the model and the ticks need
\* not move at all.
Fairness == WF_vars(ReleaseStep) /\ WF_vars(Terminate) /\ WF_vars(Exit)

FairSpec == Spec /\ Fairness

-----------------------------------------------------------------------------
(* Properties. *)

\* Whatever ends the process, only the tick at hand can have played an input
\* that decisions.jsonl does not tell of: every earlier tick, and every tick
\* counted in the summary, has its whole line (append, before runTick returns).
PastTicksAreOnRecord ==
    /\ \A t \in Ticks : t < tick => lines[t] = "whole"
    /\ \A t \in submitted : t <= tick
    /\ summary > 0 => summary = tick /\ lines[tick] = "whole"

\* A line in decisions.jsonl refers to no file that is not on disk already,
\* so a run cut off anywhere can be replayed as far as its lines go (prepare
\* and append write the files first).
RecordsAreBacked ==
    \A t \in Ticks : lines[t] = "whole" => refs[t] \subseteq files[t]

\* agent:run exits with 0 only when its summary and every line it counts are
\* on disk (main.ts 123-141).
ZeroMeansReported ==
    ended = "exit0" /\ command = "run" =>
        summary = tick /\ \A t \in 1 .. tick : lines[t] = "whole"

\* The run that the process leaves behind, as whoever reads the run directory and the
\* exit code sees it: a record counts when its line is whole and its files are there.
Readable == {t \in Ticks : lines[t] = "whole" /\ refs[t] \subseteq files[t]}
Outcome  == IF ended = "no" THEN "no" ELSE IF ended = "exit0" THEN "success" ELSE "otherwise"

Run == INSTANCE RecordedRun WITH recorded <- Readable, over <- Outcome

\* Whatever signals, failing writes and crashes come in between, the process does to this
\* run only what RecordedRun allows: no input twice in a tick or after its record, no tick
\* before the last one is on record, no success without summary (agent:run) or record
\* (agent:tick), nothing after the end (runLoop.ts, main.ts, fileDecisionRecorder.ts).
ImplementsRecordedRun == Run!Spec

\* The lock as LockTurns has it: inside from the acquisition to the end of the release.
Phase == IF ended = "no" /\ pc = "acquire" THEN "outside"
         ELSE IF ended = "no" /\ release \notin {"released", "failed"} THEN "inside"
         ELSE "gone"

Turns == INSTANCE LockTurns WITH phase <- Phase

\* Until it is robbed the process takes turns at the lock as the lock grants them
\* (RuntimeLock, TurnsUnlessStolen): it goes ahead only with the lock, keeps it while the
\* adapter is open, whoever of main and the signal handler began the release, and gives it
\* back as it leaves (runtimeFactory.ts, gracefulShutdown.ts).
TurnsUnlessRobbed ==
    Turns!Init /\ [][~robbed' => [Turns!Next]_(Turns!vars)]_vars

\* An orderly exit, by itself or on a signal, has given the lock back: a file
\* of ours is left only by a failure (1), a crash or a signal without handler.
OrderlyExitFreesLock ==
    ended \in {"exit0", "exit130", "exit143"} => lock # "ours"

\* Unless its own file was taken away before, by the race of RuntimeLock, the process
\* never removes or replaces the lock file of another runtime, at its refusal, its failed
\* start or its release.  (Robbed, it does: release unlinks the thief's file by its path.)
OnlyTheRobbedRob ==
    [][lock = "other" /\ lock' # "other" /\ ~robbed => UNCHANGED own]_vars

\* Of a process that was not robbed, an input goes out under its own lock up to the unlink
\* that ends the release.  The one exception is a tick still in flight under a signal, in
\* the moment between that unlink and the exit.
InputsUnderLock ==
    [][submitted' # submitted =>
         \/ lock = "ours"
         \/ robbed
         \/ handling # "no" /\ release \in {"released", "failed"}]_vars

\* Once release has begun the process ends, even when the close or the unlink
\* fails and the tick in flight never comes back.
ShutdownEnds == release # "idle" ~> ended # "no"

\* test/graceful-shutdown.test.ts:17: "releases before terminating and ignores
\* repeated signals".  A process that handles a signal is not killed by the next.
RepeatedSignalsIgnored == handling # "no" => ended # "signalled"
=============================================================================
