------------------------- MODULE RunLifecycleProofs -------------------------
(***************************************************************************)
(* For any number of ticks: the types of RunLifecycle, what its records    *)
(* promise whatever ends the process, and who may remove the lock file.    *)
(***************************************************************************)
EXTENDS RunLifecycle, TLAPS

Starting == {"acquire", "initialize", "unlock", "recorder"}
Settled  == {"released", "failed"}

\* The tick at hand has no line before it is appended, later ticks have none.
LinesFollowTicks ==
    /\ \A t \in Ticks : t > tick => lines[t] = "none"
    /\ lines[tick] = "whole" => pc \in {"finalize", "release"}
    /\ pc = "finalize" => lines[tick] = "whole" /\ command = "run"
    /\ pc = "line" => refs[tick] \subseteq files[tick]
    /\ summary > 0 => pc = "release"

\* What an exit with 0 rests on while the release is still under way.
CodeZeroIsEarned ==
    pc = "release" /\ exitCode = 0 /\ command = "run" => summary = tick

\* Who has begun the release, and that nobody has while the process starts.
ReleaseHasACaller ==
    /\ release # "idle" => pc = "release" \/ handling # "no"
    /\ handling # "no" => release # "idle"
    /\ pc = "release" => release # "idle"
    /\ pc \in Starting => handlers = {} /\ handling = "no"

\* The lock file is ours from the acquisition to the unlink, which only one call makes,
\* unless it is taken away.
LockIsHeld ==
    /\ pc = "acquire" => lock # "ours"
    /\ ended = "no" /\ pc # "acquire" /\ release \notin Settled /\ ~robbed => lock = "ours"
    /\ ended = "no" /\ release \notin Settled => ~released
    /\ release = "released" => lock # "ours"
    /\ ended \in {"exit0", "exit130", "exit143"} => release = "released"

IInv == TypeOK /\ PastTicksAreOnRecord /\ RecordsAreBacked /\ ZeroMeansReported
             /\ LinesFollowTicks /\ CodeZeroIsEarned
             /\ ReleaseHasACaller /\ LockIsHeld

USE MaxTicksAssumption DEF Ticks, Signals, Kinds, given, theLock

LEMMA InitIInv == Init => IInv
<1> SUFFICES ASSUME Init PROVE IInv
  OBVIOUS
<1>1. ~released
  BY DEF Init
<1>2. TypeOK
  <2>1. released \in BOOLEAN /\ robbed \in BOOLEAN
    BY DEF Init
  <2>2. /\ tick \in Ticks /\ submitted \subseteq Ticks /\ summary \in 0 .. MaxTicks
        /\ refs \in [Ticks -> SUBSET Kinds] /\ files \in [Ticks -> SUBSET Kinds]
        /\ lines \in [Ticks -> {"none", "torn", "whole"}]
    BY DEF Init
  <2> QED
    BY <2>1, <2>2 DEF Init, TypeOK
<1>3. PastTicksAreOnRecord /\ RecordsAreBacked /\ ZeroMeansReported
  BY DEF Init, PastTicksAreOnRecord, RecordsAreBacked, ZeroMeansReported
<1>4. LinesFollowTicks /\ CodeZeroIsEarned /\ ReleaseHasACaller
  BY DEF Init, LinesFollowTicks, CodeZeroIsEarned, ReleaseHasACaller, Starting
<1>5. LockIsHeld
  BY <1>1 DEF Init, LockIsHeld
<1> QED
  BY <1>2, <1>3, <1>4, <1>5 DEF IInv

Places == {"acquire", "initialize", "unlock", "recorder", "observe", "prepare",
           "decide", "execute", "settle", "append", "line", "finalize", "release"}
Endings == {"no", "exit0", "exit1", "exit130", "exit143", "signalled", "crashed"}

\* TypeOK in two halves: where the process stands, and what is on disk.
ControlOK ==
    /\ command \in {"run", "tick", "canary"}
    /\ pc \in Places
    /\ exitCode \in {0, 1}
    /\ handlers \subseteq Signals
    /\ handling \in Signals \cup {"no"}
    /\ release \in {"idle", "closing", "unlinking", "unlinking_unclosed",
                    "released", "failed"}
    /\ ended \in Endings
    /\ robbed \in BOOLEAN

DiskOK ==
    /\ tick \in Ticks
    /\ submitted \subseteq Ticks
    /\ refs \in [Ticks -> SUBSET Kinds]
    /\ files \in [Ticks -> SUBSET Kinds]
    /\ lines \in [Ticks -> {"none", "torn", "whole"}]
    /\ summary \in 0 .. MaxTicks
    /\ lock \in {"free", "ours", "other"}
    /\ released \in BOOLEAN

LEMMA TypeOKHalves == TypeOK <=> ControlOK /\ DiskOK
BY DEF TypeOK, ControlOK, DiskOK, Places, Endings

LEMMA AwaitControl ==
  ASSUME ControlOK, NEW place \in Places, Await(place) PROVE ControlOK'
BY DEF ControlOK, Await, shutdown

LEMMA LeaveControl ==
  ASSUME ControlOK, NEW code \in {0, 1}, Leave(code) PROVE ControlOK'
BY DEF ControlOK, Leave, StartRelease, Places

LEMMA EndControl ==
  ASSUME ControlOK, NEW how \in Endings, End(how) PROVE ControlOK'
BY DEF ControlOK, End, shutdown

LEMMA EndDisk ==
  ASSUME DiskOK, NEW how, End(how), lock' \in {lock, "free"}, released' \in {released, TRUE}
  PROVE  DiskOK'
BY DEF DiskOK, End, evidence

LEMMA ReferDisk ==
  ASSUME DiskOK, NEW kinds \in SUBSET Kinds, Refer(kinds) PROVE DiskOK'
BY DEF DiskOK, Refer

LEMMA StepTypeOK == ASSUME TypeOK, [Next]_vars PROVE TypeOK'
<1> SUFFICES ASSUME ControlOK, DiskOK PROVE ControlOK' /\ DiskOK'
  BY TypeOKHalves DEF TypeOK, ControlOK, DiskOK, Places, Endings
<1> USE DEF At
<1>1. CASE Acquire
  BY <1>1, AwaitControl DEF Acquire, DiskOK, evidence, Places
<1>2. CASE AcquireRefused \/ Unlock
  BY <1>2, EndControl, EndDisk DEF AcquireRefused, Unlock, lockRelease, lockReleaseFails, Endings
<1>3. CASE Initialize
  <2>1. ControlOK'
    BY <1>3, AwaitControl DEF Initialize, Places
  <2>2. DiskOK'
    BY <1>3 DEF Initialize, DiskOK, evidence
  <2> QED
    BY <2>1, <2>2
<1>4. CASE InitializeRecorder
  <2>1. ControlOK'
    BY <1>4, LeaveControl DEF InitializeRecorder, ControlOK, Places
  <2>2. DiskOK'
    BY <1>4 DEF InitializeRecorder, DiskOK, evidence
  <2> QED
    BY <2>1, <2>2
<1>5. CASE Observe
  BY <1>5, AwaitControl, LeaveControl, ReferDisk DEF Observe, Places
<1>6. CASE WriteFile
  <2>1. ControlOK'
    BY <1>6, AwaitControl DEF WriteFile, Places
  <2>2. DiskOK'
    BY <1>6 DEF WriteFile, DiskOK, Missing
  <2> QED
    BY <2>1, <2>2
<1>7. CASE Prepared
  <2>1. ControlOK'
    BY <1>7, AwaitControl DEF Prepared, Places
  <2>2. DiskOK'
    BY <1>7 DEF Prepared, DiskOK, evidence
  <2> QED
    BY <2>1, <2>2
<1>8. CASE Decide
  BY <1>8, AwaitControl, ReferDisk DEF Decide, Places
<1>9. CASE NotSubmitted
  BY <1>9, AwaitControl, LeaveControl, ReferDisk DEF NotSubmitted, Places
<1>10. CASE Submit
  BY <1>10, AwaitControl DEF Submit, DiskOK, Places
<1>11. CASE Settle
  BY <1>11, AwaitControl, LeaveControl, ReferDisk DEF Settle, Places
<1>12. CASE BeginLine
  BY <1>12, AwaitControl DEF BeginLine, DiskOK, Places
<1>13. CASE EndLine
  <2>1. ControlOK'
    BY <1>13, AwaitControl, LeaveControl DEF EndLine, NextTick, Places
  <2>2. tick' \in Ticks
    BY <1>13 DEF EndLine, NextTick, DiskOK
  <2> QED
    BY <1>13, <2>1, <2>2 DEF EndLine, DiskOK
<1>14. CASE WriteFails
  BY <1>14, LeaveControl DEF WriteFails, DiskOK, evidence
<1>15. CASE Finalize
  <2>1. ControlOK'
    BY <1>15, LeaveControl DEF Finalize
  <2>2. DiskOK'
    BY <1>15 DEF Finalize, DiskOK
  <2> QED
    BY <2>1, <2>2
<1>16. CASE ReleaseStep
  BY <1>16 DEF ReleaseStep, Releasing, CloseAdapter, UnlinkLock, UnlinkLockFails, lockRelease, lockReleaseFails,
               ControlOK, DiskOK, evidence
<1>17. CASE Terminate \/ Exit \/ Crash
  BY <1>17, EndControl, EndDisk DEF Terminate, ExitCodeOf, Exit, Crash, Endings
<1>18. ASSUME NEW signal \in Signals, HandleSignal(signal)
       PROVE ControlOK' /\ DiskOK'
  BY <1>18 DEF HandleSignal, StartRelease, ControlOK, DiskOK, evidence
<1>19. ASSUME NEW signal \in Signals, DefaultSignal(signal)
       PROVE ControlOK' /\ DiskOK'
  BY <1>19, EndControl, EndDisk DEF DefaultSignal, Endings
<1>20. CASE OtherRuntime
  BY <1>20 DEF OtherRuntime, own, ControlOK, DiskOK, evidence, shutdown
<1>21. CASE UNCHANGED vars
  BY <1>21 DEF vars, ControlOK, DiskOK
<1> QED
  BY <1>1, <1>2, <1>3, <1>4, <1>5, <1>6, <1>7, <1>8, <1>9, <1>10, <1>11, <1>12,
     <1>13, <1>14, <1>15, <1>16, <1>17, <1>18, <1>19, <1>20, <1>21 DEF Next, Main

\* The records: only the steps of a tick touch them.
RecordInv == PastTicksAreOnRecord /\ RecordsAreBacked /\ LinesFollowTicks

LEMMA StepRecords == ASSUME TypeOK, RecordInv, [Next]_vars PROVE RecordInv'
<1> USE DEF RecordInv, PastTicksAreOnRecord, RecordsAreBacked, LinesFollowTicks,
            TypeOK, At, evidence
<1> DEFINE Idle == UNCHANGED <<command, pc, tick, evidence>>
<1>1. ASSUME Idle PROVE RecordInv'
  BY <1>1
<1>2. CASE Acquire \/ Initialize \/ InitializeRecorder
  BY <1>2 DEF Acquire, Initialize, InitializeRecorder, Await, Leave
<1>3. CASE Observe \/ Decide \/ NotSubmitted \/ Settle
  <2>1. pc \in {"observe", "decide", "execute", "settle"}
    BY <1>3 DEF Observe, Decide, NotSubmitted, Settle
  <2>2. pc' \in {"prepare", "execute", "append", "release"}
    BY <1>3 DEF Observe, Decide, NotSubmitted, Settle, Await, Leave
  <2>3. PICK kinds \in SUBSET Kinds : Refer(kinds)
    BY <1>3 DEF Observe, Decide, NotSubmitted, Settle
  <2> QED
    BY <2>1, <2>2, <2>3 DEF Refer
<1>4. CASE WriteFile
  BY <1>4 DEF WriteFile, Missing, Await
<1>5. CASE Prepared
  BY <1>5 DEF Prepared, Await
<1>6. CASE Submit
  BY <1>6 DEF Submit, Await
<1>7. CASE BeginLine
  BY <1>7 DEF BeginLine, Missing, Await
<1>8. CASE EndLine
  BY <1>8 DEF EndLine, NextTick, Await, Leave
<1>9. CASE WriteFails
  BY <1>9 DEF WriteFails, Leave
<1>10. CASE Finalize
  BY <1>10 DEF Finalize, Leave
<1>11. CASE AcquireRefused \/ Unlock \/ Exit \/ Terminate \/ Crash
  BY <1>11, <1>1 DEF AcquireRefused, Unlock, Exit, Terminate, Crash, End
<1>12. CASE ReleaseStep \/ OtherRuntime
  BY <1>12, <1>1 DEF ReleaseStep, Releasing, CloseAdapter, UnlinkLock, UnlinkLockFails,
                     lockRelease, lockReleaseFails, OtherRuntime, own
<1>13. ASSUME NEW signal \in Signals, HandleSignal(signal) \/ DefaultSignal(signal)
       PROVE RecordInv'
  BY <1>13, <1>1 DEF HandleSignal, DefaultSignal, End
<1>14. CASE UNCHANGED vars
  BY <1>14, <1>1 DEF vars
<1> QED
  BY <1>2, <1>3, <1>4, <1>5, <1>6, <1>7, <1>8, <1>9, <1>10, <1>11, <1>12, <1>13,
     <1>14 DEF Next, Main

\* The exit code: what is counted in the summary is what an exit rests on.
CodeInv == ZeroMeansReported /\ CodeZeroIsEarned

LEMMA StepCode ==
  ASSUME TypeOK, RecordInv, CodeInv, [Next]_vars PROVE CodeInv'
<1> USE DEF CodeInv, ZeroMeansReported, CodeZeroIsEarned, TypeOK, At, evidence, shutdown
<1>1. CASE Acquire \/ Initialize \/ InitializeRecorder
  BY <1>1 DEF Acquire, Initialize, InitializeRecorder, Await, Leave
<1>2. CASE Observe \/ Decide \/ NotSubmitted \/ Settle
  BY <1>2 DEF Observe, Decide, NotSubmitted, Settle, Refer, Await, Leave
<1>3. CASE WriteFile \/ Prepared \/ Submit \/ BeginLine
  BY <1>3 DEF WriteFile, Prepared, Submit, BeginLine, Await
<1>4. CASE EndLine \/ WriteFails
  BY <1>4 DEF EndLine, NextTick, WriteFails, Await, Leave
<1>5. CASE Finalize
  BY <1>5 DEF Finalize, Leave
<1>6. CASE Exit
  BY <1>6 DEF Exit, End, RecordInv, PastTicksAreOnRecord
<1>7. CASE AcquireRefused \/ Unlock \/ Terminate \/ Crash
  BY <1>7 DEF AcquireRefused, Unlock, Terminate, ExitCodeOf, Crash, End
<1>8. CASE ReleaseStep \/ OtherRuntime
  BY <1>8 DEF ReleaseStep, Releasing, CloseAdapter, UnlinkLock, UnlinkLockFails, lockRelease, lockReleaseFails,
              OtherRuntime, own
<1>9. ASSUME NEW signal \in Signals, HandleSignal(signal) \/ DefaultSignal(signal)
      PROVE CodeInv'
  BY <1>9 DEF HandleSignal, DefaultSignal, End
<1>10. CASE UNCHANGED vars
  BY <1>10 DEF vars
<1> QED
  BY <1>1, <1>2, <1>3, <1>4, <1>5, <1>6, <1>7, <1>8, <1>9, <1>10 DEF Next, Main

\* The lock: it changes hands only at the ends of the process.
LockInv == ReleaseHasACaller /\ LockIsHeld

LEMMA StepLock == ASSUME TypeOK, LockInv, [Next]_vars PROVE LockInv'
<1> USE DEF LockInv, ReleaseHasACaller, LockIsHeld, Starting, Settled, TypeOK,
            At, shutdown
<1>0. CASE Unlock
  BY <1>0 DEF Unlock, End
<1>1. CASE Acquire \/ AcquireRefused \/ Initialize
  <2>1. CASE Acquire
    BY <2>1 DEF Acquire, Await
  <2>2. CASE AcquireRefused
    BY <2>2 DEF AcquireRefused, End
  <2>3. CASE Initialize
    BY <2>3 DEF Initialize, Await
  <2> QED
    BY <1>1, <2>1, <2>2, <2>3
<1>2. CASE InitializeRecorder
  BY <1>2 DEF InitializeRecorder, Leave, StartRelease
<1>3. CASE Observe \/ Decide \/ NotSubmitted \/ Settle
  BY <1>3 DEF Observe, Decide, NotSubmitted, Settle, Refer, Await, Leave, StartRelease
<1>4. CASE WriteFile \/ Prepared \/ Submit \/ BeginLine
  BY <1>4 DEF WriteFile, Prepared, Submit, BeginLine, Await
<1>5. CASE EndLine \/ WriteFails
  BY <1>5 DEF EndLine, NextTick, WriteFails, Await, Leave, StartRelease
<1>6. CASE Finalize
  BY <1>6 DEF Finalize, Leave, StartRelease
<1>7. CASE Exit \/ Terminate \/ Crash
  BY <1>7 DEF Exit, Terminate, ExitCodeOf, Crash, End
<1>8. CASE ReleaseStep
  BY <1>8 DEF ReleaseStep, Releasing, CloseAdapter, UnlinkLock, UnlinkLockFails, lockRelease, lockReleaseFails
<1>9. CASE OtherRuntime
  BY <1>9 DEF OtherRuntime, own
<1>10. ASSUME NEW signal \in Signals, HandleSignal(signal) PROVE LockInv'
  BY <1>10 DEF HandleSignal, StartRelease
<1>11. ASSUME NEW signal \in Signals, DefaultSignal(signal) PROVE LockInv'
  BY <1>11 DEF DefaultSignal, End
<1>12. CASE UNCHANGED vars
  BY <1>12 DEF vars
<1> QED
  BY <1>0, <1>1, <1>2, <1>3, <1>4, <1>5, <1>6, <1>7, <1>8, <1>9, <1>10, <1>11, <1>12
     DEF Next, Main

LEMMA Invariance == Spec => []IInv
<1>1. IInv /\ [Next]_vars => IInv'
  BY StepTypeOK, StepRecords, StepCode, StepLock DEF IInv, RecordInv, CodeInv, LockInv
<1> QED
  BY InitIInv, <1>1, PTL DEF Spec

-----------------------------------------------------------------------------
\* The process keeps its types for every number of ticks.
THEOREM TypeCorrect == Spec => []TypeOK
<1>1. IInv => TypeOK
  BY DEF IInv
<1> QED
  BY Invariance, <1>1, PTL

\* Whatever ends the process (an exit, a signal, a crash), the lines of
\* decisions.jsonl tell of every tick but the one at hand, and no input is
\* older than that (fileDecisionRecorder.ts append, runLoop.ts).
THEOREM OnlyLastTickUnrecorded == Spec => []PastTicksAreOnRecord
<1>1. IInv => PastTicksAreOnRecord
  BY DEF IInv
<1> QED
  BY Invariance, <1>1, PTL

\* The files a line refers to are on disk before it (prepare, append).
THEOREM LinesAreBacked == Spec => []RecordsAreBacked
<1>1. IInv => RecordsAreBacked
  BY DEF IInv
<1> QED
  BY Invariance, <1>1, PTL

\* An exit with 0 of agent:run has its summary and lines on disk (main.ts).
THEOREM ZeroIsEarned == Spec => []ZeroMeansReported
<1>1. IInv => ZeroMeansReported
  BY DEF IInv
<1> QED
  BY Invariance, <1>1, PTL

\* An orderly exit leaves no lock file of ours (gracefulShutdown.ts, the
\* finally of main).
THEOREM LockGivenBack == Spec => []OrderlyExitFreesLock
<1>1. IInv => OrderlyExitFreesLock
  BY DEF IInv, LockIsHeld, OrderlyExitFreesLock
<1> QED
  BY Invariance, <1>1, PTL

\* A process that was not robbed touches nobody else's lock file, from its start to its end
\* (createConnectorRuntime, onceAsync, lock.release).
THEOREM ForeignLockSafe == Spec => OnlyTheRobbedRob
<1>1. IInv /\ [Next]_vars
        => [lock = "other" /\ lock' # "other" /\ ~robbed => UNCHANGED own]_vars
  <2> SUFFICES ASSUME IInv, Next, lock = "other", lock' # "other", ~robbed
               PROVE UNCHANGED own
    OBVIOUS
  <2> USE DEF IInv, TypeOK, ReleaseHasACaller, LockIsHeld, Starting, Settled, At
  <2>1. CASE Acquire \/ AcquireRefused \/ Initialize \/ Unlock \/ InitializeRecorder
    BY <2>1 DEF Acquire, AcquireRefused, Initialize, Unlock, InitializeRecorder
  <2>2. CASE Observe \/ Decide \/ NotSubmitted \/ Settle
    BY <2>2 DEF Observe, Decide, NotSubmitted, Settle, Refer
  <2>3. CASE WriteFile \/ Prepared \/ Submit \/ BeginLine \/ EndLine \/ WriteFails
    BY <2>3 DEF WriteFile, Prepared, Submit, BeginLine, EndLine, WriteFails
  <2>4. CASE Finalize \/ Exit \/ Terminate \/ Crash
    BY <2>4 DEF Finalize, Exit, Terminate, Crash
  <2>5. CASE ReleaseStep
    BY <2>5 DEF ReleaseStep, Releasing, CloseAdapter, UnlinkLock, UnlinkLockFails, lockRelease, lockReleaseFails
  <2>6. CASE OtherRuntime
    BY <2>6 DEF OtherRuntime
  <2>7. ASSUME NEW signal \in Signals, HandleSignal(signal) \/ DefaultSignal(signal)
        PROVE UNCHANGED own
    BY <2>7 DEF HandleSignal, DefaultSignal
  <2> QED
    BY <2>1, <2>2, <2>3, <2>4, <2>5, <2>6, <2>7 DEF Next, Main
<1> QED
  BY Invariance, <1>1, PTL DEF Spec, OnlyTheRobbedRob

\* A process that was not robbed submits only under its own lock, but for the moment
\* between the unlink and the exit of one that handles a signal.
THEOREM InputsAreLocked == Spec => InputsUnderLock
<1> DEFINE Locked == \/ lock = "ours"
                     \/ robbed
                     \/ handling # "no" /\ release \in {"released", "failed"}
<1>1. IInv /\ [Next]_vars => [submitted' # submitted => Locked]_vars
  <2> SUFFICES ASSUME IInv, Next, submitted' # submitted PROVE Locked
    OBVIOUS
  <2>1. CASE Submit
    BY <2>1 DEF IInv, ReleaseHasACaller, LockIsHeld, Settled, Submit, At
  <2>2. CASE Acquire \/ AcquireRefused \/ Initialize \/ Unlock \/ InitializeRecorder
    BY <2>2 DEF Acquire, AcquireRefused, Initialize, Unlock, InitializeRecorder,
                End, evidence
  <2>3. CASE Observe \/ Decide \/ NotSubmitted \/ Settle
    BY <2>3 DEF Observe, Decide, NotSubmitted, Settle, Refer
  <2>4. CASE WriteFile \/ Prepared \/ BeginLine \/ EndLine \/ WriteFails \/ Finalize
    BY <2>4 DEF WriteFile, Prepared, BeginLine, EndLine, WriteFails, Finalize, evidence
  <2>5. CASE Exit \/ Terminate \/ Crash \/ OtherRuntime
    BY <2>5 DEF Exit, Terminate, Crash, OtherRuntime, End, own, evidence
  <2>6. CASE ReleaseStep
    BY <2>6 DEF ReleaseStep, Releasing, CloseAdapter, UnlinkLock, UnlinkLockFails, lockRelease, lockReleaseFails, evidence
  <2>7. ASSUME NEW signal \in Signals, HandleSignal(signal) \/ DefaultSignal(signal)
        PROVE FALSE
    BY <2>7 DEF HandleSignal, DefaultSignal, End, evidence
  <2> QED
    BY <2>1, <2>2, <2>3, <2>4, <2>5, <2>6, <2>7 DEF Next, Main
<1> QED
  BY Invariance, <1>1, PTL DEF Spec, InputsUnderLock
-----------------------------------------------------------------------------
(* The run left behind: RecordedRun is implemented. *)

Unsent == Starting \cup {"observe", "prepare", "decide", "execute"}
Recording == {"recorder", "prepare", "decide", "append", "line", "finalize"}

\* A tick has not submitted before it gets there, the canary records nothing, and
\* agent:tick leaves with 0 only behind its line.
TicksInOrder ==
    /\ pc \in Unsent => tick \notin submitted
    /\ command = "canary" => pc \notin Recording
    /\ pc = "release" /\ exitCode = 0 /\ command = "tick" => lines[tick] = "whole"

LEMMA StepTicks ==
  ASSUME TypeOK, RecordInv, TicksInOrder, [Next]_vars PROVE TicksInOrder'
<1> USE DEF TicksInOrder, Unsent, Recording, Starting, TypeOK, RecordInv, At, evidence
<1>1. CASE Acquire \/ Initialize \/ InitializeRecorder
  BY <1>1 DEF Acquire, Initialize, InitializeRecorder, Await, Leave
<1>2. CASE Observe \/ Decide \/ NotSubmitted \/ Settle
  BY <1>2 DEF Observe, Decide, NotSubmitted, Settle, Refer, Await, Leave
<1>3. CASE WriteFile \/ Prepared \/ Submit \/ BeginLine
  BY <1>3 DEF WriteFile, Prepared, Submit, BeginLine, Await
<1>4. CASE EndLine \/ WriteFails
  BY <1>4 DEF EndLine, NextTick, WriteFails, Await, Leave, PastTicksAreOnRecord
<1>5. CASE Finalize
  BY <1>5 DEF Finalize, Leave, LinesFollowTicks
<1>6. CASE AcquireRefused \/ Unlock \/ Exit \/ Terminate \/ Crash
  BY <1>6 DEF AcquireRefused, Unlock, Exit, Terminate, Crash, End
<1>7. CASE ReleaseStep \/ OtherRuntime
  BY <1>7 DEF ReleaseStep, Releasing, CloseAdapter, UnlinkLock, UnlinkLockFails, lockRelease, lockReleaseFails,
              OtherRuntime, own
<1>8. ASSUME NEW signal \in Signals, HandleSignal(signal) \/ DefaultSignal(signal)
      PROVE TicksInOrder'
  BY <1>8 DEF HandleSignal, DefaultSignal, End
<1>9. CASE UNCHANGED vars
  BY <1>9 DEF vars
<1> QED
  BY <1>1, <1>2, <1>3, <1>4, <1>5, <1>6, <1>7, <1>8, <1>9 DEF Next, Main

LEMMA RunInit == Init => Run!Init
BY DEF Init, Run!Init, Readable, Outcome

\* What RecordedRun sees of a step that leaves the records alone.
LEMMA Unseen ==
  ASSUME UNCHANGED <<command, tick, submitted, lines, refs, files, summary, ended>>
  PROVE  UNCHANGED Run!vars
BY DEF Run!vars, Readable, Outcome

\* A tick that is not on record may still get new files and references.
LEMMA UnreadableStays ==
  ASSUME TypeOK, lines' = lines, lines[tick] # "whole",
         \A t \in Ticks \ {tick} : refs'[t] = refs[t] /\ files'[t] = files[t]
  PROVE  Readable' = Readable
BY DEF Readable, TypeOK

LEMMA EndStep ==
  ASSUME TypeOK, ended = "no", NEW how \in Endings \ {"no"}, End(how),
         how = "exit0" => /\ command = "run" => summary = tick
                          /\ command = "tick" => tick \in Readable
  PROVE  Run!Next
<1>1. UNCHANGED <<command, tick, submitted, Readable, summary>>
  BY DEF End, evidence, Readable
<1>2. CASE how = "exit0"
  <2>1. Run!Succeed
    BY <1>1, <1>2 DEF Run!Succeed, End, Outcome
  <2> QED
    BY <1>1, <2>1 DEF Run!Next, Outcome
<1>3. CASE how # "exit0"
  <2>1. Run!Stop
    BY <1>1, <1>3 DEF Run!Stop, End, Outcome, Endings
  <2> QED
    BY <1>1, <2>1 DEF Run!Next, Outcome
<1> QED
  BY <1>2, <1>3

\* Each step is one of the promised run, or it does not touch it.
LEMMA RunStep ==
  ASSUME IInv, TicksInOrder, [Next]_vars PROVE [Run!Next]_(Run!vars)
<1> USE DEF At
<1>0. /\ TypeOK /\ PastTicksAreOnRecord /\ RecordsAreBacked /\ LinesFollowTicks
      /\ CodeZeroIsEarned
  BY DEF IInv
<1>1. CASE Acquire \/ Initialize \/ InitializeRecorder
  BY <1>1, Unseen DEF Acquire, Initialize, InitializeRecorder, Await, Leave, evidence
<1>2. CASE Observe \/ Decide \/ NotSubmitted \/ Settle
  <2>1. PICK kinds \in SUBSET Kinds : Refer(kinds)
    BY <1>2 DEF Observe, Decide, NotSubmitted, Settle
  <2>2. lines[tick] # "whole"
    BY <1>0, <1>2 DEF Observe, Decide, NotSubmitted, Settle, LinesFollowTicks
  <2>3. Readable' = Readable
    BY <1>0, <2>1, <2>2, UnreadableStays DEF Refer, TypeOK
  <2>4. UNCHANGED <<command, tick, submitted, summary, ended>>
    BY <1>2, <2>1 DEF Observe, Decide, NotSubmitted, Settle, Refer, Await, Leave
  <2> QED
    BY <2>3, <2>4 DEF Run!vars, Outcome
<1>3. CASE WriteFile
  <2>1. lines[tick] # "whole"
    BY <1>0, <1>3 DEF WriteFile, LinesFollowTicks
  <2>2. Readable' = Readable
    BY <1>0, <1>3, <2>1, UnreadableStays DEF WriteFile, TypeOK
  <2> QED
    BY <1>3, <2>2 DEF WriteFile, Await, Run!vars, Outcome
<1>4. CASE Prepared
  BY <1>4, Unseen DEF Prepared, Await, evidence
<1>5. CASE Submit
  <2>1. tick \notin submitted \cup Readable
    BY <1>0, <1>5 DEF Submit, TicksInOrder, Unsent, LinesFollowTicks, Readable
  <2>2. Run!Submit
    BY <1>5, <2>1 DEF Submit, Await, Run!Submit, Readable, Outcome
  <2> QED
    BY <1>5, <2>2 DEF Submit, Await, Run!Next, Outcome
<1>6. CASE BeginLine
  <2>1. lines[tick] # "whole"
    BY <1>0, <1>6 DEF BeginLine, LinesFollowTicks
  <2>2. Readable' = Readable
    BY <1>0, <1>6, <2>1 DEF BeginLine, Readable, TypeOK
  <2> QED
    BY <1>6, <2>2 DEF BeginLine, Await, Run!vars, Outcome
<1>7. CASE EndLine
  <2>1. /\ command # "canary"
        /\ lines[tick] # "whole"
        /\ refs[tick] \subseteq files[tick]
    BY <1>0, <1>7 DEF EndLine, TicksInOrder, Recording, LinesFollowTicks
  <2>2. Readable' = Readable \cup {tick}
    BY <1>0, <1>7, <2>1 DEF EndLine, Readable, TypeOK
  <2>3. /\ UNCHANGED <<command, submitted, summary, ended>>
        /\ tick' = tick \/ (command = "run" /\ tick < MaxTicks /\ tick' = tick + 1)
    BY <1>7 DEF EndLine, NextTick, Await, Leave
  <2>4. Run!Record
    BY <2>1, <2>2, <2>3 DEF Run!Record, Readable, Outcome
  <2> QED
    BY <1>7, <2>3, <2>4 DEF Run!Next, EndLine, Outcome
<1>8. CASE WriteFails
  BY <1>8, Unseen DEF WriteFails, Leave, evidence
<1>9. CASE Finalize
  <2>1. tick \in Readable /\ command = "run" /\ summary = 0
    BY <1>0, <1>9 DEF Finalize, LinesFollowTicks, RecordsAreBacked, Readable, TypeOK
  <2>2. UNCHANGED <<command, tick, submitted, lines, refs, files, ended>>
    BY <1>9 DEF Finalize, Leave
  <2>3. CASE summary' = tick
    <3>1. Run!Summarise
      BY <2>1, <2>2, <2>3 DEF Run!Summarise, Readable, Outcome
    <3> QED
      BY <1>9, <2>2, <3>1 DEF Run!Next, Finalize, Outcome
  <2>4. CASE summary' = summary
    BY <2>2, <2>4, Unseen
  <2> QED
    BY <1>9, <2>3, <2>4 DEF Finalize
<1>10. CASE AcquireRefused \/ Unlock
  BY <1>0, <1>10, EndStep DEF AcquireRefused, Unlock, Endings
<1>11. CASE Exit
  <2>1. /\ exitCode = 0 /\ command = "run" => summary = tick
        /\ exitCode = 0 /\ command = "tick" => tick \in Readable
    BY <1>0, <1>11 DEF Exit, CodeZeroIsEarned, TicksInOrder, RecordsAreBacked, Readable, TypeOK
  <2> QED
    BY <1>0, <1>11, <2>1, EndStep DEF Exit, Endings
<1>12. CASE Terminate \/ Crash
  BY <1>0, <1>12, EndStep DEF Terminate, ExitCodeOf, Crash, Endings
<1>13. CASE ReleaseStep \/ OtherRuntime
  BY <1>13, Unseen DEF ReleaseStep, Releasing, CloseAdapter, UnlinkLock, UnlinkLockFails, lockRelease, lockReleaseFails,
                       OtherRuntime, own, evidence
<1>14. ASSUME NEW signal \in Signals, HandleSignal(signal) PROVE UNCHANGED Run!vars
  BY <1>14, Unseen DEF HandleSignal, evidence
<1>15. ASSUME NEW signal \in Signals, DefaultSignal(signal) PROVE Run!Next
  BY <1>0, <1>15, EndStep DEF DefaultSignal, Endings
<1>16. CASE UNCHANGED vars
  BY <1>16, Unseen DEF vars
<1> QED
  BY <1>1, <1>2, <1>3, <1>4, <1>5, <1>6, <1>7, <1>8, <1>9, <1>10, <1>11, <1>12, <1>13,
     <1>14, <1>15, <1>16 DEF Next, Main

\* For any number of ticks, whatever interrupts the process, the run directory and the
\* exit code are those of a promised run (main.ts, runLoop.ts, fileDecisionRecorder.ts).
THEOREM Implements == Spec => ImplementsRecordedRun
<1>1. Init => TicksInOrder
  BY DEF Init, TicksInOrder, Recording
<1>2. IInv /\ TicksInOrder /\ [Next]_vars => TicksInOrder'
  BY StepTicks DEF IInv, RecordInv
<1>3. IInv /\ TicksInOrder /\ [Next]_vars => [Run!Next]_(Run!vars)
  BY RunStep
<1>4. Init => Run!Init
  BY RunInit
<1> QED
  BY Invariance, <1>1, <1>2, <1>3, <1>4, PTL DEF Spec, Run!Spec, ImplementsRecordedRun
LEMMA RunStaysComplete ==
  ASSUME Run!Complete, [Run!Next]_(Run!vars) PROVE Run!Complete'
<1> USE DEF Run!Complete
<1>1. CASE Run!Submit /\ Run!Next
  BY <1>1 DEF Run!Submit, Run!Next
<1>2. CASE Run!Record /\ Run!Next
  BY <1>2 DEF Run!Record, Run!Next
<1>3. CASE Run!Summarise /\ Run!Next
  BY <1>3 DEF Run!Summarise, Run!Next
<1>4. CASE (Run!Succeed \/ Run!Stop) /\ Run!Next
  BY <1>4 DEF Run!Succeed, Run!Stop, Run!Next
<1>5. CASE UNCHANGED Run!vars
  BY <1>5 DEF Run!vars
<1> QED
  BY <1>1, <1>2, <1>3, <1>4, <1>5 DEF Run!Next

\* What a reader may conclude from the promise holds of the run directory of every process:
\* a gap can only be at its end, and there is none in a run that claims success.
THEOREM RunsAreComplete == Spec => []Run!Complete
<1>1. Run!Init => Run!Complete
  BY DEF Run!Init, Run!Complete
<1>2. Run!Complete /\ [Run!Next]_(Run!vars) => Run!Complete'
  BY RunStaysComplete
<1>3. Run!Spec => []Run!Complete
  BY <1>1, <1>2, PTL DEF Run!Spec
<1> QED
  BY <1>3, Implements DEF ImplementsRecordedRun

-----------------------------------------------------------------------------
(* The lock: LockTurns is implemented until a theft. *)

\* Where the process stands towards the lock.
LEMMA Phases ==
  ASSUME IInv, ~robbed
  PROVE  /\ pc = "acquire" => release = "idle"
         /\ Phase \in {"outside", "inside", "gone"}
         /\ Phase = "outside" => lock # "ours"
         /\ Phase = "inside" => lock = "ours"
BY DEF IInv, Phase, ReleaseHasACaller, LockIsHeld, Starting, Settled

LEMMA NoTurn ==
  ASSUME Phase' = Phase, lock' = lock PROVE UNCHANGED Turns!vars
BY DEF Turns!vars

\* However the process ends, it is gone then, and its lock stays or is given back.
LEMMA LastTurn ==
  ASSUME IInv, ~robbed, ended = "no", ended' # "no", lock' = lock \/ (Phase = "inside" /\ lock' = "free")
  PROVE  [Turns!Next]_(Turns!vars)
<1>1. Phase' = "gone"
  BY DEF Phase
<1>2. CASE Phase = "outside"
  BY <1>1, <1>2 DEF Turns!Next, Turns!StayOut
<1>3. CASE Phase = "inside"
  BY <1>1, <1>3, Phases DEF Turns!Next, Turns!Leave
<1>4. CASE Phase = "gone"
  BY <1>1, <1>4, NoTurn
<1> QED
  BY <1>2, <1>3, <1>4, Phases

\* What was taken from the process it does not get back.
LEMMA RobbedForGood == ASSUME TypeOK, [Next]_vars, robbed PROVE robbed'
<1> USE DEF End, Await, Leave
<1>1. CASE Acquire \/ AcquireRefused \/ Initialize \/ Unlock \/ InitializeRecorder
  BY <1>1 DEF Acquire, AcquireRefused, Initialize, Unlock, InitializeRecorder
<1>2. CASE Observe \/ WriteFile \/ Prepared \/ Decide \/ NotSubmitted \/ Submit \/ Settle
  BY <1>2 DEF Observe, WriteFile, Prepared, Decide, NotSubmitted, Submit, Settle
<1>3. CASE BeginLine \/ EndLine \/ WriteFails \/ Finalize
  BY <1>3 DEF BeginLine, EndLine, NextTick, WriteFails, Finalize
<1>4. CASE ReleaseStep \/ Exit \/ Terminate \/ Crash
  BY <1>4 DEF ReleaseStep, Releasing, CloseAdapter, UnlinkLock, UnlinkLockFails, Exit,
              Terminate, Crash
<1>5. ASSUME NEW signal \in Signals, HandleSignal(signal) \/ DefaultSignal(signal)
      PROVE  robbed'
  BY <1>5 DEF HandleSignal, DefaultSignal
<1>6. CASE OtherRuntime
  BY <1>6 DEF OtherRuntime
<1>7. CASE UNCHANGED vars
  BY <1>7 DEF vars
<1> QED
  BY <1>1, <1>2, <1>3, <1>4, <1>5, <1>6, <1>7 DEF Next, Main

LEMMA TurnsStep ==
  ASSUME IInv, ~robbed, ~robbed', [Next]_vars PROVE [Turns!Next]_(Turns!vars)
<1> USE DEF At
<1>1. CASE Acquire
  <2>1. Phase = "outside" /\ Phase' = "inside"
    BY <1>1, Phases DEF Acquire, Await, shutdown, Phase
  <2> QED
    BY <1>1, <2>1 DEF Acquire, Turns!Next, Turns!Enter
<1>2. CASE AcquireRefused \/ Crash
  <2>1. ended = "no" /\ ended' # "no" /\ lock' = lock
    BY <1>2 DEF AcquireRefused, Crash, End
  <2> QED
    BY <2>1, LastTurn
<1>3. CASE Unlock
  <2>1. Phase = "inside" /\ ended = "no" /\ ended' # "no"
    BY <1>3 DEF Unlock, End, IInv, ReleaseHasACaller, Starting, Phase
  <2>2. lock' = lock \/ lock' = "free"
    BY <1>3 DEF Unlock, lockRelease, lockReleaseFails
  <2> QED
    BY <2>1, <2>2, LastTurn
<1>4. CASE Initialize \/ WriteFile \/ Prepared \/ Submit \/ BeginLine
  <2>1. /\ ended = "no" /\ ended' = "no" /\ release' = release /\ lock' = lock
        /\ pc # "acquire" /\ pc' # "acquire"
    BY <1>4 DEF Initialize, WriteFile, Prepared, Submit, BeginLine, Await, shutdown, evidence
  <2>2. Phase' = Phase
    BY <2>1 DEF Phase
  <2> QED
    BY <2>1, <2>2, NoTurn
<1>5. CASE InitializeRecorder \/ WriteFails \/ Finalize
  <2>1. /\ ended = "no" /\ ended' = "no" /\ lock' = lock
        /\ release' = release \/ (release = "idle" /\ release' = "closing")
        /\ pc # "acquire" /\ pc' # "acquire"
    BY <1>5 DEF InitializeRecorder, WriteFails, Finalize, Leave, StartRelease
  <2>2. Phase' = Phase
    BY <2>1 DEF Phase
  <2> QED
    BY <2>1, <2>2, NoTurn
<1>6. CASE Observe \/ Decide \/ NotSubmitted \/ Settle \/ EndLine
  <2>1. /\ ended = "no" /\ ended' = "no" /\ lock' = lock
        /\ release' = release \/ (release = "idle" /\ release' = "closing")
        /\ pc # "acquire" /\ pc' # "acquire"
    BY <1>6 DEF Observe, Decide, NotSubmitted, Settle, EndLine, NextTick, Refer, Await,
                Leave, StartRelease, shutdown
  <2>2. Phase' = Phase
    BY <2>1 DEF Phase
  <2> QED
    BY <2>1, <2>2, NoTurn
<1>7. CASE CloseAdapter
  <2>1. Phase' = Phase /\ lock' = lock
    BY <1>7 DEF CloseAdapter, Releasing, Phase
  <2> QED
    BY <2>1, NoTurn
<1>8. CASE UnlinkLock \/ UnlinkLockFails
  <2>1. Phase = "inside" /\ Phase' = "gone" /\ lock' \in {lock, "free"}
    BY <1>8, Phases DEF UnlinkLock, UnlinkLockFails, lockRelease, lockReleaseFails, Releasing, Phase
  <2>2. lock = "ours"
    BY <2>1, Phases
  <2> QED
    BY <2>1, <2>2 DEF Turns!Next, Turns!Leave
<1>9. CASE Terminate \/ Exit
  <2>1. Phase = "gone" /\ Phase' = "gone" /\ lock' = lock
    BY <1>9, Phases DEF Terminate, Exit, ExitCodeOf, End, Phase
  <2> QED
    BY <2>1, NoTurn
<1>10. ASSUME NEW signal \in Signals, HandleSignal(signal) PROVE UNCHANGED Turns!vars
  <2>1. Phase' = Phase /\ lock' = lock
    BY <1>10 DEF HandleSignal, StartRelease, Phase
  <2> QED
    BY <2>1, NoTurn
<1>11. ASSUME NEW signal \in Signals, DefaultSignal(signal) PROVE [Turns!Next]_(Turns!vars)
  <2>1. ended = "no" /\ ended' # "no" /\ lock' = lock
    BY <1>11 DEF DefaultSignal, End
  <2> QED
    BY <2>1, LastTurn
<1>12. CASE OtherRuntime
  <2>1. Phase' = Phase
    BY <1>12 DEF OtherRuntime, own, shutdown, Phase
  <2>2. lock = "ours" /\ ended # "no" => Phase = "gone"
    BY DEF Phase
  <2> QED
    BY <1>12, <2>1, <2>2 DEF OtherRuntime, Turns!Next, Turns!OthersTakeTurns
<1>13. CASE UNCHANGED vars
  BY <1>13, NoTurn DEF vars, Phase
<1> QED
  BY <1>1, <1>2, <1>3, <1>4, <1>5, <1>6, <1>7, <1>8, <1>9, <1>10, <1>11, <1>12, <1>13
     DEF Next, Main, ReleaseStep

\* Until it is robbed the process takes its one turn at the lock: inside from the acquisition
\* to the end of its one release, whoever began that (onceAsync; RuntimeLock grants these
\* turns).
THEOREM TurnsTaken == Spec => TurnsUnlessRobbed
<1>1. Init => Turns!Init
  BY DEF Init, Turns!Init, Phase
<1>2. IInv /\ [Next]_vars => [~robbed' => [Turns!Next]_(Turns!vars)]_vars
  BY TurnsStep, RobbedForGood DEF IInv
<1> QED
  BY Invariance, <1>1, <1>2, PTL DEF Spec, TurnsUnlessRobbed
=============================================================================
