---------------------------- MODULE RuntimeLock ----------------------------
(***************************************************************************)
(* The file lock that keeps a second action-capable runtime away from one  *)
(* data directory (runtime/runtimeLock.ts).                                *)
(*                                                                         *)
(* Each element of Proc is one process lifetime with a pid of its own.     *)
(* The lock file is one directory entry.  It is created empty by an        *)
(* exclusive open and filled by a later write, so other processes can see  *)
(* it half-made, and a crash in between leaves it half-made for ever.      *)
(***************************************************************************)
EXTENDS Naturals, FiniteSets

CONSTANTS Proc,     \* process lifetimes that may call acquireRuntimeLock
          NoFile    \* the lock path does not exist

ASSUME NoFileAssumption == NoFile \notin [owner : Proc, payload : {"none", "pid"}]

VARIABLES
    pc,      \* where each process stands in acquire / hold / release
    file,    \* the directory entry: who created it, and is the payload in it
    seen,    \* the pid a contender read from the file
    stolen   \* history: an unlink removed a file other than the one meant

vars == <<pc, file, seen, stolen>>

Files == [owner : Proc, payload : {"none", "pid"}]

\* The places of acquireRuntimeLock at which another process can run.
Acquiring == {"create", "write", "read", "probe", "unlink"}
Live      == Acquiring \cup {"held", "released"}
Ended     == {"refused", "exited", "crashed"}

TypeOK ==
    /\ pc \in [Proc -> {"idle"} \cup Live \cup Ended]
    /\ file \in Files \cup {NoFile}
    /\ seen \in [Proc -> Proc]
    /\ stolen \in BOOLEAN

Init ==
    /\ pc = [p \in Proc |-> "idle"]
    /\ file = NoFile
    /\ seen = [p \in Proc |-> p]
    /\ stolen = FALSE

Goto(p, place) == pc' = [pc EXCEPT ![p] = place]

\* Does the path still name the file that p created?
Owns(p) == file # NoFile /\ file.owner = p

\* process.kill(pid, 0): only a process that is gone answers ESRCH.
isProcessAlive(p) == pc[p] \in Live

Start(p) ==
    /\ pc[p] = "idle"
    /\ Goto(p, "create")
    /\ UNCHANGED <<file, seen, stolen>>

CreateLockOverExisting(p) ==  \* changed: flag "w", not "wx"
    /\ pc[p] = "create"
    /\ file' = [owner |-> p, payload |-> "none"]
    /\ Goto(p, "write")
    /\ UNCHANGED <<seen, stolen>>

\* writeFile(..., flag "wx"): the exclusive open succeeds or says EEXIST.
CreateLock(p) ==
    /\ pc[p] = "create"
    /\ IF file = NoFile
       THEN file' = [owner |-> p, payload |-> "none"] /\ Goto(p, "write")
       ELSE UNCHANGED file /\ Goto(p, "read")
    /\ UNCHANGED <<seen, stolen>>

\* ... and its payload is written through the descriptor, which after an
\* unlink by somebody else no longer belongs to the path.
WritePayload(p) ==
    /\ pc[p] = "write"
    /\ file' = IF Owns(p) THEN [file EXCEPT !.payload = "pid"] ELSE file
    /\ Goto(p, "held")
    /\ UNCHANGED <<seen, stolen>>

\* A write error is not EEXIST: it is rethrown, and the empty file stays.
WriteFails(p) ==
    /\ pc[p] = "write"
    /\ Goto(p, "refused")
    /\ UNCHANGED <<file, seen, stolen>>

readLockRetrying(p) ==  \* changed: an unreadable lock is tried again
    /\ pc[p] = "read"
    /\ IF file # NoFile /\ file.payload = "pid"
       THEN seen' = [seen EXCEPT ![p] = file.owner] /\ Goto(p, "probe")
       ELSE UNCHANGED seen /\ Goto(p, "create")
    /\ UNCHANGED <<file, stolen>>

\* A missing or half-made file reads as undefined, which refuses.
readLock(p) ==
    /\ pc[p] = "read"
    /\ IF file # NoFile /\ file.payload = "pid"
       THEN seen' = [seen EXCEPT ![p] = file.owner] /\ Goto(p, "probe")
       ELSE UNCHANGED seen /\ Goto(p, "refused")
    /\ UNCHANGED <<file, stolen>>

ProbeDistrusting(p) ==  \* changed: every other owner counts as dead
    /\ pc[p] = "probe"
    /\ Goto(p, "unlink")
    /\ UNCHANGED <<file, seen, stolen>>

Probe(p) ==
    /\ pc[p] = "probe"
    /\ Goto(p, IF isProcessAlive(seen[p]) THEN "refused" ELSE "unlink")
    /\ UNCHANGED <<file, seen, stolen>>

\* The path is unlinked whatever it names by now, and acquire starts over.
UnlinkStale(p) ==
    /\ pc[p] = "unlink"
    /\ stolen' = (stolen \/ (file # NoFile /\ file.owner # seen[p]))
    /\ file' = NoFile
    /\ Goto(p, "create")
    /\ UNCHANGED seen

\* unlink(...).catch(() => undefined): a failed unlink also starts over.
UnlinkFails(p) ==
    /\ pc[p] = "unlink"
    /\ Goto(p, "create")
    /\ UNCHANGED <<file, seen, stolen>>

\* release(): unlinks the path without looking whose file it names.
Release(p) ==
    /\ pc[p] = "held"
    /\ stolen' = (stolen \/ (file # NoFile /\ file.owner # p))
    /\ file' = NoFile
    /\ Goto(p, "released")
    /\ UNCHANGED seen

\* An error other than ENOENT is rethrown; the flag is set, so nobody tries again.
ReleaseFails(p) ==
    /\ pc[p] = "held"
    /\ Goto(p, "released")
    /\ UNCHANGED <<file, seen, stolen>>

Exit(p) ==
    /\ pc[p] = "released"
    /\ Goto(p, "exited")
    /\ UNCHANGED <<file, seen, stolen>>

Crash(p) ==
    /\ pc[p] \in Live
    /\ Goto(p, "crashed")
    /\ UNCHANGED <<file, seen, stolen>>

AcquireStep(p) ==
    \/ CreateLock(p) \/ WritePayload(p) \/ WriteFails(p)
    \/ readLock(p) \/ Probe(p) \/ UnlinkStale(p) \/ UnlinkFails(p)

Next ==
    \E p \in Proc :
        Start(p) \/ AcquireStep(p) \/ Release(p) \/ ReleaseFails(p) \/ Exit(p) \/ Crash(p)

Spec == Init /\ [][Next]_vars

\* A started acquire is run to its end by the event loop.  Nothing makes an unlink succeed.
Fairness == \A p \in Proc : WF_vars(AcquireStep(p))

FairSpec == Spec /\ Fairness

-----------------------------------------------------------------------------
Holders == {p \in Proc : pc[p] = "held"}

\* "permits one action-capable runtime at a time" (test/runtime-lock.test.ts):
\* no two live processes hold the lock of one data directory.
AtMostOneRuntime == \A p, q \in Holders : p = q

\* Exclusion is lost in one way only: an unlink that was decided for a dead
\* owner's file (or by an owner robbed before) removes somebody else's.
\* Short of that, two live processes never both hold the lock, whatever the
\* crashes, failed writes, half-made files and restarts.
ExclusionUnlessStolen == ~stolen => AtMostOneRuntime

\* That unlink takes three process lifetimes: the dead owner, the contender
\* that read its pid, and the runtime that came in between.  Two runtimes
\* started together on a clean directory therefore never rob each other.
TheftNeedsThree ==
    stolen => \E p, q, r \in Proc :
                 /\ p # q /\ q # r /\ p # r
                 /\ pc[p] # "idle" /\ pc[q] # "idle" /\ pc[r] # "idle"

\* The lock as p sees it: p is inside from the creation of its file to its unlink or death.
LockOf(p)  == IF file = NoFile THEN "free" ELSE IF Owns(p) THEN "ours" ELSE "other"
PhaseOf(p) == IF pc[p] \in {"write", "held"} THEN "inside"
              ELSE IF pc[p] \in {"released"} \cup Ended THEN "gone" ELSE "outside"

View(p) == INSTANCE LockTurns WITH lock <- LockOf(p), phase <- PhaseOf(p)

\* Until a theft every process sees the others take turns: its file appears when there is
\* none, stays as long as the process lives and holds it, and nobody's file but a dead
\* process's is taken away (acquireRuntimeLock, release).
TurnsUnlessStolen ==
    /\ \A p \in Proc : View(p)!Init
    /\ [][~stolen' => \A p \in Proc : [View(p)!Next]_(View(p)!vars)]_vars

\* The directory does not refuse p the removal of dead locks for ever.
UnlinksWork(p) == SF_vars(UnlinkStale(p))

\* Acquire starts over after each removal of a dead lock, also after one that failed, as
\* every error of that unlink is swallowed.  Where the removals do not fail for ever it
\* comes to an end: it holds the lock, refuses or dies.  (Where they do, with EACCES, it
\* goes round for ever; and Proc is finite, so that no new runtime leaves a dead lock
\* behind for each one removed.)
AcquireEndsIfUnlinksWork ==
    \A p \in Proc : UnlinksWork(p) => ((pc[p] = "create") ~> (pc[p] \in {"held"} \cup Ended))
=============================================================================
