-------------------------- MODULE RuntimeLockProofs --------------------------
(***************************************************************************)
(* For any set of processes: the types of RuntimeLock, and that exclusion  *)
(* is lost only through a theft, which takes three process lifetimes.      *)
(***************************************************************************)
EXTENDS RuntimeLock, TLAPS

\* Places a process can be in once it has created, or filled, a lock file.
Creators == {"write", "held", "released"} \cup Ended
Fillers  == {"held", "released", "exited", "crashed"}

\* Unless something was stolen, a file being filled or held is its owner's.
OwnersHaveTheirFile ==
    ~stolen => \A p \in Proc :
        /\ pc[p] = "write" => file = [owner |-> p, payload |-> "none"]
        /\ pc[p] = "held" => file = [owner |-> p, payload |-> "pid"]

FileHasACreator ==
    file # NoFile => /\ pc[file.owner] \in Creators
                     /\ file.payload = "pid" => pc[file.owner] \in Fillers

\* What a contender remembers of the file stays true of its old owner.
SeenIsAnother ==
    \A p \in Proc :
        /\ pc[p] \in {"probe", "unlink"} => pc[seen[p]] \in Fillers
        /\ pc[p] = "unlink" => pc[seen[p]] \in {"exited", "crashed"}

IInv == TypeOK /\ OwnersHaveTheirFile /\ FileHasACreator /\ SeenIsAnother
             /\ TheftNeedsThree

LEMMA InitTypeOK == Init => TypeOK
BY DEF Init, TypeOK, Live, Acquiring, Ended

LEMMA StepTypeOK == ASSUME TypeOK, [Next]_vars PROVE TypeOK'
<1> USE NoFileAssumption DEF TypeOK, Files, Live, Acquiring, Ended, Goto
<1>1. ASSUME NEW p \in Proc, Start(p) PROVE TypeOK'
  BY <1>1 DEF Start
<1>2. ASSUME NEW p \in Proc, CreateLock(p) PROVE TypeOK'
  <2>1. CASE file = NoFile
    BY <1>2, <2>1 DEF CreateLock
  <2>2. CASE file # NoFile
    BY <1>2, <2>2 DEF CreateLock
  <2> QED
    BY <2>1, <2>2
<1>3. ASSUME NEW p \in Proc, WritePayload(p) PROVE TypeOK'
  BY <1>3 DEF WritePayload, Owns
<1>4. ASSUME NEW p \in Proc, WriteFails(p) PROVE TypeOK'
  BY <1>4 DEF WriteFails
<1>5. ASSUME NEW p \in Proc, readLock(p) PROVE TypeOK'
  BY <1>5 DEF readLock
<1>6. ASSUME NEW p \in Proc, Probe(p) PROVE TypeOK'
  BY <1>6 DEF Probe
<1>7. ASSUME NEW p \in Proc, UnlinkStale(p) \/ UnlinkFails(p) PROVE TypeOK'
  BY <1>7 DEF UnlinkStale, UnlinkFails
<1>8. ASSUME NEW p \in Proc, Release(p) \/ ReleaseFails(p) \/ Exit(p) \/ Crash(p)
      PROVE  TypeOK'
  BY <1>8 DEF Release, ReleaseFails, Exit, Crash
<1>9. CASE UNCHANGED vars
  BY <1>9 DEF vars
<1> QED
  BY <1>1, <1>2, <1>3, <1>4, <1>5, <1>6, <1>7, <1>8, <1>9
     DEF Next, AcquireStep

\* Every reachable state is well-typed, for any set of processes.
THEOREM TypeCorrect == Spec => []TypeOK
BY InitTypeOK, StepTypeOK, PTL DEF Spec

-----------------------------------------------------------------------------
\* An unlink can rob somebody only while two other lifetimes are involved.
LEMMA TheftIsByThree ==
    ASSUME IInv, NEW p \in Proc, UnlinkStale(p) \/ Release(p), stolen'
    PROVE  TheftNeedsThree'
<1> USE DEF IInv, TypeOK, Goto, Files
<1>1. CASE stolen
  <2>1. PICK a, b, c \in Proc : /\ a # b /\ b # c /\ a # c
                               /\ pc[a] # "idle" /\ pc[b] # "idle"
                               /\ pc[c] # "idle"
    BY <1>1 DEF TheftNeedsThree
  <2>2. \A q \in Proc : pc[q] # "idle" => pc'[q] # "idle"
    BY DEF UnlinkStale, Release
  <2> QED
    BY <2>1, <2>2 DEF TheftNeedsThree
<1>2. CASE ~stolen /\ UnlinkStale(p)
  <2>1. file # NoFile /\ file.owner # seen[p] /\ file.owner \in Proc
    BY <1>2 DEF UnlinkStale
  <2>2. pc[file.owner] \in Creators /\ pc[p] = "unlink"
    BY <1>2, <2>1 DEF UnlinkStale, FileHasACreator
  <2>3. pc[seen[p]] \in {"exited", "crashed"} /\ seen[p] \in Proc
    BY <2>2 DEF SeenIsAnother
  <2>4. file.owner # p /\ seen[p] # p
    BY <2>2, <2>3 DEF Creators, Ended
  <2>5. pc'[p] = "create" /\ \A q \in Proc \ {p} : pc'[q] = pc[q]
    BY <1>2 DEF UnlinkStale
  <2>6. pc'[file.owner] # "idle" /\ pc'[seen[p]] # "idle" /\ pc'[p] # "idle"
    BY <2>1, <2>2, <2>3, <2>4, <2>5 DEF Creators, Ended
  <2> QED
    BY <2>1, <2>3, <2>4, <2>6 DEF TheftNeedsThree
<1>3. CASE ~stolen /\ Release(p)
  <2>1. file = [owner |-> p, payload |-> "pid"]
    BY <1>3 DEF Release, OwnersHaveTheirFile
  <2>2. ~stolen'
    BY <1>3, <2>1 DEF Release
  <2> QED
    BY <2>2
<1> QED
  BY <1>1, <1>2, <1>3

LEMMA InitIInv == Init => IInv
<1> SUFFICES ASSUME Init PROVE IInv
  OBVIOUS
<1>1. TypeOK
  BY InitTypeOK
<1>2. OwnersHaveTheirFile /\ FileHasACreator /\ SeenIsAnother
  BY DEF Init, OwnersHaveTheirFile, FileHasACreator, SeenIsAnother
<1>3. TheftNeedsThree
  BY DEF Init, TheftNeedsThree
<1> QED
  BY <1>1, <1>2, <1>3 DEF IInv

LEMMA StepOwners ==
    ASSUME IInv, [Next]_vars PROVE OwnersHaveTheirFile'
<1> USE DEF IInv, TypeOK, Goto, Files, OwnersHaveTheirFile
<1>1. ASSUME NEW p \in Proc, Start(p) PROVE OwnersHaveTheirFile'
  BY <1>1 DEF Start
<1>2. ASSUME NEW p \in Proc, CreateLock(p) PROVE OwnersHaveTheirFile'
  <2>1. CASE file = NoFile
    <3>1. \A q \in Proc : ~stolen => pc[q] \notin {"write", "held"}
      BY <2>1, NoFileAssumption
    <3> QED
      BY <1>2, <2>1, <3>1 DEF CreateLock
  <2>2. CASE file # NoFile
    BY <1>2, <2>2 DEF CreateLock
  <2> QED
    BY <2>1, <2>2
<1>3. ASSUME NEW p \in Proc, WritePayload(p) PROVE OwnersHaveTheirFile'
  <2>1. CASE ~stolen
    <3>1. file = [owner |-> p, payload |-> "none"]
      BY <1>3, <2>1 DEF WritePayload
    <3>2. file' = [owner |-> p, payload |-> "pid"]
      BY <1>3, <3>1, NoFileAssumption DEF WritePayload, Owns
    <3>3. \A q \in Proc \ {p} : pc[q] \notin {"write", "held"}
      BY <2>1, <3>1
    <3> QED
      BY <1>3, <3>2, <3>3 DEF WritePayload
  <2>2. CASE stolen
    BY <1>3, <2>2 DEF WritePayload
  <2> QED
    BY <2>1, <2>2
<1>4. ASSUME NEW p \in Proc, WriteFails(p) \/ UnlinkFails(p) \/ Exit(p)
      PROVE  OwnersHaveTheirFile'
  BY <1>4 DEF WriteFails, UnlinkFails, Exit
<1>5. ASSUME NEW p \in Proc, readLock(p) \/ Probe(p) PROVE OwnersHaveTheirFile'
  BY <1>5 DEF readLock, Probe
<1>6. ASSUME NEW p \in Proc, UnlinkStale(p) PROVE OwnersHaveTheirFile'
  <2> SUFFICES ASSUME ~stolen' PROVE \A q \in Proc : pc'[q] \notin {"write", "held"}
    OBVIOUS
  <2>1. ~stolen /\ (file = NoFile \/ file.owner = seen[p])
    BY <1>6 DEF UnlinkStale
  <2>2. pc[seen[p]] \in {"exited", "crashed"}
    BY <1>6 DEF UnlinkStale, SeenIsAnother
  <2>3. \A q \in Proc : pc[q] \in {"write", "held"} => file # NoFile /\ file.owner = q
    BY <2>1, NoFileAssumption
  <2>4. \A q \in Proc : pc[q] \notin {"write", "held"}
    BY <2>1, <2>2, <2>3
  <2> QED
    BY <1>6, <2>4 DEF UnlinkStale
<1>7. ASSUME NEW p \in Proc, Release(p) PROVE OwnersHaveTheirFile'
  <2> SUFFICES ASSUME ~stolen' PROVE \A q \in Proc : pc'[q] \notin {"write", "held"}
    OBVIOUS
  <2>1. ~stolen /\ file = [owner |-> p, payload |-> "pid"]
    BY <1>7 DEF Release
  <2>2. \A q \in Proc \ {p} : pc[q] \notin {"write", "held"}
    BY <2>1
  <2> QED
    BY <1>7, <2>2 DEF Release
<1>8. ASSUME NEW p \in Proc, ReleaseFails(p) \/ Crash(p) PROVE OwnersHaveTheirFile'
  BY <1>8 DEF ReleaseFails, Crash
<1>9. CASE UNCHANGED vars
  BY <1>9 DEF vars
<1> QED
  BY <1>1, <1>2, <1>3, <1>4, <1>5, <1>6, <1>7, <1>8, <1>9 DEF Next, AcquireStep

LEMMA StepCreator == ASSUME IInv, [Next]_vars PROVE FileHasACreator'
<1> USE DEF IInv, TypeOK, Goto, Files, FileHasACreator, Creators, Fillers, Ended
<1>1. ASSUME NEW p \in Proc, Start(p) \/ readLock(p) \/ Probe(p)
                                \/ WriteFails(p) \/ UnlinkFails(p)
      PROVE  FileHasACreator'
  BY <1>1 DEF Start, readLock, Probe, WriteFails, UnlinkFails
<1>2. ASSUME NEW p \in Proc, CreateLock(p) PROVE FileHasACreator'
  BY <1>2 DEF CreateLock
<1>3. ASSUME NEW p \in Proc, WritePayload(p) PROVE FileHasACreator'
  BY <1>3 DEF WritePayload, Owns
<1>4. ASSUME NEW p \in Proc, UnlinkStale(p) \/ Release(p) PROVE FileHasACreator'
  BY <1>4 DEF UnlinkStale, Release
<1>5. ASSUME NEW p \in Proc, ReleaseFails(p) \/ Exit(p) \/ Crash(p) PROVE FileHasACreator'
  BY <1>5 DEF ReleaseFails, Exit, Crash, Live, Acquiring
<1>6. CASE UNCHANGED vars
  BY <1>6 DEF vars
<1> QED
  BY <1>1, <1>2, <1>3, <1>4, <1>5, <1>6 DEF Next, AcquireStep

LEMMA StepSeen == ASSUME IInv, [Next]_vars PROVE SeenIsAnother'
<1> USE DEF IInv, TypeOK, Goto, Files, SeenIsAnother, Fillers
<1>1. ASSUME NEW p \in Proc, readLock(p) PROVE SeenIsAnother'
  <2>1. CASE file # NoFile /\ file.payload = "pid"
    BY <1>1, <2>1 DEF readLock, FileHasACreator
  <2>2. CASE ~(file # NoFile /\ file.payload = "pid")
    BY <1>1, <2>2 DEF readLock
  <2> QED
    BY <2>1, <2>2
<1>2. ASSUME NEW p \in Proc, Probe(p) PROVE SeenIsAnother'
  BY <1>2 DEF Probe, isProcessAlive, Live
<1>3. ASSUME NEW p \in Proc, Start(p) \/ CreateLock(p) \/ WriteFails(p)
      PROVE  SeenIsAnother'
  BY <1>3 DEF Start, CreateLock, WriteFails
<1>4. ASSUME NEW p \in Proc, WritePayload(p) PROVE SeenIsAnother'
  BY <1>4 DEF WritePayload
<1>5. ASSUME NEW p \in Proc, UnlinkStale(p) \/ UnlinkFails(p) PROVE SeenIsAnother'
  BY <1>5 DEF UnlinkStale, UnlinkFails
<1>6. ASSUME NEW p \in Proc, Release(p) \/ ReleaseFails(p) \/ Exit(p) PROVE SeenIsAnother'
  BY <1>6 DEF Release, ReleaseFails, Exit
<1>7. ASSUME NEW p \in Proc, Crash(p) PROVE SeenIsAnother'
  BY <1>7 DEF Crash, Live, Acquiring
<1>8. CASE UNCHANGED vars
  BY <1>8 DEF vars
<1> QED
  BY <1>1, <1>2, <1>3, <1>4, <1>5, <1>6, <1>7, <1>8 DEF Next, AcquireStep

LEMMA StepTheft == ASSUME IInv, [Next]_vars PROVE TheftNeedsThree'
<1> USE DEF IInv
<1>1. ASSUME NEW p \in Proc, UnlinkStale(p) \/ Release(p) PROVE TheftNeedsThree'
  <2>1. CASE stolen'
    BY <1>1, <2>1, TheftIsByThree
  <2>2. CASE ~stolen'
    BY <2>2 DEF TheftNeedsThree
  <2> QED
    BY <2>1, <2>2
<1>2. ASSUME NEW p \in Proc,
             Start(p) \/ CreateLock(p) \/ WritePayload(p) \/ WriteFails(p)
               \/ readLock(p) \/ Probe(p) \/ UnlinkFails(p) \/ ReleaseFails(p) \/ Exit(p) \/ Crash(p)
      PROVE  TheftNeedsThree'
  <2>1. stolen' = stolen /\ \A q \in Proc : pc[q] # "idle" => pc'[q] # "idle"
    BY <1>2 DEF TypeOK, Goto, Start, CreateLock, WritePayload, WriteFails,
                readLock, Probe, UnlinkFails, ReleaseFails, Exit, Crash
  <2> QED
    BY <2>1 DEF TheftNeedsThree
<1>3. CASE UNCHANGED vars
  BY <1>3 DEF vars, TheftNeedsThree
<1> QED
  BY <1>1, <1>2, <1>3 DEF Next, AcquireStep

LEMMA StepIInv == ASSUME IInv, [Next]_vars PROVE IInv'
<1>1. TypeOK'
  BY StepTypeOK DEF IInv
<1> QED
  BY <1>1, StepOwners, StepCreator, StepSeen, StepTheft DEF IInv

LEMMA InvariantHolds == Spec => []IInv
BY InitIInv, StepIInv, PTL DEF Spec

\* Two live processes never both hold the lock unless one was robbed of it.
THEOREM ExclusionHolds == Spec => []ExclusionUnlessStolen
<1>1. IInv => ExclusionUnlessStolen
  <2> SUFFICES ASSUME IInv, ~stolen, NEW p \in Holders, NEW q \in Holders
               PROVE  p = q
    BY DEF ExclusionUnlessStolen, AtMostOneRuntime
  <2>1. /\ file = [owner |-> p, payload |-> "pid"]
        /\ file = [owner |-> q, payload |-> "pid"]
    BY DEF IInv, OwnersHaveTheirFile, Holders
  <2>2. file.owner = p /\ file.owner = q
    BY <2>1
  <2> QED
    BY <2>2
<1> QED
  BY <1>1, InvariantHolds, PTL

\* Robbing takes three process lifetimes, so two runtimes are always safe.
THEOREM TheftTakesThree == Spec => []TheftNeedsThree
<1>1. IInv => TheftNeedsThree
  BY DEF IInv
<1> QED
  BY <1>1, InvariantHolds, PTL
-----------------------------------------------------------------------------
(* The lock as one process sees it: LockTurns, until something is stolen. *)

\* Where p stands decides its phase, what is there decides the lock.
LEMMA Phases ==
    ASSUME NEW p \in Proc
    PROVE  /\ PhaseOf(p) = "outside" <=>
                  pc[p] \notin {"write", "held", "released", "refused", "exited", "crashed"}
           /\ PhaseOf(p) = "inside" <=> pc[p] \in {"write", "held"}
           /\ PhaseOf(p) = "gone" <=> pc[p] \in {"released", "refused", "exited", "crashed"}
BY DEF PhaseOf, Ended

LEMMA Locks ==
    ASSUME NEW p \in Proc
    PROVE  /\ LockOf(p) = "free" <=> file = NoFile
           /\ LockOf(p) = "ours" <=> file # NoFile /\ file.owner = p
           /\ LockOf(p) = "other" <=> file # NoFile /\ file.owner # p
BY DEF LockOf, Owns

\* A file is its creator's, who has been inside, and whoever is inside has it.
LEMMA WhoseFile ==
    ASSUME IInv, NEW p \in Proc
    PROVE  /\ LockOf(p) = "ours" => PhaseOf(p) # "outside"
           /\ ~stolen /\ PhaseOf(p) = "inside" => LockOf(p) = "ours"
<1>1. file # NoFile => pc[file.owner] \in Creators
  BY DEF IInv, FileHasACreator
<1>2. ~stolen /\ pc[p] \in {"write", "held"} => file # NoFile /\ file.owner = p
  BY NoFileAssumption DEF IInv, OwnersHaveTheirFile
<1> QED
  BY <1>1, <1>2, Phases, Locks DEF Creators, Ended

\* Each step is a turn at p's lock or none: another process's step leaves p's phase alone.
LEMMA TurnStep ==
    ASSUME IInv, [Next]_vars, ~stolen', NEW p \in Proc
    PROVE  [View(p)!Next]_(View(p)!vars)
<1> DEFINE Still == LockOf(p)' = LockOf(p) /\ PhaseOf(p)' = PhaseOf(p)
<1>0. Still => UNCHANGED View(p)!vars
  BY DEF View!vars
<1> HIDE DEF Still
<1> USE DEF Goto
<1>1. ASSUME NEW q \in Proc, Start(q) \/ UnlinkFails(q) \/ Exit(q) PROVE Still
  <2>1. file' = file /\ LockOf(p)' = LockOf(p)
    BY <1>1 DEF Start, UnlinkFails, Exit, LockOf, Owns
  <2>2. PhaseOf(p)' = PhaseOf(p)
    BY <1>1 DEF Start, UnlinkFails, Exit, PhaseOf, Ended, IInv, TypeOK
  <2> QED
    BY <2>1, <2>2 DEF Still
<1>2. ASSUME NEW q \in Proc, WritePayload(q) PROVE Still
  <2>1. LockOf(p)' = LockOf(p)
    BY <1>2, NoFileAssumption DEF WritePayload, LockOf, Owns, Files, IInv, TypeOK
  <2>2. PhaseOf(p)' = PhaseOf(p)
    BY <1>2 DEF WritePayload, PhaseOf, Ended, IInv, TypeOK
  <2> QED
    BY <2>1, <2>2 DEF Still
<1>3. ASSUME NEW q \in Proc, CreateLock(q) PROVE Still \/ View(p)!Next
  <2>1. CASE file # NoFile
    <3>1. file' = file /\ LockOf(p)' = LockOf(p)
      BY <1>3, <2>1 DEF CreateLock, LockOf, Owns
    <3>2. PhaseOf(p)' = PhaseOf(p)
      BY <1>3, <2>1 DEF CreateLock, PhaseOf, Ended, IInv, TypeOK
    <3> QED
      BY <3>1, <3>2 DEF Still
  <2>2. CASE file = NoFile
    <3>1. file' # NoFile /\ file'.owner = q
      BY <1>3, <2>2, NoFileAssumption DEF CreateLock
    <3>2. LockOf(p) = "free" /\ LockOf(p)' = IF p = q THEN "ours" ELSE "other"
      BY <2>2, <3>1 DEF LockOf, Owns
    <3>3. CASE p = q
      <4>1. PhaseOf(p) = "outside" /\ PhaseOf(p)' = "inside"
        BY <1>3, <2>2, <3>3 DEF CreateLock, PhaseOf, Ended, IInv, TypeOK
      <4> QED
        BY <3>2, <3>3, <4>1 DEF View!Next, View!Enter
    <3>4. CASE p # q
      <4>1. PhaseOf(p)' = PhaseOf(p)
        BY <1>3, <2>2, <3>4 DEF CreateLock, PhaseOf, Ended, IInv, TypeOK
      <4> QED
        BY <3>2, <3>4, <4>1 DEF View!Next, View!OthersTakeTurns
    <3> QED
      BY <3>3, <3>4
  <2> QED
    BY <2>1, <2>2
<1>4. ASSUME NEW q \in Proc, readLock(q) \/ Probe(q) \/ WriteFails(q) \/ Crash(q)
                               \/ ReleaseFails(q)
      PROVE  Still \/ View(p)!Next
  <2>1. file' = file /\ LockOf(p)' = LockOf(p) /\ stolen' = stolen
    BY <1>4 DEF readLock, Probe, WriteFails, Crash, ReleaseFails, LockOf, Owns
  <2>2. CASE p # q
    <3>1. PhaseOf(p)' = PhaseOf(p)
      BY <1>4, <2>2 DEF readLock, Probe, WriteFails, Crash, ReleaseFails, PhaseOf, Ended, IInv, TypeOK
    <3> QED
      BY <2>1, <3>1 DEF Still
  <2>3. CASE p = q
    <3>1. /\ PhaseOf(p)' = PhaseOf(p) \/ PhaseOf(p)' = "gone"
          /\ PhaseOf(p) \in {"outside", "inside", "gone"}
      BY <1>4, <2>3 DEF readLock, Probe, WriteFails, Crash, ReleaseFails, PhaseOf, Ended, IInv, TypeOK
    <3>2. CASE PhaseOf(p) = "outside"
      BY <2>1, <3>1, <3>2 DEF View!Next, View!StayOut, Still
    <3>3. CASE PhaseOf(p) = "inside"
      <4>1. LockOf(p) = "ours"
        BY <2>1, <3>3, WhoseFile
      <4> QED
        BY <2>1, <3>1, <3>3, <4>1 DEF View!Next, View!Leave, Still
    <3>4. CASE PhaseOf(p) = "gone"
      BY <2>1, <3>1, <3>4 DEF Still
    <3> QED
      BY <3>1, <3>2, <3>3, <3>4
  <2> QED
    BY <2>2, <2>3
<1>5. ASSUME NEW q \in Proc, UnlinkStale(q) PROVE Still \/ View(p)!Next
  <2>1. /\ ~stolen /\ (file = NoFile \/ file.owner = seen[q])
        /\ pc[seen[q]] \in {"exited", "crashed"}
    BY <1>5 DEF UnlinkStale, IInv, SeenIsAnother
  <2>2. LockOf(p)' = "free" /\ PhaseOf(p)' = PhaseOf(p)
    BY <1>5 DEF UnlinkStale, LockOf, PhaseOf, Ended, IInv, TypeOK
  <2>3. CASE LockOf(p) = "free"
    BY <2>2, <2>3 DEF Still
  <2>4. CASE LockOf(p) = "other"
    BY <2>2, <2>4 DEF View!Next, View!OthersTakeTurns
  <2>5. CASE LockOf(p) = "ours"
    <3>1. PhaseOf(p) = "gone"
      BY <2>1, <2>5, Locks, Phases
    <3> QED
      BY <2>2, <2>5, <3>1 DEF View!Next, View!OthersTakeTurns
  <2> QED
    BY <2>3, <2>4, <2>5 DEF LockOf
<1>6. ASSUME NEW q \in Proc, Release(q) PROVE Still \/ View(p)!Next
  <2>0. ~stolen /\ file = [owner |-> q, payload |-> "pid"]
    BY <1>6 DEF Release, IInv, TypeOK, OwnersHaveTheirFile
  <2>1. file # NoFile /\ file.owner = q
    BY <2>0, NoFileAssumption
  <2>2. LockOf(p) = (IF p = q THEN "ours" ELSE "other") /\ LockOf(p)' = "free"
    BY <1>6, <2>1 DEF Release, LockOf, Owns
  <2>3. CASE p = q
    <3>1. PhaseOf(p) = "inside" /\ PhaseOf(p)' = "gone"
      BY <1>6, <2>3 DEF Release, PhaseOf, Ended, IInv, TypeOK
    <3> QED
      BY <2>2, <2>3, <3>1 DEF View!Next, View!Leave
  <2>4. CASE p # q
    <3>1. PhaseOf(p)' = PhaseOf(p)
      BY <1>6, <2>4 DEF Release, PhaseOf, Ended, IInv, TypeOK
    <3> QED
      BY <2>2, <2>4, <3>1 DEF View!Next, View!OthersTakeTurns
  <2> QED
    BY <2>3, <2>4
<1>7. UNCHANGED vars => Still
  BY DEF Still, vars, LockOf, PhaseOf, Owns
<1> QED
  BY <1>0, <1>1, <1>2, <1>3, <1>4, <1>5, <1>6, <1>7 DEF Next, AcquireStep

\* Until a theft every process sees the others take turns at the lock, and none that is
\* alive loses it: how other runtimes move the lock in RunLifecycle (OtherRuntime) until
\* the process is robbed.
THEOREM TurnsAreTaken == Spec => TurnsUnlessStolen
<1>1. Init => \A p \in Proc : View(p)!Init
  BY DEF Init, View!Init, LockOf, PhaseOf, Ended
<1>2. IInv /\ [Next]_vars
        => [~stolen' => \A p \in Proc : [View(p)!Next]_(View(p)!vars)]_vars
  BY TurnStep
<1> QED
  BY <1>1, <1>2, InvariantHolds, PTL DEF Spec, TurnsUnlessStolen
=============================================================================
