-------------------------- MODULE ObservationProofs --------------------------
(***************************************************************************)
(* What the two parts that read the game after an action promise: the      *)
(* successor watcher, for every set of snapshots, deadline and duration of *)
(* a read, and the cycle guard, for any pages, any actions and any number  *)
(* of ticks.  The two specifications share no variable.                    *)
(***************************************************************************)
EXTENDS SuccessorWatcher, ProgressCycleGuard, TLAPS

-----------------------------------------------------------------------------
(* The successor watcher                                                   *)

\* The candidate was seen, and since then only the pre-state.
CandidateSeen ==
    status = "watching" /\ stableCandidate # Nothing => \E i \in 1 .. Len(log) :
        /\ isSemanticCheckpoint(log[i])
        /\ log[i].snapshot = stableCandidate.snapshot
        /\ \A j \in i + 1 .. Len(log) : log[j] # Drift /\ StillBefore(log[j])

\* A page that could settle the watch is the candidate until the next poll.
LastIsCandidate ==
    /\ status = "watching"
    /\ Len(log) > 0
    /\ Fresh(log[Len(log)])
    => stableCandidate.snapshot = log[Len(log)].snapshot

NoneMissed == status = "watching" => \A i \in 1 .. Len(log) : ~Missed(i)

IInv ==
    /\ TypeOK
    /\ CandidateSeen
    /\ LastIsCandidate
    /\ NoneMissed
    /\ SettledIsNews
    /\ SettledIsRepeated
    /\ TimeoutIsHonest

-----------------------------------------------------------------------------
LEMMA InitType == Init => TypeOK
  BY DEF Init, TypeOK, Readings, Nothing

LEMMA NextType == TypeOK /\ [Next]_vars => TypeOK'
<1> SUFFICES ASSUME TypeOK, [Next]_vars PROVE TypeOK'
  OBVIOUS
<1>1. ASSUME Poll PROVE elapsed' \in Nat
  BY <1>1 DEF Poll, TypeOK
<1>2. CASE ReadDrift
  BY <1>1, <1>2 DEF TypeOK, ReadDrift, Poll
<1>3. CASE ReadFails
  BY <1>1, <1>3 DEF TypeOK, ReadFails, Poll
<1>4. CASE Deadline
  BY <1>4 DEF TypeOK, Deadline
<1>5. ASSUME NEW r \in Readings,
             ReadBefore(r) \/ ReadResting(r) \/ ReadMoving(r)
               \/ ReadCandidate(r) \/ ReadRepeated(r)
      PROVE TypeOK'
  <2>1. Observe(r)
    BY <1>5 DEF ReadBefore, ReadResting, ReadMoving, ReadCandidate, ReadRepeated
  <2>2. elapsed' \in Nat /\ lastChanged' \in Readings \cup {Nothing}
    BY <1>1, <2>1 DEF Observe, TypeOK
  <2>3. log' \in Seq(Readings \cup {Drift})
    BY <2>1 DEF Observe, TypeOK
  <2> QED
    BY <1>5, <2>2, <2>3 DEF TypeOK, ReadBefore, ReadResting, ReadMoving,
       ReadCandidate, ReadRepeated, Settle
<1>6. CASE UNCHANGED vars
  BY <1>6 DEF TypeOK, vars
<1> QED
  BY <1>2, <1>3, <1>4, <1>5, <1>6 DEF Next

\* The readings, the results and the result so far all have their types.
THEOREM TypeCorrect == Spec => []TypeOK
<1>1. Init => TypeOK
  BY InitType
<1>2. TypeOK /\ [Next]_vars => TypeOK'
  BY NextType
<1> QED
  BY <1>1, <1>2, PTL DEF Spec

-----------------------------------------------------------------------------
\* What one more observation does to the log.
LEMMA OneMore ==
    ASSUME NEW S, NEW s \in Seq(S), NEW o \in S
    PROVE  /\ Append(s, o) \in Seq(S)
           /\ Len(Append(s, o)) = Len(s) + 1
           /\ Append(s, o)[Len(s) + 1] = o
           /\ \A i \in 1 .. Len(s) : Append(s, o)[i] = s[i]
  OBVIOUS

\* The receipt and the authority are given once and for all.
LEMMA SameEyes ==
    ASSUME [Next]_vars
    PROVE  authority' = authority /\ confirmed' = confirmed
  BY DEF Next, vars, ReadDrift, ReadFails, Deadline, ReadBefore, ReadResting,
     ReadMoving, ReadCandidate, ReadRepeated

\* What was missed among the earlier readings is not changed by a later one.
LEMMA MissedStays ==
    ASSUME TypeOK, [Next]_vars, NEW o \in Readings \cup {Drift},
           log' = Append(log, o), NEW i \in 1 .. Len(log)
    PROVE  Missed(i)' <=> Missed(i)
<1>1. log'[i] = log[i] /\ (i > 1 => log'[i - 1] = log[i - 1])
  BY DEF TypeOK
<1> QED
  BY <1>1, SameEyes DEF Missed, Fresh, StillBefore, environmentSnapshotId

\* A poll misses nothing unless it could have settled the watch.
LEMMA NothingMissed ==
    ASSUME IInv, [Next]_vars, NEW o \in Readings \cup {Drift},
           status = "watching", log' = Append(log, o),
           \/ ~Fresh(o)
           \/ /\ stableCandidate.snapshot # o.snapshot
              /\ authority = "adapter_confirmed" => o.stability # "non_actionable"
    PROVE  \A i \in 1 .. Len(log') : ~Missed(i)'
<1> SUFFICES ASSUME NEW i \in 1 .. Len(log'), Missed(i)'
             PROVE FALSE
  OBVIOUS
<1>1. /\ Len(log) \in Nat /\ Len(log') = Len(log) + 1
      /\ log'[Len(log) + 1] = o
      /\ \A j \in 1 .. Len(log) : log'[j] = log[j]
  BY DEF IInv, TypeOK
<1>2. CASE i \in 1 .. Len(log)
  <2>1. Missed(i)
    BY <1>2, MissedStays DEF IInv
  <2> QED
    BY <1>2, <2>1 DEF IInv, NoneMissed
<1>3. CASE i = Len(log) + 1
  <2>1. Fresh(o)
    BY <1>1, <1>3, SameEyes DEF Missed, Fresh, StillBefore, environmentSnapshotId
  <2>2. ~(authority = "adapter_confirmed" /\ o.stability = "non_actionable")
    BY <2>1
  <2>3. /\ Len(log) > 0
        /\ Fresh(log[Len(log)])
        /\ o.snapshot = log[Len(log)].snapshot
    BY <1>1, <1>3, <2>2, SameEyes DEF Missed, Fresh, StillBefore, environmentSnapshotId
  <2> QED
    BY <2>1, <2>3 DEF IInv, LastIsCandidate
<1> QED
  BY <1>1, <1>2, <1>3

-----------------------------------------------------------------------------
LEMMA InitIInv == Init => IInv
  BY InitType DEF Init, IInv, CandidateSeen, LastIsCandidate, NoneMissed,
     SettledIsNews, SettledIsRepeated, TimeoutIsHonest

LEMMA NextIInv == IInv /\ [Next]_vars => IInv'
<1> SUFFICES ASSUME IInv, [Next]_vars PROVE IInv'
  OBVIOUS
<1>t. TypeOK /\ TypeOK'
  BY NextType DEF IInv
<1>e. /\ authority' = authority /\ confirmed' = confirmed
      /\ \A o : StillBefore(o)' <=> StillBefore(o)
      /\ \A o : Fresh(o)' <=> Fresh(o)
  BY SameEyes DEF StillBefore, Fresh, environmentSnapshotId
<1>n. \A r \in Readings : r # Drift /\ r # Nothing /\ r.snapshot # NoSnapshot
  BY WatchAssumption DEF Readings, Drift, Nothing
<1>1. CASE ReadDrift
  <2>1. /\ status = "watching" /\ status' = "watching"
        /\ stableCandidate' = Nothing /\ log' = Append(log, Drift)
    BY <1>1 DEF ReadDrift, Poll
  <2>2. NoneMissed'
    BY <2>1, NothingMissed DEF NoneMissed, Fresh
  <2>3. LastIsCandidate'
    BY <2>1, <1>t, <1>e DEF LastIsCandidate, Fresh, TypeOK
  <2> QED
    BY <2>1, <2>2, <2>3, <1>t DEF IInv, CandidateSeen, SettledIsNews,
       SettledIsRepeated, TimeoutIsHonest
<1>2. CASE ReadFails
  BY <1>2, <1>t, <1>e DEF IInv, ReadFails, CandidateSeen, LastIsCandidate,
     NoneMissed, SettledIsNews, SettledIsRepeated, TimeoutIsHonest
<1>3. CASE Deadline
  <2>1. TimeoutIsHonest'
    BY <1>3, <1>e DEF IInv, Deadline, NoneMissed, TimeoutIsHonest, Missed
  <2> QED
    BY <1>3, <2>1, <1>t, <1>e DEF IInv, Deadline, CandidateSeen,
       LastIsCandidate, NoneMissed, SettledIsNews, SettledIsRepeated
<1>4. ASSUME NEW r \in Readings, ReadBefore(r) PROVE IInv'
  <2>1. /\ status = "watching" /\ status' = "watching" /\ StillBefore(r)
        /\ stableCandidate' = stableCandidate /\ log' = Append(log, r)
    BY <1>4 DEF ReadBefore, Observe, Poll
  <2>2. NoneMissed'
    BY <2>1, NothingMissed DEF NoneMissed, Fresh
  <2>3. LastIsCandidate'
    BY <2>1, <1>t, <1>e DEF LastIsCandidate, Fresh, TypeOK
  <2>4. CandidateSeen'
    <3> SUFFICES ASSUME stableCandidate # Nothing
                 PROVE  CandidateSeen'
      BY <2>1 DEF CandidateSeen, Nothing
    <3>1. PICK i \in 1 .. Len(log) :
            /\ isSemanticCheckpoint(log[i])
            /\ log[i].snapshot = stableCandidate.snapshot
            /\ \A j \in i + 1 .. Len(log) : log[j] # Drift /\ StillBefore(log[j])
      BY <2>1 DEF IInv, CandidateSeen
    <3>2. /\ Len(log) \in Nat /\ Len(log') = Len(log) + 1
          /\ log'[Len(log) + 1] = r
          /\ \A j \in 1 .. Len(log) : log'[j] = log[j]
      BY <2>1, <1>t DEF TypeOK
    <3>3. isSemanticCheckpoint(log'[i]) /\ log'[i].snapshot = stableCandidate.snapshot
      BY <3>1, <3>2
    <3>4. \A j \in i + 1 .. Len(log') : log'[j] # Drift /\ StillBefore(log'[j])
      BY <3>1, <3>2, <2>1, <1>n
    <3> QED
      BY <2>1, <3>2, <3>3, <3>4, <1>e DEF CandidateSeen, isSemanticCheckpoint
  <2> QED
    BY <2>1, <2>2, <2>3, <2>4, <1>t DEF IInv, SettledIsNews,
       SettledIsRepeated, TimeoutIsHonest
<1>5. ASSUME NEW r \in Readings, ReadResting(r) PROVE IInv'
  <2>1. /\ status' = "settled" /\ after' = r /\ r.stability = "non_actionable"
        /\ stableCandidate' = stableCandidate /\ ~StillBefore(r)
    BY <1>5 DEF ReadResting, Settle
  <2>2. SettledIsNews'
    BY <2>1, <1>e, <1>5 DEF SettledIsNews, StillBefore, environmentSnapshotId, ReadResting
  <2> QED
    BY <2>1, <2>2, <1>t DEF IInv, SettledIsRepeated, TimeoutIsHonest,
       NoneMissed, LastIsCandidate, CandidateSeen
<1>6. ASSUME NEW r \in Readings, ReadMoving(r) PROVE IInv'
  <2>1. /\ status = "watching" /\ status' = "watching"
        /\ ~isSemanticCheckpoint(r)
        /\ stableCandidate' = Nothing /\ log' = Append(log, r)
    BY <1>6 DEF ReadMoving, Observe, Poll
  <2>2. NoneMissed'
    BY <2>1, NothingMissed DEF NoneMissed, Fresh
  <2>3. LastIsCandidate'
    BY <2>1, <1>t, <1>e DEF LastIsCandidate, Fresh, TypeOK
  <2> QED
    BY <2>1, <2>2, <2>3, <1>t DEF IInv, CandidateSeen, SettledIsNews,
       SettledIsRepeated, TimeoutIsHonest
<1>7. ASSUME NEW r \in Readings, ReadCandidate(r) PROVE IInv'
  <2>1. /\ status = "watching" /\ status' = "watching" /\ MustRepeat(r)
        /\ stableCandidate.snapshot # r.snapshot
        /\ stableCandidate' = r /\ log' = Append(log, r)
    BY <1>7 DEF ReadCandidate, Observe, Poll
  <2>2. NoneMissed'
    BY <2>1, NothingMissed DEF NoneMissed, MustRepeat
  <2>3. /\ Len(log) \in Nat /\ Len(log') = Len(log) + 1
        /\ log'[Len(log) + 1] = r
    BY <2>1, <1>t DEF TypeOK
  <2>4. LastIsCandidate'
    BY <2>1, <2>3 DEF LastIsCandidate
  <2>5. CandidateSeen'
    <3>1. isSemanticCheckpoint(r)
      BY <2>1 DEF MustRepeat
    <3>2. Len(log') \in 1 .. Len(log') /\ Len(log') + 1 .. Len(log') = {}
      BY <2>3
    <3> QED
      BY <2>1, <2>3, <3>1, <3>2 DEF CandidateSeen, isSemanticCheckpoint
  <2> QED
    BY <2>1, <2>2, <2>4, <2>5, <1>t DEF IInv, SettledIsNews,
       SettledIsRepeated, TimeoutIsHonest
<1>8. ASSUME NEW r \in Readings, ReadRepeated(r) PROVE IInv'
  <2>1. /\ status = "watching" /\ status' = "settled" /\ after' = r
        /\ MustRepeat(r) /\ stableCandidate.snapshot = r.snapshot
        /\ log' = Append(log, r)
    BY <1>8 DEF ReadRepeated, Observe, Poll, Settle
  <2>2. SettledIsNews'
    BY <2>1, <1>e DEF SettledIsNews, MustRepeat, isSemanticCheckpoint,
       StillBefore, environmentSnapshotId
  <2>3. SettledIsRepeated'
    <3>1. PICK i \in 1 .. Len(log) :
            /\ isSemanticCheckpoint(log[i])
            /\ log[i].snapshot = stableCandidate.snapshot
            /\ \A j \in i + 1 .. Len(log) : log[j] # Drift /\ StillBefore(log[j])
      BY <2>1, <1>n DEF IInv, CandidateSeen, Nothing
    <3>2. /\ Len(log) \in Nat /\ Len(log') = Len(log) + 1
          /\ \A j \in 1 .. Len(log) : log'[j] = log[j]
      BY <2>1, <1>t DEF TypeOK
    <3>3. i \in 1 .. Len(log') - 1 /\ Len(log') - 1 = Len(log)
      BY <3>2
    <3>4. SeenTwice(i)'
      BY <2>1, <3>1, <3>2, <3>3, <1>e DEF SeenTwice, isSemanticCheckpoint
    <3> QED
      BY <3>3, <3>4 DEF SettledIsRepeated
  <2> QED
    BY <2>1, <2>2, <2>3, <1>t DEF IInv, CandidateSeen, LastIsCandidate,
       NoneMissed, TimeoutIsHonest
<1>9. CASE UNCHANGED vars
  <2>1. \A i : Missed(i)' <=> Missed(i)
    BY <1>9, <1>e DEF vars, Missed
  <2>2. \A i : SeenTwice(i)' <=> SeenTwice(i)
    BY <1>9, <1>e DEF vars, SeenTwice, isSemanticCheckpoint
  <2> QED
    BY <1>9, <2>1, <2>2, <1>t, <1>e DEF vars, IInv, CandidateSeen, LastIsCandidate,
       NoneMissed, SettledIsNews, SettledIsRepeated, TimeoutIsHonest,
       isSemanticCheckpoint
<1> QED
  BY <1>1, <1>2, <1>3, <1>4, <1>5, <1>6, <1>7, <1>8, <1>9 DEF Next

LEMMA Invariant == Spec => []IInv
<1>1. Init => IInv
  BY InitIInv
<1>2. IInv /\ [Next]_vars => IInv'
  BY NextIInv
<1> QED
  BY <1>1, <1>2, PTL DEF Spec

\* Once the receipt has named a successor, the pre-state never passes for one.
THEOREM SuccessorIsNews == Spec => []SettledIsNews
<1>1. IInv => SettledIsNews
  BY DEF IInv
<1> QED
  BY <1>1, Invariant, PTL

\* An actionable successor was seen twice with nothing but the pre-state in
\* between, whatever the game showed and however long the reads took.
THEOREM SuccessorRepeats == Spec => []SettledIsRepeated
<1>1. IInv => SettledIsRepeated
  BY DEF IInv
<1> QED
  BY <1>1, Invariant, PTL

\* The watcher never gives up on a successor it could have settled on.
THEOREM TimeoutsAreHonest == Spec => []TimeoutIsHonest
<1>1. IInv => TimeoutIsHonest
  BY DEF IInv
<1> QED
  BY <1>1, Invariant, PTL

-----------------------------------------------------------------------------
\* The observations that differ from the pre-state.
Changes == {i \in 1 .. Len(log) : log[i] # Drift /\ log[i].snapshot # Before}

\* lastChanged is the latest of them, and the result of a timeout.
LastChangeKept ==
    /\ \/ Changes = {} /\ lastChanged = Nothing
       \/ \E i \in Changes : (\A j \in Changes : j <= i) /\ lastChanged = log[i]
    /\ status = "timeout" => after = lastChanged

\* One more reading becomes the last change exactly if it is one.
LEMMA ObserveKeeps ==
    ASSUME TypeOK, LastChangeKept, NEW r \in Readings, Observe(r),
           status' # "timeout"
    PROVE  LastChangeKept'
<1>1. /\ Len(log) \in Nat /\ Len(log') = Len(log) + 1
      /\ log'[Len(log) + 1] = r
      /\ \A i \in 1 .. Len(log) : log'[i] = log[i]
  BY DEF TypeOK, Observe
<1>2. r # Drift
  BY WatchAssumption DEF Readings, Drift
<1>3. CASE r.snapshot # Before
  <2>1. Len(log) + 1 \in Changes' /\ \A j \in Changes' : j <= Len(log) + 1
    BY <1>1, <1>2, <1>3 DEF Changes
  <2>2. lastChanged' = log'[Len(log) + 1]
    BY <1>1, <1>3 DEF Observe
  <2> QED
    BY <2>1, <2>2 DEF LastChangeKept
<1>4. CASE r.snapshot = Before
  <2>1. Changes' = Changes
    BY <1>1, <1>4 DEF Changes
  <2>2. \A i \in Changes : log'[i] = log[i]
    BY <1>1 DEF Changes
  <2>3. lastChanged' = lastChanged
    BY <1>4 DEF Observe
  <2> QED
    BY <2>1, <2>2, <2>3 DEF LastChangeKept
<1> QED
  BY <1>3, <1>4

LEMMA NextKept == TypeOK /\ LastChangeKept /\ [Next]_vars => LastChangeKept'
<1> SUFFICES ASSUME TypeOK, LastChangeKept, [Next]_vars PROVE LastChangeKept'
  OBVIOUS
<1>1. CASE ReadDrift
  <2>1. /\ Len(log) \in Nat /\ Len(log') = Len(log) + 1
        /\ log'[Len(log) + 1] = Drift
        /\ \A i \in 1 .. Len(log) : log'[i] = log[i]
    BY <1>1 DEF TypeOK, ReadDrift
  <2>2. Changes' = Changes /\ \A i \in Changes : log'[i] = log[i]
    BY <2>1 DEF Changes
  <2> QED
    BY <1>1, <2>2 DEF LastChangeKept, ReadDrift, Poll
<1>2. CASE ReadFails
  BY <1>2 DEF LastChangeKept, Changes, ReadFails
<1>3. CASE Deadline
  BY <1>3 DEF LastChangeKept, Changes, Deadline
<1>4. ASSUME NEW r \in Readings,
             ReadBefore(r) \/ ReadResting(r) \/ ReadMoving(r)
               \/ ReadCandidate(r) \/ ReadRepeated(r)
      PROVE LastChangeKept'
  <2>1. Observe(r) /\ status' # "timeout"
    BY <1>4 DEF ReadBefore, ReadResting, ReadMoving, ReadCandidate, ReadRepeated,
       Observe, Poll, Settle
  <2> QED
    BY <2>1, ObserveKeeps
<1>5. CASE UNCHANGED vars
  BY <1>5 DEF LastChangeKept, Changes, vars
<1> QED
  BY <1>1, <1>2, <1>3, <1>4, <1>5 DEF Next

\* A watch that timed out hands over the last change it observed, if any.
THEOREM TimeoutKeeps == Spec => []TimeoutKeepsLastChange
<1>1. Init => LastChangeKept
  BY DEF Init, LastChangeKept, Changes
<1>2. TypeOK /\ LastChangeKept /\ [Next]_vars => LastChangeKept'
  BY NextKept
<1>3. TypeOK /\ LastChangeKept => TimeoutKeepsLastChange
  <2> SUFFICES ASSUME TypeOK, LastChangeKept, status = "timeout"
               PROVE  after = LastChange
    BY DEF TimeoutKeepsLastChange
  <2>1. CASE Changes = {}
    BY <2>1 DEF LastChangeKept, LastChange, Changes
  <2>2. CASE Changes # {}
    <3>1. PICK i \in Changes : (\A j \in Changes : j <= i) /\ lastChanged = log[i]
      BY <2>2 DEF LastChangeKept
    <3>2. \A k \in Changes : (\A j \in Changes : j <= k) => k = i
      BY <3>1 DEF Changes, TypeOK
    <3>3. (CHOOSE k \in Changes : \A j \in Changes : j <= k) = i
      BY <3>1, <3>2
    <3>4. LastChange = log[CHOOSE k \in Changes : \A j \in Changes : j <= k]
      BY <2>2 DEF LastChange, Changes
    <3> QED
      BY <3>1, <3>3, <3>4 DEF LastChangeKept
  <2> QED
    BY <2>1, <2>2
<1> QED
  BY <1>1, <1>2, <1>3, TypeCorrect, PTL DEF Spec

-----------------------------------------------------------------------------
(* The cycle guard                                                         *)

\* The transition lists hold exactly what was counted.
ListsAreCounts ==
    \A x, y \in Pages, a \in Actions :
        <<a, y>> \in transitions[x] <=> Times(x, a, y) >= 1

\* Of a circle walked twice each way one step is withheld.
OneWayWithheld ==
    \A x, y \in Pages, a, b \in Actions :
        Times(x, a, y) >= 2 /\ Times(y, b, x) >= 2 =>
            a \in suppressedActions[x] \/ b \in suppressedActions[y]

GuardIInv ==
    /\ GuardTypeOK
    /\ ListsAreCounts
    /\ OneWayWithheld
    /\ SuppressionIsProven
    /\ UnreturnedRepeatStops

-----------------------------------------------------------------------------
LEMMA GuardInitType == GuardInit => GuardTypeOK
  BY TicksAssumption DEF GuardInit, GuardTypeOK

LEMMA GuardNextType == GuardTypeOK /\ [GuardNext]_guardVars => GuardTypeOK'
<1> SUFFICES ASSUME GuardTypeOK, [GuardNext]_guardVars PROVE GuardTypeOK'
  OBVIOUS
<1>1. ASSUME NEW x \in Pages, NEW y \in Pages, NEW a \in Actions, observe(x, a, y)
      PROVE  GuardTypeOK'
  <2>1. Tick(x, a, y)
    BY <1>1 DEF observe, ObserveNew, ObserveReturning, ObserveRepeated
  <2>2. <<x, a, y>> \in Keys /\ occurrences[<<x, a, y>>] + 1 \in Nat
    BY DEF GuardTypeOK, Keys
  <2>3. occurrences' \in [Keys -> Nat]
    BY <2>1, <2>2 DEF Tick, GuardTypeOK
  <2>4. legal' = legal /\ tick' \in 0 .. MaxTicks
    BY <2>1, TicksAssumption DEF Tick, GuardTypeOK
  <2>5. transitions' \in [Pages -> SUBSET (Actions \X Pages)]
    BY <2>1 DEF Tick, GuardTypeOK
  <2>6. suppressedActions' \in [Pages -> SUBSET Actions]
    BY <1>1 DEF GuardTypeOK, observe, ObserveNew, ObserveReturning, ObserveRepeated,
       reverseActions
  <2>7. stopped' \in {"no", "yes"}
    BY <1>1 DEF GuardTypeOK, observe, ObserveNew, ObserveReturning, ObserveRepeated
  <2> QED
    BY <2>3, <2>4, <2>5, <2>6, <2>7 DEF GuardTypeOK
<1>2. CASE UNCHANGED guardVars
  BY <1>2 DEF GuardTypeOK, guardVars
<1> QED
  BY <1>1, <1>2 DEF GuardNext

\* The guard's maps keep their types.
THEOREM GuardTypeCorrect == GuardSpec => []GuardTypeOK
<1>1. GuardInit => GuardTypeOK
  BY GuardInitType
<1>2. GuardTypeOK /\ [GuardNext]_guardVars => GuardTypeOK'
  BY GuardNextType
<1> QED
  BY <1>1, <1>2, PTL DEF GuardSpec

-----------------------------------------------------------------------------
\* One tick counts one transition and forgets none.
LEMMA Counting ==
    ASSUME GuardTypeOK, NEW x \in Pages, NEW y \in Pages, NEW a \in Actions,
           Tick(x, a, y)
    PROVE  /\ \A u, v \in Pages, b \in Actions : Times(u, b, v) \in Nat
           /\ Times(x, a, y)' = Times(x, a, y) + 1
           /\ \A u, v \in Pages, b \in Actions :
                ~(u = x /\ v = y /\ b = a) => Times(u, b, v)' = Times(u, b, v)
           /\ \A u, v \in Pages, b \in Actions : Times(u, b, v)' >= Times(u, b, v)
<1>1. \A u, v \in Pages, b \in Actions :
        <<u, b, v>> \in Keys /\ occurrences[<<u, b, v>>] \in Nat
  BY DEF GuardTypeOK, Keys
<1>2. occurrences' = [occurrences EXCEPT ![<<x, a, y>>] = occurrences[<<x, a, y>>] + 1]
  BY DEF Tick
<1>3. occurrences'[<<x, a, y>>] = occurrences[<<x, a, y>>] + 1
  BY <1>1, <1>2 DEF GuardTypeOK
<1>4. \A u, v \in Pages, b \in Actions : ~(u = x /\ v = y /\ b = a) =>
        occurrences'[<<u, b, v>>] = occurrences[<<u, b, v>>]
  BY <1>1, <1>2 DEF GuardTypeOK
<1> QED
  BY <1>1, <1>3, <1>4 DEF Times

\* Nothing that is withheld is ever offered again.
LEMMA Withholding ==
    ASSUME GuardTypeOK, NEW x \in Pages, NEW y \in Pages, NEW a \in Actions,
           observe(x, a, y)
    PROVE  \A u \in Pages : suppressedActions[u] \subseteq suppressedActions'[u]
  BY DEF GuardTypeOK, observe, ObserveNew, ObserveReturning, ObserveRepeated

LEMMA GuardInitIInv == GuardInit => GuardIInv
<1> SUFFICES ASSUME GuardInit PROVE GuardIInv
  OBVIOUS
<1>1. \A x, y \in Pages, a \in Actions : Times(x, a, y) = 0 /\ transitions[x] = {}
  BY DEF GuardInit, Keys, Times
<1> QED
  BY <1>1, GuardInitType DEF GuardInit, GuardIInv, ListsAreCounts, OneWayWithheld,
     SuppressionIsProven, UnreturnedRepeatStops

LEMMA GuardNextIInv == GuardIInv /\ [GuardNext]_guardVars => GuardIInv'
<1> SUFFICES ASSUME GuardIInv, [GuardNext]_guardVars PROVE GuardIInv'
  OBVIOUS
<1>t. GuardTypeOK /\ GuardTypeOK'
  BY GuardNextType DEF GuardIInv
<1>1. ASSUME NEW x \in Pages, NEW y \in Pages, NEW a \in Actions, observe(x, a, y)
      PROVE  GuardIInv'
  <2>1. Tick(x, a, y)
    BY <1>1 DEF observe, ObserveNew, ObserveReturning, ObserveRepeated
  <2>2. /\ \A u, v \in Pages, b \in Actions : Times(u, b, v) \in Nat
        /\ Times(x, a, y)' = Times(x, a, y) + 1
        /\ \A u, v \in Pages, b \in Actions :
             ~(u = x /\ v = y /\ b = a) => Times(u, b, v)' = Times(u, b, v)
        /\ \A u, v \in Pages, b \in Actions : Times(u, b, v)' >= Times(u, b, v)
    BY <1>t, <2>1, Counting
  <2>3. \A u \in Pages : suppressedActions[u] \subseteq suppressedActions'[u]
    BY <1>1, <1>t, Withholding
  <2>4. Repeats(x, a, y) <=> Times(x, a, y) >= 1
    BY DEF Repeats, Times
  <2>5. \A b \in Actions : b \in reverseActions(x, y) <=> Times(y, b, x) >= 1
    BY DEF reverseActions, GuardIInv, ListsAreCounts
  <2>6. ListsAreCounts'
    <3> SUFFICES ASSUME NEW u \in Pages, NEW v \in Pages, NEW b \in Actions
                 PROVE  <<b, v>> \in transitions'[u] <=> Times(u, b, v)' >= 1
      BY DEF ListsAreCounts
    <3>1. <<b, v>> \in transitions'[u]
            <=> <<b, v>> \in transitions[u] \/ (u = x /\ v = y /\ b = a)
      BY <2>1, <1>t DEF Tick, GuardTypeOK
    <3>2. <<b, v>> \in transitions[u] <=> Times(u, b, v) >= 1
      BY DEF GuardIInv, ListsAreCounts
    <3> QED
      BY <3>1, <3>2, <2>2
  <2>7. OneWayWithheld'
    <3>1. ASSUME NEW b \in Actions, Times(x, a, y)' >= 2, Times(y, b, x)' >= 2
          PROVE  a \in suppressedActions'[x] \/ b \in suppressedActions'[y]
      <4>1. CASE Times(x, a, y) >= 2 /\ Times(y, b, x) >= 2
        BY <4>1, <2>3 DEF GuardIInv, OneWayWithheld
      <4>2. CASE ~(Times(x, a, y) >= 2 /\ Times(y, b, x) >= 2)
        <5>1. Times(x, a, y) >= 1 /\ Times(y, b, x) >= 1
          BY <3>1, <2>2
        <5>2. ObserveReturning(x, a, y)
          BY <5>1, <1>1, <2>4, <2>5 DEF observe, ObserveNew, ObserveRepeated
        <5> QED
          BY <5>1, <5>2, <2>5, <1>t DEF ObserveReturning, GuardTypeOK
      <4> QED
        BY <4>1, <4>2
    <3> SUFFICES ASSUME NEW u \in Pages, NEW v \in Pages,
                        NEW b \in Actions, NEW c \in Actions,
                        Times(u, b, v)' >= 2, Times(v, c, u)' >= 2
                 PROVE  b \in suppressedActions'[u] \/ c \in suppressedActions'[v]
      BY DEF OneWayWithheld
    <3>2. CASE u = x /\ v = y /\ b = a
      BY <3>1, <3>2
    <3>3. CASE v = x /\ u = y /\ c = a
      BY <3>1, <3>3
    <3>4. CASE ~(u = x /\ v = y /\ b = a) /\ ~(v = x /\ u = y /\ c = a)
      <4>1. Times(u, b, v) >= 2 /\ Times(v, c, u) >= 2
        BY <3>4, <2>2
      <4> QED
        BY <4>1, <2>3 DEF GuardIInv, OneWayWithheld
    <3> QED
      BY <3>2, <3>3, <3>4
  <2>8. SuppressionIsProven'
    <3> SUFFICES ASSUME NEW u \in Pages, NEW b \in Actions,
                        b \in suppressedActions'[u]
                 PROVE  \E v \in Pages, c \in Actions :
                          Times(u, b, v)' >= 1 /\ Times(v, c, u)' >= 2
      BY DEF SuppressionIsProven
    <3>1. CASE b \in suppressedActions[u]
      <4>1. PICK v \in Pages, c \in Actions :
              Times(u, b, v) >= 1 /\ Times(v, c, u) >= 2
        BY <3>1 DEF GuardIInv, SuppressionIsProven
      <4>2. /\ Times(u, b, v) \in Nat /\ Times(v, c, u) \in Nat
            /\ Times(u, b, v)' >= Times(u, b, v)
            /\ Times(v, c, u)' >= Times(v, c, u)
            /\ Times(u, b, v)' \in Nat /\ Times(v, c, u)' \in Nat
        BY <2>2
      <4> QED
        BY <4>1, <4>2
    <3>2. CASE b \notin suppressedActions[u]
      <4>1. /\ ObserveReturning(x, a, y) /\ u = y /\ b \in reverseActions(x, y)
        BY <3>2, <1>1, <1>t DEF observe, ObserveNew, ObserveReturning,
           ObserveRepeated, GuardTypeOK
      <4>2. Times(y, b, x) >= 1 /\ Times(x, a, y) >= 1
        BY <4>1, <2>4, <2>5 DEF ObserveReturning
      <4>3. Times(y, b, x)' >= 1 /\ Times(x, a, y)' >= 2
        BY <4>2, <2>2
      <4> QED
        BY <4>1, <4>3
    <3> QED
      BY <3>1, <3>2
  <2>9. UnreturnedRepeatStops'
    <3> SUFFICES ASSUME NEW u \in Pages, NEW v \in Pages, NEW b \in Actions,
                        Times(u, b, v)' >= 2, stopped' # "yes"
                 PROVE  \E c \in Actions : Times(v, c, u)' >= 1
      BY DEF UnreturnedRepeatStops
    <3>1. \E c \in Actions : Times(v, c, u) >= 1
      <4>1. CASE Times(u, b, v) >= 2
        BY <4>1, <2>1 DEF GuardIInv, UnreturnedRepeatStops, Tick
      <4>2. CASE ~(Times(u, b, v) >= 2)
        <5>1. u = x /\ v = y /\ b = a /\ Times(x, a, y) >= 1
          BY <4>2, <2>2
        <5>2. reverseActions(x, y) # {}
          BY <5>1, <1>1, <2>4 DEF observe, ObserveNew, ObserveReturning, ObserveRepeated
        <5> QED
          BY <5>1, <5>2, <2>5 DEF reverseActions
      <4> QED
        BY <4>1, <4>2
    <3> QED
      BY <3>1, <2>2
  <2> QED
    BY <1>t, <2>6, <2>7, <2>8, <2>9 DEF GuardIInv
<1>2. CASE UNCHANGED guardVars
  BY <1>2, <1>t DEF guardVars, GuardIInv, ListsAreCounts, OneWayWithheld,
     SuppressionIsProven, UnreturnedRepeatStops, Times
<1> QED
  BY <1>1, <1>2 DEF GuardNext

LEMMA GuardInvariant == GuardSpec => []GuardIInv
<1>1. GuardInit => GuardIInv
  BY GuardInitIInv
<1>2. GuardIInv /\ [GuardNext]_guardVars => GuardIInv'
  BY GuardNextIInv
<1> QED
  BY <1>1, <1>2, PTL DEF GuardSpec

\* Only the undoing of a step taken twice is ever withheld from the model.
THEOREM OnlyReturnsWithheld == GuardSpec => []SuppressionIsProven
<1>1. GuardIInv => SuppressionIsProven
  BY DEF GuardIInv
<1> QED
  BY <1>1, GuardInvariant, PTL

\* A repeated step that was never undone has stopped the run.
THEOREM RepeatsStop == GuardSpec => []UnreturnedRepeatStops
<1>1. GuardIInv => UnreturnedRepeatStops
  BY DEF GuardIInv
<1> QED
  BY <1>1, GuardInvariant, PTL

\* A circle of two pages is opened once it was walked twice each way.
THEOREM CirclesOpen == GuardSpec => []CircleIsOpened
<1>1. GuardIInv => CircleIsOpened
  BY DEF GuardIInv, OneWayWithheld, CircleIsOpened, filterActions, NothingElse
<1> QED
  BY <1>1, GuardInvariant, PTL
=============================================================================
