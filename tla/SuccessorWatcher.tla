-------------------------- MODULE SuccessorWatcher --------------------------
(***************************************************************************)
(* After an input was delivered, SuccessorWatcher.waitForReadySuccessor    *)
(* polls the game until it sees a successor worth another decision, or     *)
(* until its deadline (runtime/successorWatcher.ts).                       *)
(*                                                                         *)
(* What the polls read is left open: the game may be animating, may show   *)
(* the page the action was taken on once more, or may not answer.  A       *)
(* snapshot id stands for everything stateHash covers: the Host names the  *)
(* interaction and its bound actions afresh with every snapshot.           *)
(***************************************************************************)
EXTENDS Naturals, Sequences

CONSTANTS
    Snapshots,    \* snapshot ids the Host can show
    Before,       \* the snapshot the action was taken on
    NoSnapshot,   \* no snapshot
    Timeout,      \* the deadline, in poll intervals
    MaxPause      \* bound: poll intervals one sleep and read can take

ASSUME WatchAssumption ==
    /\ Before \in Snapshots
    /\ NoSnapshot \notin Snapshots
    /\ Timeout \in Nat \ {0}
    /\ MaxPause \in Nat \ {0}

VARIABLES
    authority,       \* settlementAuthority of the execution result
    confirmed,       \* confirmedStateToken: the successor the receipt names
    elapsed,         \* Date.now() - started
    lastChanged,     \* the last reading that differs from the pre-state
    stableCandidate, \* the reading that has to repeat
    status, after,   \* the result
    log              \* history: what the polls observed, in order

vars == <<authority, confirmed, elapsed, lastChanged, stableCandidate, status,
          after, log>>

Authorities == {"adapter_confirmed", "client_observation_required"}
Stabilities == {"actionable", "non_actionable", "settling", "invalid"}

Readings == [snapshot : Snapshots, stability : Stabilities]
Nothing  == [snapshot |-> NoSnapshot, stability |-> "none"]
Drift    == [snapshot |-> NoSnapshot, stability |-> "drift"]

TypeOK ==
    /\ authority \in Authorities
    /\ confirmed \in Snapshots \cup {NoSnapshot}
    /\ elapsed \in Nat
    /\ lastChanged \in Readings \cup {Nothing}
    /\ stableCandidate \in Readings \cup {Nothing}
    /\ status \in {"watching", "settled", "timeout", "read_error"}
    /\ after \in Readings \cup {Nothing}
    /\ log \in Seq(Readings \cup {Drift})

Init ==
    /\ authority \in Authorities
    /\ confirmed \in Snapshots \cup {NoSnapshot}
    /\ elapsed = 0
    /\ lastChanged = Nothing
    /\ stableCandidate = Nothing
    /\ status = "watching"
    /\ after = Nothing
    /\ log = <<>>

-----------------------------------------------------------------------------
\* A state that could not be decoded has no player_environment surface.
environmentSnapshotId(r) == IF r.stability = "invalid" THEN NoSnapshot ELSE r.snapshot

isSemanticCheckpoint(r) == r.stability \in {"actionable", "non_actionable"}

\* Does the reading still show the page the action was taken on?
StillBeforeUnconfirmed(r) ==  \* changed: the receipt's token is not used
    IF authority = "adapter_confirmed" THEN FALSE ELSE r.snapshot = Before

StillBefore(r) ==
    IF authority = "adapter_confirmed"
    THEN /\ confirmed \notin {NoSnapshot, Before}
         /\ environmentSnapshotId(r) = Before
    ELSE r.snapshot = Before

\* One turn of the loop: sleep, then an observation.
Poll ==
    /\ status = "watching"
    /\ elapsed < Timeout
    /\ \E d \in 1 .. MaxPause : elapsed' = elapsed + d

Observe(r) ==
    /\ Poll
    /\ log' = Append(log, r)
    /\ lastChanged' = IF r.snapshot # Before THEN r ELSE lastChanged

Settle(r) ==
    /\ status' = "settled"
    /\ after' = r

ReadDriftKeeping ==  \* changed: a drift does not reset the candidate
    /\ Poll
    /\ log' = Append(log, Drift)
    /\ UNCHANGED <<authority, confirmed, lastChanged, stableCandidate, status,
                   after>>

\* A TransientObservationError.
ReadDrift ==
    /\ Poll
    /\ log' = Append(log, Drift)
    /\ stableCandidate' = Nothing
    /\ UNCHANGED <<authority, confirmed, lastChanged, status, after>>

\* Any other failure of a read ends the watch.
ReadFails ==
    /\ Poll
    /\ status' = "read_error"
    /\ UNCHANGED <<authority, confirmed, lastChanged, stableCandidate, after, log>>

ReadBefore(r) ==
    /\ Observe(r)
    /\ StillBefore(r)
    /\ UNCHANGED <<authority, confirmed, stableCandidate, status, after>>

\* No model action follows a page without actions: it need not repeat.
ReadResting(r) ==
    /\ Observe(r)
    /\ ~StillBefore(r)
    /\ authority = "adapter_confirmed" /\ r.stability = "non_actionable"
    /\ Settle(r)
    /\ UNCHANGED <<authority, confirmed, stableCandidate>>

ReadMovingOrResting(r) ==  \* changed: a page at rest counts as moving
    /\ Observe(r)
    /\ ~StillBefore(r)
    /\ r.stability # "actionable"
    /\ stableCandidate' = Nothing
    /\ UNCHANGED <<authority, confirmed, status, after>>

ReadMoving(r) ==
    /\ Observe(r)
    /\ ~StillBefore(r)
    /\ ~isSemanticCheckpoint(r)
    /\ stableCandidate' = Nothing
    /\ UNCHANGED <<authority, confirmed, status, after>>

\* The readings that have to repeat.
MustRepeat(r) ==
    /\ ~StillBefore(r)
    /\ isSemanticCheckpoint(r)
    /\ authority = "adapter_confirmed" => r.stability # "non_actionable"

\* A first sight, or one that differs from the sight before.
ReadCandidate(r) ==
    /\ Observe(r)
    /\ MustRepeat(r)
    /\ stableCandidate.snapshot # r.snapshot
    /\ stableCandidate' = r
    /\ UNCHANGED <<authority, confirmed, status, after>>

ReadRepeated(r) ==
    /\ Observe(r)
    /\ MustRepeat(r)
    /\ stableCandidate.snapshot = r.snapshot
    /\ Settle(r)
    /\ UNCHANGED <<authority, confirmed, stableCandidate>>

Deadline ==
    /\ status = "watching"
    /\ elapsed >= Timeout
    /\ status' = "timeout"
    /\ after' = lastChanged
    /\ UNCHANGED <<authority, confirmed, elapsed, lastChanged, stableCandidate,
                   log>>

Next ==
    \/ ReadDrift \/ ReadFails \/ Deadline
    \/ \E r \in Readings :
         \/ ReadBefore(r) \/ ReadResting(r) \/ ReadMoving(r)
         \/ ReadCandidate(r) \/ ReadRepeated(r)

Spec == Init /\ [][Next]_vars

-----------------------------------------------------------------------------
\* A settled successor is news: once the receipt has named a successor (or
\* whenever the watcher has only its own eyes), the page the action was taken
\* on is never handed to the next decision as the result of the action.
SettledIsNews ==
    /\ status = "settled"
    /\ authority = "adapter_confirmed" => confirmed \notin {NoSnapshot, Before}
    => after.snapshot # Before

\* Two sights of the same page, with nothing in between but the pre-state.
SeenTwice(i) ==
    /\ isSemanticCheckpoint(log[i])
    /\ log[i].snapshot = after.snapshot
    /\ \A j \in i + 1 .. Len(log) - 1 : log[j] # Drift /\ StillBefore(log[j])

\* An actionable successor was seen twice, and neither a drift nor another
\* page came in between: a page passing by is not worth a model call.
SettledIsRepeated ==
    status = "settled" /\ after.stability = "actionable" =>
        \E i \in 1 .. Len(log) - 1 : SeenTwice(i)

Fresh(o) == o # Drift /\ ~StillBefore(o) /\ isSemanticCheckpoint(o)

\* At the i-th reading the watcher could have settled.
Missed(i) ==
    \/ /\ i > 1 /\ Fresh(log[i - 1]) /\ Fresh(log[i])
       /\ log[i].snapshot = log[i - 1].snapshot
    \/ /\ authority = "adapter_confirmed"
       /\ Fresh(log[i]) /\ log[i].stability = "non_actionable"

\* The watcher gives up only if it really saw no successor it could settle on:
\* no page twice in a row, no page at rest the adapter vouches for.
TimeoutIsHonest == status = "timeout" => \A i \in 1 .. Len(log) : ~Missed(i)

\* The last observation that differs from the pre-state, if any.
LastChange ==
    LET changed == {i \in 1 .. Len(log) : log[i] # Drift /\ log[i].snapshot # Before}
    IN IF changed = {} THEN Nothing
       ELSE log[CHOOSE i \in changed : \A j \in changed : j <= i]

\* A timed-out watch still leaves the record the last change it saw.
TimeoutKeepsLastChange == status = "timeout" => after = LastChange
=============================================================================
