------------------------- MODULE LearningLedgerProofs -------------------------
(***************************************************************************)
(* What the learning ledger guarantees for any number of invocations,      *)
(* transitions, requests and torn appends.                                 *)
(***************************************************************************)
EXTENDS LearningLedger, SequenceTheorems, FiniteSetTheorems, WellFoundedInduction, TLAPS

NoCommand == [name |-> "none"]

ProposalLines == {proposalLine(pr, p) : pr \in Proposals, p \in Invocations}
FeedbackLines == [kind : {"feedback"}, id : Ids]
ReviewLines == [kind : {"review"}, by : Invocations, decision : {"approve", "reject", "expire"}, id : Ids]
ManifestLines == [kind : {"manifest"}, by : Invocations, id : Ids, transition : TransitionIds,
                  status : {"regression_detected", "incomplete", "paired_evidence_ready_for_review"}]
Records == ProposalLines \cup FeedbackLines \cup ReviewLines \cup ManifestLines
AllLines == Records \cup {torn, glued}
Items == [file : Files, line : Records]

\* A line is in the file of its kind.
Fits(f, l) ==
    /\ f = "proposals" => l \in ProposalLines
    /\ f = "feedback" => l \in FeedbackLines
    /\ f = "reviews" => l \in ReviewLines
    /\ f = "manifests" => l \in ManifestLines

TypeOK ==
    /\ log \in [TransitionIds -> Kinds]
    /\ store \in [Files -> Seq(AllLines)]
    /\ \A f \in Files : \A l \in onFile(f) : Fits(f, l)
    /\ pc \in [Invocations -> {"idle", "reading", "asking", "writing", "done"}]
    /\ cmd \in [Invocations -> Commands \cup {NoCommand}]
    /\ snapshot \in [Invocations -> Seq(ProposalLines)]
    /\ plan \in [Invocations -> Seq(Items)]
    /\ \A p \in Invocations : \A k \in DOMAIN plan[p] : Fits(plan[p][k].file, plan[p][k].line)
    /\ written \in [Invocations -> Nat]
    /\ answer \in [Invocations -> Answers \cup {NoAnswer}]
    /\ result \in [Invocations -> {"none", "ok", "failed", "refused", "died"}]
    /\ tears \in 0..MaxTears

\* Where an invocation is, and what it has by then.
Stages ==
    \A p \in Invocations :
        /\ pc[p] = "idle" => cmd[p] = NoCommand
        /\ pc[p] \in {"idle", "reading", "asking"} =>
               plan[p] = <<>> /\ written[p] = 0 /\ answer[p] = NoAnswer
        /\ pc[p] = "asking" => cmd[p].name = "shadow-run"
        /\ pc[p] # "done" => result[p] = "none"
        /\ pc[p] = "writing" => written[p] < Len(plan[p])
        /\ written[p] <= Len(plan[p])
        /\ result[p] = "ok" => written[p] = Len(plan[p])

\* Only the end of a file is torn.
TornAtEnd(lines) == \A i \in DOMAIN lines : lines[i] = torn => i = Len(lines)
TornLast == \A f \in Files : TornAtEnd(store[f])

\* What was read is how the file begins.
SnapshotsAreOld ==
    \A p \in Invocations :
        /\ Len(snapshot[p]) <= Len(store["proposals"])
        /\ \A i \in DOMAIN snapshot[p] : snapshot[p][i] = store["proposals"][i]

\* A proposal is a human's request or a generated seed, by its author's command.
Authored(l) ==
    \/ /\ cmd[l.by].name = "record"
       /\ l.proposal = applyLearningProposalValidation(cmd[l.by].request)
    \/ /\ cmd[l.by].name = "generate"
       /\ l.proposal.patch = "none"
       /\ l.proposal.status = "pending_review" => proposalSeedEligible(log[l.proposal.source])

\* What an invocation will record as proposals is its own, and a generator's are new to it.
PlansAreAuthored ==
    \A p \in Invocations : \A k \in DOMAIN plan[p] :
        LET l == plan[p][k].line
        IN  plan[p][k].file = "proposals" =>
                /\ l.by = p /\ Authored(l)
                /\ cmd[p].name = "generate" => l.proposal.id \notin idsOf(snapshot[p])

LinesAreAuthored == \A l \in onFile("proposals") : Authored(l)

\* A review on its way was decided by its command on the proposal it had found.
Justified(r) ==
    r.decision = "approve" =>
        /\ cmd[r.by].name = "approve" /\ cmd[r.by].id = r.id
        /\ found(r.by) /\ actionable(target(r.by))
ReviewsAreJustified ==
    /\ \A r \in onFile("reviews") : Justified(r)
    /\ \A p \in Invocations : \A k \in DOMAIN plan[p] :
           plan[p][k].file = "reviews" => Justified(plan[p][k].line)

\* Whoever asks, or has asked, the provider had passed preflight with what it read.
AskersPassedPreflight ==
    \A p \in Invocations :
        (pc[p] = "asking" \/ answer[p] # NoAnswer) =>
            /\ cmd[p].name = "shadow-run" /\ found(p)
            /\ assessLearningExperimentPreflight(target(p), cmd[p].transition)
            /\ assembled(target(p), cmd[p].transition)

\* A generator plans an id once, and what it has put on file is what it had planned so far.
PlansAreDistinct ==
    \A p \in Invocations : cmd[p].name = "generate" =>
        \A j, k \in DOMAIN plan[p] :
            /\ plan[p][j].file = "proposals" /\ plan[p][k].file = "proposals"
            /\ plan[p][j].line.proposal.id = plan[p][k].line.proposal.id
            => j = k
GeneratedWasPlanned ==
    \A l \in onFile("proposals") : cmd[l.by].name = "generate" =>
        \E k \in 1..written[l.by] : plan[l.by][k] = [file |-> "proposals", line |-> l]
GeneratedOnce ==
    LET lines == store["proposals"]
    IN  \A i, j \in DOMAIN lines :
            /\ {lines[i], lines[j]} \cap {torn, glued} = {}
            /\ lines[i].by = lines[j].by /\ cmd[lines[i].by].name = "generate"
            /\ lines[i].proposal.id = lines[j].proposal.id
            => i = j

\* What an invocation has appended is on file, unless the file is unreadable.
WrittenIsOnFile ==
    \A p \in Invocations : \A k \in 1..written[p] :
        \/ plan[p][k].line \in onFile(plan[p][k].file)
        \/ ~readJsonlIfExists(store[plan[p][k].file])

PlansProposal(p, id) ==
    \E k \in DOMAIN plan[p] : plan[p][k].file = "proposals" /\ plan[p][k].line.proposal.id = id
PlansFeedback(p, id) ==
    \E k \in DOMAIN plan[p] : plan[p][k].file = "feedback" /\ plan[p][k].line.id = id

\* Every seed was read or is planned, every feedback is on file or planned.
PlansAreComplete ==
    \A p \in Invocations :
        (cmd[p].name = "generate" /\ (pc[p] = "writing" \/ result[p] = "ok")) =>
            \A s \in ToSet(generateLearningProposalSeeds(cmd[p].include)) :
                /\ s.id \in idsOf(snapshot[p]) \/ PlansProposal(p, s.id)
                /\ hasFeedback(s) => \/ \E l \in onFile("feedback") : l.id = feedbackId(s)
                                     \/ ~readJsonlIfExists(store["feedback"])
                                     \/ PlansFeedback(p, feedbackId(s))

\* A loss is paid for by a tear.
LossIsPaid == IsFiniteSet(lost) /\ LossNeedsTear

-----------------------------------------------------------------------------
(* Numbers and sequences                                                   *)

LEMMA LeastNumber ==
    ASSUME NEW T \in SUBSET Nat, T # {}
    PROVE  \E x \in T : \A y \in T : x <= y
<1> DEFINE R == {ss \in Nat \X Nat : ss[1] < ss[2]}
<1>1. IsWellFoundedOn(R, Nat)
  BY NatLessThanWellFounded DEF OpToRel
<1> HIDE DEF R
<1>2. \E x \in T : \A y \in T : ~ (<<y, x>> \in R)
  BY <1>1, WFMin
<1>3. PICK x \in T : \A y \in T : ~ (<<y, x>> \in R)
  BY <1>2
<1>4. ASSUME NEW y \in T PROVE x <= y
  <2>1. x \in Nat /\ y \in Nat /\ <<y, x>> \notin R
    BY <1>3
  <2> QED
    BY <2>1 DEF R
<1> QED
  BY <1>4

\* The partial concatenations FlattenSeq is defined with.
Joins(ss, n, join) == join = [i \in 1..n |-> IF i = 1 THEN ss[i] ELSE join[i - 1] \o ss[i]]

LEMMA JoinsExist == ASSUME NEW ss, NEW n \in Nat PROVE \E join : Joins(ss, n, join)
<1> DEFINE T == {m \in Nat : ~ \E join : Joins(ss, m, join)}
<1> SUFFICES ASSUME T # {} PROVE FALSE
  OBVIOUS
<1>1. PICK m \in T : \A k \in T : m <= k
  BY LeastNumber
<1>2. CASE m = 0
  <2> DEFINE f == [i \in 1..0 |-> ss]
  <2>1. f = [i \in 1..0 |-> IF i = 1 THEN ss[i] ELSE f[i - 1] \o ss[i]]
    OBVIOUS
  <2>2. Joins(ss, 0, f)
    BY <2>1 DEF Joins
  <2> QED
    BY <2>2, <1>2, <1>1
<1>3. CASE m # 0
  <2>1. m - 1 \in Nat /\ m - 1 \notin T
    BY <1>1, <1>3
  <2>2. PICK f : Joins(ss, m - 1, f)
    BY <2>1
  <2> DEFINE g == [i \in 1..m |-> IF i = 1 THEN ss[i] ELSE f[i - 1] \o ss[i]]
  <2>3. \A i \in 1..m - 1 : g[i] = f[i]
    <3> SUFFICES ASSUME NEW i \in 1..m - 1 PROVE g[i] = f[i]
      OBVIOUS
    <3>1. f[i] = IF i = 1 THEN ss[i] ELSE f[i - 1] \o ss[i]
      BY <2>2 DEF Joins
    <3>2. i \in 1..m
      BY <2>1
    <3> QED
      BY <3>1, <3>2
  <2>4. g = [i \in 1..m |-> IF i = 1 THEN ss[i] ELSE g[i - 1] \o ss[i]]
    <3>1. \A i \in 1..m : i # 1 => i - 1 \in 1..m - 1
      BY <1>1
    <3> QED
      BY <3>1, <2>3
  <2>5. Joins(ss, m, g)
    BY <2>4 DEF Joins
  <2> QED
    BY <2>5, <1>1
<1> QED
  BY <1>2, <1>3

LEMMA FlattenIs ==
    ASSUME NEW ss, Len(ss) \in Nat \ {0}
    PROVE  \E join : Joins(ss, Len(ss), join) /\ FlattenSeq(ss) = join[Len(ss)]
<1>1. PICK join : Joins(ss, Len(ss), join)
  BY JoinsExist
<1>2. Joins(ss, Len(ss), CHOOSE f : Joins(ss, Len(ss), f))
  BY <1>1
<1>3. FlattenSeq(ss) = (CHOOSE f : Joins(ss, Len(ss), f))[Len(ss)]
  BY DEF FlattenSeq, Joins
<1> QED
  BY <1>2, <1>3

\* No two elements of s have the same key.
Distinct(key, s) == \A j, k \in DOMAIN s : key[s[j]] = key[s[k]] => j = k

\* The parts of ss are distinct in themselves and from one another.
DistinctParts(key, ss) ==
    /\ \A i \in DOMAIN ss : Distinct(key, ss[i])
    /\ \A i, h \in DOMAIN ss : \A x \in ToSet(ss[i]), y \in ToSet(ss[h]) : key[x] = key[y] => i = h

LEMMA ConcatElements ==
    ASSUME NEW S, NEW s \in Seq(S), NEW t \in Seq(S)
    PROVE  /\ s \o t \in Seq(S)
           /\ ToSet(s \o t) = ToSet(s) \cup ToSet(t)
<1>1. /\ s \o t \in Seq(S)
      /\ Len(s \o t) = Len(s) + Len(t)
      /\ \A i \in 1..Len(s) + Len(t) : (s \o t)[i] = IF i <= Len(s) THEN s[i] ELSE t[i - Len(s)]
  BY ConcatProperties
<1>2. Len(s) \in Nat /\ Len(t) \in Nat /\ DOMAIN s = 1..Len(s) /\ DOMAIN t = 1..Len(t)
      /\ DOMAIN (s \o t) = 1..Len(s) + Len(t)
  BY <1>1, LenProperties
<1>3. ASSUME NEW x \in ToSet(s \o t) PROVE x \in ToSet(s) \cup ToSet(t)
  <2>1. PICK i \in 1..Len(s) + Len(t) : x = (s \o t)[i]
    BY <1>3, <1>2 DEF ToSet
  <2>2. CASE i <= Len(s)
    <3>1. i \in DOMAIN s /\ x = s[i]
      BY <2>1, <2>2, <1>1, <1>2
    <3> QED
      BY <3>1 DEF ToSet
  <2>3. CASE ~(i <= Len(s))
    <3>1. i - Len(s) \in DOMAIN t /\ x = t[i - Len(s)]
      BY <2>1, <2>3, <1>1, <1>2
    <3> QED
      BY <3>1 DEF ToSet
  <2> QED
    BY <2>2, <2>3
<1>4. ASSUME NEW x \in ToSet(s) PROVE x \in ToSet(s \o t)
  <2>1. PICK i \in 1..Len(s) : x = s[i]
    BY <1>4, <1>2 DEF ToSet
  <2>2. i \in DOMAIN (s \o t) /\ (s \o t)[i] = x
    BY <2>1, <1>1, <1>2
  <2> QED
    BY <2>2 DEF ToSet
<1>5. ASSUME NEW x \in ToSet(t) PROVE x \in ToSet(s \o t)
  <2>1. PICK i \in 1..Len(t) : x = t[i]
    BY <1>5, <1>2 DEF ToSet
  <2>2. Len(s) + i \in DOMAIN (s \o t) /\ (s \o t)[Len(s) + i] = x
    BY <2>1, <1>1, <1>2
  <2> QED
    BY <2>2 DEF ToSet
<1> QED
  BY <1>1, <1>3, <1>4, <1>5

LEMMA ConcatDistinct ==
    ASSUME NEW S, NEW s \in Seq(S), NEW t \in Seq(S), NEW key,
           Distinct(key, s), Distinct(key, t),
           \A x \in ToSet(s), y \in ToSet(t) : key[x] # key[y]
    PROVE  Distinct(key, s \o t)
<1>1. /\ s \o t \in Seq(S)
      /\ Len(s \o t) = Len(s) + Len(t)
      /\ \A i \in 1..Len(s) + Len(t) : (s \o t)[i] = IF i <= Len(s) THEN s[i] ELSE t[i - Len(s)]
  BY ConcatProperties
<1>2. Len(s) \in Nat /\ Len(t) \in Nat /\ DOMAIN s = 1..Len(s) /\ DOMAIN t = 1..Len(t)
      /\ DOMAIN (s \o t) = 1..Len(s) + Len(t)
  BY <1>1, LenProperties
<1>3. \A i \in 1..Len(s), j \in 1..Len(t) : key[s[i]] # key[t[j]]
  BY <1>2 DEF ToSet
<1> SUFFICES ASSUME NEW j \in 1..Len(s) + Len(t), NEW k \in 1..Len(s) + Len(t),
                    key[(s \o t)[j]] = key[(s \o t)[k]]
             PROVE  j = k
  BY <1>2 DEF Distinct
<1>4. CASE j <= Len(s) /\ k <= Len(s)
  <2>1. (s \o t)[j] = s[j] /\ (s \o t)[k] = s[k] /\ j \in DOMAIN s /\ k \in DOMAIN s
    BY <1>1, <1>2, <1>4
  <2> QED
    BY <2>1 DEF Distinct
<1>5. CASE j <= Len(s) /\ ~(k <= Len(s))
  <2>1. (s \o t)[j] = s[j] /\ (s \o t)[k] = t[k - Len(s)] /\ j \in 1..Len(s) /\ k - Len(s) \in 1..Len(t)
    BY <1>1, <1>2, <1>5
  <2> QED
    BY <2>1, <1>3
<1>6. CASE ~(j <= Len(s)) /\ k <= Len(s)
  <2>1. (s \o t)[k] = s[k] /\ (s \o t)[j] = t[j - Len(s)] /\ k \in 1..Len(s) /\ j - Len(s) \in 1..Len(t)
    BY <1>1, <1>2, <1>6
  <2> QED
    BY <2>1, <1>3
<1>7. CASE ~(j <= Len(s)) /\ ~(k <= Len(s))
  <2>1. /\ (s \o t)[j] = t[j - Len(s)] /\ (s \o t)[k] = t[k - Len(s)]
        /\ j - Len(s) \in DOMAIN t /\ k - Len(s) \in DOMAIN t
    BY <1>1, <1>2, <1>7
  <2>2. j - Len(s) = k - Len(s)
    BY <2>1 DEF Distinct
  <2> QED
    BY <2>2, <1>2
<1> QED
  BY <1>4, <1>5, <1>6, <1>7

\* What FlattenSeq returns, by the least prefix for which it would not.
LEMMA JoinElements ==
    ASSUME NEW S, NEW ss \in Seq(Seq(S)), NEW join, Joins(ss, Len(ss), join), NEW n \in 1..Len(ss)
    PROVE  /\ join[n] \in Seq(S)
           /\ \A x : x \in ToSet(join[n]) <=> \E i \in 1..n : x \in ToSet(ss[i])
<1> DEFINE Good(m) == /\ join[m] \in Seq(S)
                      /\ \A x : x \in ToSet(join[m]) <=> \E i \in 1..m : x \in ToSet(ss[i])
           T == {m \in 1..Len(ss) : ~Good(m)}
<1>1. Len(ss) \in Nat /\ \A i \in 1..Len(ss) : ss[i] \in Seq(S)
  BY LenProperties, ElementOfSeq
<1> SUFFICES ASSUME T # {} PROVE FALSE
  OBVIOUS
<1>2. PICK m \in T : \A k \in T : m <= k
  <2>1. T \in SUBSET Nat
    BY <1>1
  <2> HIDE DEF T
  <2> QED
    BY <2>1, LeastNumber
<1>3. m \in 1..Len(ss) /\ join[m] = IF m = 1 THEN ss[m] ELSE join[m - 1] \o ss[m]
  BY <1>2 DEF Joins
<1>4. CASE m = 1
  <2>1. join[m] = ss[1] /\ 1..m = {1}
    BY <1>3, <1>4
  <2>2. Good(m)
    BY <2>1, <1>1, <1>3, <1>4
  <2> QED
    BY <2>2, <1>2
<1>5. CASE m # 1
  <2>1. m - 1 \in 1..Len(ss) /\ ~(m <= m - 1)
    BY <1>1, <1>3, <1>5
  <2>2. Good(m - 1)
    BY <2>1, <1>2
  <2>3. /\ join[m] \in Seq(S)
        /\ ToSet(join[m]) = ToSet(join[m - 1]) \cup ToSet(ss[m])
    BY <2>2, <1>1, <1>3, <1>5, ConcatElements
  <2>4. 1..m = (1..m - 1) \cup {m}
    BY <1>1, <1>3, <1>5
  <2>5. Good(m)
    BY <2>2, <2>3, <2>4
  <2> QED
    BY <2>5, <1>2
<1> QED
  BY <1>4, <1>5

LEMMA FlattenElements ==
    ASSUME NEW S, NEW ss \in Seq(Seq(S))
    PROVE  /\ FlattenSeq(ss) \in Seq(S)
           /\ \A x : x \in ToSet(FlattenSeq(ss)) <=> \E i \in DOMAIN ss : x \in ToSet(ss[i])
<1>1. Len(ss) \in Nat /\ DOMAIN ss = 1..Len(ss)
  BY LenProperties
<1>2. CASE Len(ss) = 0
  <2>1. FlattenSeq(ss) = ss /\ ss = <<>>
    BY <1>2, EmptySeq DEF FlattenSeq
  <2> QED
    BY <2>1, <1>2 DEF ToSet
<1>3. CASE Len(ss) # 0
  <2>1. PICK join : Joins(ss, Len(ss), join) /\ FlattenSeq(ss) = join[Len(ss)]
    BY <1>1, <1>3, FlattenIs
  <2>2. Len(ss) \in 1..Len(ss)
    BY <1>1, <1>3
  <2>3. Joins(ss, Len(ss), join)
    BY <2>1
  <2>4. \A k \in 1..Len(ss) : /\ join[k] \in Seq(S)
                             /\ \A x : x \in ToSet(join[k]) <=> \E i \in 1..k : x \in ToSet(ss[i])
    BY <2>3, JoinElements, Zenon
  <2> QED
    BY <2>1, <2>2, <2>4, <1>1
<1> QED
  BY <1>2, <1>3

LEMMA JoinDistinct ==
    ASSUME NEW S, NEW ss \in Seq(Seq(S)), NEW join, Joins(ss, Len(ss), join), NEW n \in 1..Len(ss),
           NEW key, DistinctParts(key, ss)
    PROVE  Distinct(key, join[n])
<1>0. \A k \in 1..Len(ss) : /\ join[k] \in Seq(S)
                           /\ \A x : x \in ToSet(join[k]) <=> \E i \in 1..k : x \in ToSet(ss[i])
  BY JoinElements, Zenon
<1> DEFINE T == {m \in 1..Len(ss) : ~Distinct(key, join[m])}
<1>1. Len(ss) \in Nat /\ DOMAIN ss = 1..Len(ss) /\ \A i \in 1..Len(ss) : ss[i] \in Seq(S)
  BY LenProperties, ElementOfSeq
<1> SUFFICES ASSUME T # {} PROVE FALSE
  OBVIOUS
<1>2. PICK m \in T : \A k \in T : m <= k
  <2>1. T \in SUBSET Nat
    BY <1>1
  <2> HIDE DEF T
  <2> QED
    BY <2>1, LeastNumber
<1>3. m \in 1..Len(ss) /\ join[m] = IF m = 1 THEN ss[m] ELSE join[m - 1] \o ss[m]
  BY <1>2 DEF Joins
<1>4. Distinct(key, ss[m])
  BY <1>1, <1>3 DEF DistinctParts
<1>5. CASE m # 1
  <2>1. m - 1 \in 1..Len(ss) /\ m - 1 \notin T
    BY <1>1, <1>2, <1>3, <1>5
  <2>2. Distinct(key, join[m - 1])
    BY <2>1
  <2>3. /\ join[m - 1] \in Seq(S)
        /\ \A x : x \in ToSet(join[m - 1]) <=> \E i \in 1..m - 1 : x \in ToSet(ss[i])
    BY <2>1, <1>0
  <2>4. ASSUME NEW x \in ToSet(join[m - 1]), NEW y \in ToSet(ss[m]) PROVE key[x] # key[y]
    <3>1. PICK i \in 1..m - 1 : x \in ToSet(ss[i])
      BY <2>3
    <3>2. i \in DOMAIN ss /\ m \in DOMAIN ss /\ i # m
      BY <1>1, <1>3
    <3> QED
      BY <3>1, <3>2 DEF DistinctParts
  <2>5. Distinct(key, join[m - 1] \o ss[m])
    BY <2>2, <2>3, <2>4, <1>1, <1>3, <1>4, ConcatDistinct
  <2> QED
    BY <2>5, <1>2, <1>3, <1>5
<1> QED
  BY <1>2, <1>3, <1>4, <1>5

LEMMA FlattenDistinct ==
    ASSUME NEW S, NEW ss \in Seq(Seq(S)), NEW key, DistinctParts(key, ss)
    PROVE  Distinct(key, FlattenSeq(ss))
<1>1. Len(ss) \in Nat /\ DOMAIN ss = 1..Len(ss)
  BY LenProperties
<1>2. CASE Len(ss) = 0
  <2>1. FlattenSeq(ss) = ss
    BY <1>2, EmptySeq DEF FlattenSeq
  <2> QED
    BY <2>1, <1>1, <1>2 DEF Distinct
<1>3. CASE Len(ss) # 0
  <2>1. PICK join : Joins(ss, Len(ss), join) /\ FlattenSeq(ss) = join[Len(ss)]
    BY <1>1, <1>3, FlattenIs
  <2> QED
    BY <2>1, <1>1, <1>3, JoinDistinct
<1> QED
  BY <1>2, <1>3
-----------------------------------------------------------------------------
(* The generator                                                           *)

LEMMA FilterToElements ==
    ASSUME NEW S, NEW s \in Seq(S), NEW kept
    PROVE  /\ filterTo(s, kept) \in Seq(S)
           /\ \A x : x \in ToSet(filterTo(s, kept)) <=> x \in ToSet(s) /\ x \in kept
<1> DEFINE ss == [k \in DOMAIN s |-> IF s[k] \in kept THEN <<s[k]>> ELSE <<>>]
<1>1. Len(s) \in Nat /\ DOMAIN s = 1..Len(s) /\ \A k \in DOMAIN s : s[k] \in S
  BY LenProperties, ElementOfSeq
<1>2. \A k \in DOMAIN s : ss[k] \in Seq(S)
  BY <1>1
<1>3. ss \in Seq(Seq(S)) /\ DOMAIN ss = DOMAIN s
  BY <1>1, <1>2
<1>4. ASSUME NEW x, NEW k \in DOMAIN s PROVE x \in ToSet(ss[k]) <=> x = s[k] /\ x \in kept
  <2>1. CASE s[k] \in kept
    BY <2>1 DEF ToSet
  <2>2. CASE s[k] \notin kept
    BY <2>2 DEF ToSet
  <2> QED
    BY <2>1, <2>2
<1> HIDE DEF ss
<1>5. /\ FlattenSeq(ss) \in Seq(S)
      /\ \A x : x \in ToSet(FlattenSeq(ss)) <=> \E k \in DOMAIN ss : x \in ToSet(ss[k])
  BY <1>3, FlattenElements, Zenon
<1>6. filterTo(s, kept) = FlattenSeq(ss)
  BY DEF filterTo, ss
<1>7. ASSUME NEW x PROVE x \in ToSet(s) <=> \E k \in DOMAIN s : x = s[k]
  BY DEF ToSet
<1> QED
  BY <1>3, <1>4, <1>5, <1>6, <1>7

LEMMA FilterToDistinct ==
    ASSUME NEW S, NEW s \in Seq(S), NEW kept, NEW key, Distinct(key, s)
    PROVE  Distinct(key, filterTo(s, kept))
<1> DEFINE ss == [k \in DOMAIN s |-> IF s[k] \in kept THEN <<s[k]>> ELSE <<>>]
<1>1. Len(s) \in Nat /\ DOMAIN s = 1..Len(s) /\ \A k \in DOMAIN s : s[k] \in S
  BY LenProperties, ElementOfSeq
<1>2. \A k \in DOMAIN s : ss[k] \in Seq(S)
  BY <1>1
<1>3. ss \in Seq(Seq(S)) /\ DOMAIN ss = DOMAIN s
  BY <1>1, <1>2
<1>4. ASSUME NEW x, NEW k \in DOMAIN s, x \in ToSet(ss[k]) PROVE x = s[k]
  <2>1. CASE s[k] \in kept
    BY <2>1, <1>4 DEF ToSet
  <2>2. CASE s[k] \notin kept
    BY <2>2, <1>4 DEF ToSet
  <2> QED
    BY <2>1, <2>2
<1>5. ASSUME NEW k \in DOMAIN ss PROVE Distinct(key, ss[k])
  <2>1. CASE s[k] \in kept
    BY <1>3, <2>1 DEF Distinct
  <2>2. CASE s[k] \notin kept
    BY <1>3, <2>2 DEF Distinct
  <2> QED
    BY <2>1, <2>2
<1> HIDE DEF ss
<1>6. ASSUME NEW i \in DOMAIN ss, NEW h \in DOMAIN ss, NEW x \in ToSet(ss[i]), NEW y \in ToSet(ss[h]),
             key[x] = key[y]
      PROVE  i = h
  <2>1. x = s[i] /\ y = s[h] /\ i \in DOMAIN s /\ h \in DOMAIN s
    BY <1>3, <1>4
  <2> QED
    BY <2>1, <1>6 DEF Distinct
<1>7. DistinctParts(key, ss)
  BY <1>5, <1>6 DEF DistinctParts
<1>8. filterTo(s, kept) = FlattenSeq(ss)
  BY DEF filterTo, ss
<1> QED
  BY <1>3, <1>7, <1>8, FlattenDistinct

\* What every seed of a transition is.
IsSeed(s, source, i) ==
    /\ s \in Proposals
    /\ s.id = <<source, i>> /\ s.source = i /\ s.patch = "none"
    /\ s.status = "pending_review" => proposalSeedEligible(log[i])
IdOf == [q \in Proposals |-> q.id]

LEMMA SeedIsSeed ==
    ASSUME log \in [TransitionIds -> Kinds], NEW i \in TransitionIds,
           NEW source \in {"prediction", "workspace", "reason", "budget"},
           NEW status \in {"draft", "pending_review"},
           status = "pending_review" => proposalSeedEligible(log[i])
    PROVE  IsSeed(Seed(source, i, status), source, i)
<1>1. <<source, i>> \in Ids
  BY DEF Ids
<1>2. (log[i].env = "organic") \in BOOLEAN
      /\ (source = "reason" /\ log[i].env = "organic") \in BOOLEAN
  OBVIOUS
<1> QED
  BY <1>1, <1>2 DEF IsSeed, Seed, Proposals, Patches

\* Each of the four kinds of seeds: at most one per transition.
Single(s, source, i) ==
    /\ s \in Seq(Proposals)
    /\ Distinct(IdOf, s)
    /\ \A x \in ToSet(s) : IsSeed(x, source, i)

LEMMA SingleSeed ==
    ASSUME NEW x, NEW source, NEW i, IsSeed(x, source, i)
    PROVE  Single(<<x>>, source, i) /\ Single(<<>>, source, i)
BY DEF Single, IsSeed, Distinct, ToSet

LEMMA SeedParts ==
    ASSUME log \in [TransitionIds -> Kinds], NEW i \in TransitionIds
    PROVE  /\ Single(proposalsFromPredictionError(i), "prediction", i)
           /\ Single(proposalsFromWorkspaceSignals(i), "workspace", i)
           /\ Single(proposalsFromReasonQuality(i), "reason", i)
           /\ Single(proposalsFromBudgetSignals(i), "budget", i)
<1>1. \A source \in {"prediction", "workspace", "reason", "budget"} :
          Single(<<Seed(source, i, "draft")>>, source, i) /\ Single(<<>>, source, i)
  BY SeedIsSeed, SingleSeed
<1>2. proposalSeedEligible(log[i]) => Single(<<Seed("prediction", i, "pending_review")>>, "prediction", i)
  BY SeedIsSeed, SingleSeed
<1>3. Single(proposalsFromPredictionError(i), "prediction", i)
  BY <1>1, <1>2 DEF proposalsFromPredictionError
<1>4. /\ Single(proposalsFromWorkspaceSignals(i), "workspace", i)
      /\ Single(proposalsFromReasonQuality(i), "reason", i)
      /\ Single(proposalsFromBudgetSignals(i), "budget", i)
  BY <1>1 DEF proposalsFromWorkspaceSignals, proposalsFromReasonQuality, proposalsFromBudgetSignals
<1> QED
  BY <1>3, <1>4

\* A seed of some transition of the run.
IsRunSeed(s) == \E source \in {"prediction", "workspace", "reason", "budget"}, i \in TransitionIds :
    IsSeed(s, source, i)

LEMMA JoinedSeeds ==
    ASSUME log \in [TransitionIds -> Kinds], NEW i \in TransitionIds, NEW include
    PROVE  /\ seedsOf(i, include) \in Seq(Proposals)
           /\ Distinct(IdOf, seedsOf(i, include))
           /\ \A x \in ToSet(seedsOf(i, include)) :
                  \E source \in {"prediction", "workspace", "reason", "budget"} : IsSeed(x, source, i)
<1> DEFINE a == proposalsFromPredictionError(i)
           b == proposalsFromWorkspaceSignals(i)
           c == proposalsFromReasonQuality(i)
           d == proposalsFromBudgetSignals(i)
<1>1. Single(a, "prediction", i) /\ Single(b, "workspace", i) /\ Single(c, "reason", i) /\ Single(d, "budget", i)
  BY SeedParts
<1> HIDE DEF a, b, c, d
<1>2. \A x, y, source, kind : IsSeed(x, source, i) /\ IsSeed(y, kind, i) /\ source # kind => IdOf[x] # IdOf[y]
  BY DEF IsSeed, IdOf
<1>3. /\ a \o b \in Seq(Proposals) /\ Distinct(IdOf, a \o b)
      /\ \A x : x \in ToSet(a \o b) => IsSeed(x, "prediction", i) \/ IsSeed(x, "workspace", i)
  <2>1. a \o b \in Seq(Proposals) /\ ToSet(a \o b) = ToSet(a) \cup ToSet(b)
    BY <1>1, ConcatElements DEF Single
  <2>2. \A x \in ToSet(a), y \in ToSet(b) : IdOf[x] # IdOf[y]
    BY <1>1, <1>2 DEF Single
  <2>3. Distinct(IdOf, a \o b)
    BY <1>1, <2>2, ConcatDistinct DEF Single
  <2> QED
    BY <2>1, <2>3, <1>1 DEF Single
<1> DEFINE ab == a \o b
<1> HIDE DEF ab
<1>4. /\ ab \o c \in Seq(Proposals) /\ Distinct(IdOf, ab \o c)
      /\ \A x : x \in ToSet(ab \o c) =>
             IsSeed(x, "prediction", i) \/ IsSeed(x, "workspace", i) \/ IsSeed(x, "reason", i)
  <2>0. ab \in Seq(Proposals) /\ Distinct(IdOf, ab)
        /\ \A x : x \in ToSet(ab) => IsSeed(x, "prediction", i) \/ IsSeed(x, "workspace", i)
    BY <1>3 DEF ab
  <2>1. ab \o c \in Seq(Proposals) /\ ToSet(ab \o c) = ToSet(ab) \cup ToSet(c)
    BY <1>1, <2>0, ConcatElements DEF Single
  <2>2. \A x \in ToSet(ab), y \in ToSet(c) : IdOf[x] # IdOf[y]
    BY <1>1, <1>2, <2>0 DEF Single
  <2>3. Distinct(IdOf, ab \o c)
    BY <1>1, <2>0, <2>2, ConcatDistinct DEF Single
  <2> QED
    BY <2>0, <2>1, <2>3, <1>1 DEF Single
<1> DEFINE abc == ab \o c
<1> HIDE DEF abc
<1>5. /\ abc \o d \in Seq(Proposals) /\ Distinct(IdOf, abc \o d)
      /\ \A x : x \in ToSet(abc \o d) =>
             \/ IsSeed(x, "prediction", i) \/ IsSeed(x, "workspace", i)
             \/ IsSeed(x, "reason", i) \/ IsSeed(x, "budget", i)
  <2>0. abc \in Seq(Proposals) /\ Distinct(IdOf, abc)
        /\ \A x : x \in ToSet(abc) =>
             IsSeed(x, "prediction", i) \/ IsSeed(x, "workspace", i) \/ IsSeed(x, "reason", i)
    BY <1>4 DEF abc
  <2>1. abc \o d \in Seq(Proposals) /\ ToSet(abc \o d) = ToSet(abc) \cup ToSet(d)
    BY <1>1, <2>0, ConcatElements DEF Single
  <2>2. \A x \in ToSet(abc), y \in ToSet(d) : IdOf[x] # IdOf[y]
    BY <1>1, <1>2, <2>0 DEF Single
  <2>3. Distinct(IdOf, abc \o d)
    BY <1>1, <2>0, <2>2, ConcatDistinct DEF Single
  <2> QED
    BY <2>0, <2>1, <2>3, <1>1 DEF Single
<1>6. seedsOf(i, include) = abc \o d \/ seedsOf(i, include) = <<>>
  BY DEF seedsOf, a, b, c, d, ab, abc
<1>7. CASE seedsOf(i, include) = abc \o d
  BY <1>5, <1>7
<1>8. CASE seedsOf(i, include) = <<>>
  BY <1>8 DEF Distinct, ToSet
<1> QED
  BY <1>6, <1>7, <1>8

LEMMA RunSeeds ==
    ASSUME log \in [TransitionIds -> Kinds], NEW include
    PROVE  /\ generateLearningProposalSeeds(include) \in Seq(Proposals)
           /\ Distinct(IdOf, generateLearningProposalSeeds(include))
           /\ \A x \in ToSet(generateLearningProposalSeeds(include)) : IsRunSeed(x)
<1> DEFINE ss == [i \in TransitionIds |-> seedsOf(i, include)]
<1>1. /\ ss \in Seq(Seq(Proposals)) /\ DOMAIN ss = TransitionIds
      /\ \A i \in TransitionIds : ss[i] = seedsOf(i, include)
  BY JoinedSeeds, NumbersAssumption DEF TransitionIds
<1> HIDE DEF ss
<1>2. /\ FlattenSeq(ss) \in Seq(Proposals)
      /\ \A x : x \in ToSet(FlattenSeq(ss)) <=> \E i \in DOMAIN ss : x \in ToSet(ss[i])
  BY <1>1, FlattenElements, Zenon
<1>3. \A i \in DOMAIN ss : Distinct(IdOf, ss[i])
  BY <1>1, JoinedSeeds
<1>4. \A i \in DOMAIN ss : \A x \in ToSet(ss[i]) :
          \E source \in {"prediction", "workspace", "reason", "budget"} : IsSeed(x, source, i)
  BY <1>1, JoinedSeeds
<1>5. ASSUME NEW i \in DOMAIN ss, NEW h \in DOMAIN ss, NEW x \in ToSet(ss[i]), NEW y \in ToSet(ss[h]),
             IdOf[x] = IdOf[y]
      PROVE  i = h
  <2>1. PICK source \in {"prediction", "workspace", "reason", "budget"} : IsSeed(x, source, i)
    BY <1>4
  <2>2. PICK kind \in {"prediction", "workspace", "reason", "budget"} : IsSeed(y, kind, h)
    BY <1>4
  <2> QED
    BY <2>1, <2>2, <1>5 DEF IsSeed, IdOf
<1>6. DistinctParts(IdOf, ss)
  BY <1>3, <1>5 DEF DistinctParts
<1>7. Distinct(IdOf, FlattenSeq(ss))
  BY <1>1, <1>6, FlattenDistinct
<1>8. generateLearningProposalSeeds(include) = FlattenSeq(ss)
  BY DEF generateLearningProposalSeeds, ss
<1>9. \A x \in ToSet(FlattenSeq(ss)) : IsRunSeed(x)
  BY <1>1, <1>2, <1>4 DEF IsRunSeed
<1> QED
  BY <1>2, <1>7, <1>8, <1>9

LEMMA Validated ==
    ASSUME NEW pr \in Proposals
    PROVE  LET valid == applyLearningProposalValidation(pr)
           IN  /\ valid \in Proposals
               /\ valid.id = pr.id /\ valid.patch = pr.patch /\ valid.source = pr.source
               /\ valid.complete = pr.complete
               /\ valid.status = "pending_review" => pr.status = "pending_review"
               /\ pr.complete => valid = pr
BY DEF applyLearningProposalValidation, Proposals

\* Keeping the first of equal elements loses none.
LEMMA FirstOfEachElements ==
    ASSUME NEW S, NEW s \in Seq(S)
    PROVE  firstOfEach(s) \in Seq(S) /\ \A x : x \in ToSet(firstOfEach(s)) <=> x \in ToSet(s)
<1> DEFINE again(k) == \E j \in 1..k - 1 : s[j] = s[k]
           ss == [k \in DOMAIN s |-> IF again(k) THEN <<>> ELSE <<s[k]>>]
<1>1. Len(s) \in Nat /\ DOMAIN s = 1..Len(s) /\ \A k \in DOMAIN s : s[k] \in S
  BY LenProperties, ElementOfSeq
<1>2. \A k \in DOMAIN s : ss[k] \in Seq(S)
  BY <1>1
<1>3. ss \in Seq(Seq(S)) /\ DOMAIN ss = DOMAIN s
  BY <1>1, <1>2
<1>4. ASSUME NEW x, NEW k \in DOMAIN s PROVE x \in ToSet(ss[k]) <=> x = s[k] /\ ~again(k)
  <2>1. CASE again(k)
    BY <2>1 DEF ToSet
  <2>2. CASE ~again(k)
    BY <2>2 DEF ToSet
  <2> QED
    BY <2>1, <2>2
<1>5. firstOfEach(s) = FlattenSeq(ss)
  BY DEF firstOfEach
<1> HIDE DEF ss
<1>6. /\ FlattenSeq(ss) \in Seq(S)
      /\ \A x : x \in ToSet(FlattenSeq(ss)) <=> \E k \in DOMAIN ss : x \in ToSet(ss[k])
  BY <1>3, FlattenElements, Zenon
<1>7. ASSUME NEW x \in ToSet(s) PROVE \E k \in DOMAIN s : x = s[k] /\ ~again(k)
  <2> DEFINE T == {k \in DOMAIN s : s[k] = x}
  <2>1. T \in SUBSET Nat /\ T # {}
    BY <1>1, <1>7 DEF ToSet
  <2>2. PICK k \in T : \A j \in T : k <= j
    <3> HIDE DEF T
    <3> QED
      BY <2>1, LeastNumber
  <2>3. \A j \in 1..k - 1 : s[j] # s[k]
    BY <1>1, <2>2
  <2> QED
    BY <2>2, <2>3
<1>8. \A x, k : k \in DOMAIN s /\ x = s[k] => x \in ToSet(s)
  BY DEF ToSet
<1> HIDE DEF again
<1> QED
  BY <1>3, <1>4, <1>5, <1>6, <1>7, <1>8

LEMMA FeedbackIds == ASSUME NEW s, IsRunSeed(s) PROVE feedbackId(s) \in Ids
BY DEF IsRunSeed, IsSeed, feedbackId, Ids

LEMMA FeedbackOfSeeds ==
    ASSUME NEW seeds \in Seq(Proposals), \A s \in ToSet(seeds) : IsRunSeed(s)
    PROVE  /\ reverseFeedback(seeds) \in Seq(FeedbackLines)
           /\ \A s \in ToSet(seeds) : hasFeedback(s) => feedbackLine(s) \in ToSet(reverseFeedback(seeds))
<1> DEFINE kept == {s \in ToSet(seeds) : hasFeedback(s)}
           linked == filterTo(seeds, kept)
<1>1. /\ linked \in Seq(Proposals)
      /\ \A x : x \in ToSet(linked) <=> x \in ToSet(seeds) /\ x \in kept
  <2> HIDE DEF kept
  <2> QED
    BY FilterToElements, Zenon
<1>2. reverseFeedback(seeds) = [k \in DOMAIN linked |-> feedbackLine(linked[k])]
  BY DEF reverseFeedback
<1>3. \A s \in ToSet(seeds) : hasFeedback(s) => s \in ToSet(linked)
  BY <1>1
<1> HIDE DEF linked
<1>4. \A k \in DOMAIN linked : IsRunSeed(linked[k])
  BY <1>1 DEF ToSet
<1>5. \A k \in DOMAIN linked : feedbackLine(linked[k]) \in FeedbackLines
  BY <1>4, FeedbackIds DEF feedbackLine, FeedbackLines
<1>6. Len(linked) \in Nat /\ DOMAIN linked = 1..Len(linked)
  BY <1>1, LenProperties
<1>7. reverseFeedback(seeds) \in Seq(FeedbackLines)
  BY <1>2, <1>5, <1>6
<1>8. ASSUME NEW s \in ToSet(seeds), hasFeedback(s)
      PROVE  feedbackLine(s) \in ToSet(reverseFeedback(seeds))
  <2>1. PICK k \in DOMAIN linked : s = linked[k]
    BY <1>3, <1>8 DEF ToSet
  <2> QED
    BY <2>1, <1>2 DEF ToSet
<1> QED
  BY <1>7, <1>8

LEMMA NewFeedback ==
    ASSUME NEW seeds \in Seq(Proposals), \A s \in ToSet(seeds) : IsRunSeed(s)
    PROVE  /\ newFeedback(seeds) \in Seq(FeedbackLines)
           /\ \A s \in ToSet(seeds) : hasFeedback(s) =>
                  feedbackLine(s) \in ToSet(store["feedback"]) \cup ToSet(newFeedback(seeds))
<1> DEFINE all == firstOfEach(reverseFeedback(seeds))
           kept == ToSet(all) \ ToSet(store["feedback"])
<1>1. /\ all \in Seq(FeedbackLines)
      /\ \A s \in ToSet(seeds) : hasFeedback(s) => feedbackLine(s) \in ToSet(all)
  BY FeedbackOfSeeds, FirstOfEachElements
<1>2. newFeedback(seeds) = filterTo(all, kept)
  BY DEF newFeedback
<1> HIDE DEF all
<1>3. /\ filterTo(all, kept) \in Seq(FeedbackLines)
      /\ \A x : x \in ToSet(filterTo(all, kept)) <=> x \in ToSet(all) /\ x \in kept
  <2> HIDE DEF kept
  <2> QED
    BY <1>1, FilterToElements, Zenon
<1> QED
  BY <1>1, <1>2, <1>3

LEMMA NewSeeds ==
    ASSUME NEW seeds \in Seq(Proposals), Distinct(IdOf, seeds), NEW lines
    PROVE  /\ newSeeds(seeds, lines) \in Seq(Proposals)
           /\ Distinct(IdOf, newSeeds(seeds, lines))
           /\ \A s : s \in ToSet(newSeeds(seeds, lines)) <=> s \in ToSet(seeds) /\ s.id \notin idsOf(lines)
<1> DEFINE kept == {s \in ToSet(seeds) : s.id \notin idsOf(lines)}
<1>1. newSeeds(seeds, lines) = filterTo(seeds, kept)
  BY DEF newSeeds
<1>2. \A s : s \in ToSet(seeds) /\ s \in kept <=> s \in ToSet(seeds) /\ s.id \notin idsOf(lines)
  OBVIOUS
<1> HIDE DEF kept
<1>3. /\ filterTo(seeds, kept) \in Seq(Proposals)
      /\ \A x : x \in ToSet(filterTo(seeds, kept)) <=> x \in ToSet(seeds) /\ x \in kept
  BY FilterToElements, Zenon
<1>4. Distinct(IdOf, filterTo(seeds, kept))
  BY FilterToDistinct
<1> QED
  BY <1>1, <1>2, <1>3, <1>4

LEMMA PlannedLines ==
    ASSUME NEW seeds \in Seq(Proposals), NEW feedback \in Seq(FeedbackLines), NEW p \in Invocations
    PROVE  LET all == Lines(seeds, feedback, p)
               n == Len(seeds)
           IN  /\ all \in Seq(Items)
               /\ \A k \in DOMAIN all :
                      \/ k \in DOMAIN seeds /\ all[k] = [file |-> "proposals", line |-> proposalLine(seeds[k], p)]
                      \/ k - n \in DOMAIN feedback /\ all[k] = [file |-> "feedback", line |-> feedback[k - n]]
               /\ \A k \in DOMAIN seeds :
                      k \in DOMAIN all /\ all[k] = [file |-> "proposals", line |-> proposalLine(seeds[k], p)]
               /\ \A k \in DOMAIN feedback :
                      n + k \in DOMAIN all /\ all[n + k] = [file |-> "feedback", line |-> feedback[k]]
<1> DEFINE first == [k \in DOMAIN seeds |-> [file |-> "proposals", line |-> proposalLine(seeds[k], p)]]
           then == [k \in DOMAIN feedback |-> [file |-> "feedback", line |-> feedback[k]]]
<1>1. /\ Len(seeds) \in Nat /\ DOMAIN seeds = 1..Len(seeds)
      /\ Len(feedback) \in Nat /\ DOMAIN feedback = 1..Len(feedback)
  BY LenProperties
<1>2. \A k \in DOMAIN seeds : seeds[k] \in Proposals
  BY <1>1, ElementOfSeq
<1>3. \A k \in DOMAIN feedback : feedback[k] \in Records
  BY <1>1, ElementOfSeq DEF Records
<1>4. \A k \in DOMAIN seeds : proposalLine(seeds[k], p) \in Records
  BY <1>2 DEF Records, ProposalLines
<1>5. \A k \in DOMAIN seeds : [file |-> "proposals", line |-> proposalLine(seeds[k], p)] \in Items
  BY <1>4 DEF Items, Files
<1>6. \A k \in DOMAIN feedback : [file |-> "feedback", line |-> feedback[k]] \in Items
  BY <1>3 DEF Items, Files
<1>7. first \in Seq(Items) /\ Len(first) = Len(seeds) /\ DOMAIN first = DOMAIN seeds
  BY <1>1, <1>5
<1>8. then \in Seq(Items) /\ Len(then) = Len(feedback) /\ DOMAIN then = DOMAIN feedback
  BY <1>1, <1>6
<1>a. \A k \in DOMAIN seeds : first[k] = [file |-> "proposals", line |-> proposalLine(seeds[k], p)]
  OBVIOUS
<1>b. \A k \in DOMAIN feedback : then[k] = [file |-> "feedback", line |-> feedback[k]]
  OBVIOUS
<1>c. Lines(seeds, feedback, p) = first \o then
  BY DEF Lines
<1> HIDE DEF first, then
<1>9. /\ first \o then \in Seq(Items)
      /\ Len(first \o then) = Len(seeds) + Len(feedback)
      /\ \A k \in 1..Len(seeds) + Len(feedback) :
             (first \o then)[k] = IF k <= Len(seeds) THEN first[k] ELSE then[k - Len(seeds)]
  <2>1. /\ first \o then \in Seq(Items)
        /\ Len(first \o then) = Len(first) + Len(then)
        /\ \A k \in 1..Len(first) + Len(then) :
               (first \o then)[k] = IF k <= Len(first) THEN first[k] ELSE then[k - Len(first)]
    BY <1>7, <1>8, ConcatProperties, Zenon
  <2> QED
    BY <2>1, <1>7, <1>8
<1>d. DOMAIN (first \o then) = 1..Len(seeds) + Len(feedback)
  BY <1>9, LenProperties
<1>e. ASSUME NEW k \in DOMAIN (first \o then)
      PROVE  \/ k \in DOMAIN seeds /\ (first \o then)[k] = first[k]
             \/ k - Len(seeds) \in DOMAIN feedback /\ (first \o then)[k] = then[k - Len(seeds)]
  BY <1>1, <1>9, <1>d
<1>f. \A k \in DOMAIN seeds : k \in DOMAIN (first \o then) /\ (first \o then)[k] = first[k]
  BY <1>1, <1>9, <1>d
<1>g. ASSUME NEW k \in DOMAIN feedback
      PROVE  Len(seeds) + k \in DOMAIN (first \o then) /\ (first \o then)[Len(seeds) + k] = then[k]
  BY <1>1, <1>9, <1>d
<1> QED
  BY <1>9, <1>a, <1>b, <1>c, <1>e, <1>f, <1>g

\* What "generate --write" plans, from what was read and from what is on file.
LEMMA GeneratedPlan ==
    ASSUME log \in [TransitionIds -> Kinds], NEW p \in Invocations
    PROVE  LET seeds == ToSet(generateLearningProposalSeeds(cmd[p].include))
               all == generatePlan(p)
           IN  /\ all \in Seq(Items)
               /\ \A k \in DOMAIN all :
                      \/ /\ all[k].file = "proposals"
                         /\ \E s \in seeds : /\ all[k].line = proposalLine(s, p)
                                             /\ s.id \notin idsOf(snapshot[p])
                      \/ all[k].file = "feedback" /\ all[k].line \in FeedbackLines
               /\ \A j, k \in DOMAIN all :
                      /\ all[j].file = "proposals" /\ all[k].file = "proposals"
                      /\ all[j].line.proposal.id = all[k].line.proposal.id
                      => j = k
               /\ \A s \in seeds :
                      \/ s.id \in idsOf(snapshot[p])
                      \/ \E k \in DOMAIN all : all[k] = [file |-> "proposals", line |-> proposalLine(s, p)]
               /\ \A s \in seeds : hasFeedback(s) =>
                      \/ feedbackLine(s) \in ToSet(store["feedback"])
                      \/ \E k \in DOMAIN all : all[k] = [file |-> "feedback", line |-> feedbackLine(s)]
<1> DEFINE seeds == generateLearningProposalSeeds(cmd[p].include)
           new == newSeeds(seeds, snapshot[p])
           feedback == newFeedback(seeds)
           all == generatePlan(p)
<1>1. /\ seeds \in Seq(Proposals) /\ Distinct(IdOf, seeds)
      /\ \A s \in ToSet(seeds) : IsRunSeed(s)
  BY RunSeeds
<1>2. all = Lines(new, feedback, p)
  BY DEF generatePlan
<1> HIDE DEF seeds
<1>3. /\ new \in Seq(Proposals)
      /\ Distinct(IdOf, new)
      /\ \A s : s \in ToSet(new) <=> s \in ToSet(seeds) /\ s.id \notin idsOf(snapshot[p])
  BY <1>1, NewSeeds, Zenon
<1>4. /\ feedback \in Seq(FeedbackLines)
      /\ \A s \in ToSet(seeds) : hasFeedback(s) =>
             feedbackLine(s) \in ToSet(store["feedback"]) \cup ToSet(feedback)
  BY <1>1, NewFeedback
<1> HIDE DEF new, feedback, all
<1>5. /\ all \in Seq(Items)
      /\ \A k \in DOMAIN all :
             \/ k \in DOMAIN new /\ all[k] = [file |-> "proposals", line |-> proposalLine(new[k], p)]
             \/ /\ k - Len(new) \in DOMAIN feedback
                /\ all[k] = [file |-> "feedback", line |-> feedback[k - Len(new)]]
      /\ \A k \in DOMAIN new :
             k \in DOMAIN all /\ all[k] = [file |-> "proposals", line |-> proposalLine(new[k], p)]
      /\ \A k \in DOMAIN feedback :
             Len(new) + k \in DOMAIN all /\ all[Len(new) + k] = [file |-> "feedback", line |-> feedback[k]]
  BY <1>2, <1>3, <1>4, PlannedLines
<1>6. \A k \in DOMAIN new : new[k] \in ToSet(new) /\ new[k] \in Proposals
  BY <1>3, ElementOfSeq, LenProperties DEF ToSet
<1>7. \A k \in DOMAIN feedback : feedback[k] \in FeedbackLines
  BY <1>4, ElementOfSeq, LenProperties
<1>8. ASSUME NEW k \in DOMAIN all
      PROVE  \/ /\ all[k].file = "proposals"
                /\ \E s \in ToSet(seeds) : all[k].line = proposalLine(s, p) /\ s.id \notin idsOf(snapshot[p])
             \/ all[k].file = "feedback" /\ all[k].line \in FeedbackLines
  <2>1. CASE k \in DOMAIN new /\ all[k] = [file |-> "proposals", line |-> proposalLine(new[k], p)]
    BY <2>1, <1>3, <1>6
  <2>2. CASE k - Len(new) \in DOMAIN feedback /\ all[k] = [file |-> "feedback", line |-> feedback[k - Len(new)]]
    BY <2>2, <1>7
  <2> QED
    BY <2>1, <2>2, <1>5
<1>9. ASSUME NEW j \in DOMAIN all, NEW k \in DOMAIN all,
             all[j].file = "proposals", all[k].file = "proposals",
             all[j].line.proposal.id = all[k].line.proposal.id
      PROVE  j = k
  <2>1. /\ j \in DOMAIN new /\ all[j].line = proposalLine(new[j], p)
        /\ k \in DOMAIN new /\ all[k].line = proposalLine(new[k], p)
    BY <1>5, <1>9
  <2>2. all[j].line.proposal.id = new[j].id /\ all[k].line.proposal.id = new[k].id
    BY <2>1, <1>6, Validated DEF proposalLine
  <2>3. IdOf[new[j]] = IdOf[new[k]]
    BY <2>1, <2>2, <1>6, <1>9 DEF IdOf
  <2> QED
    BY <2>1, <2>3, <1>3 DEF Distinct
<1>a. ASSUME NEW s \in ToSet(seeds), s.id \notin idsOf(snapshot[p])
      PROVE  \E k \in DOMAIN all : all[k] = [file |-> "proposals", line |-> proposalLine(s, p)]
  <2>1. PICK k \in DOMAIN new : s = new[k]
    BY <1>3, <1>a DEF ToSet
  <2> QED
    BY <2>1, <1>5
<1>b. ASSUME NEW s \in ToSet(seeds), hasFeedback(s), feedbackLine(s) \notin ToSet(store["feedback"])
      PROVE  \E k \in DOMAIN all : all[k] = [file |-> "feedback", line |-> feedbackLine(s)]
  <2>1. PICK k \in DOMAIN feedback : feedbackLine(s) = feedback[k]
    BY <1>4, <1>b DEF ToSet
  <2> QED
    BY <2>1, <1>5
<1> QED
  BY <1>5, <1>8, <1>9, <1>a, <1>b DEF seeds, all

-----------------------------------------------------------------------------
(* Files                                                                   *)

LEMMA RecordsAreWhole == torn \notin Records /\ glued \notin Records /\ torn # glued
<1>1. \A l \in Records : l.kind \in {"proposal", "feedback", "review", "manifest"}
  BY DEF Records, ProposalLines, FeedbackLines, ReviewLines, ManifestLines, proposalLine, feedbackLine
<1>2. torn.kind = "torn" /\ glued.kind = "glued"
  BY DEF torn, glued
<1> QED
  BY <1>1, <1>2

\* The two things that happen to a file: it gets a line, or its torn end is run into.
Lengthened(old, new, line) ==
    /\ torn \notin ToSet(old)
    /\ Len(new) = Len(old) + 1
    /\ \A i \in 1..Len(old) : new[i] = old[i]
    /\ new[Len(old) + 1] = line
RunInto(old, new) ==
    /\ Len(old) > 0 /\ old[Len(old)] = torn
    /\ Len(new) = Len(old)
    /\ \A i \in 1..Len(old) - 1 : new[i] = old[i] /\ old[i] # torn
    /\ new[Len(old)] = glued

LEMMA CleanEnd ==
    ASSUME NEW lines \in Seq(AllLines), TornAtEnd(lines), ~(lines # <<>> /\ Last(lines) = torn)
    PROVE  torn \notin ToSet(lines)
<1> SUFFICES ASSUME NEW i \in DOMAIN lines, lines[i] = torn PROVE FALSE
  BY DEF ToSet
<1>1. i = Len(lines) /\ DOMAIN lines = 1..Len(lines)
  BY LenProperties DEF TornAtEnd
<1> QED
  BY <1>1 DEF Last

LEMMA Lengthening ==
    ASSUME NEW lines \in Seq(AllLines), TornAtEnd(lines), ~(lines # <<>> /\ Last(lines) = torn),
           NEW line \in AllLines
    PROVE  Append(lines, line) \in Seq(AllLines) /\ Lengthened(lines, Append(lines, line), line)
BY CleanEnd, AppendProperties DEF Lengthened

LEMMA RunningInto ==
    ASSUME NEW lines \in Seq(AllLines), TornAtEnd(lines), lines # <<>>, Last(lines) = torn
    PROVE  LET new == [lines EXCEPT ![Len(lines)] = glued]
           IN  new \in Seq(AllLines) /\ RunInto(lines, new)
<1>1. Len(lines) \in Nat \ {0} /\ Len(lines) \in 1..Len(lines) /\ DOMAIN lines = 1..Len(lines)
  BY EmptySeq, LenProperties
<1>2. glued \in AllLines
  BY DEF AllLines
<1>3. LET new == [lines EXCEPT ![Len(lines)] = glued]
      IN  /\ new \in Seq(AllLines) /\ Len(new) = Len(lines)
          /\ \A j \in 1..Len(lines) : new[j] = IF j = Len(lines) THEN glued ELSE lines[j]
  BY <1>1, <1>2, ExceptSeq
<1>4. lines[Len(lines)] = torn
  BY DEF Last
<1>5. \A i \in 1..Len(lines) - 1 : lines[i] # torn
  BY <1>1 DEF TornAtEnd
<1> QED
  BY <1>1, <1>3, <1>4, <1>5 DEF RunInto

\* What that means for the lines of the file.
LEMMA LengthenedLines ==
    ASSUME NEW old \in Seq(AllLines), NEW new \in Seq(AllLines), NEW line, Lengthened(old, new, line)
    PROVE  /\ \A x : x \in ToSet(new) <=> x \in ToSet(old) \/ x = line
           /\ TornAtEnd(new)
<1>1. /\ Len(old) \in Nat /\ DOMAIN old = 1..Len(old)
      /\ DOMAIN new = 1..Len(old) + 1 /\ Len(new) = Len(old) + 1
  BY LenProperties DEF Lengthened
<1>2. ASSUME NEW x \in ToSet(new) PROVE x \in ToSet(old) \/ x = line
  <2>1. PICK i \in 1..Len(old) + 1 : x = new[i]
    BY <1>1 DEF ToSet
  <2>2. CASE i \in 1..Len(old)
    BY <2>1, <2>2, <1>1 DEF ToSet, Lengthened
  <2>3. CASE i = Len(old) + 1
    BY <2>1, <2>3 DEF Lengthened
  <2> QED
    BY <2>2, <2>3, <1>1
<1>3. ASSUME NEW x \in ToSet(old) PROVE x \in ToSet(new)
  <2>1. PICK i \in 1..Len(old) : x = old[i]
    BY <1>1 DEF ToSet
  <2>2. i \in DOMAIN new /\ new[i] = x
    BY <2>1, <1>1 DEF Lengthened
  <2> QED
    BY <2>2 DEF ToSet
<1>4. line \in ToSet(new)
  <2>1. Len(old) + 1 \in DOMAIN new /\ new[Len(old) + 1] = line
    BY <1>1 DEF Lengthened
  <2> QED
    BY <2>1 DEF ToSet
<1>5. ASSUME NEW i \in DOMAIN new, new[i] = torn PROVE i = Len(new)
  <2>1. CASE i \in 1..Len(old)
    <3>1. old[i] = torn
      BY <1>5, <2>1 DEF Lengthened
    <3> QED
      BY <3>1, <2>1, <1>1 DEF ToSet, Lengthened
  <2> QED
    BY <2>1, <1>1
<1> QED
  BY <1>2, <1>3, <1>4, <1>5 DEF TornAtEnd

LEMMA RunIntoLines ==
    ASSUME NEW old \in Seq(AllLines), NEW new \in Seq(AllLines), RunInto(old, new)
    PROVE  /\ \A x : x \in ToSet(new) <=> (x \in ToSet(old) /\ x # torn) \/ x = glued
           /\ torn \in ToSet(old)
           /\ TornAtEnd(new)
<1>1. /\ Len(old) \in Nat /\ DOMAIN old = 1..Len(old) /\ Len(old) \in 1..Len(old)
      /\ DOMAIN new = 1..Len(old) /\ Len(new) = Len(old)
  BY LenProperties DEF RunInto
<1>0. \A n \in Nat : \A i \in 1..n : i = n \/ i \in 1..n - 1
  OBVIOUS
<1>2. ASSUME NEW x \in ToSet(new) PROVE (x \in ToSet(old) /\ x # torn) \/ x = glued
  <2>1. PICK i \in 1..Len(old) : x = new[i]
    BY <1>1 DEF ToSet
  <2>2. CASE i \in 1..Len(old) - 1
    BY <2>1, <2>2, <1>1 DEF ToSet, RunInto
  <2>3. CASE i = Len(old)
    BY <2>1, <2>3 DEF RunInto
  <2> QED
    BY <2>2, <2>3, <1>0, <1>1
<1>3. ASSUME NEW x \in ToSet(old), x # torn PROVE x \in ToSet(new)
  <2>1. PICK i \in 1..Len(old) : x = old[i]
    BY <1>1 DEF ToSet
  <2>2. i # Len(old)
    BY <2>1, <1>3 DEF RunInto
  <2>3. i \in 1..Len(old) - 1
    BY <2>1, <2>2, <1>0, <1>1
  <2>4. i \in DOMAIN new /\ new[i] = x
    BY <2>1, <2>3, <1>1 DEF RunInto
  <2> QED
    BY <2>4 DEF ToSet
<1>4. glued \in ToSet(new) /\ torn \in ToSet(old)
  BY <1>1 DEF ToSet, RunInto
<1>5. ASSUME NEW i \in DOMAIN new PROVE new[i] # torn
  <2>1. CASE i \in 1..Len(old) - 1
    BY <2>1 DEF RunInto
  <2>2. CASE i = Len(old)
    BY <2>2, RecordsAreWhole DEF RunInto
  <2> QED
    BY <2>1, <2>2, <1>1
<1> QED
  BY <1>2, <1>3, <1>4, <1>5, RecordsAreWhole DEF TornAtEnd

-----------------------------------------------------------------------------
(* The steps, by what they do                                              *)

\* The lines a command may decide on.
Decision(p, lines) ==
    /\ lines \in Seq(Items)
    /\ \A k \in DOMAIN lines : Fits(lines[k].file, lines[k].line)
    /\ \A k \in DOMAIN lines : lines[k].file = "proposals" =>
           /\ lines[k].line.by = p /\ Authored(lines[k].line)
           /\ cmd[p].name = "generate" => lines[k].line.proposal.id \notin idsOf(snapshot[p])
    /\ \A k \in DOMAIN lines : lines[k].file = "reviews" => Justified(lines[k].line)
    /\ cmd[p].name = "generate" =>
           /\ \A j, k \in DOMAIN lines :
                  /\ lines[j].file = "proposals" /\ lines[k].file = "proposals"
                  /\ lines[j].line.proposal.id = lines[k].line.proposal.id
                  => j = k
           /\ \A s \in ToSet(generateLearningProposalSeeds(cmd[p].include)) :
                  /\ \/ s.id \in idsOf(snapshot[p])
                     \/ \E k \in DOMAIN lines :
                            lines[k].file = "proposals" /\ lines[k].line.proposal.id = s.id
                  /\ hasFeedback(s) =>
                         \/ \E l \in onFile("feedback") : l.id = feedbackId(s)
                         \/ ~readJsonlIfExists(store["feedback"])
                         \/ \E k \in DOMAIN lines :
                                lines[k].file = "feedback" /\ lines[k].line.id = feedbackId(s)

Decides(p, lines) ==
    /\ pc[p] \in {"reading", "asking"}
    /\ Decision(p, lines)
    /\ Write(p, lines)
    /\ \/ answer' = answer
       \/ pc[p] = "asking" /\ \E a \in Answers : answer' = [answer EXCEPT ![p] = a]
    /\ UNCHANGED <<log, store, cmd, snapshot, tears>>

Asks(p) ==
    /\ pc[p] = "reading" /\ pc' = [pc EXCEPT ![p] = "asking"]
    /\ cmd[p].name = "shadow-run" /\ found(p)
    /\ assessLearningExperimentPreflight(target(p), cmd[p].transition)
    /\ assembled(target(p), cmd[p].transition)
    /\ UNCHANGED <<log, store, cmd, snapshot, plan, written, answer, result, tears>>

Stops(p) ==
    /\ pc[p] # "done"
    /\ \E how \in {"failed", "refused", "died"} : Exit(p, how)
    /\ UNCHANGED <<log, store, cmd, snapshot, answer, tears>>

LEMMA CommandFields ==
    ASSUME TypeOK, NEW p \in Invocations
    PROVE  /\ cmd[p].name = "record" => cmd[p].request \in Proposals
           /\ cmd[p].name \in {"approve", "reject", "expire"} => cmd[p].id \in Ids
           /\ cmd[p].name = "shadow-run" =>
                  /\ cmd[p].id \in Ids /\ cmd[p].transition \in TransitionIds /\ cmd[p].keep \in BOOLEAN
<1>1. cmd[p] \in Commands \cup {NoCommand}
  BY DEF TypeOK
<1> QED
  BY <1>1, RequestsAssumption DEF Commands, NoCommand

LEMMA RecordDecides ==
    ASSUME TypeOK, NEW p \in Invocations, Record(p) PROVE \E lines : Decides(p, lines)
<1> DEFINE l == proposalLine(cmd[p].request, p)
           lines == <<[file |-> "proposals", line |-> l]>>
<1>1. cmd[p].request \in Proposals /\ cmd[p].name = "record"
  BY CommandFields DEF Record
<1>2. l \in ProposalLines /\ l \in Records
  BY <1>1 DEF ProposalLines, Records
<1>3. l.by = p /\ l.proposal = applyLearningProposalValidation(cmd[p].request)
  BY DEF proposalLine
<1>4. Authored(l)
  BY <1>1, <1>3 DEF Authored
<1> HIDE DEF l
<1>5. [file |-> "proposals", line |-> l] \in Items
  BY <1>2 DEF Items, Files
<1>6. lines \in Seq(Items) /\ DOMAIN lines = {1} /\ lines[1].file = "proposals" /\ lines[1].line = l
  BY <1>5
<1> HIDE DEF lines
<1>7. Decision(p, lines)
  BY <1>1, <1>2, <1>3, <1>4, <1>6 DEF Decision, Fits
<1> QED
  BY <1>7 DEF Decides, Record, ReadOthers, lines, l

LEMMA ReviewDecides ==
    ASSUME TypeOK, NEW p \in Invocations, Review(p) PROVE \E lines : Decides(p, lines)
<1> DEFINE l == [kind |-> "review", by |-> p, decision |-> cmd[p].name, id |-> cmd[p].id]
           lines == <<[file |-> "reviews", line |-> l]>>
<1>1. cmd[p].id \in Ids /\ cmd[p].name \in {"approve", "reject", "expire"}
  BY CommandFields DEF Review
<1>2. l \in ReviewLines /\ l \in Records
  BY <1>1 DEF ReviewLines, Records
<1>3. Justified(l)
  BY <1>1 DEF Justified, Review
<1> HIDE DEF l
<1>5. [file |-> "reviews", line |-> l] \in Items
  BY <1>2 DEF Items, Files
<1>6. lines \in Seq(Items) /\ DOMAIN lines = {1} /\ lines[1].file = "reviews" /\ lines[1].line = l
  BY <1>5
<1> HIDE DEF lines
<1>7. Decision(p, lines)
  BY <1>1, <1>2, <1>3, <1>6 DEF Decision, Fits
<1> QED
  BY <1>7 DEF Decides, Review, ReadOthers, lines, l

LEMMA ManifestDecision ==
    ASSUME TypeOK, NEW p \in Invocations, cmd[p].name = "shadow-run",
           NEW status \in {"regression_detected", "incomplete", "paired_evidence_ready_for_review"}
    PROVE  Decision(p, manifestPlan(p, status))
<1> DEFINE l == manifestLine(p, status)
<1>1. cmd[p].id \in Ids /\ cmd[p].transition \in TransitionIds
  BY CommandFields
<1>2. l \in ManifestLines /\ l \in Records
  BY <1>1 DEF manifestLine, ManifestLines, Records
<1> HIDE DEF l
<1>3. [file |-> "manifests", line |-> l] \in Items
  BY <1>2 DEF Items, Files
<1>4. CASE manifestPlan(p, status) = <<>>
  BY <1>4 DEF Decision
<1>5. CASE manifestPlan(p, status) = <<[file |-> "manifests", line |-> l]>>
  <2> DEFINE lines == <<[file |-> "manifests", line |-> l]>>
  <2>1. lines \in Seq(Items) /\ DOMAIN lines = {1} /\ lines[1].file = "manifests" /\ lines[1].line = l
    BY <1>3
  <2> HIDE DEF lines
  <2>2. Decision(p, lines)
    BY <2>1, <1>2 DEF Decision, Fits
  <2> QED
    BY <2>2, <1>5 DEF lines
<1> QED
  BY <1>4, <1>5 DEF manifestPlan, l

LEMMA ShadowRunDecides ==
    ASSUME TypeOK, NEW p \in Invocations, ShadowRun(p) PROVE Asks(p) \/ \E lines : Decides(p, lines)
<1>1. cmd[p].name = "shadow-run"
  BY DEF ShadowRun
<1>2. Decision(p, manifestPlan(p, "regression_detected"))
  BY <1>1, ManifestDecision
<1>3. CASE assembled(target(p), cmd[p].transition)
  BY <1>3 DEF Asks, ShadowRun, ReadOthers
<1>4. CASE ~assembled(target(p), cmd[p].transition)
  BY <1>2, <1>4 DEF Decides, ShadowRun, ReadOthers
<1> QED
  BY <1>3, <1>4

LEMMA ProviderReturnDecides ==
    ASSUME TypeOK, Stages, NEW p \in Invocations, NEW a \in ProviderAnswers, ProviderReturns(p, a)
    PROVE  \E lines : Decides(p, lines)
<1> DEFINE status == evaluateLearningProposalShadowPair(cmd[p].transition, a)
<1>1. cmd[p].name = "shadow-run" /\ pc[p] = "asking"
  BY DEF Stages, ProviderReturns
<1>2. status \in {"regression_detected", "incomplete", "paired_evidence_ready_for_review"}
  BY DEF evaluateLearningProposalShadowPair
<1> HIDE DEF status
<1>3. Decision(p, manifestPlan(p, status))
  BY <1>1, <1>2, ManifestDecision
<1>4. a \in Answers
  BY ProviderAnswersAssumption
<1>5. /\ Write(p, manifestPlan(p, status)) /\ answer' = [answer EXCEPT ![p] = a]
      /\ UNCHANGED <<log, store, cmd, snapshot, tears>>
  BY DEF ProviderReturns, status
<1>6. \E b \in Answers : answer' = [answer EXCEPT ![p] = b]
  BY <1>4, <1>5
<1>7. Decides(p, manifestPlan(p, status))
  BY <1>1, <1>3, <1>5, <1>6 DEF Decides
<1> QED
  BY <1>7

LEMMA GenerateDecides ==
    ASSUME TypeOK, NEW p \in Invocations, Generate(p) PROVE \E lines : Decides(p, lines)
<1> DEFINE seeds == ToSet(generateLearningProposalSeeds(cmd[p].include))
           all == generatePlan(p)
<1>1. log \in [TransitionIds -> Kinds] /\ cmd[p].name = "generate"
  BY DEF TypeOK, Generate
<1>2. /\ all \in Seq(Items)
      /\ \A k \in DOMAIN all :
             \/ /\ all[k].file = "proposals"
                /\ \E s \in seeds : all[k].line = proposalLine(s, p) /\ s.id \notin idsOf(snapshot[p])
             \/ all[k].file = "feedback" /\ all[k].line \in FeedbackLines
      /\ \A j, k \in DOMAIN all :
             /\ all[j].file = "proposals" /\ all[k].file = "proposals"
             /\ all[j].line.proposal.id = all[k].line.proposal.id
             => j = k
      /\ \A s \in seeds :
             \/ s.id \in idsOf(snapshot[p])
             \/ \E k \in DOMAIN all : all[k] = [file |-> "proposals", line |-> proposalLine(s, p)]
      /\ \A s \in seeds : hasFeedback(s) =>
             \/ feedbackLine(s) \in ToSet(store["feedback"])
             \/ \E k \in DOMAIN all : all[k] = [file |-> "feedback", line |-> feedbackLine(s)]
  BY <1>1, GeneratedPlan
<1>3. \A s \in seeds : IsRunSeed(s)
  BY <1>1, RunSeeds
<1> HIDE DEF seeds, all
<1>4. ASSUME NEW s \in seeds
      PROVE  LET l == proposalLine(s, p)
             IN  /\ l \in ProposalLines /\ l.by = p /\ Authored(l)
                 /\ l.proposal.id = s.id
  <2>1. PICK source \in {"prediction", "workspace", "reason", "budget"}, i \in TransitionIds :
            IsSeed(s, source, i)
    BY <1>3 DEF IsRunSeed
  <2>2. /\ s \in Proposals /\ s.source = i /\ s.patch = "none"
        /\ s.status = "pending_review" => proposalSeedEligible(log[i])
    BY <2>1 DEF IsSeed
  <2> DEFINE v == applyLearningProposalValidation(s)
  <2>3. /\ v.id = s.id /\ v.patch = "none" /\ v.source = i
        /\ v.status = "pending_review" => s.status = "pending_review"
    BY <2>2, Validated
  <2> HIDE DEF v
  <2> DEFINE l == proposalLine(s, p)
  <2>4. l \in ProposalLines
    BY <2>2 DEF ProposalLines
  <2>5. l.by = p /\ l.proposal = v
    BY DEF proposalLine, v
  <2> HIDE DEF l
  <2>6. Authored(l)
    BY <1>1, <2>2, <2>3, <2>5 DEF Authored
  <2> QED
    BY <2>3, <2>4, <2>5, <2>6 DEF l
<1>5. \A s : feedbackLine(s).id = feedbackId(s)
  BY DEF feedbackLine
<1>6. ASSUME NEW k \in DOMAIN all PROVE Fits(all[k].file, all[k].line)
  BY <1>2, <1>4 DEF Fits
<1>7. ASSUME NEW k \in DOMAIN all, all[k].file = "proposals"
      PROVE  /\ all[k].line.by = p /\ Authored(all[k].line)
             /\ all[k].line.proposal.id \notin idsOf(snapshot[p])
  BY <1>2, <1>4, <1>7
<1>8. \A k \in DOMAIN all : all[k].file # "reviews"
  BY <1>2
<1>9. ASSUME NEW s \in seeds
      PROVE  \/ s.id \in idsOf(snapshot[p])
             \/ \E k \in DOMAIN all : all[k].file = "proposals" /\ all[k].line.proposal.id = s.id
  BY <1>2, <1>4
<1>a. ASSUME NEW s \in seeds, hasFeedback(s), readJsonlIfExists(store["feedback"])
      PROVE  \/ \E l \in onFile("feedback") : l.id = feedbackId(s)
             \/ \E k \in DOMAIN all : all[k].file = "feedback" /\ all[k].line.id = feedbackId(s)
  <2>1. CASE feedbackLine(s) \in ToSet(store["feedback"])
    <3>1. feedbackLine(s) \notin {torn, glued}
      BY <1>a, <2>1 DEF readJsonlIfExists, ToSet
    <3> QED
      BY <2>1, <3>1, <1>5 DEF onFile
  <2>2. CASE \E k \in DOMAIN all : all[k] = [file |-> "feedback", line |-> feedbackLine(s)]
    BY <2>2, <1>5
  <2> QED
    BY <1>2, <1>a, <2>1, <2>2
<1>b. Decision(p, all)
  BY <1>2, <1>6, <1>7, <1>8, <1>9, <1>a DEF Decision, seeds
<1> QED
  BY <1>b DEF Decides, Generate, ReadOthers, all

\* What can happen in a step.
LEMMA Steps ==
    ASSUME TypeOK, Stages, [Next]_vars
    PROVE  \/ \E p \in Invocations :
                  \/ \E c \in CommandLines : Start(p, c)
                  \/ \E lines : Decides(p, lines)
                  \/ Asks(p) \/ Stops(p)
                  \/ AppendNext(p) \/ DiesAppending(p)
           \/ UNCHANGED vars
<1>1. ASSUME NEW p \in Invocations,
             ReadFails(p) \/ Malformed(p) \/ ReviewFails(p) \/ ShadowRunFails(p) \/ ShadowRunRefused(p) \/ Dies(p)
      PROVE  Stops(p)
  BY <1>1 DEF Stops, ReadFails, Malformed, ReviewFails, ShadowRunFails, ShadowRunRefused, Dies, ReadOthers
<1>2. CASE \E p \in Invocations : \E a \in ProviderAnswers : ProviderReturns(p, a)
  BY <1>2, ProviderReturnDecides
<1> QED
  BY <1>1, <1>2, RecordDecides, GenerateDecides, ReviewDecides, ShadowRunDecides DEF Next, Done

-----------------------------------------------------------------------------
(* Types, stages and torn ends                                             *)

\* The line an invocation is about to append.
next(p) == plan[p][written[p] + 1]

LEMMA NextItem ==
    ASSUME TypeOK, Stages, NEW p \in Invocations, pc[p] = "writing"
    PROVE  /\ written[p] + 1 \in DOMAIN plan[p] /\ next(p) \in Items
           /\ next(p).file \in Files /\ next(p).line \in Records
           /\ Fits(next(p).file, next(p).line)
<1>1. written[p] \in Nat /\ plan[p] \in Seq(Items) /\ written[p] < Len(plan[p])
  BY DEF TypeOK, Stages
<1>2. written[p] + 1 \in DOMAIN plan[p] /\ next(p) \in Items
  BY <1>1 DEF next
<1>3. Fits(next(p).file, next(p).line)
  BY <1>2 DEF TypeOK, next
<1> QED
  BY <1>2, <1>3 DEF Items

\* One file of the store changes, and how.
OneFile(f, line) ==
    /\ store' \in [Files -> Seq(AllLines)]
    /\ \A g \in Files : g # f => store'[g] = store[g]
    /\ \/ Lengthened(store[f], store'[f], line)
       \/ RunInto(store[f], store'[f])

LEMMA AppendStep ==
    ASSUME TypeOK, Stages, TornLast, NEW p \in Invocations, AppendNext(p)
    PROVE  OneFile(next(p).file, next(p).line)
<1> DEFINE f == next(p).file
           l == next(p).line
<1>1. f \in Files /\ l \in AllLines
  BY NextItem DEF AppendNext, AllLines
<1>2. store' = [store EXCEPT ![f] = appendJsonl(store[f], l)]
  BY DEF AppendNext, next
<1> HIDE DEF f, l
<1>3. store \in [Files -> Seq(AllLines)] /\ TornAtEnd(store[f]) /\ store[f] \in Seq(AllLines)
  BY <1>1 DEF TypeOK, TornLast
<1>4. /\ appendJsonl(store[f], l) \in Seq(AllLines)
      /\ \/ Lengthened(store[f], appendJsonl(store[f], l), l)
         \/ RunInto(store[f], appendJsonl(store[f], l))
  BY <1>1, <1>3, Lengthening, RunningInto DEF appendJsonl
<1> QED
  BY <1>1, <1>2, <1>3, <1>4 DEF OneFile, f, l

LEMMA TearStep ==
    ASSUME TypeOK, Stages, TornLast, NEW p \in Invocations, DiesAppending(p)
    PROVE  \/ store' = store
           \/ /\ next(p).file \in Files
              /\ store' \in [Files -> Seq(AllLines)]
              /\ \A g \in Files : g # next(p).file => store'[g] = store[g]
              /\ Lengthened(store[next(p).file], store'[next(p).file], torn)
<1> DEFINE f == next(p).file
           new == IF store[f] # <<>> /\ Last(store[f]) = torn THEN store[f] ELSE Append(store[f], torn)
<1>1. f \in Files /\ torn \in AllLines
  BY NextItem DEF DiesAppending, AllLines
<1>2. store' = [store EXCEPT ![f] = new]
  BY DEF DiesAppending, next
<1> HIDE DEF f
<1>3. store \in [Files -> Seq(AllLines)] /\ TornAtEnd(store[f]) /\ store[f] \in Seq(AllLines)
  BY <1>1 DEF TypeOK, TornLast
<1>4. CASE store[f] # <<>> /\ Last(store[f]) = torn
  BY <1>2, <1>3, <1>4
<1>5. CASE ~(store[f] # <<>> /\ Last(store[f]) = torn)
  <2>1. new \in Seq(AllLines) /\ Lengthened(store[f], new, torn)
    BY <1>1, <1>3, <1>5, Lengthening
  <2> HIDE DEF new
  <2> QED
    BY <1>1, <1>2, <1>3, <2>1 DEF f
<1> QED
  BY <1>4, <1>5

\* What a step leaves of a file's readable lines: all of them.
LEMMA StoreGrows ==
    ASSUME TypeOK, Stages, TornLast, [Next]_vars, NEW f \in Files
    PROVE  /\ store'[f] \in Seq(AllLines) /\ TornAtEnd(store'[f])
           /\ Len(store[f]) <= Len(store'[f])
           /\ \A i \in 1..Len(store[f]) : store[f][i] # torn => store'[f][i] = store[f][i]
           /\ \A x \in ToSet(store[f]) : x # torn => x \in ToSet(store'[f])
           /\ readJsonlIfExists(store'[f]) => readJsonlIfExists(store[f])
<1>1. store[f] \in Seq(AllLines) /\ TornAtEnd(store[f]) /\ Len(store[f]) \in Nat /\ DOMAIN store[f] = 1..Len(store[f])
  BY LenProperties DEF TypeOK, TornLast
<1>2. CASE store'[f] = store[f]
  BY <1>1, <1>2
<1>3. ASSUME NEW line, store'[f] \in Seq(AllLines), Lengthened(store[f], store'[f], line)
      PROVE  /\ TornAtEnd(store'[f]) /\ Len(store[f]) <= Len(store'[f])
             /\ \A i \in 1..Len(store[f]) : store[f][i] # torn => store'[f][i] = store[f][i]
             /\ \A x \in ToSet(store[f]) : x # torn => x \in ToSet(store'[f])
             /\ readJsonlIfExists(store'[f]) => readJsonlIfExists(store[f])
  <2>1. /\ \A x : x \in ToSet(store'[f]) <=> x \in ToSet(store[f]) \/ x = line
        /\ TornAtEnd(store'[f])
    BY <1>1, <1>3, LengthenedLines
  <2>2. DOMAIN store'[f] = 1..Len(store[f]) + 1
    BY <1>3, LenProperties DEF Lengthened
  <2>3. Len(store[f]) <= Len(store'[f]) /\ \A i \in 1..Len(store[f]) : store'[f][i] = store[f][i]
    BY <1>1, <1>3 DEF Lengthened
  <2>4. readJsonlIfExists(store'[f]) => readJsonlIfExists(store[f])
    BY <1>1, <2>2, <2>3 DEF readJsonlIfExists
  <2> QED
    BY <2>1, <2>3, <2>4
<1>4. ASSUME store'[f] \in Seq(AllLines), RunInto(store[f], store'[f])
      PROVE  /\ TornAtEnd(store'[f]) /\ Len(store[f]) <= Len(store'[f])
             /\ \A i \in 1..Len(store[f]) : store[f][i] # torn => store'[f][i] = store[f][i]
             /\ \A x \in ToSet(store[f]) : x # torn => x \in ToSet(store'[f])
             /\ ~readJsonlIfExists(store'[f])
  <2>0. \A n \in Nat : \A i \in 1..n : i = n \/ i \in 1..n - 1
    OBVIOUS
  <2>1. /\ \A x : x \in ToSet(store'[f]) <=> (x \in ToSet(store[f]) /\ x # torn) \/ x = glued
        /\ TornAtEnd(store'[f])
    BY <1>1, <1>4, RunIntoLines
  <2>2. DOMAIN store'[f] = 1..Len(store[f]) /\ Len(store[f]) \in 1..Len(store[f])
    BY <1>1, <1>4, LenProperties DEF RunInto
  <2>3. \A i \in 1..Len(store[f]) : store[f][i] # torn => store'[f][i] = store[f][i]
    BY <1>1, <1>4, <2>0 DEF RunInto
  <2>4. ~readJsonlIfExists(store'[f])
    BY <2>2, <1>4 DEF readJsonlIfExists, RunInto
  <2> QED
    BY <1>1, <1>4, <2>1, <2>3, <2>4 DEF RunInto
<1>5. ASSUME NEW p \in Invocations, AppendNext(p) PROVE OneFile(next(p).file, next(p).line)
  BY <1>5, AppendStep
<1>6. ASSUME NEW p \in Invocations, AppendNext(p)
      PROVE  \/ store'[f] = store[f]
             \/ /\ store'[f] \in Seq(AllLines)
                /\ Lengthened(store[f], store'[f], next(p).line) \/ RunInto(store[f], store'[f])
  BY <1>5, <1>6 DEF OneFile
<1>7. ASSUME NEW p \in Invocations, DiesAppending(p)
      PROVE  \/ store'[f] = store[f]
             \/ store'[f] \in Seq(AllLines) /\ Lengthened(store[f], store'[f], torn)
  BY <1>7, TearStep
<1>8. \/ store'[f] = store[f]
      \/ \E p \in Invocations : AppendNext(p) \/ DiesAppending(p)
  BY Steps DEF Start, Decides, Asks, Stops, vars
<1> QED
  BY <1>2, <1>3, <1>4, <1>6, <1>7, <1>8

LEMMA InitBase == Init => TypeOK /\ Stages /\ TornLast
<1> SUFFICES ASSUME Init PROVE TypeOK /\ Stages /\ TornLast
  OBVIOUS
<1>1. MaxTears \in Nat
  BY NumbersAssumption
<1>2. \A f \in Files : store[f] = <<>>
  BY DEF Init
<1>3. store \in [Files -> Seq(AllLines)]
  BY DEF Init
<1>4. \A f \in Files : onFile(f) = {}
  BY <1>2 DEF onFile, ToSet
<1>5. TypeOK
  BY <1>1, <1>3, <1>4 DEF Init, TypeOK, NoCommand
<1>6. Stages
  BY DEF Init, Stages, NoCommand
<1> QED
  BY <1>2, <1>5, <1>6 DEF TornLast, TornAtEnd

\* What is on file fits there.
LEMMA FilesFit ==
    ASSUME TypeOK, Stages, TornLast, [Next]_vars
    PROVE  \A f \in Files : \A l \in onFile(f)' : Fits(f, l)
<1>1. \A f \in Files : store[f] \in Seq(AllLines) /\ \A l \in onFile(f) : Fits(f, l)
  BY DEF TypeOK
<1>2. CASE store' = store
  BY <1>1, <1>2 DEF onFile
<1>3. ASSUME NEW p \in Invocations, AppendNext(p), NEW f \in Files, NEW l \in onFile(f)' PROVE Fits(f, l)
  <2>1. OneFile(next(p).file, next(p).line)
    BY <1>3, AppendStep
  <2>2. Fits(next(p).file, next(p).line)
    BY <1>3, NextItem DEF AppendNext
  <2>3. CASE store'[f] = store[f]
    BY <1>1, <1>3, <2>3 DEF onFile
  <2>4. CASE f = next(p).file
    <3>1. store'[f] \in Seq(AllLines) /\ store[f] \in Seq(AllLines)
      BY <2>1, <1>1 DEF OneFile
    <3>2. l \in ToSet(store'[f]) /\ l \notin {torn, glued}
      BY <1>3 DEF onFile
    <3>3. l \in ToSet(store[f]) \/ l = next(p).line
      BY <2>1, <2>4, <3>1, <3>2, LengthenedLines, RunIntoLines DEF OneFile
    <3> QED
      BY <1>1, <2>2, <2>4, <3>2, <3>3 DEF onFile
  <2> QED
    BY <2>1, <2>3, <2>4 DEF OneFile
<1>4. ASSUME NEW p \in Invocations, DiesAppending(p), NEW f \in Files, NEW l \in onFile(f)' PROVE Fits(f, l)
  <2>1. l \in ToSet(store'[f]) /\ l \notin {torn, glued}
    BY <1>4 DEF onFile
  <2>2. \/ store'[f] = store[f]
        \/ store'[f] \in Seq(AllLines) /\ Lengthened(store[f], store'[f], torn)
    BY <1>4, TearStep
  <2>3. l \in ToSet(store[f])
    BY <1>1, <2>1, <2>2, LengthenedLines
  <2> QED
    BY <1>1, <2>1, <2>3 DEF onFile
<1>5. store' = store \/ \E p \in Invocations : AppendNext(p) \/ DiesAppending(p)
  BY Steps DEF Start, Decides, Asks, Stops, vars
<1> QED
  BY <1>2, <1>3, <1>4, <1>5

LEMMA NextType == ASSUME TypeOK, Stages, TornLast, [Next]_vars PROVE TypeOK'
<1>0. \A f \in Files : \A l \in onFile(f)' : Fits(f, l)
  BY FilesFit
<1>1. ASSUME NEW p \in Invocations, NEW c \in CommandLines, Start(p, c) PROVE TypeOK'
  <2>1. c \in Commands
    BY CommandLinesAssumption
  <2>2. store["proposals"] \in Seq(ProposalLines)
    <3>1. store["proposals"] \in Seq(AllLines) /\ "proposals" \in Files
      BY DEF TypeOK, Files
    <3>2. \A i \in DOMAIN store["proposals"] : store["proposals"][i] \in onFile("proposals")
      BY <1>1 DEF Start, readJsonlIfExists, onFile, ToSet
    <3>3. \A i \in DOMAIN store["proposals"] : store["proposals"][i] \in ProposalLines
      BY <3>1, <3>2 DEF TypeOK, Fits
    <3> QED
      BY <3>1, <3>3, SeqDef, LenProperties
  <2> QED
    BY <1>0, <1>1, <2>1, <2>2 DEF Start, TypeOK
<1>2. ASSUME NEW p \in Invocations, NEW lines, Decides(p, lines) PROVE TypeOK'
  <2>1. lines \in Seq(Items) /\ \A k \in DOMAIN lines : Fits(lines[k].file, lines[k].line)
    BY <1>2 DEF Decides, Decision
  <2>2. answer' \in [Invocations -> Answers \cup {NoAnswer}]
    BY <1>2 DEF Decides, TypeOK
  <2>3. /\ pc' \in [Invocations -> {"idle", "reading", "asking", "writing", "done"}]
        /\ result' \in [Invocations -> {"none", "ok", "failed", "refused", "died"}]
        /\ written' = written
        /\ plan' = plan \/ plan' = [plan EXCEPT ![p] = lines]
    BY <1>2 DEF Decides, Write, Exit, TypeOK
  <2>4. /\ plan' \in [Invocations -> Seq(Items)]
        /\ \A q \in Invocations : \A k \in DOMAIN plan'[q] : Fits(plan'[q][k].file, plan'[q][k].line)
    BY <2>1, <2>3 DEF TypeOK
  <2> QED
    BY <1>0, <1>2, <2>2, <2>3, <2>4 DEF Decides, TypeOK
<1>3. ASSUME NEW p \in Invocations, Asks(p) PROVE TypeOK'
  BY <1>0, <1>3 DEF Asks, TypeOK
<1>4. ASSUME NEW p \in Invocations, Stops(p) PROVE TypeOK'
  BY <1>0, <1>4 DEF Stops, Exit, TypeOK
<1>5. ASSUME NEW p \in Invocations, AppendNext(p) PROVE TypeOK'
  <2>1. store' \in [Files -> Seq(AllLines)]
    BY <1>5, AppendStep DEF OneFile
  <2>2. written' \in [Invocations -> Nat]
    BY <1>5 DEF AppendNext, TypeOK
  <2>3. /\ pc' \in [Invocations -> {"idle", "reading", "asking", "writing", "done"}]
        /\ result' \in [Invocations -> {"none", "ok", "failed", "refused", "died"}]
    BY <1>5 DEF AppendNext, TypeOK
  <2>4. UNCHANGED <<log, cmd, snapshot, plan, answer, tears>>
    BY <1>5 DEF AppendNext
  <2> QED
    BY <1>0, <1>5, <2>1, <2>2, <2>3, <2>4 DEF TypeOK
<1>6. ASSUME NEW p \in Invocations, DiesAppending(p) PROVE TypeOK'
  <2>1. store' \in [Files -> Seq(AllLines)]
    BY <1>6, TearStep DEF TypeOK
  <2>2. tears' \in 0..MaxTears
    BY <1>6, NumbersAssumption DEF DiesAppending, TypeOK
  <2> QED
    BY <1>0, <1>6, <2>1, <2>2 DEF DiesAppending, Exit, TypeOK
<1>7. CASE UNCHANGED vars
  BY <1>0, <1>7 DEF vars, TypeOK
<1> QED
  BY <1>1, <1>2, <1>3, <1>4, <1>5, <1>6, <1>7, Steps

LEMMA NextStages == ASSUME TypeOK, Stages, TornLast, [Next]_vars PROVE Stages'
<1>1. ASSUME NEW p \in Invocations, NEW c \in CommandLines, Start(p, c) PROVE Stages'
  BY <1>1 DEF Start, TypeOK, Stages
<1>2. ASSUME NEW p \in Invocations, NEW lines, Decides(p, lines) PROVE Stages'
  <2>1. lines \in Seq(Items) /\ pc[p] \in {"reading", "asking"}
    BY <1>2 DEF Decides, Decision
  <2>2. \A q \in Invocations : q # p => answer'[q] = answer[q]
    BY <1>2 DEF Decides, TypeOK
  <2>3. CASE lines = <<>>
    BY <1>2, <2>1, <2>2, <2>3 DEF Decides, Write, Exit, TypeOK, Stages
  <2>4. CASE lines # <<>>
    <3>1. Len(lines) \in Nat \ {0}
      BY <2>1, <2>4, EmptySeq
    <3> QED
      BY <1>2, <2>1, <2>2, <2>4, <3>1 DEF Decides, Write, TypeOK, Stages
  <2> QED
    BY <2>3, <2>4
<1>3. ASSUME NEW p \in Invocations, Asks(p) PROVE Stages'
  BY <1>3 DEF Asks, TypeOK, Stages
<1>4. ASSUME NEW p \in Invocations, Stops(p) PROVE Stages'
  BY <1>4 DEF Stops, Exit, TypeOK, Stages
<1>5. ASSUME NEW p \in Invocations, AppendNext(p) PROVE Stages'
  <2>1. written[p] \in Nat /\ Len(plan[p]) \in Nat /\ written[p] < Len(plan[p]) /\ result[p] = "none"
    BY <1>5 DEF AppendNext, TypeOK, Stages
  <2> QED
    BY <1>5, <2>1 DEF AppendNext, TypeOK, Stages
<1>6. ASSUME NEW p \in Invocations, DiesAppending(p) PROVE Stages'
  BY <1>6 DEF DiesAppending, Exit, TypeOK, Stages
<1>7. CASE UNCHANGED vars
  BY <1>7 DEF vars, Stages
<1> QED
  BY <1>1, <1>2, <1>3, <1>4, <1>5, <1>6, <1>7, Steps

LEMMA NextTorn == ASSUME TypeOK, Stages, TornLast, [Next]_vars PROVE TornLast'
BY StoreGrows DEF TornLast

-----------------------------------------------------------------------------
(* What a step keeps, and where lines come from                            *)

LEMMA Kept ==
    ASSUME TypeOK, Stages, [Next]_vars
    PROVE  /\ log' = log
           /\ \A p \in Invocations : cmd[p] # NoCommand => cmd'[p] = cmd[p] /\ snapshot'[p] = snapshot[p]
<1>1. ASSUME NEW p \in Invocations, NEW c \in CommandLines, Start(p, c)
      PROVE  /\ log' = log
             /\ \A q \in Invocations : cmd[q] # NoCommand => cmd'[q] = cmd[q] /\ snapshot'[q] = snapshot[q]
  BY <1>1 DEF Start, Stages, TypeOK
<1> QED
  BY <1>1, Steps DEF Decides, Asks, Stops, AppendNext, DiesAppending, vars

LEMMA PlanStep ==
    ASSUME TypeOK, Stages, [Next]_vars, NEW q \in Invocations
    PROVE  plan'[q] = plan[q] \/ \E lines : Decides(q, lines) /\ plan'[q] = lines
<1>1. ASSUME NEW p \in Invocations, NEW lines, Decides(p, lines)
      PROVE  plan'[q] = plan[q] \/ (q = p /\ plan'[q] = lines)
  BY <1>1 DEF Decides, Write, Exit, TypeOK
<1>2. ASSUME NEW p \in Invocations, NEW lines, Decides(p, lines)
      PROVE  plan'[q] = plan[q] \/ \E given : Decides(q, given) /\ plan'[q] = given
  BY <1>1, <1>2
<1>3. CASE UNCHANGED plan
  BY <1>3
<1>4. UNCHANGED plan \/ \E p \in Invocations : \E lines : Decides(p, lines)
  BY Steps DEF Start, Asks, Stops, Exit, AppendNext, DiesAppending, vars
<1> QED
  BY <1>2, <1>3, <1>4

\* A line that was not on file was the next one of an invocation's plan.
LEMMA NewOnFile ==
    ASSUME TypeOK, Stages, TornLast, [Next]_vars, NEW f \in Files, NEW l \in onFile(f)', l \notin onFile(f)
    PROVE  \E p \in Invocations : AppendNext(p) /\ next(p) = [file |-> f, line |-> l]
<1>1. store[f] \in Seq(AllLines) /\ l \in ToSet(store'[f]) /\ l \notin {torn, glued} /\ l \notin ToSet(store[f])
  BY DEF TypeOK, onFile
<1>2. CASE store' = store
  BY <1>1, <1>2
<1>3. ASSUME NEW p \in Invocations, AppendNext(p)
      PROVE  AppendNext(p) /\ next(p) = [file |-> f, line |-> l]
  <2>1. OneFile(next(p).file, next(p).line) /\ next(p) \in Items
    BY <1>3, AppendStep, NextItem DEF AppendNext
  <2>2. next(p).file = f
    BY <1>1, <2>1 DEF OneFile
  <2>3. store'[f] \in Seq(AllLines)
    BY <2>1 DEF OneFile
  <2>4. next(p).line = l
    BY <1>1, <2>1, <2>2, <2>3, LengthenedLines, RunIntoLines DEF OneFile
  <2> QED
    BY <1>3, <2>1, <2>2, <2>4 DEF Items
<1>4. ASSUME NEW p \in Invocations, DiesAppending(p) PROVE FALSE
  <2>1. \/ store'[f] = store[f]
        \/ store'[f] \in Seq(AllLines) /\ Lengthened(store[f], store'[f], torn)
    BY <1>4, TearStep
  <2> QED
    BY <1>1, <2>1, LengthenedLines
<1>5. store' = store \/ \E p \in Invocations : AppendNext(p) \/ DiesAppending(p)
  BY Steps DEF Start, Decides, Asks, Stops, vars
<1> QED
  BY <1>2, <1>3, <1>4, <1>5

\* What is on file stays there.
LEMMA OnFileStays ==
    ASSUME TypeOK, Stages, TornLast, [Next]_vars, NEW f \in Files, NEW l \in onFile(f)
    PROVE  l \in onFile(f)'
BY StoreGrows DEF onFile

LEMMA NextSnapshots == ASSUME TypeOK, Stages, TornLast, SnapshotsAreOld, [Next]_vars PROVE SnapshotsAreOld'
<1>0. "proposals" \in Files
  BY DEF Files
<1>1. ASSUME NEW p \in Invocations, NEW c \in CommandLines, Start(p, c) PROVE SnapshotsAreOld'
  <2>1. store["proposals"] \in Seq(AllLines) /\ Len(store["proposals"]) \in Nat
    BY <1>0 DEF TypeOK
  <2> QED
    BY <1>1, <2>1 DEF Start, SnapshotsAreOld, TypeOK
<1>2. CASE UNCHANGED snapshot
  <2> SUFFICES ASSUME NEW p \in Invocations
               PROVE  /\ Len(snapshot[p]) <= Len(store'["proposals"])
                      /\ \A i \in DOMAIN snapshot[p] : snapshot[p][i] = store'["proposals"][i]
    BY <1>2 DEF SnapshotsAreOld
  <2>1. /\ Len(snapshot[p]) \in Nat /\ DOMAIN snapshot[p] = 1..Len(snapshot[p])
        /\ \A i \in DOMAIN snapshot[p] : snapshot[p][i] \in ProposalLines
    BY LenProperties, ElementOfSeq DEF TypeOK
  <2>2. Len(store["proposals"]) \in Nat /\ Len(store'["proposals"]) \in Nat
    BY <1>0, StoreGrows, LenProperties DEF TypeOK
  <2>3. \A i \in DOMAIN snapshot[p] : snapshot[p][i] # torn
    BY <2>1, RecordsAreWhole DEF Records
  <2>4. /\ Len(store["proposals"]) <= Len(store'["proposals"])
        /\ \A i \in 1..Len(store["proposals"]) :
               store["proposals"][i] # torn => store'["proposals"][i] = store["proposals"][i]
    BY <1>0, StoreGrows
  <2>5. /\ Len(snapshot[p]) <= Len(store["proposals"])
        /\ \A i \in DOMAIN snapshot[p] : snapshot[p][i] = store["proposals"][i]
    BY DEF SnapshotsAreOld
  <2>6. ASSUME NEW i \in DOMAIN snapshot[p] PROVE snapshot[p][i] = store'["proposals"][i]
    <3>1. i \in 1..Len(store["proposals"])
      BY <2>1, <2>2, <2>5
    <3> QED
      BY <3>1, <2>3, <2>4, <2>5
  <2> QED
    BY <2>1, <2>2, <2>4, <2>5, <2>6
<1>3. UNCHANGED snapshot \/ \E p \in Invocations : \E c \in CommandLines : Start(p, c)
  BY Steps DEF Decides, Asks, Stops, AppendNext, DiesAppending, vars
<1> QED
  BY <1>1, <1>2, <1>3

LEMMA AuthoredStays ==
    ASSUME TypeOK, Stages, [Next]_vars, NEW l, l.by \in Invocations, Authored(l)
    PROVE  Authored(l)' /\ cmd'[l.by] = cmd[l.by] /\ snapshot'[l.by] = snapshot[l.by]
<1>1. cmd[l.by] # NoCommand
  BY DEF Authored, NoCommand
<1>2. log' = log /\ cmd'[l.by] = cmd[l.by] /\ snapshot'[l.by] = snapshot[l.by]
  BY <1>1, Kept
<1> QED
  BY <1>2 DEF Authored

LEMMA JustifiedStays ==
    ASSUME TypeOK, Stages, [Next]_vars, NEW r, r.by \in Invocations, Justified(r)
    PROVE  Justified(r)'
<1>1. CASE r.decision # "approve"
  BY <1>1 DEF Justified
<1>2. CASE r.decision = "approve"
  <2>1. cmd[r.by] # NoCommand
    BY <1>2 DEF Justified, NoCommand
  <2>2. cmd'[r.by] = cmd[r.by] /\ snapshot'[r.by] = snapshot[r.by]
    BY <2>1, Kept
  <2> QED
    BY <1>2, <2>2 DEF Justified, found, target
<1> QED
  BY <1>1, <1>2

LEMMA NextAuthored ==
    ASSUME TypeOK, Stages, TornLast, PlansAreAuthored, LinesAreAuthored, [Next]_vars
    PROVE  PlansAreAuthored' /\ LinesAreAuthored'
<1>1. ASSUME NEW p \in Invocations, NEW k \in DOMAIN plan'[p], NEW l, l = plan'[p][k].line,
             plan'[p][k].file = "proposals"
      PROVE  /\ l.by = p /\ Authored(l)'
             /\ cmd'[p].name = "generate" => l.proposal.id \notin idsOf(snapshot'[p])
  <2>1. /\ l.by = p /\ Authored(l)
        /\ cmd[p].name = "generate" => l.proposal.id \notin idsOf(snapshot[p])
    <3>1. CASE plan'[p] = plan[p]
      BY <1>1, <3>1 DEF PlansAreAuthored
    <3>2. ASSUME NEW lines, Decides(p, lines), plan'[p] = lines
          PROVE  /\ l.by = p /\ Authored(l)
                 /\ cmd[p].name = "generate" => l.proposal.id \notin idsOf(snapshot[p])
      BY <1>1, <3>2 DEF Decides, Decision
    <3> QED
      BY <3>1, <3>2, PlanStep
  <2>2. Authored(l)' /\ cmd'[l.by] = cmd[l.by] /\ snapshot'[l.by] = snapshot[l.by]
    BY <2>1, AuthoredStays
  <2> QED
    BY <2>1, <2>2
<1>2. ASSUME NEW p \in Invocations, NEW k \in DOMAIN plan'[p], plan'[p][k].file = "proposals"
      PROVE  /\ plan'[p][k].line.by = p /\ Authored(plan[p][k].line)'
             /\ cmd'[p].name = "generate" => plan'[p][k].line.proposal.id \notin idsOf(snapshot'[p])
  BY <1>1, <1>2 DEF Authored
<1>3. ASSUME NEW l \in onFile("proposals")' PROVE Authored(l)'
  <2>0. "proposals" \in Files
    BY DEF Files
  <2>1. l \in ProposalLines
    BY <2>0, FilesFit DEF Fits
  <2>2. l.by \in Invocations
    BY <2>1 DEF ProposalLines, proposalLine
  <2>3. CASE l \in onFile("proposals")
    BY <2>2, <2>3, AuthoredStays DEF LinesAreAuthored
  <2>4. CASE l \notin onFile("proposals")
    <3>1. PICK p \in Invocations : AppendNext(p) /\ next(p) = [file |-> "proposals", line |-> l]
      BY <2>0, <2>4, NewOnFile
    <3>2. written[p] + 1 \in DOMAIN plan[p]
      BY <3>1, NextItem DEF AppendNext
    <3>3. Authored(l)
      BY <3>1, <3>2 DEF PlansAreAuthored, next
    <3> QED
      BY <2>2, <3>3, AuthoredStays
  <2> QED
    BY <2>3, <2>4
<1> QED
  BY <1>2, <1>3 DEF LinesAreAuthored, PlansAreAuthored

LEMMA NextJustified ==
    ASSUME TypeOK, Stages, TornLast, ReviewsAreJustified, [Next]_vars
    PROVE  ReviewsAreJustified'
<1>0. "reviews" \in Files
  BY DEF Files
<1>1. ASSUME NEW l, Fits("reviews", l) PROVE l.by \in Invocations
  BY <1>1 DEF Fits, ReviewLines
<1>2. ASSUME NEW p \in Invocations, NEW k \in DOMAIN plan'[p], NEW l, l = plan'[p][k].line,
             plan'[p][k].file = "reviews"
      PROVE  Justified(l)'
  <2>1. Justified(l) /\ Fits("reviews", l)
    <3>1. CASE plan'[p] = plan[p]
      BY <1>2, <3>1 DEF ReviewsAreJustified, TypeOK
    <3>2. ASSUME NEW lines, Decides(p, lines), plan'[p] = lines PROVE Justified(l) /\ Fits("reviews", l)
      BY <1>2, <3>2 DEF Decides, Decision
    <3> QED
      BY <3>1, <3>2, PlanStep
  <2> QED
    BY <2>1, <1>1, JustifiedStays
<1>3. ASSUME NEW p \in Invocations, NEW k \in DOMAIN plan'[p], plan'[p][k].file = "reviews"
      PROVE  Justified(plan[p][k].line)'
  BY <1>2, <1>3 DEF Justified
<1>4. ASSUME NEW l \in onFile("reviews")' PROVE Justified(l)'
  <2>1. Fits("reviews", l)
    BY <1>0, FilesFit
  <2>2. CASE l \in onFile("reviews")
    BY <1>1, <2>1, <2>2, JustifiedStays DEF ReviewsAreJustified
  <2>3. CASE l \notin onFile("reviews")
    <3>1. PICK p \in Invocations : AppendNext(p) /\ next(p) = [file |-> "reviews", line |-> l]
      BY <1>0, <2>3, NewOnFile
    <3>2. written[p] + 1 \in DOMAIN plan[p]
      BY <3>1, NextItem DEF AppendNext
    <3>3. Justified(l)
      BY <3>1, <3>2 DEF ReviewsAreJustified, next
    <3> QED
      BY <1>1, <2>1, <3>3, JustifiedStays
  <2> QED
    BY <2>2, <2>3
<1> QED
  BY <1>3, <1>4 DEF ReviewsAreJustified

LEMMA NextAskers ==
    ASSUME TypeOK, Stages, AskersPassedPreflight, [Next]_vars
    PROVE  AskersPassedPreflight'
<1>1. ASSUME NEW p \in Invocations, pc'[p] = "asking" \/ answer'[p] # NoAnswer
      PROVE  /\ cmd[p].name = "shadow-run" /\ found(p)
             /\ assessLearningExperimentPreflight(target(p), cmd[p].transition)
             /\ assembled(target(p), cmd[p].transition)
  <2>1. CASE pc[p] = "asking" \/ answer[p] # NoAnswer
    BY <2>1 DEF AskersPassedPreflight
  <2>2. CASE Asks(p)
    BY <2>2 DEF Asks
  <2>3. ASSUME NEW q \in Invocations, \E c \in CommandLines : Start(q, c)
        PROVE  pc[p] = "asking" \/ answer[p] # NoAnswer
    BY <1>1, <2>3 DEF Start, TypeOK
  <2>4. ASSUME NEW q \in Invocations, NEW lines, Decides(q, lines)
        PROVE  pc[p] = "asking" \/ answer[p] # NoAnswer
    <3>1. pc'[p] = "asking" => pc[p] = "asking"
      BY <2>4 DEF Decides, Write, Exit, TypeOK
    <3>2. CASE answer' = answer
      BY <1>1, <3>1, <3>2
    <3>3. CASE pc[q] = "asking" /\ \E a \in Answers : answer' = [answer EXCEPT ![q] = a]
      BY <1>1, <3>1, <3>3 DEF TypeOK
    <3> QED
      BY <2>4, <3>2, <3>3 DEF Decides
  <2>5. ASSUME NEW q \in Invocations, Asks(q), q # p PROVE pc[p] = "asking" \/ answer[p] # NoAnswer
    BY <1>1, <2>5 DEF Asks, TypeOK
  <2>6. ASSUME NEW q \in Invocations, Stops(q) PROVE pc[p] = "asking" \/ answer[p] # NoAnswer
    BY <1>1, <2>6 DEF Stops, Exit, TypeOK
  <2>7. ASSUME NEW q \in Invocations, AppendNext(q) PROVE pc[p] = "asking" \/ answer[p] # NoAnswer
    BY <1>1, <2>7 DEF AppendNext, TypeOK
  <2>8. ASSUME NEW q \in Invocations, DiesAppending(q) PROVE pc[p] = "asking" \/ answer[p] # NoAnswer
    BY <1>1, <2>8 DEF DiesAppending, Exit, TypeOK
  <2>9. CASE UNCHANGED vars
    BY <1>1, <2>1, <2>9 DEF vars
  <2> QED
    BY <2>1, <2>2, <2>3, <2>4, <2>5, <2>6, <2>7, <2>8, <2>9, Steps
<1>2. ASSUME NEW p \in Invocations, pc'[p] = "asking" \/ answer'[p] # NoAnswer
      PROVE  log' = log /\ cmd'[p] = cmd[p] /\ snapshot'[p] = snapshot[p]
  <2>1. cmd[p] # NoCommand
    BY <1>1, <1>2 DEF NoCommand
  <2> QED
    BY <2>1, Kept
<1>3. ASSUME NEW p \in Invocations, pc'[p] = "asking" \/ answer'[p] # NoAnswer
      PROVE  (/\ cmd[p].name = "shadow-run" /\ found(p)
              /\ assessLearningExperimentPreflight(target(p), cmd[p].transition)
              /\ assembled(target(p), cmd[p].transition))'
  BY <1>1, <1>2, <1>3 DEF found, target, assessLearningExperimentPreflight, assembled,
     assessShadowWorkspaceOverlayEligibility, sameSliceProviderEligible, proposalSeedEligible
<1> QED
  BY <1>3 DEF AskersPassedPreflight, NoAnswer

LEMMA NextDistinct ==
    ASSUME TypeOK, Stages, PlansAreDistinct, [Next]_vars
    PROVE  PlansAreDistinct'
<1>1. ASSUME NEW p \in Invocations, cmd'[p].name = "generate",
             NEW j \in DOMAIN plan'[p], NEW k \in DOMAIN plan'[p],
             plan'[p][j].file = "proposals", plan'[p][k].file = "proposals",
             plan'[p][j].line.proposal.id = plan'[p][k].line.proposal.id
      PROVE  j = k
  <2>1. CASE cmd[p] # NoCommand
    <3>1. cmd[p].name = "generate"
      BY <1>1, <2>1, Kept
    <3>2. CASE plan'[p] = plan[p]
      BY <1>1, <3>1, <3>2 DEF PlansAreDistinct
    <3>3. ASSUME NEW lines, Decides(p, lines), plan'[p] = lines PROVE j = k
      BY <1>1, <3>1, <3>3 DEF Decides, Decision
    <3> QED
      BY <3>2, <3>3, PlanStep
  <2>2. CASE cmd[p] = NoCommand
    <3>1. cmd'[p] # NoCommand
      BY <1>1 DEF NoCommand
    <3>2. \E q \in Invocations : \E c \in CommandLines : Start(q, c)
      BY <2>2, <3>1, Steps DEF Decides, Asks, Stops, AppendNext, DiesAppending, vars
    <3>3. Start(p, cmd'[p])
      BY <2>2, <3>1, <3>2 DEF Start, TypeOK
    <3>4. plan'[p] = <<>>
      BY <3>3 DEF Start, Stages
    <3> QED
      BY <1>1, <3>4
  <2> QED
    BY <2>1, <2>2
<1> QED
  BY <1>1 DEF PlansAreDistinct

\* A command either goes on as it was or begins with nothing planned.
LEMMA Begins ==
    ASSUME TypeOK, Stages, [Next]_vars, NEW p \in Invocations
    PROVE  \/ cmd'[p] = cmd[p] /\ snapshot'[p] = snapshot[p]
           \/ cmd[p] = NoCommand /\ plan'[p] = <<>> /\ written'[p] = 0 /\ pc'[p] = "reading" /\ result'[p] = "none"
<1>1. CASE cmd[p] # NoCommand
  BY <1>1, Kept
<1>2. ASSUME cmd[p] = NoCommand, NEW q \in Invocations, NEW c \in CommandLines, Start(q, c)
      PROVE  \/ cmd'[p] = cmd[p] /\ snapshot'[p] = snapshot[p]
             \/ plan'[p] = <<>> /\ written'[p] = 0 /\ pc'[p] = "reading" /\ result'[p] = "none"
  <2>1. CASE q = p
    BY <1>2, <2>1 DEF Start, TypeOK, Stages
  <2>2. CASE q # p
    BY <1>2, <2>2 DEF Start, TypeOK
  <2> QED
    BY <2>1, <2>2
<1>3. \/ cmd' = cmd /\ snapshot' = snapshot
      \/ \E q \in Invocations : \E c \in CommandLines : Start(q, c)
  BY Steps DEF Decides, Asks, Stops, AppendNext, DiesAppending, vars
<1> QED
  BY <1>1, <1>2, <1>3

\* What has been appended grows by one; from the first append on the plan is fixed.
LEMMA WrittenStep ==
    ASSUME TypeOK, Stages, [Next]_vars, NEW p \in Invocations
    PROVE  /\ written[p] \in Nat
           /\ written'[p] = written[p] \/ (AppendNext(p) /\ written'[p] = written[p] + 1)
           /\ pc[p] \in {"writing", "done"} => plan'[p] = plan[p]
           /\ written[p] > 0 => plan'[p] = plan[p]
<1>1. written[p] \in Nat
  BY DEF TypeOK
<1>2. ASSUME NEW q \in Invocations, AppendNext(q)
      PROVE  written'[p] = written[p] \/ (AppendNext(p) /\ written'[p] = written[p] + 1)
  BY <1>2 DEF AppendNext, TypeOK
<1>3. written'[p] = written[p] \/ (AppendNext(p) /\ written'[p] = written[p] + 1)
  BY <1>2, Steps DEF Start, Decides, Write, Exit, Asks, Stops, DiesAppending, vars
<1>4. written[p] > 0 => pc[p] \in {"writing", "done"}
  BY <1>1 DEF TypeOK, Stages
<1>5. pc[p] \in {"writing", "done"} => plan'[p] = plan[p]
  BY PlanStep DEF Decides
<1> QED
  BY <1>1, <1>3, <1>4, <1>5

\* A whole line of a file was there at its place, or is the one an invocation appends.
LEMMA LineOrigin ==
    ASSUME TypeOK, Stages, TornLast, [Next]_vars, NEW f \in Files,
           NEW i \in DOMAIN store'[f], store'[f][i] \notin {torn, glued}
    PROVE  \/ i \in DOMAIN store[f] /\ store[f][i] = store'[f][i]
           \/ /\ i = Len(store[f]) + 1
              /\ \E p \in Invocations : AppendNext(p) /\ next(p) = [file |-> f, line |-> store'[f][i]]
<1>0. \A n \in Nat : \A h \in 1..n : h = n \/ h \in 1..n - 1
  OBVIOUS
<1>1. store[f] \in Seq(AllLines) /\ Len(store[f]) \in Nat /\ DOMAIN store[f] = 1..Len(store[f])
  BY LenProperties DEF TypeOK
<1>2. CASE store' = store
  BY <1>2
<1>3. ASSUME NEW line, store'[f] \in Seq(AllLines), Lengthened(store[f], store'[f], line)
      PROVE  \/ i \in DOMAIN store[f] /\ store[f][i] = store'[f][i]
             \/ i = Len(store[f]) + 1 /\ store'[f][i] = line
  <2>1. i \in 1..Len(store[f]) + 1
    BY <1>3, LenProperties DEF Lengthened
  <2> QED
    BY <2>1, <1>1, <1>3 DEF Lengthened
<1>4. ASSUME store'[f] \in Seq(AllLines), RunInto(store[f], store'[f])
      PROVE  i \in DOMAIN store[f] /\ store[f][i] = store'[f][i]
  <2>1. i \in 1..Len(store[f])
    BY <1>4, LenProperties DEF RunInto
  <2>2. i # Len(store[f])
    BY <1>4 DEF RunInto
  <2>3. i \in 1..Len(store[f]) - 1
    BY <2>1, <2>2, <1>0, <1>1
  <2> QED
    BY <2>1, <2>3, <1>1, <1>4 DEF RunInto
<1>5. ASSUME NEW p \in Invocations, AppendNext(p)
      PROVE  \/ i \in DOMAIN store[f] /\ store[f][i] = store'[f][i]
             \/ i = Len(store[f]) + 1 /\ next(p) = [file |-> f, line |-> store'[f][i]]
  <2>1. OneFile(next(p).file, next(p).line) /\ next(p) \in Items
    BY <1>5, AppendStep, NextItem DEF AppendNext
  <2>2. CASE next(p).file # f
    BY <2>1, <2>2 DEF OneFile
  <2>3. CASE next(p).file = f
    <3>1. store'[f] \in Seq(AllLines)
      BY <2>1 DEF OneFile
    <3>2. CASE RunInto(store[f], store'[f])
      BY <3>1, <3>2, <1>4
    <3>3. CASE Lengthened(store[f], store'[f], next(p).line)
      BY <3>1, <3>3, <1>3, <2>1, <2>3 DEF Items
    <3> QED
      BY <3>2, <3>3, <2>1, <2>3 DEF OneFile
  <2> QED
    BY <2>2, <2>3
<1>6. ASSUME NEW p \in Invocations, DiesAppending(p)
      PROVE  i \in DOMAIN store[f] /\ store[f][i] = store'[f][i]
  <2>1. CASE store'[f] = store[f]
    BY <2>1
  <2>2. CASE store'[f] \in Seq(AllLines) /\ Lengthened(store[f], store'[f], torn)
    BY <2>2, <1>3
  <2> QED
    BY <1>6, <2>1, <2>2, TearStep
<1>7. store' = store \/ \E p \in Invocations : AppendNext(p) \/ DiesAppending(p)
  BY Steps DEF Start, Decides, Asks, Stops, vars
<1> QED
  BY <1>2, <1>5, <1>6, <1>7

\* Who is the author of a line on file.
LEMMA Authors ==
    ASSUME TypeOK, LinesAreAuthored, NEW l \in onFile("proposals")
    PROVE  l \in ProposalLines /\ l.by \in Invocations /\ Authored(l) /\ cmd[l.by] # NoCommand
<1>1. l \in ProposalLines
  BY DEF TypeOK, Fits, Files
<1>2. l.by \in Invocations
  BY <1>1 DEF ProposalLines, proposalLine
<1>3. Authored(l)
  BY DEF LinesAreAuthored
<1> QED
  BY <1>1, <1>2, <1>3 DEF Authored, NoCommand

LEMMA NextGenerated ==
    ASSUME TypeOK, Stages, TornLast, PlansAreAuthored, LinesAreAuthored, GeneratedWasPlanned, [Next]_vars
    PROVE  GeneratedWasPlanned'
<1>0. "proposals" \in Files
  BY DEF Files
<1>1. ASSUME NEW l \in onFile("proposals")', cmd'[l.by].name = "generate"
      PROVE  \E k \in 1..written'[l.by] : plan'[l.by][k] = [file |-> "proposals", line |-> l]
  <2>1. CASE l \in onFile("proposals")
    <3>1. l.by \in Invocations /\ cmd'[l.by] = cmd[l.by]
      BY <2>1, Authors, Kept
    <3>2. PICK k \in 1..written[l.by] : plan[l.by][k] = [file |-> "proposals", line |-> l]
      BY <1>1, <2>1, <3>1 DEF GeneratedWasPlanned
    <3>3. /\ written[l.by] \in Nat /\ written[l.by] > 0
          /\ written'[l.by] = written[l.by] \/ written'[l.by] = written[l.by] + 1
      BY <3>1, <3>2, WrittenStep
    <3>4. plan'[l.by] = plan[l.by]
      BY <3>1, <3>3, WrittenStep
    <3>5. k \in 1..written'[l.by]
      BY <3>2, <3>3
    <3> QED
      BY <3>2, <3>4, <3>5
  <2>2. CASE l \notin onFile("proposals")
    <3>1. PICK p \in Invocations : AppendNext(p) /\ next(p) = [file |-> "proposals", line |-> l]
      BY <1>0, <2>2, NewOnFile
    <3>2. written[p] + 1 \in DOMAIN plan[p] /\ written[p] \in Nat
      BY <3>1, NextItem DEF AppendNext, TypeOK
    <3>3. l.by = p
      BY <3>1, <3>2 DEF PlansAreAuthored, next
    <3>4. written'[p] = written[p] + 1 /\ plan'[p] = plan[p]
      BY <3>1 DEF AppendNext, TypeOK
    <3>5. written[p] + 1 \in 1..written'[p]
      BY <3>2, <3>4
    <3> QED
      BY <3>1, <3>3, <3>4, <3>5 DEF next
  <2> QED
    BY <2>1, <2>2
<1> QED
  BY <1>1 DEF GeneratedWasPlanned

LEMMA NextOnce ==
    ASSUME TypeOK, Stages, TornLast, PlansAreAuthored, LinesAreAuthored, PlansAreDistinct,
           GeneratedWasPlanned, GeneratedOnce, [Next]_vars
    PROVE  GeneratedOnce'
<1>0. "proposals" \in Files
  BY DEF Files
<1> DEFINE old == store["proposals"]
           new == store'["proposals"]
           Whole(l) == l \notin {torn, glued}
<1>1. ASSUME NEW i \in DOMAIN old, Whole(old[i])
      PROVE  old[i] \in onFile("proposals")
  BY <1>1 DEF onFile, ToSet
<1>2. ASSUME NEW i \in DOMAIN new, NEW j \in DOMAIN new, Whole(new[i]), Whole(new[j]),
             new[i].by = new[j].by, cmd'[new[i].by].name = "generate",
             new[i].proposal.id = new[j].proposal.id,
             i \in DOMAIN old, old[i] = new[i], j \in DOMAIN old, old[j] = new[j]
      PROVE  i = j
  <2>1. old[i] \in onFile("proposals")
    BY <1>1, <1>2
  <2>2. cmd'[old[i].by] = cmd[old[i].by]
    BY <2>1, Authors, Kept
  <2> QED
    BY <1>2, <2>2 DEF GeneratedOnce
<1>3. ASSUME NEW i \in DOMAIN old, Whole(old[i]), NEW p \in Invocations, AppendNext(p),
             next(p).file = "proposals", next(p).line.by = old[i].by,
             next(p).line.proposal.id = old[i].proposal.id, cmd[old[i].by].name = "generate"
      PROVE  FALSE
  <2>1. written[p] + 1 \in DOMAIN plan[p] /\ written[p] \in Nat
    BY <1>3, NextItem DEF AppendNext, TypeOK
  <2>2. old[i].by = p
    BY <1>3, <2>1 DEF PlansAreAuthored, next
  <2>3. PICK k \in 1..written[p] : plan[p][k] = [file |-> "proposals", line |-> old[i]]
    BY <1>1, <1>3, <2>2 DEF GeneratedWasPlanned
  <2>4. k \in DOMAIN plan[p]
    BY <2>1, <2>3, LenProperties DEF TypeOK
  <2>5. k = written[p] + 1
    BY <1>3, <2>1, <2>2, <2>3, <2>4 DEF PlansAreDistinct, next
  <2> QED
    BY <2>1, <2>3, <2>5
<1>4. ASSUME NEW i \in DOMAIN new, NEW j \in DOMAIN new, Whole(new[i]), Whole(new[j]),
             new[i].by = new[j].by, cmd'[new[i].by].name = "generate",
             new[i].proposal.id = new[j].proposal.id,
             i \in DOMAIN old, old[i] = new[i],
             NEW p \in Invocations, AppendNext(p), next(p) = [file |-> "proposals", line |-> new[j]]
      PROVE  FALSE
  <2>1. old[i] \in onFile("proposals")
    BY <1>1, <1>4
  <2>2. cmd[old[i].by].name = "generate"
    BY <1>4, <2>1, Authors, Kept
  <2> QED
    BY <1>3, <1>4, <2>2
<1>5. ASSUME NEW i \in DOMAIN new, NEW j \in DOMAIN new, Whole(new[i]), Whole(new[j]),
             new[i].by = new[j].by, cmd'[new[i].by].name = "generate",
             new[i].proposal.id = new[j].proposal.id
      PROVE  i = j
  <2>1. \/ i \in DOMAIN old /\ old[i] = new[i]
        \/ /\ i = Len(old) + 1
           /\ \E p \in Invocations : AppendNext(p) /\ next(p) = [file |-> "proposals", line |-> new[i]]
    BY <1>0, <1>5, LineOrigin
  <2>2. \/ j \in DOMAIN old /\ old[j] = new[j]
        \/ /\ j = Len(old) + 1
           /\ \E p \in Invocations : AppendNext(p) /\ next(p) = [file |-> "proposals", line |-> new[j]]
    BY <1>0, <1>5, LineOrigin
  <2>3. CASE i \in DOMAIN old /\ old[i] = new[i] /\ j \in DOMAIN old /\ old[j] = new[j]
    BY <1>2, <1>5, <2>3
  <2>4. CASE i \in DOMAIN old /\ old[i] = new[i]
             /\ \E p \in Invocations : AppendNext(p) /\ next(p) = [file |-> "proposals", line |-> new[j]]
    BY <1>4, <1>5, <2>4
  <2>5. CASE j \in DOMAIN old /\ old[j] = new[j]
             /\ \E p \in Invocations : AppendNext(p) /\ next(p) = [file |-> "proposals", line |-> new[i]]
    BY <1>4, <1>5, <2>5
  <2> QED
    BY <2>1, <2>2, <2>3, <2>4, <2>5
<1> QED
  BY <1>5 DEF GeneratedOnce

LEMMA NextWritten ==
    ASSUME TypeOK, Stages, TornLast, WrittenIsOnFile, [Next]_vars
    PROVE  WrittenIsOnFile'
<1>1. ASSUME NEW p \in Invocations, NEW k \in 1..written'[p]
      PROVE  \/ plan'[p][k].line \in onFile(plan[p][k].file)'
             \/ ~readJsonlIfExists(store'[plan'[p][k].file])
  <2>1. /\ written[p] \in Nat
        /\ written'[p] = written[p] \/ (AppendNext(p) /\ written'[p] = written[p] + 1)
    BY WrittenStep
  <2>2. CASE k \in 1..written[p]
    <3>1. plan'[p] = plan[p]
      BY <2>1, <2>2, WrittenStep
    <3>2. plan[p][k].file \in Files
      <4>1. plan[p] \in Seq(Items) /\ written[p] <= Len(plan[p])
        BY DEF TypeOK, Stages
      <4>2. k \in 1..Len(plan[p])
        BY <2>1, <2>2, <4>1
      <4>3. plan[p][k] \in Items
        BY <4>1, <4>2, ElementOfSeq
      <4> QED
        BY <4>3 DEF Items
    <3>3. \/ plan[p][k].line \in onFile(plan[p][k].file)
          \/ ~readJsonlIfExists(store[plan[p][k].file])
      BY <2>2 DEF WrittenIsOnFile
    <3> DEFINE f == plan[p][k].file
               l == plan[p][k].line
    <3>4. f \in Files /\ (l \in onFile(f) \/ ~readJsonlIfExists(store[f]))
      BY <3>2, <3>3
    <3> HIDE DEF f, l
    <3>5. ASSUME NEW g \in Files, l \in onFile(g) \/ ~readJsonlIfExists(store[g])
          PROVE  l \in ToSet(store'[g]) \ {torn, glued} \/ ~readJsonlIfExists(store'[g])
      BY <3>5, StoreGrows DEF onFile
    <3>6. l \in ToSet(store'[f]) \ {torn, glued} \/ ~readJsonlIfExists(store'[f])
      BY <3>4, <3>5
    <3> QED
      BY <3>1, <3>6 DEF f, l, onFile
  <2>3. CASE AppendNext(p) /\ k = written[p] + 1
    <3>1. plan'[p] = plan[p] /\ plan'[p][k] = next(p)
      BY <2>3 DEF AppendNext, next
    <3>2. next(p).file \in Files /\ next(p).line \in Records
      BY <2>3, NextItem DEF AppendNext
    <3> DEFINE f == next(p).file
               l == next(p).line
    <3>3. OneFile(f, l) /\ l \notin {torn, glued}
      BY <2>3, <3>2, AppendStep, RecordsAreWhole
    <3>4. f \in Files
      BY <3>2
    <3> HIDE DEF f, l
    <3>5. store[f] \in Seq(AllLines) /\ store'[f] \in Seq(AllLines)
      BY <3>3, <3>4 DEF OneFile, TypeOK
    <3>6. CASE Lengthened(store[f], store'[f], l)
      <4>1. l \in ToSet(store'[f]) \ {torn, glued}
        BY <3>3, <3>5, <3>6, LengthenedLines
      <4> QED
        BY <4>1, <3>1 DEF onFile, f, l
    <3>7. CASE RunInto(store[f], store'[f])
      <4>1. glued \in ToSet(store'[f])
        BY <3>5, <3>7, RunIntoLines
      <4>2. ~readJsonlIfExists(store'[f])
        BY <4>1 DEF readJsonlIfExists, ToSet
      <4> QED
        BY <4>2, <3>1 DEF f
    <3> QED
      BY <3>3, <3>6, <3>7 DEF OneFile
  <2> QED
    BY <2>1, <2>2, <2>3
<1> QED
  BY <1>1 DEF WrittenIsOnFile

\* The generator is a function of the run's log.
LEMMA SeedsStay ==
    ASSUME log' = log, NEW p \in Invocations, cmd'[p] = cmd[p]
    PROVE  generateLearningProposalSeeds(cmd[p].include)' = generateLearningProposalSeeds(cmd[p].include)
BY DEF generateLearningProposalSeeds, seedsOf, proposalsFromPredictionError, proposalsFromWorkspaceSignals,
   proposalsFromReasonQuality, proposalsFromBudgetSignals, Seed, proposalSeedEligible, isDraftOnlyLocalObservation

\* An invocation that is writing, or has ended well, has what it decided on as its plan.
LEMMA Decided ==
    ASSUME TypeOK, Stages, [Next]_vars, NEW p \in Invocations, pc'[p] = "writing" \/ result'[p] = "ok"
    PROVE  \/ (pc[p] = "writing" \/ result[p] = "ok") /\ plan'[p] = plan[p]
           \/ \E lines : Decides(p, lines) /\ plan'[p] = lines
<1>1. CASE pc[p] = "writing" \/ result[p] = "ok"
  <2>1. pc[p] \in {"writing", "done"}
    BY <1>1 DEF Stages
  <2> QED
    BY <1>1, <2>1, WrittenStep
<1>2. CASE ~(pc[p] = "writing" \/ result[p] = "ok")
  <2>1. ASSUME NEW q \in Invocations, NEW c \in CommandLines, Start(q, c) PROVE FALSE
    BY <1>2, <2>1 DEF Start, TypeOK
  <2>2. ASSUME NEW q \in Invocations, NEW lines, Decides(q, lines)
        PROVE  Decides(p, lines) /\ plan'[p] = lines
    <3>1. q = p
      BY <1>2, <2>2 DEF Decides, Write, Exit, TypeOK
    <3>2. plan[p] = <<>>
      BY <2>2, <3>1 DEF Decides, Stages
    <3> QED
      BY <2>2, <3>1, <3>2 DEF Decides, Write, Exit, TypeOK
  <2>3. ASSUME NEW q \in Invocations, Asks(q) PROVE FALSE
    BY <1>2, <2>3 DEF Asks, TypeOK
  <2>4. ASSUME NEW q \in Invocations, Stops(q) PROVE FALSE
    BY <1>2, <2>4 DEF Stops, Exit, TypeOK
  <2>5. ASSUME NEW q \in Invocations, AppendNext(q) PROVE FALSE
    BY <1>2, <2>5 DEF AppendNext, TypeOK
  <2>6. ASSUME NEW q \in Invocations, DiesAppending(q) PROVE FALSE
    BY <1>2, <2>6 DEF DiesAppending, Exit, TypeOK
  <2>7. CASE UNCHANGED vars
    BY <1>2, <2>7 DEF vars
  <2> QED
    BY <2>1, <2>2, <2>3, <2>4, <2>5, <2>6, <2>7, Steps
<1> QED
  BY <1>1, <1>2

LEMMA NextComplete ==
    ASSUME TypeOK, Stages, TornLast, PlansAreComplete, [Next]_vars
    PROVE  PlansAreComplete'
<1>0. "feedback" \in Files
  BY DEF Files
<1>1. log' = log
  BY Kept
<1>f. \A s : (hasFeedback(s)' <=> hasFeedback(s)) /\ feedbackId(s)' = feedbackId(s)
  BY <1>1 DEF hasFeedback, feedbackId
<1>2. ASSUME NEW p \in Invocations, cmd'[p].name = "generate", pc'[p] = "writing" \/ result'[p] = "ok",
             NEW s \in ToSet(generateLearningProposalSeeds(cmd[p].include))'
      PROVE  /\ s.id \in idsOf(snapshot'[p]) \/ PlansProposal(p, s.id)'
             /\ hasFeedback(s) => \/ \E l \in onFile("feedback")' : l.id = feedbackId(s)
                                  \/ ~readJsonlIfExists(store'["feedback"])
                                  \/ PlansFeedback(p, feedbackId(s))'
  <2>1. cmd'[p] = cmd[p] /\ snapshot'[p] = snapshot[p]
    BY <1>2, Begins
  <2>2. s \in ToSet(generateLearningProposalSeeds(cmd[p].include))
    BY <1>1, <1>2, <2>1, SeedsStay DEF ToSet
  <2>3. \/ (pc[p] = "writing" \/ result[p] = "ok") /\ plan'[p] = plan[p]
        \/ \E lines : Decides(p, lines) /\ plan'[p] = lines
    BY <1>2, Decided
  <2>4. CASE (pc[p] = "writing" \/ result[p] = "ok") /\ plan'[p] = plan[p]
    <3>1. /\ s.id \in idsOf(snapshot[p]) \/ PlansProposal(p, s.id)
          /\ hasFeedback(s) => \/ \E l \in onFile("feedback") : l.id = feedbackId(s)
                               \/ ~readJsonlIfExists(store["feedback"])
                               \/ PlansFeedback(p, feedbackId(s))
      BY <1>2, <2>1, <2>2, <2>4 DEF PlansAreComplete
    <3>2. PlansProposal(p, s.id) => PlansProposal(p, s.id)'
      BY <2>4 DEF PlansProposal
    <3>3. PlansFeedback(p, feedbackId(s)) => PlansFeedback(p, feedbackId(s))'
      BY <1>f, <2>4 DEF PlansFeedback
    <3>4. ~readJsonlIfExists(store["feedback"]) => ~readJsonlIfExists(store'["feedback"])
      BY <1>0, StoreGrows
    <3>5. \A l \in onFile("feedback") : l \in onFile("feedback")'
      BY <1>0, OnFileStays
    <3> QED
      BY <2>1, <3>1, <3>2, <3>3, <3>4, <3>5
  <2>5. ASSUME NEW lines, Decides(p, lines), plan'[p] = lines
        PROVE  /\ s.id \in idsOf(snapshot[p]) \/ PlansProposal(p, s.id)'
               /\ hasFeedback(s) => \/ \E l \in onFile("feedback") : l.id = feedbackId(s)
                                    \/ ~readJsonlIfExists(store["feedback"])
                                    \/ PlansFeedback(p, feedbackId(s))'
    <3>1. /\ \/ s.id \in idsOf(snapshot[p])
             \/ \E k \in DOMAIN lines : lines[k].file = "proposals" /\ lines[k].line.proposal.id = s.id
          /\ hasFeedback(s) =>
                 \/ \E l \in onFile("feedback") : l.id = feedbackId(s)
                 \/ ~readJsonlIfExists(store["feedback"])
                 \/ \E k \in DOMAIN lines : lines[k].file = "feedback" /\ lines[k].line.id = feedbackId(s)
      BY <1>2, <2>1, <2>2, <2>5 DEF Decides, Decision
    <3>2. s.id \in idsOf(snapshot[p]) \/ PlansProposal(p, s.id)'
      BY <2>5, <3>1 DEF PlansProposal
    <3>3. (\E k \in DOMAIN lines : lines[k].file = "feedback" /\ lines[k].line.id = feedbackId(s))
             => PlansFeedback(p, feedbackId(s))'
      BY <1>f, <2>5 DEF PlansFeedback
    <3> QED
      BY <3>1, <3>2, <3>3
  <2>6. CASE \E lines : Decides(p, lines) /\ plan'[p] = lines
    <3>1. UNCHANGED store
      BY <2>6 DEF Decides
    <3> QED
      BY <2>1, <2>5, <2>6, <3>1 DEF onFile
  <2> QED
    BY <2>3, <2>4, <2>6
<1> QED
  BY <1>2, <1>f DEF PlansAreComplete

-----------------------------------------------------------------------------
(* Losses                                                                  *)

tornFiles == {f \in Files : torn \in ToSet(store[f])}

LEMMA LostIs ==
    \A x : x \in lost <=> \E p \in Invocations : \E k \in 1..written[p] :
                              x = <<p, k>> /\ plan[p][k].line \notin onFile(plan[p][k].file)
BY DEF lost, lostBy

\* What is newly lost was appended in this step and is not on file after it.
LEMMA NewlyLost ==
    ASSUME TypeOK, Stages, TornLast, [Next]_vars, NEW x \in lost', x \notin lost
    PROVE  \E p \in Invocations : /\ AppendNext(p) /\ x = <<p, written[p] + 1>>
                                  /\ next(p).line \notin ToSet(store'[next(p).file]) \ {torn, glued}
<1>1. PICK p \in Invocations : \E k \in 1..written'[p] :
          x = <<p, k>> /\ plan'[p][k].line \notin ToSet(store'[plan'[p][k].file]) \ {torn, glued}
  BY DEF lost, lostBy, onFile
<1>0. PICK k \in 1..written'[p] :
          x = <<p, k>> /\ plan'[p][k].line \notin ToSet(store'[plan'[p][k].file]) \ {torn, glued}
  BY <1>1
<1>2. /\ written[p] \in Nat
      /\ written'[p] = written[p] \/ (AppendNext(p) /\ written'[p] = written[p] + 1)
  BY WrittenStep
<1>3. CASE k \in 1..written[p]
  <2>1. plan'[p] = plan[p]
    BY <1>2, <1>3, WrittenStep
  <2>2. plan[p][k].file \in Files
    <3>1. plan[p] \in Seq(Items) /\ written[p] <= Len(plan[p])
      BY DEF TypeOK, Stages
    <3>2. k \in 1..Len(plan[p])
      BY <1>2, <1>3, <3>1
    <3>3. plan[p][k] \in Items
      BY <3>1, <3>2, ElementOfSeq
    <3> QED
      BY <3>3 DEF Items
  <2>3. ASSUME NEW f \in Files, NEW l \in onFile(f) PROVE l \in ToSet(store'[f]) \ {torn, glued}
    BY StoreGrows DEF onFile
  <2>4. plan[p][k].line \notin onFile(plan[p][k].file)
    BY <1>0, <2>1, <2>2, <2>3
  <2>5. x \in lost
    BY <1>0, <1>3, <2>4, LostIs
  <2> QED
    BY <2>5
<1>4. CASE AppendNext(p) /\ k = written[p] + 1
  <2>1. plan'[p] = plan[p] /\ plan'[p][k] = next(p)
    BY <1>4 DEF AppendNext, next
  <2> QED
    BY <1>0, <1>4, <2>1
<1> QED
  BY <1>2, <1>3, <1>4

LEMMA FilesAreFinite == IsFiniteSet(Files) /\ \A T \in SUBSET Files : IsFiniteSet(T)
<1>1. IsFiniteSet({"proposals"} \cup {"feedback"} \cup {"reviews"} \cup {"manifests"})
  BY FS_Singleton, FS_Union
<1>2. IsFiniteSet(Files)
  <2>1. Files = {"proposals"} \cup {"feedback"} \cup {"reviews"} \cup {"manifests"}
    BY DEF Files
  <2> QED
    BY <1>1, <2>1
<1> QED
  BY <1>2, FS_Subset

\* The books: each of these leaves what is lost and torn paid for.
LEMMA Paid ==
    ASSUME NEW L, IsFiniteSet(L), NEW T \in SUBSET Files, NEW n \in Nat, Cardinality(L) + Cardinality(T) <= n
    PROVE  /\ \A M \in SUBSET L : IsFiniteSet(M) /\ Cardinality(M) + Cardinality(T) <= n
           /\ \A x, f : \A M \in SUBSET (L \cup {x}) : f \in T =>
                  IsFiniteSet(M) /\ Cardinality(M) + Cardinality(T \ {f}) <= n
           /\ \A f \in Files : \A M \in SUBSET L :
                  IsFiniteSet(M) /\ Cardinality(M) + Cardinality(T \cup {f}) <= n + 1
<1>1. IsFiniteSet(T) /\ Cardinality(T) \in Nat /\ Cardinality(L) \in Nat
  BY FilesAreFinite, FS_CardinalityType
<1>2. ASSUME NEW M \in SUBSET L
      PROVE  IsFiniteSet(M) /\ Cardinality(M) \in Nat /\ Cardinality(M) <= Cardinality(L)
  BY FS_Subset, FS_CardinalityType
<1>3. ASSUME NEW x, NEW M \in SUBSET (L \cup {x})
      PROVE  IsFiniteSet(M) /\ Cardinality(M) \in Nat /\ Cardinality(M) <= Cardinality(L) + 1
  <2>1. /\ IsFiniteSet(L \cup {x}) /\ Cardinality(L \cup {x}) \in Nat
        /\ Cardinality(L \cup {x}) <= Cardinality(L) + 1
    BY <1>1, FS_AddElement
  <2>2. IsFiniteSet(M) /\ Cardinality(M) <= Cardinality(L \cup {x})
    BY <2>1, FS_Subset
  <2>3. Cardinality(M) \in Nat
    BY <2>2, FS_CardinalityType
  <2> QED
    BY <1>1, <2>1, <2>2, <2>3
<1>4. ASSUME NEW f \in T PROVE Cardinality(T \ {f}) = Cardinality(T) - 1
  BY <1>1, FS_RemoveElement
<1>5. ASSUME NEW f \in Files
      PROVE  Cardinality(T \cup {f}) \in Nat /\ Cardinality(T \cup {f}) <= Cardinality(T) + 1
  <2>1. IsFiniteSet(T \cup {f})
    BY FilesAreFinite
  <2> QED
    BY <1>1, <2>1, FS_AddElement, FS_CardinalityType
<1>6. ASSUME NEW M \in SUBSET L PROVE IsFiniteSet(M) /\ Cardinality(M) + Cardinality(T) <= n
  BY <1>1, <1>2
<1>7. ASSUME NEW x, NEW f \in T, NEW M \in SUBSET (L \cup {x})
      PROVE  IsFiniteSet(M) /\ Cardinality(M) + Cardinality(T \ {f}) <= n
  <2>1. IsFiniteSet(M) /\ Cardinality(M) \in Nat /\ Cardinality(M) <= Cardinality(L) + 1
    BY <1>3
  <2>2. Cardinality(T \ {f}) = Cardinality(T) - 1
    BY <1>4
  <2> QED
    BY <1>1, <2>1, <2>2
<1>8. ASSUME NEW f \in Files, NEW M \in SUBSET L
      PROVE  IsFiniteSet(M) /\ Cardinality(M) + Cardinality(T \cup {f}) <= n + 1
  <2>1. IsFiniteSet(M) /\ Cardinality(M) \in Nat /\ Cardinality(M) <= Cardinality(L)
    BY <1>2
  <2>2. Cardinality(T \cup {f}) \in Nat /\ Cardinality(T \cup {f}) <= Cardinality(T) + 1
    BY <1>5
  <2> QED
    BY <1>1, <2>1, <2>2
<1> QED
  BY <1>6, <1>7, <1>8

LEMMA NextLoss ==
    ASSUME TypeOK, Stages, TornLast, LossIsPaid, [Next]_vars
    PROVE  LossIsPaid'
<1> DEFINE L == lost
           M == lost'
           T == tornFiles
           U == {f \in Files : torn \in ToSet(store'[f])}
<1>1. /\ IsFiniteSet(L) /\ T \in SUBSET Files /\ tears \in Nat
      /\ Cardinality(L) + Cardinality(T) <= tears
  BY NumbersAssumption DEF LossIsPaid, LossNeedsTear, tornFiles, TypeOK
<1>2. SUFFICES IsFiniteSet(M) /\ Cardinality(M) + Cardinality(U) <= tears'
  BY DEF LossIsPaid, LossNeedsTear
<1>3. \A x \in M : x \in L \/ \E p \in Invocations :
          /\ AppendNext(p) /\ x = <<p, written[p] + 1>>
          /\ next(p).line \notin ToSet(store'[next(p).file]) \ {torn, glued}
  BY NewlyLost
<1>4. \A f \in Files : store[f] \in Seq(AllLines)
  BY DEF TypeOK
<1>5. U = {f \in Files : torn \in ToSet(store'[f])} /\ T = {f \in Files : torn \in ToSet(store[f])}
  BY DEF tornFiles
<1> HIDE DEF L, M, T, U
<1>6. ASSUME NEW p \in Invocations, AppendNext(p)
      PROVE  IsFiniteSet(M) /\ Cardinality(M) + Cardinality(U) <= tears'
  <2> DEFINE f == next(p).file
             l == next(p).line
  <2>1. OneFile(f, l) /\ f \in Files /\ l \in Records
    BY <1>6, AppendStep, NextItem DEF AppendNext
  <2>2. \A q \in Invocations : AppendNext(q) => q = p
    <3>1. ASSUME NEW q \in Invocations, AppendNext(q), q # p PROVE FALSE
      <4>1. written'[q] = written[q] /\ written'[q] = written[q] + 1 /\ written[q] \in Nat
        BY <1>6, <3>1 DEF AppendNext, TypeOK
      <4> QED
        BY <4>1
    <3> QED
      BY <3>1
  <2>3. M \subseteq L \cup {<<p, written[p] + 1>>}
    BY <1>3, <2>2
  <2>4. l \in ToSet(store'[f]) \ {torn, glued} => M \subseteq L
    BY <1>3, <2>2
  <2>5. tears' = tears
    BY <1>6 DEF AppendNext
  <2> HIDE DEF f, l
  <2>6. store[f] \in Seq(AllLines) /\ store'[f] \in Seq(AllLines) /\ l \notin {torn, glued}
    BY <2>1, <1>4, RecordsAreWhole DEF OneFile
  <2>7. CASE Lengthened(store[f], store'[f], l)
    <3>1. \A x : x \in ToSet(store'[f]) <=> x \in ToSet(store[f]) \/ x = l
      BY <2>6, <2>7, LengthenedLines
    <3>2. M \subseteq L
      BY <2>4, <2>6, <3>1
    <3>3. \A g \in Files : torn \in ToSet(store'[g]) <=> torn \in ToSet(store[g])
      BY <2>1, <2>6, <3>1 DEF OneFile
    <3>4. U = T
      BY <3>3, <1>5
    <3> QED
      BY <1>1, <2>5, <3>2, <3>4, Paid
  <2>8. CASE RunInto(store[f], store'[f])
    <3>1. /\ \A x : x \in ToSet(store'[f]) <=> (x \in ToSet(store[f]) /\ x # torn) \/ x = glued
          /\ torn \in ToSet(store[f])
      BY <2>6, <2>8, RunIntoLines
    <3>2. \A g \in Files : torn \in ToSet(store'[g]) <=> torn \in ToSet(store[g]) /\ g # f
      BY <2>1, <3>1, RecordsAreWhole DEF OneFile
    <3>3. U = T \ {f} /\ f \in T
      BY <2>1, <3>1, <3>2, <1>5
    <3>4. IsFiniteSet(M) /\ Cardinality(M) + Cardinality(T \ {f}) <= tears
      BY <1>1, <2>3, <3>3, Paid
    <3> QED
      BY <2>5, <3>3, <3>4
  <2> QED
    BY <2>1, <2>7, <2>8 DEF OneFile
<1>7. ASSUME \A p \in Invocations : ~AppendNext(p) PROVE M \subseteq L
  BY <1>3, <1>7
<1>8. ASSUME \A p \in Invocations : ~AppendNext(p), NEW p \in Invocations, DiesAppending(p)
      PROVE  IsFiniteSet(M) /\ Cardinality(M) + Cardinality(U) <= tears'
  <2>1. tears' = tears + 1
    BY <1>8 DEF DiesAppending
  <2>2. M \subseteq L
    BY <1>7, <1>8
  <2>3. CASE store' = store
    <3>1. U = T
      BY <2>3, <1>5
    <3>2. IsFiniteSet(M) /\ Cardinality(M) + Cardinality(T) <= tears
      BY <1>1, <2>2, Paid
    <3>3. Cardinality(M) \in Nat /\ Cardinality(T) \in Nat
      BY <1>1, <3>2, FilesAreFinite, FS_CardinalityType
    <3> QED
      BY <1>1, <2>1, <3>1, <3>2, <3>3
  <2>4. ASSUME NEW f \in Files, store' \in [Files -> Seq(AllLines)],
               \A g \in Files : g # f => store'[g] = store[g],
               Lengthened(store[f], store'[f], torn)
        PROVE  IsFiniteSet(M) /\ Cardinality(M) + Cardinality(U) <= tears'
    <3>1. \A x : x \in ToSet(store'[f]) <=> x \in ToSet(store[f]) \/ x = torn
      BY <1>4, <2>4, LengthenedLines
    <3>2. \A g \in Files : torn \in ToSet(store'[g]) <=> torn \in ToSet(store[g]) \/ g = f
      BY <2>4, <3>1
    <3>3. U = T \cup {f}
      BY <3>2, <1>5
    <3> QED
      BY <1>1, <2>1, <2>2, <3>3, Paid
  <2> QED
    BY <1>8, <2>3, <2>4, TearStep
<1>9. ASSUME store' = store, tears' = tears, \A p \in Invocations : ~AppendNext(p)
      PROVE  IsFiniteSet(M) /\ Cardinality(M) + Cardinality(U) <= tears'
  <2>1. U = T /\ M \subseteq L
    BY <1>5, <1>7, <1>9
  <2> QED
    BY <1>1, <1>9, <2>1, Paid
<1>a. \/ store' = store /\ tears' = tears
      \/ \E p \in Invocations : AppendNext(p) \/ DiesAppending(p)
  BY Steps DEF Start, Decides, Asks, Stops, vars
<1> QED
  BY <1>6, <1>8, <1>9, <1>a

-----------------------------------------------------------------------------
(* The invariant                                                           *)

IInv ==
    /\ TypeOK /\ Stages /\ TornLast /\ SnapshotsAreOld
    /\ PlansAreAuthored /\ LinesAreAuthored /\ ReviewsAreJustified /\ AskersPassedPreflight
    /\ PlansAreDistinct /\ GeneratedWasPlanned /\ GeneratedOnce
    /\ WrittenIsOnFile /\ PlansAreComplete /\ LossIsPaid

LEMMA InitIInv == Init => IInv
<1> SUFFICES ASSUME Init PROVE IInv
  OBVIOUS
<1>1. TypeOK /\ Stages /\ TornLast
  BY InitBase
<1>2. /\ \A f \in Files : store[f] = <<>>
      /\ \A p \in Invocations :
             /\ plan[p] = <<>> /\ snapshot[p] = <<>> /\ written[p] = 0 /\ pc[p] = "idle"
             /\ answer[p] = NoAnswer /\ result[p] = "none"
  BY DEF Init
<1>3. \A f \in Files : ToSet(store[f]) = {}
  BY <1>2 DEF ToSet
<1>4. store["proposals"] = <<>> /\ ToSet(store["proposals"]) = {} /\ ToSet(store["reviews"]) = {}
  BY <1>2, <1>3 DEF Files
<1>5. SnapshotsAreOld
  BY <1>2, <1>4 DEF SnapshotsAreOld
<1>6. PlansAreAuthored /\ PlansAreDistinct /\ AskersPassedPreflight /\ PlansAreComplete
  BY <1>2 DEF PlansAreAuthored, PlansAreDistinct, AskersPassedPreflight, PlansAreComplete
<1>7. LinesAreAuthored /\ ReviewsAreJustified /\ GeneratedWasPlanned /\ GeneratedOnce
  BY <1>2, <1>4 DEF LinesAreAuthored, ReviewsAreJustified, GeneratedWasPlanned, GeneratedOnce, onFile
<1>8. \A p \in Invocations : 1..written[p] = {}
  BY <1>2
<1>9. WrittenIsOnFile
  BY <1>8 DEF WrittenIsOnFile
<1>a. LossIsPaid
  <2>1. lost = {}
    BY <1>8, LostIs
  <2>2. {f \in Files : torn \in ToSet(store[f])} = {}
    BY <1>3
  <2>3. tears = 0
    BY DEF Init
  <2> QED
    BY <2>1, <2>2, <2>3, FS_EmptySet DEF LossIsPaid, LossNeedsTear
<1> QED
  BY <1>1, <1>5, <1>6, <1>7, <1>9, <1>a DEF IInv

LEMMA NextIInv == IInv /\ [Next]_vars => IInv'
<1> SUFFICES ASSUME IInv, [Next]_vars PROVE IInv'
  OBVIOUS
<1>1. TypeOK' /\ Stages' /\ TornLast' /\ SnapshotsAreOld'
  BY NextType, NextStages, NextTorn, NextSnapshots DEF IInv
<1>2. PlansAreAuthored' /\ LinesAreAuthored' /\ ReviewsAreJustified' /\ AskersPassedPreflight'
  BY NextAuthored, NextJustified, NextAskers DEF IInv
<1>3. PlansAreDistinct' /\ GeneratedWasPlanned' /\ GeneratedOnce'
  BY NextDistinct, NextGenerated, NextOnce DEF IInv
<1>4. WrittenIsOnFile' /\ PlansAreComplete' /\ LossIsPaid'
  BY NextWritten, NextComplete, NextLoss DEF IInv
<1> QED
  BY <1>1, <1>2, <1>3, <1>4 DEF IInv

LEMMA Invariant == Spec => []IInv
BY InitIInv, NextIInv, PTL DEF Spec

\* The ledger's state keeps its types: each file holds only lines of its own kind, torn
\* and run-together ones apart (appendJsonl and readJsonlIfExists).
THEOREM TypeCorrect == Spec => []TypeOK
<1>1. IInv => TypeOK
  BY DEF IInv
<1> QED
  BY <1>1, Invariant, PTL

\* However many invocations die in however many appends, what is lost of the lines whose
\* append returned, and the torn ends nobody has run into, are at most the torn appends.
THEOREM LossesArePaidByTears == Spec => []LossNeedsTear
<1>1. IInv => LossNeedsTear
  BY DEF IInv, LossIsPaid
<1> QED
  BY <1>1, Invariant, PTL

\* A generator appends a duplicate id only over a line it could not have read.
THEOREM DuplicatesNeedOverlap == Spec => []DuplicatesOverlap
<1>1. ASSUME IInv PROVE DuplicatesOverlap
  <2> DEFINE lines == store["proposals"]
  <2>0. TypeOK /\ Stages /\ LinesAreAuthored /\ PlansAreAuthored /\ GeneratedWasPlanned /\ GeneratedOnce
    BY <1>1 DEF IInv
  <2>1. lines \in Seq(AllLines) /\ DOMAIN lines = 1..Len(lines) /\ Len(lines) \in Nat
    BY <2>0, LenProperties DEF TypeOK, Files
  <2>2. ASSUME NEW j \in DOMAIN lines, NEW i \in 1..j - 1, {lines[i], lines[j]} \cap {torn, glued} = {},
               lines[i].proposal.id = lines[j].proposal.id, cmd[lines[j].by].name = "generate"
        PROVE  lines[i].by # lines[j].by /\ lines[i] \notin ToSet(snapshot[lines[j].by])
    <3> DEFINE g == lines[j].by
    <3>1. i \in DOMAIN lines /\ i # j
      BY <2>1
    <3>2. lines[j] \in onFile("proposals")
      BY <2>2 DEF onFile, ToSet
    <3>3. g \in Invocations
      BY <2>0, <3>2, Authors
    <3>4. PICK k \in 1..written[g] : plan[g][k] = [file |-> "proposals", line |-> lines[j]]
      BY <2>0, <2>2, <3>2 DEF GeneratedWasPlanned
    <3>5. k \in DOMAIN plan[g]
      <4>1. plan[g] \in Seq(Items) /\ written[g] \in Nat /\ written[g] <= Len(plan[g])
        BY <2>0, <3>3 DEF TypeOK, Stages
      <4> QED
        BY <3>4, <4>1, LenProperties
    <3>6. lines[j].proposal.id \notin idsOf(snapshot[g])
      BY <2>0, <2>2, <3>3, <3>4, <3>5 DEF PlansAreAuthored
    <3>7. lines[i] \notin ToSet(snapshot[g])
      BY <2>2, <3>6 DEF idsOf, ToSet
    <3>8. lines[i].by # g
      BY <2>0, <2>2, <3>1 DEF GeneratedOnce
    <3> QED
      BY <3>7, <3>8
  <2> QED
    BY <2>2 DEF DuplicatesOverlap
<1> QED
  BY <1>1, Invariant, PTL

\* A generator that ran to its end has left every seed on file, or the file is torn.
THEOREM GeneratorsComplete == Spec => []GenerateCompletes
<1>1. ASSUME IInv PROVE GenerateCompletes
  <2>0. TypeOK /\ Stages /\ SnapshotsAreOld /\ WrittenIsOnFile /\ PlansAreComplete
    BY <1>1 DEF IInv
  <2>1. ASSUME NEW p \in Invocations, cmd[p].name = "generate", result[p] = "ok",
               NEW s \in ToSet(generateLearningProposalSeeds(cmd[p].include))
        PROVE  /\ readJsonlIfExists(store["proposals"]) => s.id \in idsOf(store["proposals"])
               /\ (readJsonlIfExists(store["feedback"]) /\ hasFeedback(s)) =>
                      \E l \in onFile("feedback") : l.id = feedbackId(s)
    <3>1. /\ s.id \in idsOf(snapshot[p]) \/ PlansProposal(p, s.id)
          /\ hasFeedback(s) => \/ \E l \in onFile("feedback") : l.id = feedbackId(s)
                               \/ ~readJsonlIfExists(store["feedback"])
                               \/ PlansFeedback(p, feedbackId(s))
      BY <2>0, <2>1 DEF PlansAreComplete
    <3>2. DOMAIN plan[p] = 1..written[p]
      BY <2>0, <2>1, LenProperties DEF TypeOK, Stages
    <3>3. ASSUME s.id \in idsOf(snapshot[p]) PROVE s.id \in idsOf(store["proposals"])
      <4>1. PICK i \in DOMAIN snapshot[p] : s.id = snapshot[p][i].proposal.id
        BY <3>3 DEF idsOf
      <4>2. Len(snapshot[p]) <= Len(store["proposals"]) /\ snapshot[p][i] = store["proposals"][i]
        BY <2>0 DEF SnapshotsAreOld
      <4>3. i \in DOMAIN store["proposals"]
        BY <2>0, <4>2, LenProperties DEF TypeOK, Files
      <4> QED
        BY <4>1, <4>2, <4>3 DEF idsOf
    <3>4. ASSUME PlansProposal(p, s.id), readJsonlIfExists(store["proposals"])
          PROVE  s.id \in idsOf(store["proposals"])
      <4>1. PICK k \in DOMAIN plan[p] : plan[p][k].file = "proposals" /\ plan[p][k].line.proposal.id = s.id
        BY <3>4 DEF PlansProposal
      <4>2. plan[p][k].line \in onFile("proposals")
        BY <2>0, <3>2, <3>4, <4>1 DEF WrittenIsOnFile
      <4>3. PICK i \in DOMAIN store["proposals"] : store["proposals"][i] = plan[p][k].line
        BY <4>2 DEF onFile, ToSet
      <4> QED
        BY <4>1, <4>3 DEF idsOf
    <3>5. ASSUME PlansFeedback(p, feedbackId(s)), readJsonlIfExists(store["feedback"])
          PROVE  \E l \in onFile("feedback") : l.id = feedbackId(s)
      <4>1. PICK k \in DOMAIN plan[p] : plan[p][k].file = "feedback" /\ plan[p][k].line.id = feedbackId(s)
        BY <3>5 DEF PlansFeedback
      <4> QED
        BY <2>0, <3>2, <3>5, <4>1 DEF WrittenIsOnFile
    <3> QED
      BY <3>1, <3>3, <3>4, <3>5
  <2>2. ASSUME NEW p \in Invocations, cmd[p].name = "generate", result[p] = "ok", NEW seeds,
               seeds = generateLearningProposalSeeds(cmd[p].include)
        PROVE  /\ readJsonlIfExists(store["proposals"]) =>
                      {seeds[k].id : k \in DOMAIN seeds} \subseteq idsOf(store["proposals"])
               /\ readJsonlIfExists(store["feedback"]) =>
                      \A k \in DOMAIN seeds : hasFeedback(seeds[k]) =>
                          \E l \in onFile("feedback") : l.id = feedbackId(seeds[k])
    <3>1. \A k \in DOMAIN seeds : seeds[k] \in ToSet(seeds)
      BY DEF ToSet
    <3> QED
      BY <2>1, <2>2, <3>1
  <2> QED
    BY <2>2 DEF GenerateCompletes
<1> QED
  BY <1>1, Invariant, PTL

\* proposals.find answers the same before and after the file has grown.
LEMMA FirstRecordStays ==
    ASSUME NEW old \in Seq(ProposalLines), NEW new \in Seq(AllLines), Len(old) <= Len(new),
           \A i \in DOMAIN old : old[i] = new[i],
           NEW id, id \in idsOf(old)
    PROVE  \E i \in DOMAIN old :
               /\ old[i].proposal.id = id
               /\ old[i] \in ToSet(new) \cap Records
               /\ find(old, id) = old[i].proposal
               /\ find(new, id) = old[i].proposal
<1> DEFINE T == {i \in DOMAIN old : old[i].proposal.id = id}
<1>1. /\ Len(old) \in Nat /\ DOMAIN old = 1..Len(old)
      /\ Len(new) \in Nat /\ DOMAIN new = 1..Len(new)
  BY LenProperties
<1>2. Len(old) <= Len(new) /\ \A i \in DOMAIN old : old[i] = new[i]
  OBVIOUS
<1>3. T \in SUBSET Nat /\ T # {}
  BY <1>1 DEF idsOf
<1>4. PICK i \in T : \A j \in T : i <= j
  <2> HIDE DEF T
  <2> QED
    BY <1>3, LeastNumber
<1>5. /\ i \in DOMAIN old /\ old[i].proposal.id = id
      /\ \A j \in 1..i - 1 : old[j].proposal.id # id
  BY <1>1, <1>4
<1>6. /\ i \in DOMAIN new /\ new[i] = old[i]
      /\ \A j \in 1..i - 1 : new[j].proposal.id # id
  BY <1>1, <1>2, <1>5
<1>7. ASSUME NEW s, NEW n \in Nat, DOMAIN s = 1..n, i \in DOMAIN s, s[i].proposal.id = id,
             \A j \in 1..i - 1 : s[j].proposal.id # id
      PROVE  find(s, id) = s[i].proposal
  <2> DEFINE First(h) == s[h].proposal.id = id /\ \A j \in 1..h - 1 : s[j].proposal.id # id
  <2>1. \A h \in DOMAIN s : First(h) => h = i
    BY <1>7
  <2>2. (CHOOSE h \in DOMAIN s : First(h)) = i
    BY <1>7, <2>1
  <2> QED
    BY <2>2 DEF find
<1>8. find(old, id) = old[i].proposal /\ find(new, id) = old[i].proposal
  BY <1>1, <1>5, <1>6, <1>7
<1>9. old[i] \in ToSet(new) \cap Records
  <2>1. old[i] \in Records
    BY <1>1, <1>5, ElementOfSeq DEF Records
  <2> QED
    BY <2>1, <1>6 DEF ToSet
<1> QED
  BY <1>5, <1>8, <1>9

LEMMA FoundAsRead ==
    ASSUME TypeOK, SnapshotsAreOld, NEW p \in Invocations, NEW id, id \in idsOf(snapshot[p])
    PROVE  \E i \in DOMAIN snapshot[p] :
               /\ snapshot[p][i].proposal.id = id
               /\ snapshot[p][i] \in onFile("proposals")
               /\ find(snapshot[p], id) = snapshot[p][i].proposal
               /\ find(store["proposals"], id) = snapshot[p][i].proposal
<1>1. snapshot[p] \in Seq(ProposalLines) /\ store["proposals"] \in Seq(AllLines)
  BY DEF TypeOK, Files
<1>2. /\ Len(snapshot[p]) <= Len(store["proposals"])
      /\ \A i \in DOMAIN snapshot[p] : snapshot[p][i] = store["proposals"][i]
  BY DEF SnapshotsAreOld
<1>3. \A l : l \in ToSet(store["proposals"]) \cap Records => l \in onFile("proposals")
  BY RecordsAreWhole DEF onFile
<1> QED
  BY <1>1, <1>2, <1>3, FirstRecordStays

\* The files are append-only: a line that is not torn stays where it is, and only the torn
\* end of a file, which no reader could use, is ever run into (appendJsonl).
WholeLinesStay ==
    [][\A f \in Files :
          /\ Len(store[f]) <= Len(store'[f])
          /\ \A i \in DOMAIN store[f] : store[f][i] # torn => store'[f][i] = store[f][i]]_vars

\* However invocations overlap and die, no whole line is changed, moved or removed.
THEOREM LinesStay == Spec => WholeLinesStay
<1>1. IInv /\ [Next]_vars
        => [\A f \in Files :
              /\ Len(store[f]) <= Len(store'[f])
              /\ \A i \in DOMAIN store[f] : store[f][i] # torn => store'[f][i] = store[f][i]]_vars
  <2> SUFFICES ASSUME IInv, [Next]_vars, NEW f \in Files
               PROVE  /\ Len(store[f]) <= Len(store'[f])
                      /\ \A i \in DOMAIN store[f] : store[f][i] # torn => store'[f][i] = store[f][i]
    OBVIOUS
  <2>1. DOMAIN store[f] = 1..Len(store[f])
    BY LenProperties DEF IInv, TypeOK
  <2> QED
    BY <2>1, StoreGrows DEF IInv
<1> QED
  BY <1>1, Invariant, PTL DEF Spec, WholeLinesStay

\* An id means one proposal for good: whatever is appended under it later, and whoever asks,
\* the lookup gives what it gave as long as the file can be read (cli.ts proposals.find).
IdsKeepTheirProposal ==
    [][readJsonlIfExists(store'["proposals"]) =>
          \A id \in idsOf(store["proposals"]) :
              find(store'["proposals"], id) = find(store["proposals"], id)]_vars

\* The first record of an id speaks for it, whatever is appended after it.
THEOREM IdsAreStable == Spec => IdsKeepTheirProposal
<1>1. IInv /\ [Next]_vars
        => [readJsonlIfExists(store'["proposals"]) =>
               \A id \in idsOf(store["proposals"]) :
                   find(store'["proposals"], id) = find(store["proposals"], id)]_vars
  <2> SUFFICES ASSUME IInv, [Next]_vars, readJsonlIfExists(store'["proposals"]),
                      NEW id \in idsOf(store["proposals"])
               PROVE  find(store'["proposals"], id) = find(store["proposals"], id)
    OBVIOUS
  <2> DEFINE old == store["proposals"]
             new == store'["proposals"]
  <2>0. "proposals" \in Files /\ TypeOK
    BY DEF Files, IInv
  <2>1. /\ old \in Seq(AllLines) /\ new \in Seq(AllLines) /\ Len(old) <= Len(new)
        /\ readJsonlIfExists(old)
        /\ \A i \in 1..Len(old) : old[i] # torn => new[i] = old[i]
    BY <2>0, StoreGrows DEF IInv, TypeOK
  <2>2. DOMAIN old = 1..Len(old) /\ \A i \in DOMAIN old : old[i] \notin {torn, glued}
    BY <2>1, LenProperties DEF readJsonlIfExists
  <2>3. \A i \in DOMAIN old : old[i] = new[i]
    BY <2>1, <2>2
  <2>4. old \in Seq(ProposalLines)
    <3>1. \A i \in DOMAIN old : old[i] \in onFile("proposals")
      BY <2>2 DEF onFile, ToSet
    <3>2. \A i \in DOMAIN old : old[i] \in ProposalLines
      BY <2>0, <3>1 DEF TypeOK, Fits
    <3> QED
      BY <2>1, <3>2, SeqDef, LenProperties
  <2> HIDE DEF old, new
  <2>5. PICK i \in DOMAIN old :
            find(old, id) = old[i].proposal /\ find(new, id) = old[i].proposal
    <3>1. id \in idsOf(old)
      BY DEF old
    <3> QED
      BY <2>1, <2>3, <2>4, <3>1, FirstRecordStays
  <2> QED
    BY <2>5 DEF old, new
<1> QED
  BY <1>1, Invariant, PTL DEF Spec, IdsKeepTheirProposal

\* An approval stays true for whoever looks the approved id up later.
THEOREM ApprovalsStayTrue == Spec => []ApprovalsHold
<1>1. ASSUME IInv PROVE ApprovalsHold
  <2>0. TypeOK /\ SnapshotsAreOld /\ LinesAreAuthored /\ ReviewsAreJustified
    BY <1>1 DEF IInv
  <2>1. ASSUME NEW r \in onFile("reviews"), r.decision = "approve", NEW pr,
               pr = find(store["proposals"], r.id)
        PROVE  /\ actionable(pr)
               /\ \/ \E q \in Invocations : cmd[q].name = "record" /\ cmd[q].request = pr
                  \/ proposalSeedEligible(log[pr.source])
    <3>1. /\ r.by \in Invocations /\ cmd[r.by].id = r.id
          /\ r.id \in idsOf(snapshot[r.by]) /\ actionable(find(snapshot[r.by], r.id))
      <4>1. r.by \in Invocations
        BY <2>0 DEF TypeOK, Fits, Files, ReviewLines
      <4> QED
        BY <2>0, <2>1, <4>1 DEF ReviewsAreJustified, Justified, found, target
    <3>2. PICK i \in DOMAIN snapshot[r.by] :
              /\ snapshot[r.by][i] \in onFile("proposals")
              /\ find(snapshot[r.by], r.id) = snapshot[r.by][i].proposal
              /\ find(store["proposals"], r.id) = snapshot[r.by][i].proposal
      BY <2>0, <3>1, FoundAsRead
    <3> DEFINE l == snapshot[r.by][i]
    <3>3. actionable(pr) /\ pr = l.proposal
      BY <2>1, <3>1, <3>2
    <3>4. l \in ProposalLines /\ l.by \in Invocations /\ Authored(l)
      BY <2>0, <3>2, Authors
    <3> HIDE DEF l
    <3>5. CASE /\ cmd[l.by].name = "record"
               /\ l.proposal = applyLearningProposalValidation(cmd[l.by].request)
      <4>1. cmd[l.by].request \in Proposals
        BY <2>0, <3>4, <3>5, CommandFields
      <4>2. cmd[l.by].request.complete
        BY <3>3, <3>5, <4>1, Validated DEF actionable
      <4>3. cmd[l.by].request = pr
        BY <3>3, <3>5, <4>1, <4>2, Validated
      <4> QED
        BY <3>3, <3>4, <3>5, <4>3
    <3>6. CASE l.proposal.status = "pending_review" => proposalSeedEligible(log[l.proposal.source])
      BY <3>3, <3>6 DEF actionable
    <3> QED
      BY <3>4, <3>5, <3>6 DEF Authored
  <2> QED
    BY <2>1 DEF ApprovalsHold
<1> QED
  BY <1>1, Invariant, PTL

\* The provider is asked only about a human's explicit patch, on a clean baseline.
THEOREM ProviderOnCleanBaseline == Spec => []ProviderNeedsCleanBaseline
<1>1. ASSUME IInv PROVE ProviderNeedsCleanBaseline
  <2>0. TypeOK /\ SnapshotsAreOld /\ LinesAreAuthored /\ AskersPassedPreflight
    BY <1>1 DEF IInv
  <2>1. ASSUME NEW p \in Invocations, pc[p] = "asking" \/ answer[p] # NoAnswer, NEW t,
               t = log[cmd[p].transition]
        PROVE  /\ t.env = "organic" /\ t.shadow = "clean" /\ t.product
               /\ \E q \in Invocations : /\ cmd[q].name = "record" /\ cmd[q].request.id = cmd[p].id
                                         /\ cmd[q].request.patch = "guidance"
    <3>1. /\ found(p) /\ assessLearningExperimentPreflight(target(p), cmd[p].transition)
          /\ assembled(target(p), cmd[p].transition)
      BY <2>0, <2>1 DEF AskersPassedPreflight
    <3>2. t.env = "organic" /\ t.shadow = "clean" /\ t.product
      BY <2>1, <3>1 DEF assessLearningExperimentPreflight, sameSliceProviderEligible, eligibleForProposalSeed
    <3>3. PICK i \in DOMAIN snapshot[p] :
              /\ snapshot[p][i].proposal.id = cmd[p].id
              /\ snapshot[p][i] \in onFile("proposals")
              /\ target(p) = snapshot[p][i].proposal
      BY <2>0, <3>1, FoundAsRead DEF found, target
    <3> DEFINE l == snapshot[p][i]
    <3>4. l.proposal.id = cmd[p].id /\ l.proposal.patch = "guidance"
      BY <3>1, <3>3 DEF assembled
    <3>5. l.by \in Invocations /\ Authored(l)
      BY <2>0, <3>3, Authors
    <3> HIDE DEF l
    <3>6. /\ cmd[l.by].name = "record"
          /\ l.proposal = applyLearningProposalValidation(cmd[l.by].request)
      BY <3>4, <3>5 DEF Authored
    <3>7. cmd[l.by].request.id = cmd[p].id /\ cmd[l.by].request.patch = "guidance"
      <4>1. cmd[l.by].request \in Proposals
        BY <2>0, <3>5, <3>6, CommandFields
      <4> QED
        BY <3>4, <3>6, <4>1, Validated
    <3> QED
      BY <3>2, <3>5, <3>6, <3>7
  <2> QED
    BY <2>1 DEF ProviderNeedsCleanBaseline
<1> QED
  BY <1>1, Invariant, PTL

=============================================================================
