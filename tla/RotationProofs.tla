--------------------------- MODULE RotationProofs ---------------------------
(***************************************************************************)
(* The rotation of the scenarios is fair, for every number of workers and  *)
(* of scenarios of each group: RotationInv is inductive.  A step either    *)
(* leaves the counters alone and moves no worker's rank, or it is          *)
(* RecordOutcome(w), which counts the rank of w and moves it on by one.    *)
(***************************************************************************)
EXTENDS EngineProofs

-----------------------------------------------------------------------------
(* Ranks.                                                                  *)

LEMMA ScenarioParts ==
    ASSUME NEW s \in Scenarios
    PROVE  /\ s = <<s[1], s[2]>>
           /\ s[1] \in Groups
           /\ ScenarioCount[s[1]] \in Nat \ {0}
           /\ s[2] \in 0 .. ScenarioCount[s[1]] - 1
<1>1. PICK g \in Groups : s \in {g} \X (0 .. ScenarioCount[g] - 1)
  BY DEF Scenarios
<1> QED
  BY <1>1, ScenarioAssumption

\* The remainder by which a rotation wraps.
LEMMA NextRank ==
    ASSUME NEW k \in Nat \ {0}, NEW r \in 0 .. k - 1
    PROVE  (r + 1) % k = IF r + 1 < k THEN r + 1 ELSE 0
<1>1. CASE r + 1 < k
  BY <1>1
<1>2. CASE r + 1 = k
  BY <1>2
<1> QED
  BY <1>1, <1>2

LEMMA InitialRank ==
    ASSUME NEW w \in Workers
    PROVE  InitialNext(w) \in 0 .. ScenarioCount[GroupOf(w)] - 1
<1>1. /\ w - GroupStart(GroupOf(w)) \in Nat
      /\ ScenarioCount[GroupOf(w)] \in Nat \ {0}
  BY WorkerGroup
<1> QED
  BY <1>1, Remainder DEF InitialNext

\* Moving the rank on adds it to what is reported, or ends the lap and takes all
\* that is reported away.
LEMMA ReportedNext ==
    ASSUME NEW w \in Workers,
           NEW r \in 0 .. ScenarioCount[GroupOf(w)] - 1,
           NEW x \in 0 .. ScenarioCount[GroupOf(w)] - 1
    PROVE  LET p == (r + 1) % ScenarioCount[GroupOf(w)]
           IN  \/ /\ p # InitialNext(w)
                  /\ Reported(w, p, x) <=> (Reported(w, r, x) \/ x = r)
                  /\ ~Reported(w, r, r)
               \/ /\ p = InitialNext(w)
                  /\ ~Reported(w, p, x)
                  /\ Reported(w, r, x) <=> x # r
<1> DEFINE k == ScenarioCount[GroupOf(w)]
           i == InitialNext(w)
           p == IF r + 1 < k THEN r + 1 ELSE 0
<1>1. k \in Nat \ {0} /\ i \in 0 .. k - 1 /\ (r + 1) % k = p
  BY WorkerGroup, InitialRank, NextRank
<1> HIDE DEF k, i
<1>2. CASE p # i
  <2>1. Reported(w, p, x) <=> (Reported(w, r, x) \/ x = r)
    BY <1>1, <1>2 DEF Reported, i, k
  <2>2. ~Reported(w, r, r)
    BY <1>1 DEF Reported, i, k
  <2> QED
    BY <1>1, <1>2, <2>1, <2>2 DEF i, k
<1>3. CASE p = i
  <2>1. ~Reported(w, p, x)
    BY <1>1, <1>3 DEF Reported, i
  <2>2. Reported(w, r, x) <=> x # r
    BY <1>1, <1>3 DEF Reported, i, k
  <2> QED
    BY <1>1, <1>3, <2>1, <2>2 DEF i, k
<1> QED
  BY <1>2, <1>3

LEMMA RanksNat ==
    ASSUME NEW rank \in [Workers -> Ranks], NEW w \in Workers
    PROVE  rank[w] \in Nat
BY ScenarioAssumption DEF Ranks

LEMMA RankIn ==
    ASSUME NEW w \in Workers, NEW r \in Nat, r < ScenarioCount[GroupOf(w)]
    PROVE  r \in Ranks
BY WorkerGroup DEF Ranks

-----------------------------------------------------------------------------
(* Steps that count nothing.                                               *)

\* A stop is for good, once Run has started.
LEMMA StopStays ==
    ASSUME [Next]_vars, mainPc # "start", ShouldStop
    PROVE  ShouldStop'
<1> USE DEF ShouldStop
<1>1. CASE MainStep
  BY <1>1 DEF MainStep, StartInvalid, Start, SpawnWorker, EnterSelect, TakeBranch,
              StoreStop, CancelRunCtx, WaitReturn, ReturnResult, mainVars, ctxVars
<1>2. CASE Environment
  BY <1>2 DEF Environment, TimerFires, Interrupt, PropagateCancel, CancelRollsBack,
              LocalStep, mainVars, ctxVars
<1>3. CASE ProgressStep
  BY <1>3 DEF ProgressStep, TickerFires, TakeTick, TakeTickWith, EmitSnapshot,
              ProgressExit, mainVars, ctxVars
<1>4. CASE UNCHANGED vars
  BY <1>4 DEF vars, mainVars, ctxVars
<1>5. ASSUME NEW w \in Workers, WorkerStep(w) PROVE ShouldStop'
  BY <1>5 DEF WorkerStep, WorkerExit, PickScenario, PickScenarioTo, EnterStep,
              BeginOk, BeginFail, RunOk, RunFail, CommitStart, CommitRefused,
              CommitAck, CommitLost, CommitReject, JudgeError, Judge, RecordOutcome,
              RecordAs, Answer, Reply, LocalStep, mainVars, ctxVars
<1> QED
  BY <1>1, <1>2, <1>3, <1>4, <1>5, StepCases

\* A step of one worker leaves the rotation of the others alone, and stops nobody.
LEMMA OthersRotation ==
    ASSUME TypeOK, NEW w \in Workers, WorkerStep(w)
    PROVE  /\ \A v \in Workers \ {w} : next'[v] = next[v]
           /\ ShouldStop' = ShouldStop
BY DEF WorkerStep, WorkerExit, PickScenario, PickScenarioTo, EnterStep,
       BeginOk, BeginFail, RunOk, RunFail, CommitStart, CommitRefused,
       CommitAck, CommitLost, CommitReject, JudgeError, Judge, RecordOutcome,
       RecordAs, Answer, Reply, LocalStep, mainVars, ctxVars, TypeOK, ShouldStop

\* What a step of worker w that counts nothing does to w itself.
LEMMA OwnRotation ==
    ASSUME TypeOK, NEW w \in Workers, WorkerStep(w), ~RecordOutcome(w)
    PROVE  \/ pc'[w] \in {"loop", "exited"} /\ ShouldStop
           \/ /\ pc[w] = "loop" /\ ~ShouldStop
              /\ pc'[w] \in InStep
              /\ current'[w] = <<GroupOf(w), next[w]>>
              /\ next'[w] = (next[w] + 1) % ScenarioCount[GroupOf(w)]
           \/ /\ pc[w] \in InStep /\ pc'[w] \in InStep
              /\ current'[w] = current[w] /\ next'[w] = next[w]
<1> USE DEF TypeOK, InStep, WorkerPcs
<1>1. CASE WorkerExit(w) \/ EnterStep(w)
  BY <1>1 DEF WorkerExit, EnterStep
<1>2. CASE PickScenario(w)
  BY <1>2 DEF PickScenario, PickScenarioTo
<1>3. CASE BeginOk(w) \/ BeginFail(w) \/ RunOk(w) \/ RunFail(w)
  BY <1>3 DEF BeginOk, BeginFail, RunOk, RunFail, Answer, Reply
<1>4. CASE CommitStart(w) \/ CommitRefused(w)
  BY <1>4 DEF CommitStart, CommitRefused, Answer, Reply
<1>5. CASE CommitAck(w) \/ CommitLost(w) \/ CommitReject(w)
  BY <1>5 DEF CommitAck, CommitLost, CommitReject, Answer, Reply
<1>6. CASE JudgeError(w)
  BY <1>6 DEF JudgeError, Judge
<1> QED
  BY <1>1, <1>2, <1>3, <1>4, <1>5, <1>6 DEF WorkerStep

\* Steps of the other goroutines leave the workers where they are, or start one.
LEMMA OtherSteps ==
    ASSUME TypeOK, [Next]_vars, ~\E w \in Workers : WorkerStep(w)
    PROVE  /\ UNCHANGED <<next, current, stats>>
           /\ \A v \in Workers : pc'[v] = pc[v] \/ (pc[v] = "unborn" /\ pc'[v] = "loop")
<1> USE DEF LocalStep, workerVars, summaryVars
<1>1. CASE MainStep
  BY <1>1 DEF MainStep, StartInvalid, Start, SpawnWorker, EnterSelect, TakeBranch,
              StoreStop, CancelRunCtx, WaitReturn, ReturnResult, TypeOK
<1>2. CASE Environment
  BY <1>2 DEF Environment, TimerFires, Interrupt, PropagateCancel, CancelRollsBack
<1>3. CASE ProgressStep
  BY <1>3 DEF ProgressStep, TickerFires, TakeTick, TakeTickWith, EmitSnapshot,
              ProgressExit
<1>4. CASE UNCHANGED vars
  BY <1>4 DEF vars
<1> QED
  BY <1>1, <1>2, <1>3, <1>4, StepCases

LEMMA RanksKept ==
    ASSUME TypeOK, PhasesOK, [Next]_vars, ~\E w \in Workers : RecordOutcome(w),
           NEW rank \in [Workers -> Ranks], RanksOK(rank)
    PROVE  RanksOK(rank)'
<1> SUFFICES ASSUME NEW v \in Workers
             PROVE  /\ pc'[v] = "unborn" \/ (pc'[v] = "loop" /\ ~ShouldStop')
                         => rank[v] = next'[v]
                    /\ pc'[v] \in InStep =>
                         /\ current'[v] = <<GroupOf(v), rank[v]>>
                         /\ next'[v] = (rank[v] + 1) % ScenarioCount[GroupOf(v)]
  BY DEF RanksOK
<1> DEFINE Kept == /\ pc'[v] = "unborn" \/ (pc'[v] = "loop" /\ ~ShouldStop')
                        => rank[v] = next'[v]
                   /\ pc'[v] \in InStep =>
                        /\ current'[v] = <<GroupOf(v), rank[v]>>
                        /\ next'[v] = (rank[v] + 1) % ScenarioCount[GroupOf(v)]
<1>0. /\ pc[v] = "unborn" \/ (pc[v] = "loop" /\ ~ShouldStop) => rank[v] = next[v]
      /\ pc[v] \in InStep =>
           /\ current[v] = <<GroupOf(v), rank[v]>>
           /\ next[v] = (rank[v] + 1) % ScenarioCount[GroupOf(v)]
  BY DEF RanksOK
<1>1. CASE ~\E w \in Workers : WorkerStep(w)
  <2>1. /\ UNCHANGED <<next, current>>
        /\ pc'[v] = pc[v] \/ (pc[v] = "unborn" /\ pc'[v] = "loop")
    BY <1>1, OtherSteps
  <2>2. pc[v] # "unborn" => mainPc # "start"
    BY DEF PhasesOK
  <2>3. pc[v] = "loop" /\ ShouldStop => ShouldStop'
    BY <2>2, StopStays
  <2> QED
    BY <1>0, <2>1, <2>3 DEF InStep
<1>2. ASSUME NEW w \in Workers, WorkerStep(w), v # w PROVE Kept
  <2>1. pc'[v] = pc[v] /\ current'[v] = current[v] /\ next'[v] = next[v]
    BY <1>2, OthersUntouched, OthersRotation
  <2>2. ShouldStop' = ShouldStop
    BY <1>2, OthersRotation
  <2> QED
    BY <1>0, <2>1, <2>2
<1>3. CASE WorkerStep(v)
  <2>1. ShouldStop' = ShouldStop
    BY <1>3, OthersRotation
  <2> QED
    BY <1>0, <1>3, <2>1, OwnRotation DEF InStep
<1> QED
  BY <1>1, <1>2, <1>3

-----------------------------------------------------------------------------
(* RecordOutcome(w): the counter of w's rank and the rank move together.   *)

LEMMA RecordedRank ==
    ASSUME TypeOK, NEW w \in Workers, RecordOutcome(w),
           NEW rank \in [Workers -> Ranks], RanksOK(rank),
           NEW moved, moved = [rank EXCEPT ![w] = next[w]]
    PROVE  /\ moved \in [Workers -> Ranks]
           /\ RanksOK(moved)'
           /\ current[w] = <<GroupOf(w), rank[w]>>
           /\ next[w] = (rank[w] + 1) % ScenarioCount[GroupOf(w)]
           /\ \A s \in Scenarios :
                stats'[s]["executed"] =
                  IF s = current[w] THEN stats[s]["executed"] + 1 ELSE stats[s]["executed"]
<1>1. /\ pc[w] = "record" /\ pc' = [pc EXCEPT ![w] = "loop"]
      /\ next' = next /\ current' = current
  BY DEF RecordOutcome, RecordAs
<1>2. /\ current[w] = <<GroupOf(w), rank[w]>>
      /\ next[w] = (rank[w] + 1) % ScenarioCount[GroupOf(w)]
  BY <1>1 DEF RanksOK, InStep, WorkerPcs
<1>3. next[w] \in Nat /\ next[w] < ScenarioCount[GroupOf(w)]
  BY DEF TypeOK
<1>4. moved \in [Workers -> Ranks]
  BY <1>3, RankIn
<1>5. RanksOK(moved)'
  <2>1. WorkerStep(w)
    BY DEF WorkerStep
  <2>2. ShouldStop' = ShouldStop
    BY <2>1, OthersRotation
  <2> QED
    BY <1>1, <1>3, <2>2 DEF RanksOK, TypeOK, InStep, WorkerPcs
<1>6. ASSUME NEW s \in Scenarios
      PROVE  stats'[s]["executed"] =
               IF s = current[w] THEN stats[s]["executed"] + 1 ELSE stats[s]["executed"]
  <2>1. PICK o \in Outcomes :
          /\ current[w] \in Scenarios
          /\ stats' = [stats EXCEPT ![current[w]] = Counted(stats[current[w]], o)]
    BY RecordCounts
  <2> QED
    BY <2>1 DEF TypeOK, Counted, Columns
<1> QED
  BY <1>2, <1>4, <1>5, <1>6

LEMMA AheadIsFinite ==
    ASSUME NEW rank, NEW s, NEW t
    PROVE  Cardinality(Ahead(rank, s, t)) \in Nat
BY WorkersFinite, FS_Subset, FS_CardinalityType DEF Ahead

\* When the rank of worker w moves, the workers ahead with s change by w at most.
AheadMoves(w, rank, moved, s, t) ==
    LET A == Ahead(rank, s, t)
        B == Ahead(moved, s, t)
    IN  /\ Cardinality(A) \in Nat /\ Cardinality(B) \in Nat
        /\ (w \in A <=> w \in B) => Cardinality(B) = Cardinality(A)
        /\ w \notin A /\ w \in B => Cardinality(B) = Cardinality(A) + 1
        /\ w \in A /\ w \notin B => Cardinality(A) = Cardinality(B) + 1

LEMMA AheadChange ==
    ASSUME NEW w \in Workers, NEW rank \in [Workers -> Ranks], NEW r,
           NEW moved, moved = [rank EXCEPT ![w] = r], NEW s, NEW t
    PROVE  AheadMoves(w, rank, moved, s, t)
<1>1. Ahead(rank, s, t) \in SUBSET Workers /\ Ahead(moved, s, t) \in SUBSET Workers
  BY DEF Ahead
<1>2. Ahead(rank, s, t) \ {w} = Ahead(moved, s, t) \ {w}
  BY DEF Ahead
<1> QED
  BY <1>1, <1>2, CardinalityStep DEF AheadMoves

LEMMA RotationRecord ==
    ASSUME TypeOK, NEW w \in Workers, RecordOutcome(w),
           NEW rank \in [Workers -> Ranks], RanksOK(rank), RotationOK(rank),
           NEW moved, moved = [rank EXCEPT ![w] = next[w]]
    PROVE  RotationOK(moved)'
<1> SUFFICES ASSUME NEW s \in Scenarios, NEW t \in Scenarios, s[1] = t[1]
             PROVE  stats'[s]["executed"] - stats'[t]["executed"]
                      = Cardinality(Ahead(moved, s, t)) - Cardinality(Ahead(moved, t, s))
  BY DEF RotationOK
<1> DEFINE g == GroupOf(w)
           r == rank[w]
           p == next[w]
           P(x) == Reported(w, r, x)
           Q(x) == Reported(w, p, x)
           D(a, b) == Cardinality(Ahead(a, s, t)) - Cardinality(Ahead(b, t, s))
<1>1. /\ current[w] = <<g, r>>
      /\ p = (r + 1) % ScenarioCount[g]
      /\ \A q \in Scenarios :
           stats'[q]["executed"] =
             IF q = current[w] THEN stats[q]["executed"] + 1 ELSE stats[q]["executed"]
  BY RecordedRank
<1>2. /\ s = <<s[1], s[2]>> /\ t = <<t[1], t[2]>>
      /\ s[2] \in 0 .. ScenarioCount[s[1]] - 1
      /\ t[2] \in 0 .. ScenarioCount[s[1]] - 1
  BY ScenarioParts
<1>3. r \in 0 .. ScenarioCount[g] - 1
  BY RanksNat, WorkerGroup DEF RanksOK
<1>4. stats[s]["executed"] - stats[t]["executed"] = D(rank, rank)
  BY DEF RotationOK
<1>5. /\ stats[s]["executed"] \in Nat /\ stats[t]["executed"] \in Nat
      /\ Cardinality(Ahead(rank, s, t)) \in Nat /\ Cardinality(Ahead(rank, t, s)) \in Nat
  BY AheadIsFinite DEF TypeOK, Columns
<1>6. /\ w \in Ahead(rank, s, t) <=> g = s[1] /\ P(s[2]) /\ ~P(t[2])
      /\ w \in Ahead(rank, t, s) <=> g = s[1] /\ P(t[2]) /\ ~P(s[2])
      /\ w \in Ahead(moved, s, t) <=> g = s[1] /\ Q(s[2]) /\ ~Q(t[2])
      /\ w \in Ahead(moved, t, s) <=> g = s[1] /\ Q(t[2]) /\ ~Q(s[2])
  BY DEF Ahead
<1>7. AheadMoves(w, rank, moved, s, t) /\ AheadMoves(w, rank, moved, t, s)
  BY AheadChange
<1>8. CASE g # s[1]
  <2>1. s # current[w] /\ t # current[w]
    BY <1>1, <1>2, <1>8
  <2> QED
    BY <1>1, <1>4, <1>6, <1>7, <1>8, <2>1 DEF AheadMoves
<1>9. CASE g = s[1]
  <2>1. /\ s = current[w] <=> s[2] = r
        /\ t = current[w] <=> t[2] = r
        /\ s = t <=> s[2] = t[2]
    BY <1>1, <1>2, <1>9
  <2>2. /\ \/ p # InitialNext(w) /\ (Q(s[2]) <=> (P(s[2]) \/ s[2] = r)) /\ ~P(r)
           \/ p = InitialNext(w) /\ ~Q(s[2]) /\ (P(s[2]) <=> s[2] # r)
        /\ \/ p # InitialNext(w) /\ (Q(t[2]) <=> (P(t[2]) \/ t[2] = r)) /\ ~P(r)
           \/ p = InitialNext(w) /\ ~Q(t[2]) /\ (P(t[2]) <=> t[2] # r)
    BY <1>1, <1>2, <1>3, <1>9, ReportedNext
  <2> HIDE DEF g, r, p, P, Q
  <2>3. CASE s[2] = t[2]
    <3>1. s = t
      BY <2>1, <2>3
    <3>2. Cardinality(Ahead(moved, s, t)) \in Nat
      BY AheadIsFinite
    <3>3. stats'[s]["executed"] \in Int
      BY <1>1, <1>5
    <3> QED
      BY <3>1, <3>2, <3>3
  <2>4. CASE s[2] = r /\ t[2] # r
    <3>1. /\ stats'[s]["executed"] = stats[s]["executed"] + 1
          /\ stats'[t]["executed"] = stats[t]["executed"]
      BY <1>1, <2>1, <2>4
    <3>2. /\ w \notin Ahead(rank, s, t) /\ w \notin Ahead(moved, t, s)
          /\ w \in Ahead(rank, t, s) <=> w \notin Ahead(moved, s, t)
      BY <1>6, <1>9, <2>2, <2>4
    <3> QED
      BY <1>4, <1>5, <1>7, <3>1, <3>2 DEF AheadMoves
  <2>5. CASE s[2] # r /\ t[2] = r
    <3>1. /\ stats'[s]["executed"] = stats[s]["executed"]
          /\ stats'[t]["executed"] = stats[t]["executed"] + 1
      BY <1>1, <2>1, <2>5
    <3>2. /\ w \notin Ahead(rank, t, s) /\ w \notin Ahead(moved, s, t)
          /\ w \in Ahead(rank, s, t) <=> w \notin Ahead(moved, t, s)
      BY <1>6, <1>9, <2>2, <2>5
    <3> QED
      BY <1>4, <1>5, <1>7, <3>1, <3>2 DEF AheadMoves
  <2>6. CASE s[2] # r /\ t[2] # r
    <3>1. /\ stats'[s]["executed"] = stats[s]["executed"]
          /\ stats'[t]["executed"] = stats[t]["executed"]
      BY <1>1, <2>1, <2>6
    <3>2. /\ w \in Ahead(rank, s, t) <=> w \in Ahead(moved, s, t)
          /\ w \in Ahead(rank, t, s) <=> w \in Ahead(moved, t, s)
      BY <1>6, <1>9, <2>2, <2>6
    <3> QED
      BY <1>4, <1>5, <1>7, <3>1, <3>2 DEF AheadMoves
  <2> QED
    BY <2>3, <2>4, <2>5, <2>6
<1> QED
  BY <1>8, <1>9

-----------------------------------------------------------------------------
(* The invariant and the theorem.                                          *)

LEMMA RotationInit ==
    ASSUME Init PROVE RotationInv
<1> DEFINE rank == [w \in Workers |-> InitialNext(w)]
<1>1. rank \in [Workers -> Ranks] /\ \A w \in Workers : rank[w] < ScenarioCount[GroupOf(w)]
  <2> SUFFICES ASSUME NEW w \in Workers
               PROVE  InitialNext(w) \in Ranks /\ InitialNext(w) < ScenarioCount[GroupOf(w)]
    OBVIOUS
  <2> QED
    BY InitialRank, WorkerGroup DEF Ranks
<1>2. RanksOK(rank)
  BY <1>1 DEF Init, RanksOK, InStep, WorkerPcs
<1>3. RotationOK(rank)
  <2> SUFFICES ASSUME NEW s \in Scenarios, NEW t \in Scenarios
               PROVE  stats[s]["executed"] - stats[t]["executed"]
                        = Cardinality(Ahead(rank, s, t)) - Cardinality(Ahead(rank, t, s))
    BY DEF RotationOK
  <2>1. stats[s]["executed"] = 0 /\ stats[t]["executed"] = 0
    BY DEF Init, Zero, Columns
  <2>2. /\ s[2] \in Nat /\ t[2] \in Nat
        /\ \A w \in Workers : InitialNext(w) \in Nat
    BY ScenarioParts, InitialRank, WorkerGroup
  <2>3. Ahead(rank, s, t) = {} /\ Ahead(rank, t, s) = {}
    BY <2>2 DEF Ahead, Reported
  <2> QED
    BY <2>1, <2>3, FS_EmptySet
<1> QED
  BY <1>1, <1>2, <1>3 DEF RotationInv

LEMMA RotationStep ==
    ASSUME TypeOK, PhasesOK, RotationInv, [Next]_vars PROVE RotationInv'
<1>1. PICK rank \in [Workers -> Ranks] : RanksOK(rank) /\ RotationOK(rank)
  BY DEF RotationInv
<1>2. CASE ~\E w \in Workers : RecordOutcome(w)
  <2>1. RanksOK(rank)'
    BY <1>1, <1>2, RanksKept
  <2>2. stats' = stats
    BY <1>2, SummarySteps DEF summaryVars
  <2>3. RotationOK(rank)'
    BY <1>1, <2>2 DEF RotationOK, Ahead
  <2> QED
    BY <2>1, <2>3 DEF RotationInv
<1>3. ASSUME NEW w \in Workers, RecordOutcome(w) PROVE RotationInv'
  <2>0. PICK moved : moved = [rank EXCEPT ![w] = next[w]]
    OBVIOUS
  <2>1. moved \in [Workers -> Ranks] /\ RanksOK(moved)'
    BY <1>1, <1>3, <2>0, RecordedRank
  <2>2. RotationOK(moved)'
    BY <1>1, <1>3, <2>0, RotationRecord
  <2> QED
    BY <2>1, <2>2 DEF RotationInv
<1> QED
  BY <1>2, <1>3

\* Each worker has reported one scenario of its group at most once more often than
\* another one, wherever it is in its lap.
LEMMA RotationBound ==
    ASSUME TypeOK, RotationInv PROVE RotationBalanced
<1> SUFFICES ASSUME NEW s \in Scenarios, NEW t \in Scenarios, s[1] = t[1]
             PROVE  stats[s]["executed"] - stats[t]["executed"]
                      <= Cardinality({w \in Workers : GroupOf(w) = s[1]})
  BY DEF RotationBalanced
<1> DEFINE G == {w \in Workers : GroupOf(w) = s[1]}
<1>1. PICK rank \in [Workers -> Ranks] : RotationOK(rank)
  BY DEF RotationInv
<1>2. Ahead(rank, s, t) \in SUBSET G /\ IsFiniteSet(G)
  BY WorkersFinite, FS_Subset DEF Ahead
<1>3. Cardinality(Ahead(rank, s, t)) <= Cardinality(G) /\ Cardinality(G) \in Nat
  BY <1>2, FS_Subset, FS_CardinalityType
<1>4. Cardinality(Ahead(rank, s, t)) \in Nat /\ Cardinality(Ahead(rank, t, s)) \in Nat
  BY AheadIsFinite
<1>5. stats[s]["executed"] - stats[t]["executed"]
        = Cardinality(Ahead(rank, s, t)) - Cardinality(Ahead(rank, t, s))
  BY <1>1 DEF RotationOK
<1> QED
  BY <1>3, <1>4, <1>5

\* At any moment two scenarios of a group have been executed equally often, up to one
\* execution per worker of the group: whatever the number of workers and of scenarios,
\* the order in which the workers run, and the steps that the stop has ignored.
THEOREM RotationIsFair == Spec => []RotationBalanced
<1>1. Init => RotationInv
  BY RotationInit
<1>2. TypeOK /\ PhasesOK /\ RotationInv /\ [Next]_vars => RotationInv'
  BY RotationStep
<1>3. TypeOK /\ RotationInv => RotationBalanced
  BY RotationBound
<1>4. EngineInv => TypeOK /\ PhasesOK
  BY DEF EngineInv
<1> QED
  BY <1>1, <1>2, <1>3, <1>4, Invariance, PTL DEF Spec
=============================================================================
