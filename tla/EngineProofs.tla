---------------------------- MODULE EngineProofs ----------------------------
(***************************************************************************)
(* Theorems about Engine, for every number of workers of each group, every *)
(* number of scenarios, and every set of database errors.                  *)
(***************************************************************************)
EXTENDS Engine, FiniteSetTheorems, TLAPS

-----------------------------------------------------------------------------
(* Lemmas about the operators.                                             *)

\* Every worker belongs to a group, and its rank in the group is a natural.
LEMMA WorkerGroup ==
    ASSUME NEW w \in Workers
    PROVE  /\ w \in Nat
           /\ GroupOf(w) \in Groups
           /\ w - GroupStart(GroupOf(w)) \in Nat
           /\ ScenarioCount[GroupOf(w)] \in Nat \ {0}
<1>1. w \in Nat /\ w < GenericWorkers + BillingWorkers + FailureProbeWorkers
  BY WorkersAssumption DEF Workers, TotalWorkers
<1>2. GroupOf(w) \in Groups
  BY DEF GroupOf, Groups
<1>3. w - GroupStart(GroupOf(w)) \in Nat
  BY <1>1, WorkersAssumption DEF GroupOf, GroupStart
<1> QED
  BY <1>1, <1>2, <1>3, ScenarioAssumption

\* A remainder is a natural below the divisor.
LEMMA Remainder ==
    ASSUME NEW a \in Nat, NEW k \in Nat \ {0}
    PROVE  a % k \in Nat /\ a % k < k
OBVIOUS

\* A worker's rotation stays within the scenarios of its group.
LEMMA PickedScenario ==
    ASSUME NEW w \in Workers, NEW i \in Nat, i < ScenarioCount[GroupOf(w)]
    PROVE  <<GroupOf(w), i>> \in Scenarios
<1> DEFINE g == GroupOf(w)
           OfGroup == {g} \X (0 .. ScenarioCount[g] - 1)
<1>1. <<g, i>> \in OfGroup
  BY WorkerGroup
<1>2. OfGroup \in {{h} \X (0 .. ScenarioCount[h] - 1) : h \in Groups}
  BY WorkerGroup
<1> HIDE DEF OfGroup, g
<1>3. <<g, i>> \in UNION {{h} \X (0 .. ScenarioCount[h] - 1) : h \in Groups}
  BY <1>1, <1>2
<1> QED
  BY <1>3 DEF Scenarios, g

\* Counting one execution keeps counters balanced naturals, and changes
\* "executed" and the outcome's column by one.
LEMMA CountedBalanced ==
    ASSUME NEW counts \in [Columns -> Nat], NEW o \in Outcomes
    PROVE  /\ Counted(counts, o) \in [Columns -> Nat]
           /\ Balanced(counts) => Balanced(Counted(counts, o))
<1> /\ "executed" \in Columns /\ "success" \in Columns
    /\ "expectedFailure" \in Columns /\ "unexpectedFailure" \in Columns
  BY DEF Columns, Outcomes
<1>1. Counted(counts, o) \in [Columns -> Nat]
  BY DEF Counted
<1>2. o \in {"success", "expectedFailure", "unexpectedFailure"}
  BY DEF Outcomes
<1>3. ASSUME Balanced(counts) PROVE Balanced(Counted(counts, o))
  <2>1. CASE o = "success"
    BY <1>3, <2>1 DEF Counted, Balanced
  <2>2. CASE o = "expectedFailure"
    BY <1>3, <2>2 DEF Counted, Balanced
  <2>3. CASE o = "unexpectedFailure"
    BY <1>3, <2>3 DEF Counted, Balanced
  <2> QED
    BY <1>2, <2>1, <2>2, <2>3
<1> QED
  BY <1>1, <1>3

LEMMA ClassifyOutcome ==
    ASSUME NEW s, NEW e PROVE Classify(s, e) \in Outcomes
BY DEF Classify, Outcomes

\* What a call with a context may answer is an error of the model, and it says
\* "context canceled" only when the context is done.
LEMMA CallErrorsTyped ==
    ASSUME NEW e \in CallErrors
    PROVE  /\ e \in SUBSET Atoms /\ e # NoError
           /\ "context canceled" \in e => runCtxDone
<1>1. ASSUME NEW d \in DbErrors \cup {NoError}
      PROVE  /\ d \in SUBSET Atoms
             /\ "context canceled" \notin d
             /\ d \in DbErrors => d # NoError
  BY DbErrorsAssumption DEF Atoms, NoError
<1>2. CASE e \in DbErrors
  BY <1>1, <1>2
<1>3. CASE e \notin DbErrors
  <2>1. runCtxDone /\ \E d \in DbErrors \cup {NoError} : e = {"context canceled"} \cup d
    BY <1>3 DEF CallErrors
  <2> QED
    BY <2>1, <1>1 DEF Atoms, NoError
<1> QED
  BY <1>2, <1>3

\* The same of the errors of a scenario's Run.
LEMMA RunErrorsTyped ==
    ASSUME NEW w, NEW e \in RunErrors(w)
    PROVE  /\ e \in SUBSET Atoms /\ e # NoError
           /\ "context canceled" \in e => runCtxDone
<1>1. CASE e \in CallErrors
  BY <1>1, CallErrorsTyped
<1>2. CASE e = {"transaction done"}
  BY <1>2 DEF Atoms, NoError
<1> QED
  BY <1>1, <1>2 DEF RunErrors

\* Database errors are errors of the model and do not speak of contexts.
LEMMA DbErrorsTyped ==
    ASSUME NEW e \in DbErrors
    PROVE  e \in SUBSET Atoms /\ e # NoError /\ "context canceled" \notin e
BY DbErrorsAssumption DEF Atoms, NoError

-----------------------------------------------------------------------------
(* Type correctness.                                                       *)

LEMMA TypeInit == Init => TypeOK
<1> SUFFICES ASSUME Init PROVE TypeOK
  OBVIOUS
<1>1. Zero \in [Columns -> Nat]
  BY DEF Zero
<1>2. \A w \in Workers : InitialNext(w) \in Nat /\ InitialNext(w) < ScenarioCount[GroupOf(w)]
  BY WorkerGroup, Remainder DEF InitialNext
<1> QED
  BY <1>1, <1>2 DEF Init, TypeOK, MainPcs, RunResults, WorkerPcs, TxStates,
                    ProgressPcs, NoError

\* Steps that change the control, the contexts and the progress snapshots only.
LEMMA TypeMain ==
    TypeOK /\ MainStep => TypeOK'
<1> SUFFICES ASSUME TypeOK, MainStep PROVE TypeOK'
  OBVIOUS
<1> USE DEF TypeOK, MainPcs, RunResults, WorkerPcs, ProgressPcs, ctxVars, workerVars,
            progressVars, summaryVars, mainVars
<1>1. CASE StartInvalid
  BY <1>1 DEF StartInvalid
<1>2. CASE Start
  BY <1>2 DEF Start
<1>3. ASSUME NEW w \in Workers, SpawnWorker(w) PROVE TypeOK'
  BY <1>3 DEF SpawnWorker
<1>4. CASE EnterSelect
  BY <1>4 DEF EnterSelect
<1>5. CASE TakeBranch
  BY <1>5 DEF TakeBranch
<1>6. CASE StoreStop
  BY <1>6 DEF StoreStop
<1>7. CASE CancelRunCtx
  BY <1>7 DEF CancelRunCtx
<1>8. CASE WaitReturn
  BY <1>8 DEF WaitReturn, ReturnResult
<1> QED
  BY <1>1, <1>2, <1>3, <1>4, <1>5, <1>6, <1>7, <1>8 DEF MainStep

LEMMA TypeOther ==
    TypeOK /\ (Environment \/ ProgressStep \/ UNCHANGED vars) => TypeOK'
<1> SUFFICES ASSUME TypeOK, Environment \/ ProgressStep \/ UNCHANGED vars PROVE TypeOK'
  OBVIOUS
<1> USE DEF TypeOK, ProgressPcs, TxStates, ctxVars, workerVars, progressVars,
            summaryVars, mainVars
<1>1. CASE TimerFires
  BY <1>1 DEF TimerFires
<1>2. CASE Interrupt
  BY <1>2 DEF Interrupt
<1>3. CASE PropagateCancel
  BY <1>3 DEF PropagateCancel
<1>4. ASSUME NEW w \in Workers, CancelRollsBack(w) PROVE TypeOK'
  BY <1>4 DEF CancelRollsBack, LocalStep
<1>5. CASE TickerFires
  BY <1>5 DEF TickerFires
<1>6. CASE TakeTick
  BY <1>6 DEF TakeTick, TakeTickWith
<1>7. CASE EmitSnapshot
  BY <1>7 DEF EmitSnapshot
<1>8. CASE ProgressExit
  BY <1>8 DEF ProgressExit
<1>9. CASE UNCHANGED vars
  BY <1>9 DEF vars
<1> QED
  BY <1>1, <1>2, <1>3, <1>4, <1>5, <1>6, <1>7, <1>8, <1>9 DEF Environment, ProgressStep

\* Answer and Reply put well-typed values into the locals of their worker.
LEMMA TypeReply ==
    ASSUME TypeOK, NEW w \in Workers, NEW p \in WorkerPcs, NEW x \in TxStates,
           NEW e \in SUBSET Atoms, current[w] \in Scenarios,
           Reply(w, p, x, e), UNCHANGED committed \/ MakeDurable(w)
    PROVE  TypeOK'
<1> USE DEF TypeOK, Reply, ctxVars, progressVars, summaryVars, mainVars
<1>1. CASE UNCHANGED committed
  BY <1>1
<1>2. CASE MakeDurable(w)
  <2>1. committed' \in [Scenarios -> Nat]
    BY <1>2 DEF MakeDurable
  <2> QED
    BY <2>1
<1> QED
  BY <1>1, <1>2

LEMMA TypeWorker ==
    ASSUME TypeOK, NEW w \in Workers, WorkerStep(w)
    PROVE  TypeOK'
<1> USE DEF WorkerPcs, TxStates
<1>a. tx[w] \in TxStates
  BY DEF TypeOK
<1>b. ASSUME pc[w] \in {"begin", "run", "commit", "committing"}
      PROVE  current[w] \in Scenarios
  BY <1>b DEF TypeOK
<1>c. NoError \in SUBSET Atoms
  BY DEF NoError
<1>1. CASE WorkerExit(w)
  BY <1>1 DEF WorkerExit, LocalStep, TypeOK, ctxVars, progressVars, summaryVars, mainVars
<1>2. CASE PickScenario(w)
  <2> DEFINE following == (next[w] + 1) % ScenarioCount[GroupOf(w)]
  <2>1. following \in Nat /\ following < ScenarioCount[GroupOf(w)]
    BY WorkerGroup, Remainder DEF TypeOK
  <2>2. <<GroupOf(w), next[w]>> \in Scenarios
    BY PickedScenario DEF TypeOK
  <2>3. PickScenarioTo(w, following)
    BY <1>2 DEF PickScenario
  <2> HIDE DEF following
  <2> QED
    BY <2>1, <2>2, <2>3 DEF PickScenarioTo, LocalStep, TypeOK, ctxVars,
                            progressVars, summaryVars, mainVars
<1>3. CASE EnterStep(w)
  BY <1>3 DEF EnterStep, LocalStep, TypeOK, ctxVars, progressVars, summaryVars, mainVars
<1>4. CASE BeginOk(w)
  BY <1>4, <1>b, <1>c, TypeReply DEF BeginOk, Answer
<1>5. CASE BeginFail(w)
  <2>1. PICK e \in CallErrors : Answer(w, "failed", "none", e)
    BY <1>5 DEF BeginFail
  <2>2. e \in SUBSET Atoms
    BY CallErrorsTyped
  <2> QED
    BY <1>5, <1>b, <2>1, <2>2, TypeReply DEF BeginFail, Answer
<1>6. CASE RunOk(w)
  BY <1>6, <1>a, <1>b, <1>c, TypeReply DEF RunOk, Answer
<1>7. CASE RunFail(w)
  <2>1. PICK e \in RunErrors(w) : Answer(w, "failed", "none", e)
    BY <1>7 DEF RunFail
  <2>2. e \in SUBSET Atoms
    BY RunErrorsTyped
  <2> QED
    BY <1>7, <1>b, <2>1, <2>2, TypeReply DEF RunFail, Answer
<1>8. CASE CommitStart(w)
  BY <1>8, <1>b, <1>c, TypeReply DEF CommitStart, Answer
<1>9. CASE CommitRefused(w)
  <2>1. PICK e \in {{"transaction done"}, {"context canceled"}} :
          Answer(w, "failed", "none", e)
    BY <1>9 DEF CommitRefused
  <2>2. e \in SUBSET Atoms
    BY DEF Atoms
  <2> QED
    BY <1>9, <1>b, <2>1, <2>2, TypeReply DEF CommitRefused, Answer
<1>10. CASE CommitAck(w)
  BY <1>10, <1>b, <1>c, TypeReply DEF CommitAck
<1>11. CASE CommitLost(w)
  BY <1>11, <1>b, TypeReply, DbErrorsTyped DEF CommitLost
<1>12. CASE CommitReject(w)
  BY <1>12, <1>b, TypeReply, DbErrorsTyped DEF CommitReject, Answer
<1>13. CASE JudgeError(w)
  BY <1>13 DEF JudgeError, Judge, LocalStep, NoError, TypeOK, ctxVars,
               progressVars, summaryVars, mainVars
<1>14. CASE RecordOutcome(w)
  <2> DEFINE o == Classify(current[w], err[w])
  <2>1. RecordAs(w, o) /\ current[w] \in Scenarios
    BY <1>14 DEF RecordOutcome, RecordAs, TypeOK
  <2>2. /\ Counted(stats[current[w]], o) \in [Columns -> Nat]
        /\ Counted(totals, o) \in [Columns -> Nat]
    BY <2>1, ClassifyOutcome, CountedBalanced DEF TypeOK
  <2> HIDE DEF o
  <2> QED
    BY <2>1, <2>2 DEF RecordAs, NoError, TypeOK, ctxVars, progressVars, mainVars
<1> QED
  BY <1>1, <1>2, <1>3, <1>4, <1>5, <1>6, <1>7, <1>8, <1>9, <1>10, <1>11,
     <1>12, <1>13, <1>14 DEF WorkerStep

\* The cases of a step, once for all the invariants.
LEMMA StepCases ==
    ASSUME [Next]_vars
    PROVE  \/ MainStep
           \/ Environment \/ ProgressStep \/ UNCHANGED vars
           \/ \E w \in Workers : WorkerStep(w)
BY DEF Next, Terminated

LEMMA TypeStep == TypeOK /\ [Next]_vars => TypeOK'
BY StepCases, TypeMain, TypeOther, TypeWorker

\* Every variable stays in its set: no transaction state, counter or rotation
\* index leaves its range, for any number of workers and scenarios.
THEOREM TypeCorrect == Spec => []TypeOK
<1>1. Init => TypeOK
  BY TypeInit
<1>2. TypeOK /\ [Next]_vars => TypeOK'
  BY TypeStep
<1> QED
  BY <1>1, <1>2, PTL DEF Spec

-----------------------------------------------------------------------------
(* Accounting: only RecordOutcome touches the summary.                     *)

LEMMA SummarySteps ==
    ASSUME [Next]_vars
    PROVE  UNCHANGED summaryVars \/ \E w \in Workers : RecordOutcome(w)
<1>1. CASE MainStep
  BY <1>1 DEF MainStep, StartInvalid, Start, SpawnWorker, EnterSelect, TakeBranch,
              StoreStop, CancelRunCtx, WaitReturn, ReturnResult
<1>2. CASE Environment
  BY <1>2 DEF Environment, TimerFires, Interrupt, PropagateCancel, CancelRollsBack,
              LocalStep
<1>3. CASE ProgressStep
  BY <1>3 DEF ProgressStep, TickerFires, TakeTick, TakeTickWith, EmitSnapshot,
              ProgressExit
<1>4. CASE UNCHANGED vars
  BY <1>4 DEF vars
<1>5. ASSUME NEW w \in Workers, WorkerStep(w), ~RecordOutcome(w)
      PROVE  UNCHANGED summaryVars
  BY <1>5 DEF WorkerStep, WorkerExit, PickScenario, PickScenarioTo, EnterStep,
              BeginOk, BeginFail, RunOk, RunFail, CommitStart, CommitRefused,
              CommitAck, CommitLost, CommitReject, JudgeError, Judge,
              Answer, Reply, LocalStep
<1> QED
  BY <1>1, <1>2, <1>3, <1>4, <1>5, StepCases

\* What RecordOutcome does to the counters.
LEMMA RecordCounts ==
    ASSUME TypeOK, NEW w \in Workers, RecordOutcome(w)
    PROVE  \E o \in Outcomes :
             /\ totals' = Counted(totals, o)
             /\ current[w] \in Scenarios
             /\ stats' = [stats EXCEPT ![current[w]] = Counted(stats[current[w]], o)]
<1> DEFINE o == Classify(current[w], err[w])
<1>1. o \in Outcomes
  BY ClassifyOutcome
<1>2. RecordAs(w, o)
  BY DEF RecordOutcome
<1>3. current[w] \in Scenarios
  BY <1>2 DEF RecordAs, TypeOK
<1> HIDE DEF o
<1> QED
  BY <1>1, <1>2, <1>3 DEF RecordAs

LEMMA AccountingStep == TypeOK /\ Accounting /\ [Next]_vars => Accounting'
<1> SUFFICES ASSUME TypeOK, Accounting, [Next]_vars PROVE Accounting'
  OBVIOUS
<1>1. CASE UNCHANGED summaryVars
  BY <1>1 DEF summaryVars, Accounting, Balanced
<1>2. ASSUME NEW w \in Workers, RecordOutcome(w) PROVE Accounting'
  <2>1. PICK o \in Outcomes :
          /\ totals' = Counted(totals, o)
          /\ current[w] \in Scenarios
          /\ stats' = [stats EXCEPT ![current[w]] = Counted(stats[current[w]], o)]
    BY <1>2, RecordCounts
  <2>2. Balanced(totals')
    BY <2>1, CountedBalanced DEF Accounting, TypeOK
  <2>3. ASSUME NEW s \in Scenarios PROVE Balanced(stats'[s])
    <3>1. stats[s] \in [Columns -> Nat] /\ Balanced(stats[s])
      BY DEF TypeOK, Accounting
    <3>2. stats'[s] = IF s = current[w] THEN Counted(stats[s], o) ELSE stats[s]
      BY <2>1 DEF TypeOK
    <3> QED
      BY <3>1, <3>2, CountedBalanced
  <2> QED
    BY <2>2, <2>3 DEF Accounting, Balanced
<1> QED
  BY <1>1, <1>2, SummarySteps

-----------------------------------------------------------------------------
(* Transactions are scoped: the conjunct for one worker.                   *)

LEMMA TxScopedStep == TypeOK /\ TxScoped /\ [Next]_vars => TxScoped'
<1> SUFFICES ASSUME TypeOK, TxScoped, [Next]_vars PROVE TxScoped'
  OBVIOUS
<1> USE DEF TypeOK, TxScoped
<1>1. CASE UNCHANGED <<pc, tx>>
  BY <1>1
<1>2. ASSUME NEW w \in Workers, SpawnWorker(w) PROVE TxScoped'
  BY <1>2 DEF SpawnWorker
<1>3. ASSUME NEW w \in Workers, CancelRollsBack(w) PROVE TxScoped'
  BY <1>3 DEF CancelRollsBack
<1>4. ASSUME NEW w \in Workers, WorkerStep(w) PROVE TxScoped'
  <2>1. CASE WorkerExit(w) \/ PickScenario(w) \/ EnterStep(w)
    BY <2>1 DEF WorkerExit, PickScenario, PickScenarioTo, EnterStep
  <2>2. CASE BeginOk(w) \/ BeginFail(w)
    BY <2>2 DEF BeginOk, BeginFail, Answer, Reply
  <2>3. CASE RunOk(w) \/ RunFail(w)
    BY <2>3 DEF RunOk, RunFail, Answer, Reply
  <2>4. CASE CommitStart(w) \/ CommitRefused(w)
    BY <2>4 DEF CommitStart, CommitRefused, Answer, Reply
  <2>5. CASE CommitAck(w) \/ CommitLost(w) \/ CommitReject(w)
    BY <2>5 DEF CommitAck, CommitLost, CommitReject, Answer, Reply
  <2>6. CASE JudgeError(w) \/ RecordOutcome(w)
    BY <2>6 DEF JudgeError, Judge, RecordOutcome, RecordAs
  <2> QED
    BY <1>4, <2>1, <2>2, <2>3, <2>4, <2>5, <2>6 DEF WorkerStep
<1>5. CASE MainStep
  BY <1>1, <1>2, <1>5 DEF MainStep, StartInvalid, Start, EnterSelect, TakeBranch,
              StoreStop, CancelRunCtx, WaitReturn, ReturnResult, workerVars
<1>6. CASE Environment
  BY <1>1, <1>3, <1>6 DEF Environment, TimerFires, Interrupt, PropagateCancel, workerVars
<1>7. CASE ProgressStep
  BY <1>1, <1>7 DEF ProgressStep, TickerFires, TakeTick, TakeTickWith, EmitSnapshot,
              ProgressExit, workerVars
<1>8. CASE UNCHANGED vars
  BY <1>1, <1>8 DEF vars, workerVars
<1> QED
  BY <1>4, <1>5, <1>6, <1>7, <1>8, StepCases

-----------------------------------------------------------------------------
(* The phases of Run.                                                      *)

\* A worker that takes a step exists and has not exited, and stays born.
LEMMA WorkerStepPc ==
    ASSUME TypeOK, NEW w \in Workers, WorkerStep(w)
    PROVE  /\ pc[w] \notin {"unborn", "exited"}
           /\ pc' = [pc EXCEPT ![w] = pc'[w]]
           /\ pc'[w] # "unborn"
           /\ UNCHANGED <<mainVars, ctxVars, progressVars>>
<1> USE DEF TypeOK
<1>1. CASE WorkerExit(w) \/ PickScenario(w) \/ EnterStep(w)
  BY <1>1 DEF WorkerExit, PickScenario, PickScenarioTo, EnterStep, LocalStep
<1>2. CASE BeginOk(w) \/ BeginFail(w) \/ RunOk(w) \/ RunFail(w)
  BY <1>2 DEF BeginOk, BeginFail, RunOk, RunFail, Answer, Reply
<1>3. CASE CommitStart(w) \/ CommitRefused(w)
  BY <1>3 DEF CommitStart, CommitRefused, Answer, Reply
<1>4. CASE CommitAck(w) \/ CommitLost(w) \/ CommitReject(w)
  BY <1>4 DEF CommitAck, CommitLost, CommitReject, Answer, Reply
<1>5. CASE JudgeError(w)
  BY <1>5 DEF JudgeError, Judge, LocalStep
<1>6. CASE RecordOutcome(w)
  BY <1>6 DEF RecordOutcome, RecordAs
<1> QED
  BY <1>1, <1>2, <1>3, <1>4, <1>5, <1>6 DEF WorkerStep

LEMMA PhasesStep == TypeOK /\ PhasesOK /\ [Next]_vars => PhasesOK'
<1> SUFFICES ASSUME TypeOK, PhasesOK, [Next]_vars PROVE PhasesOK'
  OBVIOUS
<1> USE DEF PhasesOK, mainVars, ctxVars, workerVars, progressVars
<1>1. CASE MainStep
  <2> USE DEF TypeOK, MainPcs
  <2>1. CASE StartInvalid
    BY <2>1 DEF StartInvalid
  <2>2. CASE Start
    BY <2>2 DEF Start
  <2>3. ASSUME NEW w \in Workers, SpawnWorker(w) PROVE PhasesOK'
    BY <2>3 DEF SpawnWorker
  <2>4. CASE EnterSelect
    BY <2>4 DEF EnterSelect
  <2>5. CASE TakeBranch
    BY <2>5 DEF TakeBranch
  <2>6. CASE StoreStop
    BY <2>6 DEF StoreStop
  <2>7. CASE CancelRunCtx
    BY <2>7 DEF CancelRunCtx
  <2>8. CASE WaitReturn
    BY <2>8 DEF WaitReturn, ReturnResult, AllWorkersExited
  <2> QED
    BY <1>1, <2>1, <2>2, <2>3, <2>4, <2>5, <2>6, <2>7, <2>8 DEF MainStep
<1>2. CASE Environment
  BY <1>2 DEF Environment, TimerFires, Interrupt, PropagateCancel, CancelRollsBack,
              LocalStep
<1>3. CASE ProgressStep
  BY <1>3 DEF ProgressStep, TickerRuns, TickerFires, TakeTick, TakeTickWith,
              EmitSnapshot, ProgressExit
<1>4. CASE UNCHANGED vars
  BY <1>4 DEF vars
<1>5. ASSUME NEW w \in Workers, WorkerStep(w) PROVE PhasesOK'
  <2>1. /\ pc[w] \notin {"unborn", "exited"}
        /\ pc' = [pc EXCEPT ![w] = pc'[w]]
        /\ pc'[w] # "unborn"
        /\ UNCHANGED <<mainVars, ctxVars, progressVars>>
    BY <1>5, WorkerStepPc
  <2> QED
    BY <2>1 DEF TypeOK
<1> QED
  BY <1>1, <1>2, <1>3, <1>4, <1>5, StepCases

-----------------------------------------------------------------------------
(* Errors of a stop.                                                       *)

LEMMA ErrorsStep ==
    TypeOK /\ PhasesOK /\ ErrorsOK /\ [Next]_vars => ErrorsOK'
<1> SUFFICES ASSUME TypeOK, PhasesOK, ErrorsOK, [Next]_vars PROVE ErrorsOK'
  OBVIOUS
<1> USE DEF ErrorsOK
<1>0. CASE UNCHANGED <<pc, err>> /\ (runCtxDone => runCtxDone')
  BY <1>0
<1>1. CASE MainStep
  <2> USE DEF workerVars, ctxVars
  <2>1. CASE Start
    BY <2>1 DEF Start, PhasesOK
  <2>2. ASSUME NEW w \in Workers, SpawnWorker(w) PROVE ErrorsOK'
    BY <2>2 DEF SpawnWorker, TypeOK
  <2>3. CASE CancelRunCtx
    BY <1>0, <2>3 DEF CancelRunCtx
  <2>4. CASE StartInvalid \/ EnterSelect \/ TakeBranch \/ StoreStop \/ WaitReturn
    BY <1>0, <2>4 DEF StartInvalid, EnterSelect, TakeBranch, StoreStop, WaitReturn,
                      ReturnResult
  <2> QED
    BY <1>1, <2>1, <2>2, <2>3, <2>4 DEF MainStep
<1>2. CASE Environment
  BY <1>0, <1>2 DEF Environment, TimerFires, Interrupt, PropagateCancel,
                    CancelRollsBack, LocalStep, workerVars, ctxVars
<1>3. CASE ProgressStep
  BY <1>0, <1>3 DEF ProgressStep, TickerFires, TakeTick, TakeTickWith, EmitSnapshot,
                    ProgressExit, workerVars, ctxVars
<1>4. CASE UNCHANGED vars
  BY <1>0, <1>4 DEF vars, workerVars, ctxVars
<1>5. ASSUME NEW w \in Workers, WorkerStep(w) PROVE ErrorsOK'
  <2> USE DEF TypeOK, ctxVars, NoError
  <2>1. CASE WorkerExit(w) \/ PickScenario(w) \/ EnterStep(w)
    BY <2>1 DEF WorkerExit, PickScenario, PickScenarioTo, EnterStep, LocalStep
  <2>2. CASE BeginOk(w) \/ RunOk(w) \/ CommitStart(w) \/ CommitAck(w)
    BY <2>2 DEF BeginOk, RunOk, CommitStart, CommitAck, Answer, Reply
  <2>3. CASE BeginFail(w)
    <3>1. PICK e \in CallErrors : Answer(w, "failed", "none", e)
      BY <2>3 DEF BeginFail
    <3>2. e # NoError /\ ("context canceled" \in e => runCtxDone)
      BY CallErrorsTyped
    <3> QED
      BY <3>1, <3>2 DEF Answer, Reply
  <2>4. CASE RunFail(w)
    <3>1. PICK e \in RunErrors(w) : Answer(w, "failed", "none", e)
      BY <2>4 DEF RunFail
    <3>2. e # NoError /\ ("context canceled" \in e => runCtxDone)
      BY RunErrorsTyped
    <3> QED
      BY <3>1, <3>2 DEF Answer, Reply
  <2>5. CASE CommitRefused(w)
    BY <2>5 DEF CommitRefused, Answer, Reply
  <2>6. CASE CommitLost(w) \/ CommitReject(w)
    BY <2>6, DbErrorsTyped DEF CommitLost, CommitReject, Answer, Reply
  <2>7. CASE JudgeError(w)
    BY <2>7 DEF JudgeError, Judge, ShouldStop, LocalStep
  <2>8. CASE RecordOutcome(w)
    BY <2>8 DEF RecordOutcome, RecordAs
  <2> QED
    BY <1>5, <2>1, <2>2, <2>3, <2>4, <2>5, <2>6, <2>7, <2>8 DEF WorkerStep
<1> QED
  BY <1>1, <1>2, <1>3, <1>4, <1>5, StepCases

LEMMA ArtifactStep ==
    TypeOK /\ ErrorsOK /\ NoArtifactCounted /\ [Next]_vars => NoArtifactCounted'
<1> SUFFICES ASSUME TypeOK, ErrorsOK, NoArtifactCounted, [Next]_vars
             PROVE  NoArtifactCounted'
  OBVIOUS
<1>1. CASE UNCHANGED summaryVars
  BY <1>1 DEF NoArtifactCounted, summaryVars
<1>2. ASSUME NEW w \in Workers, RecordOutcome(w) PROVE NoArtifactCounted'
  <2>1. "context canceled" \notin err[w]
    BY <1>2 DEF ErrorsOK, RecordOutcome, RecordAs
  <2> QED
    BY <1>2, <2>1 DEF NoArtifactCounted, RecordOutcome, RecordAs, TypeOK
<1> QED
  BY <1>1, <1>2, SummarySteps

-----------------------------------------------------------------------------
(* The report against the database.                                        *)

LEMMA WorkersFinite == IsFiniteSet(Workers)
BY FS_Interval, WorkersAssumption DEF Workers, TotalWorkers

\* Two sets of workers that differ in one worker at most.
LEMMA CardinalityStep ==
    ASSUME NEW A \in SUBSET Workers, NEW B \in SUBSET Workers, NEW w,
           A \ {w} = B \ {w}
    PROVE  /\ Cardinality(A) \in Nat
           /\ Cardinality(B) \in Nat
           /\ w \in A /\ w \in B => Cardinality(B) = Cardinality(A)
           /\ w \notin A /\ w \notin B => Cardinality(B) = Cardinality(A)
           /\ w \notin A /\ w \in B => Cardinality(B) = Cardinality(A) + 1
           /\ w \in A /\ w \notin B => Cardinality(A) = Cardinality(B) + 1
<1>1. IsFiniteSet(A) /\ IsFiniteSet(B)
  BY WorkersFinite, FS_Subset
<1>2. Cardinality(A) \in Nat /\ Cardinality(B) \in Nat
  BY <1>1, FS_CardinalityType
<1>3. w \in A /\ w \in B => A = B
  OBVIOUS
<1>4. w \notin A /\ w \notin B => A = B
  OBVIOUS
<1>5. w \notin A /\ w \in B => B = A \cup {w}
  OBVIOUS
<1>6. w \in A /\ w \notin B => A = B \cup {w}
  OBVIOUS
<1> QED
  BY <1>1, <1>2, <1>3, <1>4, <1>5, <1>6, FS_AddElement

\* A step of one worker leaves the locals of the others alone.
LEMMA OthersUntouched ==
    ASSUME TypeOK, NEW w \in Workers, WorkerStep(w), NEW v \in Workers, v # w
    PROVE  pc'[v] = pc[v] /\ err'[v] = err[v] /\ current'[v] = current[v]
<1> USE DEF TypeOK
<1>1. CASE WorkerExit(w) \/ PickScenario(w) \/ EnterStep(w)
  BY <1>1 DEF WorkerExit, PickScenario, PickScenarioTo, EnterStep
<1>2. CASE BeginOk(w) \/ BeginFail(w) \/ RunOk(w) \/ RunFail(w)
  BY <1>2 DEF BeginOk, BeginFail, RunOk, RunFail, Answer, Reply
<1>3. CASE CommitStart(w) \/ CommitRefused(w)
  BY <1>3 DEF CommitStart, CommitRefused, Answer, Reply
<1>4. CASE CommitAck(w) \/ CommitLost(w) \/ CommitReject(w)
  BY <1>4 DEF CommitAck, CommitLost, CommitReject, Answer, Reply
<1>5. CASE JudgeError(w) \/ RecordOutcome(w)
  BY <1>5 DEF JudgeError, Judge, RecordOutcome, RecordAs
<1> QED
  BY <1>1, <1>2, <1>3, <1>4, <1>5 DEF WorkerStep

\* How the two sets of CommitsOK change in a step of worker w.
LEMMA PendingStep ==
    ASSUME TypeOK, NEW w \in Workers, WorkerStep(w), NEW s \in Scenarios
    PROVE  /\ Cardinality(Acked(s)) \in Nat /\ Cardinality(Acked(s)') \in Nat
           /\ Cardinality(Unreported(s)) \in Nat /\ Cardinality(Unreported(s)') \in Nat
           /\ (w \in Acked(s) <=> w \in Acked(s)') =>
                Cardinality(Acked(s)') = Cardinality(Acked(s))
           /\ w \notin Acked(s) /\ w \in Acked(s)' =>
                Cardinality(Acked(s)') = Cardinality(Acked(s)) + 1
           /\ w \in Acked(s) /\ w \notin Acked(s)' =>
                Cardinality(Acked(s)) = Cardinality(Acked(s)') + 1
           /\ (w \in Unreported(s) <=> w \in Unreported(s)') =>
                Cardinality(Unreported(s)') = Cardinality(Unreported(s))
           /\ w \notin Unreported(s) /\ w \in Unreported(s)' =>
                Cardinality(Unreported(s)') = Cardinality(Unreported(s)) + 1
           /\ w \in Unreported(s) /\ w \notin Unreported(s)' =>
                Cardinality(Unreported(s)) = Cardinality(Unreported(s)') + 1
<1>1. Acked(s) \ {w} = Acked(s)' \ {w}
  BY OthersUntouched DEF Acked
<1>2. Unreported(s) \ {w} = Unreported(s)' \ {w}
  BY OthersUntouched DEF Unreported
<1>3. /\ Acked(s) \in SUBSET Workers /\ Acked(s)' \in SUBSET Workers
      /\ Unreported(s) \in SUBSET Workers /\ Unreported(s)' \in SUBSET Workers
  BY DEF Acked, Unreported
<1> QED
  BY <1>1, <1>2, <1>3, CardinalityStep

LEMMA CommitsStep ==
    TypeOK /\ PhasesOK /\ ErrorsOK /\ CommitsOK /\ [Next]_vars => CommitsOK'
<1> SUFFICES ASSUME TypeOK, PhasesOK, ErrorsOK, CommitsOK, [Next]_vars,
                    NEW s \in Scenarios
             PROVE  /\ stats'[s]["success"] + Cardinality(Acked(s)') <= committed'[s]
                    /\ committed'[s]
                         <= stats'[s]["executed"] + Cardinality(Unreported(s)')
  BY DEF CommitsOK
<1> DEFINE Kept == /\ stats'[s]["success"] + Cardinality(Acked(s)') <= committed'[s]
                   /\ committed'[s]
                        <= stats'[s]["executed"] + Cardinality(Unreported(s)')
<1>a. /\ stats[s]["success"] + Cardinality(Acked(s)) <= committed[s]
      /\ committed[s] <= stats[s]["executed"] + Cardinality(Unreported(s))
  BY DEF CommitsOK
<1>b. /\ stats[s] \in [Columns -> Nat] /\ committed[s] \in Nat
      /\ stats[s]["success"] \in Nat /\ stats[s]["executed"] \in Nat
  BY DEF TypeOK, Columns, Outcomes
<1>0. CASE UNCHANGED <<workerVars, summaryVars, committed>>
  <2>1. Acked(s)' = Acked(s) /\ Unreported(s)' = Unreported(s)
    BY <1>0 DEF workerVars, Acked, Unreported
  <2> QED
    BY <1>0, <1>a, <2>1 DEF summaryVars
<1>1. CASE MainStep
  <2>1. ASSUME NEW w \in Workers, SpawnWorker(w) PROVE Kept
    <3>1. Acked(s)' = Acked(s) /\ Unreported(s)' = Unreported(s)
      BY <2>1 DEF SpawnWorker, TypeOK, Acked, Unreported
    <3> QED
      BY <2>1, <3>1, <1>a DEF SpawnWorker, summaryVars
  <2> QED
    BY <1>0, <1>1, <2>1 DEF MainStep, StartInvalid, Start, EnterSelect, TakeBranch,
              StoreStop, CancelRunCtx, WaitReturn, ReturnResult
<1>2. CASE Environment
  <2>1. ASSUME NEW w \in Workers, CancelRollsBack(w) PROVE Kept
    <3>1. Acked(s)' = Acked(s) /\ Unreported(s)' = Unreported(s)
      BY <2>1 DEF CancelRollsBack, Acked, Unreported
    <3> QED
      BY <2>1, <3>1, <1>a DEF CancelRollsBack, LocalStep, summaryVars
  <2> QED
    BY <1>0, <1>2, <2>1 DEF Environment, TimerFires, Interrupt, PropagateCancel
<1>3. CASE ProgressStep
  BY <1>0, <1>3 DEF ProgressStep, TickerFires, TakeTick, TakeTickWith, EmitSnapshot,
                    ProgressExit
<1>4. CASE UNCHANGED vars
  BY <1>0, <1>4 DEF vars
<1>5. ASSUME NEW w \in Workers, WorkerStep(w) PROVE Kept
  <2> DEFINE a == w \in Acked(s)
             u == w \in Unreported(s)
  <2>1. CASE CommitAck(w)
    <3>1. /\ ~a /\ ~u
          /\ s = current[w] => w \in Acked(s)' /\ w \in Unreported(s)'
          /\ s # current[w] => w \notin Acked(s)' /\ w \notin Unreported(s)'
      BY <2>1 DEF CommitAck, Reply, Acked, Unreported, TypeOK, NoError
    <3>2. /\ committed'[s] = IF s = current[w] THEN committed[s] + 1 ELSE committed[s]
          /\ stats' = stats
      BY <2>1 DEF CommitAck, MakeDurable, Reply, TypeOK, summaryVars
    <3> QED
      BY <1>5, <1>a, <1>b, <3>1, <3>2, PendingStep
  <2>2. CASE CommitLost(w)
    <3>0. PICK e \in DbErrors : Reply(w, "failed", "none", e)
      BY <2>2 DEF CommitLost
    <3>1. /\ ~a /\ ~u /\ w \notin Acked(s)'
          /\ s = current[w] => w \in Unreported(s)'
          /\ s # current[w] => w \notin Unreported(s)'
      BY <2>2, <3>0, DbErrorsTyped DEF CommitLost, Reply, Acked, Unreported, TypeOK
    <3>2. /\ committed'[s] = IF s = current[w] THEN committed[s] + 1 ELSE committed[s]
          /\ stats' = stats
      BY <2>2 DEF CommitLost, MakeDurable, Reply, TypeOK, summaryVars
    <3> QED
      BY <1>5, <1>a, <1>b, <3>1, <3>2, PendingStep
  <2>3. CASE RecordOutcome(w)
    <3> DEFINE o == Classify(current[w], err[w])
    <3>1. /\ w \notin Acked(s)' /\ w \notin Unreported(s)'
          /\ committed' = committed
          /\ pc[w] = "record" /\ current[w] \in Scenarios
      BY <2>3 DEF RecordOutcome, RecordAs, Acked, Unreported, TypeOK
    <3>2. /\ a <=> s = current[w] /\ err[w] = NoError
          /\ u <=> s = current[w]
      BY <3>1 DEF Acked, Unreported, ErrorsOK
    <3>3. stats'[s] = IF s = current[w] THEN Counted(stats[s], o) ELSE stats[s]
      BY <2>3 DEF RecordOutcome, RecordAs, TypeOK
    <3>4. o = "success" <=> err[w] = NoError
      BY DEF Classify
    <3>5. /\ Counted(stats[s], o)["executed"] = stats[s]["executed"] + 1
          /\ Counted(stats[s], o)["success"] =
               IF err[w] = NoError THEN stats[s]["success"] + 1 ELSE stats[s]["success"]
      BY <3>4, <1>b DEF Counted, Columns, Outcomes
    <3> HIDE DEF o
    <3> QED
      BY <1>5, <1>a, <1>b, <3>1, <3>2, <3>3, <3>5, PendingStep
  <2>4. CASE JudgeError(w)
    <3>1. /\ ~a /\ w \notin Acked(s)'
          /\ u => w \in Unreported(s)'
          /\ stats' = stats /\ committed' = committed
      BY <2>4 DEF JudgeError, Judge, LocalStep, summaryVars, Acked, Unreported,
                  ErrorsOK, TypeOK
    <3> QED
      BY <1>5, <1>a, <1>b, <3>1, PendingStep
  <2>5. ASSUME ~CommitAck(w), ~CommitLost(w), ~RecordOutcome(w), ~JudgeError(w)
        PROVE  Kept
    <3>1. ~a /\ ~u /\ w \notin Acked(s)' /\ stats' = stats /\ committed' = committed
      <4> USE DEF TypeOK, Acked, Unreported, LocalStep, summaryVars
      <4>1. CASE WorkerExit(w) \/ PickScenario(w) \/ EnterStep(w)
        BY <4>1 DEF WorkerExit, PickScenario, PickScenarioTo, EnterStep
      <4>2. CASE BeginOk(w) \/ BeginFail(w) \/ RunOk(w) \/ RunFail(w)
        BY <4>2 DEF BeginOk, BeginFail, RunOk, RunFail, Answer, Reply
      <4>3. CASE CommitStart(w) \/ CommitRefused(w) \/ CommitReject(w)
        BY <4>3 DEF CommitStart, CommitRefused, CommitReject, Answer, Reply
      <4> QED
        BY <1>5, <2>5, <4>1, <4>2, <4>3 DEF WorkerStep
    <3> QED
      BY <1>5, <1>a, <1>b, <3>1, PendingStep
  <2> QED
    BY <2>1, <2>2, <2>3, <2>4, <2>5
<1> QED
  BY <1>1, <1>2, <1>3, <1>4, <1>5, StepCases

-----------------------------------------------------------------------------
(* The theorems.                                                           *)

LEMMA InvInit == Init => EngineInv
<1> SUFFICES ASSUME Init PROVE EngineInv
  OBVIOUS
<1>1. TypeOK
  BY TypeInit
<1>2. Accounting
  BY DEF Init, Accounting, Balanced, Zero, Columns, Outcomes
<1>3. TxScoped /\ PhasesOK /\ ErrorsOK /\ NoArtifactCounted
  BY DEF Init, TxScoped, PhasesOK, ErrorsOK, NoArtifactCounted, NoError
<1>4. CommitsOK
  <2>1. \A s \in Scenarios : Acked(s) = {} /\ Unreported(s) = {}
    BY DEF Init, Acked, Unreported
  <2> QED
    BY <2>1, FS_EmptySet DEF Init, CommitsOK, Zero, Columns, Outcomes
<1> QED
  BY <1>1, <1>2, <1>3, <1>4 DEF EngineInv

LEMMA InvStep == EngineInv /\ [Next]_vars => EngineInv'
BY TypeStep, AccountingStep, TxScopedStep, PhasesStep, ErrorsStep, ArtifactStep,
   CommitsStep DEF EngineInv

\* The inductive invariant holds of every engine.
THEOREM Invariance == Spec => []EngineInv
<1>1. Init => EngineInv
  BY InvInit
<1>2. EngineInv /\ [Next]_vars => EngineInv'
  BY InvStep
<1> QED
  BY <1>1, <1>2, PTL DEF Spec

\* The counters are balanced, in the totals and for each scenario.
THEOREM AccountingHolds == Spec => []Accounting
<1>1. EngineInv => Accounting
  BY DEF EngineInv
<1> QED
  BY <1>1, Invariance, PTL

\* No path of runWorkerStep leaves its transaction open.
THEOREM TransactionsScoped == Spec => []TxScoped
<1>1. EngineInv => TxScoped
  BY DEF EngineInv
<1> QED
  BY <1>1, Invariance, PTL

\* The errors a stop causes are not counted when they say so.
THEOREM ArtifactsIgnored == Spec => []NoArtifactCounted
<1>1. EngineInv => NoArtifactCounted
  BY DEF EngineInv
<1> QED
  BY <1>1, Invariance, PTL

\* A reported success is durable, whatever is cancelled while a worker commits.
THEOREM SuccessDurable == Spec => []SuccessIsCommitted
<1>1. EngineInv => SuccessIsCommitted
  <2> SUFFICES ASSUME EngineInv, NEW s \in Scenarios
               PROVE  stats[s]["success"] <= committed[s]
    BY DEF SuccessIsCommitted
  <2>1. Cardinality(Acked(s)) \in Nat
    BY CardinalityStep DEF Acked
  <2>2. stats[s]["success"] \in Nat /\ committed[s] \in Nat
    BY DEF EngineInv, TypeOK, Columns, Outcomes
  <2> QED
    BY <2>1, <2>2 DEF EngineInv, CommitsOK
<1> QED
  BY <1>1, Invariance, PTL

\* A durable transaction is in the report that Run leaves behind.
THEOREM CommitsReportedHolds == Spec => []CommitsReported
<1>1. EngineInv => CommitsReported
  <2> SUFFICES ASSUME EngineInv, mainPc = "returned", NEW s \in Scenarios
               PROVE  committed[s] <= stats[s]["executed"]
    BY DEF CommitsReported
  <2>1. Unreported(s) = {}
    BY DEF EngineInv, PhasesOK, Unreported
  <2>2. stats[s]["executed"] \in Nat
    BY DEF EngineInv, TypeOK, Columns, Outcomes
  <2> QED
    BY <2>1, <2>2, FS_EmptySet DEF EngineInv, CommitsOK
<1> QED
  BY <1>1, Invariance, PTL

\* When Run has returned, its goroutines are gone and their transactions closed.
THEOREM QuiescentAtReturn == Spec => []Quiescent
<1>1. EngineInv => Quiescent
  <2> SUFFICES ASSUME EngineInv, mainPc = "returned" PROVE Quiescent
    BY DEF Quiescent
  <2>1. /\ \A w \in Workers : pc[w] \in {"unborn", "exited"}
        /\ progressPc \in {"off", "exited"}
    BY DEF EngineInv, PhasesOK
  <2>2. ASSUME NEW w \in Workers PROVE tx[w] = "none"
    BY <2>1 DEF EngineInv, TypeOK, TxStates, TxScoped
  <2> QED
    BY <2>1, <2>2 DEF Quiescent
<1> QED
  BY <1>1, Invariance, PTL

LEMMA SilentStep ==
    ASSUME EngineInv, [Next]_vars, mainPc = "returned"
    PROVE  UNCHANGED <<mainVars, summaryVars, committed, emitted, pc, tx>>
<1>1. /\ \A w \in Workers : pc[w] \in {"unborn", "exited"}
      /\ progressPc \in {"off", "exited"}
      /\ \A w \in Workers : tx[w] # "open"
  BY DEF EngineInv, PhasesOK, TxScoped
<1>2. ~MainStep
  BY DEF MainStep, StartInvalid, Start, SpawnWorker, EnterSelect, TakeBranch,
         StoreStop, CancelRunCtx, WaitReturn
<1>3. ~\E w \in Workers : WorkerStep(w)
  BY <1>1, WorkerStepPc DEF EngineInv
<1>4. CASE Environment
  BY <1>1, <1>4 DEF Environment, TimerFires, Interrupt, PropagateCancel,
                    CancelRollsBack, mainVars, workerVars, progressVars
<1>5. ~ProgressStep
  BY <1>1 DEF ProgressStep, TickerRuns, TickerFires, TakeTick, TakeTickWith,
              EmitSnapshot, ProgressExit
<1>6. CASE UNCHANGED vars
  BY <1>6 DEF vars, mainVars, workerVars, progressVars
<1> QED
  BY <1>2, <1>3, <1>4, <1>5, <1>6, StepCases

\* Nothing is counted, committed or logged after Run has returned.
THEOREM SilentAfterReturn == Spec => NothingAfterReturn
<1> DEFINE Silent == UNCHANGED <<summaryVars, committed, emitted, pc, tx, runResult>>
<1>1. EngineInv /\ [Next]_vars => [mainPc = "returned" => Silent]_vars
  BY SilentStep DEF mainVars
<1> QED
  BY <1>1, Invariance, PTL DEF Spec, NothingAfterReturn

-----------------------------------------------------------------------------
(* The snapshots.                                                          *)

\* The last snapshot emitted, the last one built, and the counters, in this
\* order of age.
SnapshotsOK ==
    /\ Balanced(snap) /\ Balanced(emitted)
    /\ \A c \in Columns : emitted[c] <= snap[c] /\ snap[c] <= totals[c]

\* Who writes the snapshots.
LEMMA SnapshotSteps ==
    ASSUME [Next]_vars
    PROVE  UNCHANGED <<snap, emitted>> \/ TakeTick \/ EmitSnapshot
<1>1. CASE MainStep
  BY <1>1 DEF MainStep, StartInvalid, Start, SpawnWorker, EnterSelect, TakeBranch,
              StoreStop, CancelRunCtx, WaitReturn, ReturnResult, progressVars
<1>2. CASE Environment
  BY <1>2 DEF Environment, TimerFires, Interrupt, PropagateCancel, CancelRollsBack,
              LocalStep, progressVars
<1>3. CASE ProgressStep
  BY <1>3 DEF ProgressStep, TickerFires, ProgressExit
<1>4. CASE UNCHANGED vars
  BY <1>4 DEF vars, progressVars
<1>5. ASSUME NEW w \in Workers, WorkerStep(w)
      PROVE  UNCHANGED <<snap, emitted>>
  BY <1>5 DEF WorkerStep, WorkerExit, PickScenario, PickScenarioTo, EnterStep,
              BeginOk, BeginFail, RunOk, RunFail, CommitStart, CommitRefused,
              CommitAck, CommitLost, CommitReject, JudgeError, Judge,
              RecordOutcome, RecordAs, Answer, Reply, LocalStep, progressVars
<1> QED
  BY <1>1, <1>2, <1>3, <1>4, <1>5, StepCases

\* The counters never go back.
LEMMA TotalsGrow ==
    ASSUME TypeOK, [Next]_vars, NEW c \in Columns
    PROVE  /\ totals[c] \in Nat /\ totals'[c] \in Nat
           /\ totals[c] <= totals'[c]
<1>1. CASE UNCHANGED summaryVars
  BY <1>1 DEF summaryVars, TypeOK
<1>2. ASSUME NEW w \in Workers, RecordOutcome(w)
      PROVE  totals'[c] \in Nat /\ totals[c] <= totals'[c]
  <2>1. PICK o \in Outcomes : totals' = Counted(totals, o)
    BY <1>2, RecordCounts
  <2> QED
    BY <2>1 DEF Counted, TypeOK
<1> QED
  BY <1>1, <1>2, SummarySteps DEF TypeOK

LEMMA SnapshotsStep ==
    ASSUME EngineInv, SnapshotsOK, [Next]_vars
    PROVE  /\ SnapshotsOK'
           /\ Balanced(emitted')
           /\ \A c \in Columns : emitted[c] <= emitted'[c] /\ emitted'[c] <= totals'[c]
<1>1. TypeOK /\ Balanced(totals)
  BY DEF EngineInv, Accounting
<1>2. \A c \in Columns : /\ emitted[c] \in Nat /\ snap[c] \in Nat
                         /\ totals[c] \in Nat /\ totals'[c] \in Nat
                         /\ totals[c] <= totals'[c]
  BY <1>1, TotalsGrow DEF TypeOK
<1>3. CASE UNCHANGED <<snap, emitted>>
  BY <1>2, <1>3 DEF SnapshotsOK, Balanced
<1>4. CASE TakeTick
  <2>1. snap' = totals /\ emitted' = emitted /\ totals' = totals
    BY <1>4 DEF TakeTick, TakeTickWith, summaryVars
  <2> QED
    BY <1>1, <1>2, <2>1 DEF SnapshotsOK, Balanced
<1>5. CASE EmitSnapshot
  <2>1. snap' = snap /\ emitted' = snap /\ totals' = totals
    BY <1>5 DEF EmitSnapshot, summaryVars
  <2> QED
    BY <1>2, <2>1 DEF SnapshotsOK, Balanced
<1> QED
  BY <1>3, <1>4, <1>5, SnapshotSteps

\* What the user sees of the progress is balanced, never ahead of the counters, and
\* never goes back, however late the progress goroutine is with its snapshots.
THEOREM SnapshotsOnlyAdvance == Spec => SnapshotsAdvance
<1> DEFINE Advance == /\ Balanced(emitted')
                      /\ \A c \in Columns :
                           emitted[c] <= emitted'[c] /\ emitted'[c] <= totals'[c]
<1>1. Init => SnapshotsOK
  <2> SUFFICES ASSUME Init PROVE SnapshotsOK
    OBVIOUS
  <2>1. snap = Zero /\ emitted = Zero /\ totals = Zero
    BY DEF Init
  <2> QED
    BY <2>1 DEF SnapshotsOK, Balanced, Zero, Columns, Outcomes
<1>2. EngineInv /\ SnapshotsOK /\ [Next]_vars => SnapshotsOK' /\ [Advance]_vars
  BY SnapshotsStep
<1> QED
  BY <1>1, <1>2, Invariance, PTL DEF Spec, SnapshotsAdvance

-----------------------------------------------------------------------------
(* Engine implements RunContract.                                          *)

\* One recorded outcome is one Count of the contract.
LEMMA RecordIsCount ==
    ASSUME EngineInv, NEW w \in Workers, RecordOutcome(w)
    PROVE  Contract!Count
<1>1. PICK o \in Outcomes : totals' = Counted(totals, o)
  BY RecordCounts DEF EngineInv
<1>2. pc[w] = "record" /\ UNCHANGED <<mainVars, ctxVars>>
  BY DEF RecordOutcome, RecordAs
<1>3. mainPc \notin {"start", "returned"}
  BY <1>2 DEF EngineInv, PhasesOK
<1> QED
  BY <1>1, <1>2, <1>3 DEF Contract!Count, Contract!Columns, Contract!Outcomes, Phase,
     Counted, Columns, Outcomes, mainVars, ctxVars

\* Every step of the engine is a step of the contract or leaves it alone.
LEMMA ContractStep ==
    ASSUME EngineInv, [Next]_vars PROVE [Contract!Next]_(Contract!cvars)
<1> USE DEF Contract!Next, Contract!cvars
<1>0. CASE UNCHANGED <<mainPc, interrupted, runResult, totals>>
  BY <1>0 DEF Phase
<1>1. CASE MainStep
  <2> USE DEF summaryVars, ctxVars, EngineInv, PhasesOK
  <2>1. CASE StartInvalid
    BY <2>1 DEF StartInvalid, Contract!Refuse, Phase
  <2>2. CASE Start
    BY <2>2 DEF Start, Contract!Begin, Phase
  <2>3. ASSUME NEW w \in Workers, SpawnWorker(w) PROVE UNCHANGED Contract!cvars
    BY <1>0, <2>3 DEF SpawnWorker, mainVars, Phase
  <2>4. CASE EnterSelect \/ TakeBranch \/ StoreStop \/ CancelRunCtx
    BY <2>4 DEF EnterSelect, TakeBranch, StoreStop, CancelRunCtx, Phase
  <2>5. CASE WaitReturn
    BY <2>5 DEF WaitReturn, ReturnResult, Contract!Return, Phase
  <2> QED
    BY <1>1, <2>1, <2>2, <2>3, <2>4, <2>5 DEF MainStep
<1>2. CASE Environment
  <2>1. CASE Interrupt
    BY <2>1 DEF Interrupt, Contract!Cancel, Phase, mainVars, summaryVars
  <2>2. CASE ~Interrupt
    BY <1>0, <1>2, <2>2 DEF Environment, TimerFires, PropagateCancel, CancelRollsBack,
                LocalStep, mainVars, ctxVars, summaryVars
  <2> QED
    BY <2>1, <2>2
<1>3. CASE ProgressStep
  BY <1>0, <1>3 DEF ProgressStep, TickerFires, TakeTick, TakeTickWith, EmitSnapshot,
                    ProgressExit, mainVars, ctxVars, summaryVars
<1>4. CASE UNCHANGED vars
  BY <1>0, <1>4 DEF vars, mainVars, ctxVars, summaryVars
<1>5. ASSUME NEW w \in Workers, WorkerStep(w) PROVE [Contract!Next]_(Contract!cvars)
  <2>1. UNCHANGED <<mainVars, ctxVars>>
    BY <1>5, WorkerStepPc DEF EngineInv
  <2>2. CASE \E v \in Workers : RecordOutcome(v)
    BY <2>2, RecordIsCount
  <2>3. CASE UNCHANGED summaryVars
    BY <1>0, <2>1, <2>3 DEF mainVars, ctxVars, summaryVars
  <2> QED
    BY <2>2, <2>3, SummarySteps
<1> QED
  BY <1>1, <1>2, <1>3, <1>4, <1>5, StepCases

\* The safety part of the contract: executions are counted one at a time and
\* only between the start and the return of Run, "canceled" is returned only if
\* the caller's context was cancelled, and what Run leaves behind is final.
THEOREM ImplementsContractSafety == Spec => Contract!Safety
<1>1. Init => Contract!Init
  BY DEF Init, Contract!Init, Phase, Zero, Columns, Outcomes,
         Contract!Columns, Contract!Outcomes
<1>2. EngineInv /\ [Next]_vars => [Contract!Next]_(Contract!cvars)
  BY ContractStep
<1> QED
  BY <1>1, <1>2, Invariance, PTL DEF Spec, Contract!Safety

=============================================================================
