------------------------------- MODULE Engine -------------------------------
(***************************************************************************)
(* One call of Engine.Run (src/internal/runner/engine.go): the goroutine   *)
(* that calls it, the worker goroutines it spawns (workerLoop), and the    *)
(* progress goroutine (progressLoop), with the counters they share         *)
(* (report.Summary) and the transactions the workers drive through         *)
(* database/sql.                                                           *)
(*                                                                         *)
(* A step is the code between two points where another goroutine, the      *)
(* database or the user can be seen to intervene: a read of the stop flag  *)
(* and of the context, a call into database/sql, the critical section of   *)
(* Summary.mu.  What a scenario executes inside its transaction is         *)
(* abstracted to the answer of its Run: nil or an error.                   *)
(***************************************************************************)
EXTENDS Integers, FiniteSets

CONSTANTS
    GenericWorkers,      \* Scheduler.GenericWorkers
    BillingWorkers,      \* Scheduler.BillingWorkers
    FailureProbeWorkers, \* Scheduler.FailureProbeWorkers
    ScenarioCount,       \* how many scenarios the registry has of each group
    RunDurations,        \* the values EngineConfig.RunDuration may have
    ProgressIntervals,   \* the values Scheduler.ProgressInterval may have
    DbErrors,            \* the errors the database answers with (see Atoms)
    MaxExecuted          \* bound: no step is started after so many executions

Groups == {"generic", "billing", "probe"}

\* The substrings of an error's text that the code looks for.  An error is the
\* set of those its text has: errors.Join and %w concatenate texts.
Atoms == {"shared lock upgrade", "infra", "other",
          "context canceled", "transaction done"}

ASSUME WorkersAssumption ==
    /\ GenericWorkers \in Nat
    /\ BillingWorkers \in Nat
    /\ FailureProbeWorkers \in Nat

\* NewRegistry registers scenarios of all three groups.
ASSUME ScenarioAssumption == ScenarioCount \in [Groups -> Nat \ {0}]

ASSUME ParametersAssumption ==
    /\ RunDurations \subseteq Int
    /\ ProgressIntervals \subseteq Int
    /\ MaxExecuted \in Nat

\* Text about contexts comes from contexts only, never from the database.
ASSUME DbErrorsAssumption ==
    DbErrors \subseteq (SUBSET {"shared lock upgrade", "infra", "other"}) \ {{}}

-----------------------------------------------------------------------------
(* The scheduler's workers and the scenarios of the registry.              *)

TotalWorkers == GenericWorkers + BillingWorkers + FailureProbeWorkers

\* Scheduler.Workers: consecutive ids, one group after the other.
Workers == 0 .. TotalWorkers - 1

GroupOf(w) ==
    IF w < GenericWorkers THEN "generic"
    ELSE IF w < GenericWorkers + BillingWorkers THEN "billing" ELSE "probe"

GroupStart(g) ==
    IF g = "generic" THEN 0
    ELSE IF g = "billing" THEN GenericWorkers ELSE GenericWorkers + BillingWorkers

\* A scenario is its group and its rank in the group's list sorted by name.
Scenarios == UNION {{g} \X (0 .. ScenarioCount[g] - 1) : g \in Groups}

NoScenario == <<"none", 0>>

\* workerPlan.next at the start: the rank of the worker in its group, wrapped.
InitialNext(w) == (w - GroupStart(GroupOf(w))) % ScenarioCount[GroupOf(w)]

-----------------------------------------------------------------------------
(* Outcomes and counters.                                                  *)

NoError == {}

Outcomes == {"success", "expectedFailure", "unexpectedFailure"}
Columns == Outcomes \cup {"executed"}

\* Only the two probes expect an error: Metadata.ExpectedErrorMatch.
ExpectedMatch(s) == IF s[1] = "probe" THEN {"shared lock upgrade"} ELSE {}

\* model.Classify followed by the switch of Summary.Record, whose default case
\* counts infra_or_upgrade_transient as an unexpected failure.
Classify(s, e) ==
    IF e = NoError THEN "success"
    ELSE IF ExpectedMatch(s) \cap e # {} THEN "expectedFailure"
    ELSE "unexpectedFailure"

\* Faulty variant: the default case of Record's switch is missing.
CountedNoDefault(counts, outcome) ==
    [c \in Columns |->
        IF c = "executed" \/ (c = outcome /\ c # "unexpectedFailure")
        THEN counts[c] + 1 ELSE counts[c]]

Counted(counts, outcome) ==
    [c \in Columns |-> IF c \in {"executed", outcome}
                         THEN counts[c] + 1 ELSE counts[c]]

Zero == [c \in Columns |-> 0]

Balanced(counts) ==
    counts["executed"] = counts["success"] + counts["expectedFailure"]
                                           + counts["unexpectedFailure"]

-----------------------------------------------------------------------------
VARIABLES
    \* Engine.Run's own goroutine
    mainPc,         \* where it is
    cause,          \* the branch its select took
    runResult,      \* what it returned
    \* the contexts, the timer, the flag
    interrupted,    \* ctx, the caller's context, is done
    runCtxDone,     \* runCtx, derived from ctx, is done
    timerFired,     \* the channel e.after returned is ready
    stopRequested,  \* Engine.stopRequested
    \* the worker goroutines: their pc and the locals of runWorkerStep
    pc,
    next,           \* workerPlan.next
    current,        \* the scenario item of the step
    tx,             \* the state of the step's sql.Tx
    err,            \* the error in hand
    \* the progress goroutine
    progressPc,
    tickPending,    \* the ticker's channel, of capacity one, holds a tick
    snap,           \* the snapshot just built
    emitted,        \* the last snapshot handed to onProgress
    \* report.Summary
    stats,          \* the counters of each scenario
    totals,         \* Summary.totals
    lastError,      \* LastErrorText of each scenario
    \* the database
    committed       \* how many transactions of each scenario are durable

mainVars == <<mainPc, cause, runResult, stopRequested>>
ctxVars == <<interrupted, runCtxDone, timerFired>>
workerVars == <<pc, next, current, tx, err>>
progressVars == <<progressPc, tickPending, snap, emitted>>
summaryVars == <<stats, totals, lastError>>
vars == <<mainVars, ctxVars, workerVars, progressVars, summaryVars, committed>>

MainPcs == {"start", "spawn", "select", "stop", "cancel", "wait", "returned"}
RunResults == {"none", "nil", "canceled", "invalid"}
WorkerPcs == {"unborn", "loop", "enter", "begin", "run", "commit", "committing",
              "failed", "record", "exited"}
\* "done": database/sql has rolled it back because its context was cancelled.
TxStates == {"none", "open", "committing", "done"}
ProgressPcs == {"off", "wait", "emit", "exited"}

TypeOK ==
    /\ mainPc \in MainPcs
    /\ cause \in {"none", "done", "timer"}
    /\ runResult \in RunResults
    /\ stopRequested \in BOOLEAN
    /\ interrupted \in BOOLEAN
    /\ runCtxDone \in BOOLEAN
    /\ timerFired \in BOOLEAN
    /\ pc \in [Workers -> WorkerPcs]
    /\ next \in [Workers -> Nat]
    /\ \A w \in Workers : next[w] < ScenarioCount[GroupOf(w)]
    /\ current \in [Workers -> Scenarios \cup {NoScenario}]
    /\ \A w \in Workers :
         pc[w] \notin {"unborn", "loop", "exited"} => current[w] \in Scenarios
    /\ tx \in [Workers -> TxStates]
    /\ err \in [Workers -> SUBSET Atoms]
    /\ progressPc \in ProgressPcs
    /\ tickPending \in BOOLEAN
    /\ snap \in [Columns -> Nat]
    /\ emitted \in [Columns -> Nat]
    /\ stats \in [Scenarios -> [Columns -> Nat]]
    /\ totals \in [Columns -> Nat]
    /\ lastError \in [Scenarios -> SUBSET Atoms]
    /\ committed \in [Scenarios -> Nat]

Init ==
    /\ mainPc = "start"
    /\ cause = "none"
    /\ runResult = "none"
    /\ stopRequested = FALSE
    /\ interrupted = FALSE
    /\ runCtxDone = FALSE
    /\ timerFired = FALSE
    /\ pc = [w \in Workers |-> "unborn"]
    /\ next = [w \in Workers |-> InitialNext(w)]
    /\ current = [w \in Workers |-> NoScenario]
    /\ tx = [w \in Workers |-> "none"]
    /\ err = [w \in Workers |-> NoError]
    /\ progressPc = "off"
    /\ tickPending = FALSE
    /\ snap = Zero
    /\ emitted = Zero
    /\ stats = [s \in Scenarios |-> Zero]
    /\ totals = Zero
    /\ lastError = [s \in Scenarios |-> NoError]
    /\ committed = [s \in Scenarios |-> 0]

-----------------------------------------------------------------------------
(* Engine.Run.                                                             *)

\* validate refuses a negative duration; the four other errors of validate and
\* buildWorkerPlans are for nil collaborators, which runWorkload never passes.
StartInvalid ==
    /\ mainPc = "start"
    /\ \E d \in RunDurations : d < 0
    /\ mainPc' = "returned"
    /\ runResult' = "invalid"
    /\ UNCHANGED <<cause, stopRequested, ctxVars, workerVars, progressVars,
                   summaryVars, committed>>

\* A context derived from one that is done is born done.
Start ==
    /\ mainPc = "start"
    /\ \E d \in RunDurations : d >= 0
    /\ \E interval \in ProgressIntervals :
         progressPc' = IF interval > 0 THEN "wait" ELSE "off"
    /\ mainPc' = "spawn"
    /\ stopRequested' = FALSE
    /\ runCtxDone' = interrupted
    /\ UNCHANGED <<cause, runResult, interrupted, timerFired, workerVars,
                   tickPending, snap, emitted, summaryVars, committed>>

SpawnWorker(w) ==
    /\ mainPc = "spawn"
    /\ pc[w] = "unborn"
    /\ \A v \in Workers : v < w => pc[v] # "unborn"
    /\ pc' = [pc EXCEPT ![w] = "loop"]
    /\ UNCHANGED <<mainVars, ctxVars, next, current, tx, err, progressVars,
                   summaryVars, committed>>

EnterSelect ==
    /\ mainPc = "spawn"
    /\ \A w \in Workers : pc[w] # "unborn"
    /\ mainPc' = "select"
    /\ UNCHANGED <<cause, runResult, stopRequested, ctxVars, workerVars,
                   progressVars, summaryVars, committed>>

\* e.after(e.runDuration) is called on entry to the select.
TimerFires ==
    /\ mainPc = "select"
    /\ ~timerFired
    /\ timerFired' = TRUE
    /\ UNCHANGED <<mainVars, interrupted, runCtxDone, workerVars, progressVars,
                   summaryVars, committed>>

\* With both channels ready, Go's select takes either branch.
TakeBranch ==
    /\ mainPc = "select"
    /\ \/ interrupted /\ cause' = "done"
       \/ timerFired /\ cause' = "timer"
    /\ mainPc' = "stop"
    /\ UNCHANGED <<runResult, stopRequested, ctxVars, workerVars, progressVars,
                   summaryVars, committed>>

\* requestStop stores the flag and then cancels runCtx.
StoreStop ==
    /\ mainPc = "stop"
    /\ stopRequested' = TRUE
    /\ mainPc' = "cancel"
    /\ UNCHANGED <<cause, runResult, ctxVars, workerVars, progressVars,
                   summaryVars, committed>>

CancelForgotten ==
    /\ mainPc = "cancel"
    /\ mainPc' = "wait"
    /\ UNCHANGED <<cause, runResult, stopRequested, ctxVars, workerVars,
                   progressVars, summaryVars, committed>>

CancelRunCtx ==
    /\ mainPc = "cancel"
    /\ runCtxDone' = TRUE
    /\ mainPc' = "wait"
    /\ UNCHANGED <<cause, runResult, stopRequested, interrupted, timerFired,
                   workerVars, progressVars, summaryVars, committed>>

AllWorkersExited == \A w \in Workers : pc[w] = "exited"

ReturnResult ==
    /\ mainPc' = "returned"
    /\ runResult' = IF cause = "done" THEN "canceled" ELSE "nil"
    /\ UNCHANGED <<cause, stopRequested, ctxVars, workerVars, progressVars,
                   summaryVars, committed>>

WaitReturnWithoutWorkers ==
    mainPc = "wait" /\ progressPc \in {"off", "exited"} /\ ReturnResult

WaitReturnWithoutProgress ==
    mainPc = "wait" /\ AllWorkersExited /\ ReturnResult

\* wg.Wait, then ctx.Err() or nil.
WaitReturn ==
    /\ mainPc = "wait"
    /\ AllWorkersExited
    /\ progressPc \in {"off", "exited"}
    /\ ReturnResult

\* The first SIGINT; signal.NotifyContext swallows the ones after it.
Interrupt ==
    /\ ~interrupted
    /\ interrupted' = TRUE
    /\ UNCHANGED <<mainVars, runCtxDone, timerFired, workerVars, progressVars,
                   summaryVars, committed>>

\* A context closes its own channel first and cancels its children after.
PropagateCancel ==
    /\ interrupted
    /\ ~runCtxDone
    /\ mainPc \notin {"start", "returned"}
    /\ runCtxDone' = TRUE
    /\ UNCHANGED <<mainVars, interrupted, timerFired, workerVars, progressVars,
                   summaryVars, committed>>

-----------------------------------------------------------------------------
(* workerLoop and runWorkerStep.                                           *)

\* shouldStop; both of its reads are of values that never become false again
\* during a run, so reading them at once loses no outcome.
ShouldStop == stopRequested \/ runCtxDone

\* A step of worker w that changes nothing but its own locals.
LocalStep == UNCHANGED <<mainVars, ctxVars, progressVars, summaryVars, committed>>

WorkerExit(w) ==
    /\ pc[w] = "loop"
    /\ ShouldStop
    /\ pc' = [pc EXCEPT ![w] = "exited"]
    /\ LocalStep
    /\ UNCHANGED <<next, current, tx, err>>

\* The arguments of runWorkerStep are evaluated: plan.nextScenario().
PickScenarioTo(w, following) ==
    /\ pc[w] = "loop"
    /\ ~ShouldStop
    /\ totals["executed"] < MaxExecuted
    /\ pc' = [pc EXCEPT ![w] = "enter"]
    /\ current' = [current EXCEPT ![w] = <<GroupOf(w), next[w]>>]
    /\ next' = [next EXCEPT ![w] = following]
    /\ LocalStep
    /\ UNCHANGED <<tx, err>>

PickScenarioNoWrap(w) == PickScenarioTo(w, next[w] + 1)
PickScenarioNoAdvance(w) == PickScenarioTo(w, next[w])
PickScenario(w) == PickScenarioTo(w, (next[w] + 1) % ScenarioCount[GroupOf(w)])

EnterStep(w) ==
    /\ pc[w] = "enter"
    /\ pc' = [pc EXCEPT ![w] = IF ShouldStop THEN "loop" ELSE "begin"]
    /\ LocalStep
    /\ UNCHANGED <<next, current, tx, err>>

\* A call of worker w into the database answers: the new pc, tx and error.
Reply(w, newPc, newTx, e) ==
    /\ pc' = [pc EXCEPT ![w] = newPc]
    /\ tx' = [tx EXCEPT ![w] = newTx]
    /\ err' = [err EXCEPT ![w] = e]
    /\ UNCHANGED <<mainVars, ctxVars, next, current, progressVars, summaryVars>>

Answer(w, newPc, newTx, e) == Reply(w, newPc, newTx, e) /\ UNCHANGED committed

\* What a call with a context may answer: what the database says, and once the
\* context is done "context canceled", joined to what an earlier node said.
CallErrors ==
    DbErrors \cup
    (IF runCtxDone THEN {{"context canceled"} \cup d : d \in DbErrors \cup {NoError}}
                   ELSE {})

BeginOk(w) ==
    /\ pc[w] = "begin"
    /\ ~runCtxDone
    /\ Answer(w, "run", "open", NoError)

BeginFail(w) ==
    /\ pc[w] = "begin"
    /\ \E e \in CallErrors : Answer(w, "failed", "none", e)

\* database/sql's awaitDone rolls a transaction back when its context is done.
CancelRollsBack(w) ==
    /\ tx[w] = "open"
    /\ runCtxDone
    /\ tx' = [tx EXCEPT ![w] = "done"]
    /\ LocalStep
    /\ UNCHANGED <<pc, next, current, err>>

\* item.Run returns nil: its last statement ended before runCtx was done.
RunOk(w) ==
    /\ pc[w] = "run"
    /\ ~runCtxDone
    /\ Answer(w, "commit", tx[w], NoError)

\* A statement that passed the check of its context before the context was done
\* may find its transaction rolled back.
RunErrors(w) ==
    CallErrors \cup (IF tx[w] = "done" THEN {{"transaction done"}} ELSE {})

RunFailNoRollback(w) ==
    /\ pc[w] = "run"
    /\ \E e \in RunErrors(w) : Answer(w, "failed", tx[w], e)

\* item.Run returns an error, and tx.Rollback() closes the transaction.
RunFail(w) ==
    /\ pc[w] = "run"
    /\ \E e \in RunErrors(w) : Answer(w, "failed", "none", e)

\* Tx.Commit looks at the context, then claims the transaction.
CommitStart(w) ==
    /\ pc[w] = "commit"
    /\ ~runCtxDone
    /\ Answer(w, "committing", "committing", NoError)

CommitRefusalSwallowed(w) ==
    /\ pc[w] = "commit"
    /\ runCtxDone
    /\ Answer(w, "record", "none", NoError)

\* The context is done: Commit answers ctx.Err(), or sql.ErrTxDone when
\* awaitDone was faster; tx.Rollback() leaves nothing open.
CommitRefused(w) ==
    /\ pc[w] = "commit"
    /\ runCtxDone
    /\ Answer(w, "failed", "none",
              IF tx[w] = "done" THEN {"transaction done"} ELSE {"context canceled"})

\* COMMIT itself has no context: it runs to its end whatever is cancelled.
MakeDurable(w) == committed' = [committed EXCEPT ![current[w]] = @ + 1]

CommitAck(w) ==
    /\ pc[w] = "committing"
    /\ Reply(w, "record", "none", NoError)
    /\ MakeDurable(w)

\* The commit is durable but its answer is lost with the connection.
CommitLost(w) ==
    /\ pc[w] = "committing"
    /\ \E e \in DbErrors : Reply(w, "failed", "none", e)
    /\ MakeDurable(w)

CommitReject(w) ==
    /\ pc[w] = "committing"
    /\ \E e \in DbErrors : Answer(w, "failed", "none", e)

\* shouldIgnoreStopArtifact reads the flag and the context when the error is
\* already in hand; what it ignores is not counted, and the step is over.
Judge(w, ignored) ==
    /\ pc[w] = "failed"
    /\ pc' = [pc EXCEPT ![w] = IF ignored THEN "loop" ELSE "record"]
    /\ err' = [err EXCEPT ![w] = IF ignored THEN NoError ELSE @]
    /\ LocalStep
    /\ UNCHANGED <<next, current, tx>>

JudgeAnyErrorAfterStop(w) == Judge(w, ShouldStop)
JudgeByFlagOnly(w) == Judge(w, stopRequested /\ "context canceled" \in err[w])
JudgeError(w) == Judge(w, ShouldStop /\ "context canceled" \in err[w])

\* Summary.RecordClassified, under Summary.mu.
RecordAs(w, outcome) ==
    /\ pc[w] = "record"
    /\ stats' = [stats EXCEPT ![current[w]] = Counted(@, outcome)]
    /\ totals' = Counted(totals, outcome)
    /\ lastError' = IF err[w] = NoError THEN lastError
                    ELSE [lastError EXCEPT ![current[w]] = err[w]]
    /\ pc' = [pc EXCEPT ![w] = "loop"]
    /\ err' = [err EXCEPT ![w] = NoError]
    /\ UNCHANGED <<mainVars, ctxVars, progressVars, next, current, tx, committed>>

RecordOutcome(w) == RecordAs(w, Classify(current[w], err[w]))

WorkerStep(w) ==
    \/ WorkerExit(w) \/ PickScenario(w) \/ EnterStep(w)
    \/ BeginOk(w) \/ BeginFail(w)
    \/ RunOk(w) \/ RunFail(w)
    \/ CommitStart(w) \/ CommitRefused(w)
    \/ CommitAck(w) \/ CommitLost(w) \/ CommitReject(w)
    \/ JudgeError(w) \/ RecordOutcome(w)

-----------------------------------------------------------------------------
(* progressLoop.                                                           *)

TickerRuns == progressPc \in {"wait", "emit"}

\* A tick that finds the channel full is dropped.
TickerFires ==
    /\ TickerRuns
    /\ ~tickPending
    /\ tickPending' = TRUE
    /\ UNCHANGED <<mainVars, ctxVars, workerVars, progressPc, snap, emitted,
                   summaryVars, committed>>

TakeTickWith(counts) ==
    /\ progressPc = "wait"
    /\ tickPending
    /\ tickPending' = FALSE
    /\ snap' = counts
    /\ progressPc' = "emit"
    /\ UNCHANGED <<mainVars, ctxVars, workerVars, emitted, summaryVars, committed>>

TakeTickTorn == TakeTickWith([totals EXCEPT !["executed"] = snap["executed"]])

\* BuildSnapshot copies the totals under one hold of Summary.mu.  The select
\* may take the tick although the context is done as well.
TakeTick == TakeTickWith(totals)

\* onProgress logs the snapshot.
EmitSnapshot ==
    /\ progressPc = "emit"
    /\ emitted' = snap
    /\ progressPc' = "wait"
    /\ UNCHANGED <<mainVars, ctxVars, workerVars, tickPending, snap,
                   summaryVars, committed>>

ProgressExit ==
    /\ progressPc = "wait"
    /\ runCtxDone
    /\ progressPc' = "exited"
    /\ tickPending' = FALSE
    /\ UNCHANGED <<mainVars, ctxVars, workerVars, snap, emitted, summaryVars, committed>>

-----------------------------------------------------------------------------

MainStep == \/ StartInvalid \/ Start
            \/ \E w \in Workers : SpawnWorker(w)
            \/ EnterSelect \/ TakeBranch \/ StoreStop \/ CancelRunCtx \/ WaitReturn

Environment == TimerFires \/ Interrupt \/ PropagateCancel
               \/ \E w \in Workers : CancelRollsBack(w)

ProgressStep == TickerFires \/ TakeTick \/ EmitSnapshot \/ ProgressExit

\* Run has returned and nothing is left to do: not a deadlock.
Terminated == mainPc = "returned" /\ UNCHANGED vars

Next == MainStep \/ Environment \/ ProgressStep \/ Terminated
        \/ \E w \in Workers : WorkerStep(w)

\* The Go scheduler runs every goroutine that can run, a timer fires, a closed
\* context closes its children, and the database answers every call.  Select
\* picks among its ready branches at random, so that progressLoop cannot take
\* a tick for ever when the context is done: strong fairness of ProgressExit.
\* Nothing makes the user interrupt, the ticker tick, or awaitDone be fast.
Fairness ==
    /\ WF_vars(MainStep)
    /\ WF_vars(TimerFires)
    /\ WF_vars(PropagateCancel)
    /\ \A w \in Workers : WF_vars(WorkerStep(w))
    /\ WF_vars(TakeTick \/ EmitSnapshot \/ ProgressExit)
    /\ SF_vars(ProgressExit)

Spec == Init /\ [][Next]_vars /\ Fairness

-----------------------------------------------------------------------------
(* Properties.                                                             *)

\* Every execution is in exactly one outcome column, for each scenario and in
\* the totals, at every point at which the progress goroutine may look.
Accounting ==
    /\ Balanced(totals)
    /\ \A s \in Scenarios : Balanced(stats[s])

\* A transaction is only open while its worker is inside runWorkerStep between
\* BeginTx and the answer of Commit or Rollback: no path of runWorkerStep, the
\* stop included, goes on with the locks of its transaction still held.
TxScoped ==
    \A w \in Workers :
      /\ tx[w] \in {"open", "done"} => pc[w] \in {"run", "commit"}
      /\ pc[w] = "run" => tx[w] \in {"open", "done"}
      /\ tx[w] = "committing" <=> pc[w] = "committing"

\* No success is reported that the database did not make durable, for each
\* scenario, whatever is cancelled while its workers commit.
SuccessIsCommitted ==
    \A s \in Scenarios : stats[s]["success"] <= committed[s]

\* When Run has returned, every durable transaction is in the report, be it as
\* a failure because its answer was lost: ignoring the errors that the stop
\* causes never hides a commit.
CommitsReported ==
    mainPc = "returned" =>
      \A s \in Scenarios : committed[s] <= stats[s]["executed"]

\* When Run has returned, no goroutine it started is left, and no transaction
\* of a worker is open.
Quiescent ==
    mainPc = "returned" =>
      /\ \A w \in Workers : pc[w] \in {"unborn", "exited"} /\ tx[w] = "none"
      /\ progressPc \in {"off", "exited"}

\* The rotation is fair: at any moment two scenarios of a group have been
\* executed equally often, up to one execution per worker of the group.
RotationBalanced ==
    \A s, t \in Scenarios :
      s[1] = t[1] =>
        stats[s]["executed"] - stats[t]["executed"]
          <= Cardinality({w \in Workers : GroupOf(w) = s[1]})

\* An error that only says that the context was cancelled is never counted: it
\* can only be met after the cancellation, which the judge then sees as well.
NoArtifactCounted ==
    \A s \in Scenarios : "context canceled" \notin lastError[s]

\* The progress snapshots the user sees are balanced, never ahead of the
\* counters, and never go back.
SnapshotsAdvance ==
    [][ /\ Balanced(emitted')
        /\ \A c \in Columns : emitted[c] <= emitted'[c] /\ emitted'[c] <= totals'[c]
      ]_vars

\* runWorkload prints the summary, runs the checker and closes the database
\* after Run: nothing counts, commits or logs progress behind its back.
NothingAfterReturn ==
    [][mainPc = "returned" =>
         UNCHANGED <<summaryVars, committed, emitted, pc, tx, runResult>>]_vars

\* Run returns: neither a worker nor the progress goroutine outlives the stop.
RunReturns == <>(mainPc = "returned")

\* Where a caller of Engine.Run sees it.
Phase == IF mainPc = "start" THEN "idle"
         ELSE IF mainPc = "returned" THEN "returned" ELSE "running"

Contract ==
    INSTANCE RunContract WITH phase <- Phase, cancelled <- interrupted,
                              result <- runResult, tally <- totals

\* Engine.Run keeps what its caller relies on.
ImplementsContract == Contract!Spec

\* engine_test.go, TestEngineRunIgnoresCanceledInFlightScenarioAfterStop: a
\* stop does not make executions fail ("UnexpectedFailure = %d, want 0").
CleanStop == totals["unexpectedFailure"] = 0

-----------------------------------------------------------------------------
(* The inductive invariant behind the safety properties.                   *)

\* Who exists in which phase of Run, and what the return leaves behind.
PhasesOK ==
    /\ mainPc = "start" =>
         /\ \A w \in Workers : pc[w] = "unborn"
         /\ progressPc = "off"
    /\ mainPc \in {"select", "stop", "cancel", "wait"} =>
         \A w \in Workers : pc[w] # "unborn"
    /\ mainPc \in {"stop", "cancel", "wait"} => cause # "none"
    /\ cause = "done" => interrupted
    /\ runResult = "none" <=> mainPc # "returned"
    /\ mainPc = "returned" =>
         /\ \A w \in Workers : pc[w] \in {"unborn", "exited"}
         /\ progressPc \in {"off", "exited"}

\* The text "context canceled" is only met after the cancellation, and the
\* judge lets none of it through to the record.  What is judged is an error.
ErrorsOK ==
    \A w \in Workers :
      /\ "context canceled" \in err[w] => runCtxDone /\ pc[w] = "failed"
      /\ pc[w] = "failed" => err[w] # NoError

\* The workers about to report a success of scenario s, and those sure to report
\* an execution of it.
Acked(s) == {w \in Workers : /\ pc[w] = "record"
                            /\ err[w] = NoError
                            /\ current[w] = s}
Unreported(s) == {w \in Workers : /\ pc[w] \in {"record", "failed"}
                                 /\ "context canceled" \notin err[w]
                                 /\ current[w] = s}

\* The report and the database differ by the workers between the two only.
CommitsOK ==
    \A s \in Scenarios :
      /\ stats[s]["success"] + Cardinality(Acked(s)) <= committed[s]
      /\ committed[s] <= stats[s]["executed"] + Cardinality(Unreported(s))

\* The rotation.  Give each worker the rank of the scenario it is to report next.
\* In the lap it is in, it has reported the ranks from its first one up to that.
Ranks == UNION {0 .. ScenarioCount[g] - 1 : g \in Groups}
InStep == WorkerPcs \ {"unborn", "loop", "exited"}

Reported(w, rank, r) ==
    IF InitialNext(w) <= rank THEN InitialNext(w) <= r /\ r < rank
                              ELSE InitialNext(w) <= r \/ r < rank

Ahead(rank, s, t) ==
    {w \in Workers : /\ GroupOf(w) = s[1]
                     /\ Reported(w, rank[w], s[2])
                     /\ ~Reported(w, rank[w], t[2])}

\* Where a worker is between two steps is unknown once it is to stop: its last step
\* may have been ignored.
RanksOK(rank) ==
    \A w \in Workers :
      /\ rank[w] < ScenarioCount[GroupOf(w)]
      /\ pc[w] = "unborn" \/ (pc[w] = "loop" /\ ~ShouldStop) => rank[w] = next[w]
      /\ pc[w] \in InStep =>
           /\ current[w] = <<GroupOf(w), rank[w]>>
           /\ next[w] = (rank[w] + 1) % ScenarioCount[GroupOf(w)]

\* Whole laps count for all scenarios of the group alike.
RotationOK(rank) ==
    \A s, t \in Scenarios :
      s[1] = t[1] =>
        stats[s]["executed"] - stats[t]["executed"]
          = Cardinality(Ahead(rank, s, t)) - Cardinality(Ahead(rank, t, s))

RotationInv == \E rank \in [Workers -> Ranks] : RanksOK(rank) /\ RotationOK(rank)

EngineInv ==
    /\ TypeOK /\ Accounting /\ TxScoped /\ PhasesOK
    /\ ErrorsOK /\ NoArtifactCounted /\ CommitsOK
=============================================================================
