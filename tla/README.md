# tidb-fk-test: specifications, model checking and proofs

`tidb-fk-test` exercises the foreign keys of a TiDB cluster, typically while the
cluster is upgraded node by node. `prepare` creates a schema, seeds it and records
its inputs; `run` rebuilds the seed plan from the record, runs concurrent scenarios
on it for a bounded time, prints a summary and checks the database.

This directory holds TLA+ modules translated from the source, the TLC
configurations that check them, and proofs that TLAPS checks. `PROJECT.json` names,
for every definition, the lines it stands for; for every property, the run that
checks it and a faulty variant of the code that it catches; and the hazards of the
code with the properties aimed at them.

## 1. The system

### Components

| Component | Source | State | Operations |
|---|---|---|---|
| Engine | `internal/runner/engine.go` | `stopRequested`; the run context; one goroutine per worker with its rotation index; the progress goroutine | `Run`, `workerLoop`, `runWorkerStep`, `progressLoop`, `requestStop`, `shouldIgnoreStopArtifact` |
| Scheduler | `internal/runner/scheduler.go` | none | `Workers`, `TotalWorkers` |
| Report | `internal/report` | totals and a row per scenario, under one mutex | `Record`, `RecordClassified`, `Totals`, `Scenarios`, `BuildSnapshot`, `EmitSnapshot` |
| Classification | `internal/model`, `scenario/types.go` | none | `Classify`, `MatchesExpectedError` |
| Run command | `cmd/tidb-fk-test/main.go` | the stage it is in, its contexts, what it has printed | `newRunCommand`, `runWorkload`, `runFinalChecks` |
| Checker | `internal/checker` | none | `Run`: `orphan_child`, `cascade_result` |
| Seed plan | `internal/seed/generic.go`, `billing.go` | none | `GenericPlan`, `BillingPlan`, the rows of each `INSERT` |
| Prepare | `internal/seed/apply.go`, `metadata.go` | tables, rows, the row of `fk_prepare_metadata` | `ApplyAll`, `ReadPreparedMetadata`, `ValidatePreparedState` |
| Scenarios | `internal/scenario` | a run counter per scenario | fourteen `Run` methods, `selectPoolSlot`, `NewRegistry` |
| Cluster | `internal/db` | node pools; in `hasql`, the nodes found alive by the last sweep | `openCluster`, `Close`, `BeginTx`, `ExecContext`, `QueryRowContext`, `candidateNodes`, the calls of a transaction |
| Configuration, DSNs | `internal/config`, `main.go` | none | defaults, parsing |
| Logging | `internal/logging` | a log file | JSON lines |
| Cluster scripts | `scripts/` | a runtime directory with patch packages; in TiUP, the registered cluster; the nodes' versions and their global variable | create, upgrade, toggle, destroy |

### How they interact

The run command opens the cluster, reads the record of the last `prepare`, rebuilds
the plan, validates a few key rows and calls `Engine.Run` with the context that an
interrupt cancels. The engine spawns a goroutine per worker and one for progress,
and waits in a `select` for its timer or that context. A worker takes the next
scenario of its group, begins a transaction through the cluster, has the scenario
execute its statements on the next slot of its pool, commits or rolls back, and
records the classified outcome in the summary that the progress goroutine reads and
that the run command prints when `Run` has returned. The checker then queries the
database, under the command's context, or under one of its own with a timeout when
the run was interrupted.

Every call outside a transaction is routed by the cluster to the nodes that the last
health sweep found alive, one after the other until one succeeds; a transaction stays
on the connection where it began. The scripts set up what all this runs against, and
change it under a running program: an upgrade restarts every node of a role in turn,
and a toggle changes the mode of foreign-key locks for the sessions that begin later.

### What is hard about it

- The stop: a flag, a context derived from another context, a timer, and goroutines
  that look at them before, during and after calls into `database/sql`, which itself
  rolls back behind the caller when the context is done. Which errors are the stop's
  own, and may be ignored, is decided after the fact from the error's text.
- A commit whose answer is lost is durable and reported as a failure.
- Counters that are read by three readers without a common lock.
- Fourteen pools of fixture ids that share tables and are told apart by offsets, some
  of which depend on the number of seeded rows.
- Executions that overlap on a slot, are cut off anywhere, or become the victims of
  deadlocks, on a database that later executions are to find usable.
- A `prepare` that is not a transaction, may be cut off and run again with other
  inputs, and whose statements may be sent twice.
- Routing by a set of alive nodes that is old when it is used, is read twice, and may
  be empty; opening that fails half way; waiting without a deadline.
- Scripts that undo nothing: a kill, a failed command or a script started at the wrong
  moment leaves a half-made cluster, a partial package or a half-upgraded role for the
  next script to meet.

### What makes each component correct

| Component | Properties |
|---|---|
| Engine | `Quiescent`, `NothingAfterReturn`, `RunReturns`: nothing survives `Run`, which returns. `TxScoped`: no path keeps a transaction. `NoArtifactCounted`, `CommitsReported`: what the stop causes is ignored, and nothing else is. `RotationBalanced`: the rotation is fair. `ImplementsContract` |
| Report | `Accounting`, `SuccessIsCommitted`, `SnapshotsAdvance` |
| Run command, checker | `SummariesAgree`, `ExitZeroMeansChecked`, `InterruptedRunChecked`, `CommandTerminates` |
| Scenarios | `FixturesSuffice`, `SuccessScenariosSucceed`, `ProbesFail`, `CascadeLeavesNothing` |
| Seed plan, prepare | `PlanSlotsApart`, `PrepareSucceeds`, `PlanIsGrounded`; `RunsFailOnLeftovers`: a run is stopped by what runs of other plans have left, and by nothing else |
| Cluster | `Failover`: a stale list costs an attempt, never the call. `EffectOnce`, `TxAllOrNothing`, `NoPoolLeft`, `OpenEnds`, `CallEnds` |
| Cluster scripts | `RolesInOrder`, `UpgradeIsWhole`, `CreateIsReady`, `ToggleIsSeen`: what exit status 0 promises, whatever was cut off before. `UpgradeFailsForCause`: what an upgrade can be stopped by. `RepairEnds`: destroying and making anew always works |

## 2. The modules

```
RunContract   <-- refined by --  Engine  <-- extended by --  RunCommand
                                   |                            |
                                EngineMC, EngineProofs,    RunCommandMC, RunCommandProofs
                                RotationProofs

SeedPlan <-- Scenarios <-- Database <-- Workload <-- WorkloadMC
                               |  \--- Prepare  <-- PrepareMC
                               |
                          ScenarioProofs <-- WorkloadProofs (and Workload)
                                        \--- PrepareProofs  (and Prepare)

Cluster        <-- ClusterMC, ClusterProofs
ClusterScripts <-- ClusterScriptsProofs
```

**RunContract** is what a caller of `Engine.Run` relies on: a call is refused or it
runs; while it runs, executions are counted, each in one outcome column; it returns
once, with `context.Canceled` only if the context was cancelled, and the tally is
final. `Engine` implements it under the mapping at the end of `Engine.tla`: the
phase is read off `mainPc`, the tally is `totals`.

**Engine** is one call of `Engine.Run`. `mainPc`, `cause` and `runResult` belong to
the caller's goroutine, `pc`, `next`, `current`, `tx` and `err` to the workers,
`progressPc`, `tickPending`, `snap` and `emitted` to the progress goroutine,
`stats`, `totals` and `lastError` to `report.Summary`; `committed` counts durable
transactions. An action is the code between two points where someone else can
intervene: `requestStop` is two actions, since it stores the flag and then cancels;
a step of a worker is up to eight (`PickScenario`, `EnterStep`, `BeginOk`, `RunOk`,
`CommitStart`, `CommitAck`, `JudgeError`, `RecordOutcome` and their failures). The
two reads of `shouldStop` are one action: both values are stable during a run. The
critical section of `Summary.mu` is one action. `database/sql` is modelled from what
the engine relies on: a call looks at its context first; a transaction whose context
is done is rolled back at some later time (`CancelRollsBack`); `Commit` looks at the
context, then claims the transaction, and the database's `COMMIT` is not cut short.
An error is the set of the substrings that the code looks for. What a scenario does
inside its transaction is its answer only: that is `Workload`'s subject.

**RunCommand** extends `Engine` with the stages of `newRunCommand`, and
`runWorkload`. The goroutines that the engine started run on `Beside` the command's
own steps: only `WaitReturn` stops them, and a variant without it is caught.

**SeedPlan** is the plan as operators of `n` and `h`, the two recorded inputs, and
`PoolSize`. A row is `<<table, id>>`; of its columns only the rows it refers to
matter. **Scenarios** has a sequence of statements for every scenario. **Database**
is external: what a foreign-key database answers to a statement.

**Workload** runs these statements in concurrent transactions with row locks. A
foreign-key check locks the row referred to, in shared or exclusive mode according
to `tidb_foreign_key_check_in_shared_lock` as the worker's session has it (`shared`):
pooled sessions keep the value they began with. A statement may wait for its locks in any
order; an upgrade of one's own shared lock is refused, which is the error the probes
expect, and waits for nobody, so that a transaction which asks for one is in no deadlock;
a deadlock has a victim; `Abort` cuts any execution off anywhere. Workers
take scenarios in any order, which includes every rotation that `Engine` allows.
Transactions read the latest committed rows under their own writes, which `Overlay` and
`Without` of `Database` express; a transaction that is not cut off ends with an answer,
and `ProbesFail` says which one a probe with slots ends with.

**Prepare** alternates `prepare` (one action per statement), which may stop before
any statement or have one sent twice, with runs whose executions are single steps. The
statements of `ApplyAll` are a function of their position (`ApplyStatements`), of which
`newInsertStatement` drops those without rows (`Sent`); an execution is the function of
the number of its statements that `Execution` chooses.

**Cluster** is one `Cluster` with one caller. `openPc`, `pools`, `preflighted` and
`waitExpired` are the locals of `openCluster`; `callPc`, `first`, `rest`, `at` those
of the call in progress, which chooses its first candidate in one step (`PickFirst`)
and lists the others in another (`Iterate`), as the two reads of `candidateNodes` do;
`txPc`, `txNode` and `session` are the transaction it has returned. `hasql` is
external: a sweep checks the nodes one by one (`CheckNode`, each as it is at that
moment) and publishes all answers at once (`Publish`), and its `Close` closes the
pools of the nodes it has discovered, which are none before the first sweep. Nodes go
down and come back at any step; a statement may take effect on a node that fails
before it answers. Other callers need no model: a `Cluster` keeps nothing about its
calls. `steady` and `listed` are history for `Failover`.

**ClusterScripts** has each script as the sequence of its commands, and one action
per kind of command. `set -e` ends a script at a failed command; `Cut` kills it with
the command in hand. Three things follow the shell and not the intent: a failed
`tiup cluster list` is a list without the cluster (`ListFails`), a package file that
exists is kept whatever is in it (`Package`), and a failed `tar` does not end the
script, since a command substitution has no `set -e` (`PackageFails`). `rm -rf` removes
files and stops nothing (`RemoveRuntimeDir`): nodes whose files are gone (`deployed`) go
on running, show their version and keep their sessions until they fail or TiUP stops
them, and are not started again. The words that the health check looks for
do not cover a TiKV node displayed as `Disconnected` (`Displayed`). TiUP's `patch`
and `reload` take the nodes of a role down and bring them up one after the other.
`NextInTurn` is the operator who follows the runbook and, after any failure, destroys
the cluster and makes it anew; `BeginOutOfTurn` starts any script at any time.

## 3. The runs

| Run | Instance | Shows |
|---|---|---|
| `engine_faults` | a generic worker over two scenarios, a probe worker; begins, statements and commits fail with two kinds of errors; two executions | `TypeOK`, `Accounting`, `TxScoped`, `SuccessIsCommitted`, `CommitsReported`, `NoArtifactCounted`, `RotationBalanced` |
| `engine_stop` | the same workers, progress off or on, no faults | `Quiescent`, `SnapshotsAdvance`, `NothingAfterReturn`, `RunReturns`, `ImplementsContract` |
| `engine_clean_stop` | one worker, no faults | violated: `CleanStop` |
| `command_faults` | two workers of two groups, progress off or on, one execution, every stage and query may fail | `SummariesAgree`, `ExitZeroMeansChecked`, `InterruptedRunChecked`, `CommandTerminates` |
| `command_always_checks` | one worker, no faults | violated: `NormalRunChecked` |
| `workload_generic` | two workers over seven generic scenarios, a third for the cascade, pools of one, shared locks | `TypeOK`, `SuccessScenariosSucceed`, `CascadeLeavesNothing` |
| `workload_modes` | two billing workers and one with the probes and a scenario that has no slots; shared locks in all sessions, in none, or in the third worker's only | `FixturesSuffice`, `SuccessScenariosSucceed`, `ProbesFail` |
| `prepare_runs` | 1 or 2 rows, more hot keys than rows, `generic_insert_parent_then_child` and `billing_cascade_path`, pools of two | `TypeOK`, `PrepareSucceeds`, `PlanIsGrounded`, `RunsFailOnLeftovers`, `PlanSlotsApart` |
| `prepare_zero` | 0 or 1 hot keys | violated: `PlanIsRecorded` |
| `cluster_failover` | two nodes, two statements in a transaction | `TypeOK`, `Failover`, `EffectOnce`, `TxAllOrNothing`, `NoPoolLeft`, `OpenEnds`, `CallEnds` |
| `scripts_repair` | two nodes per role, three troubles | `RolesInOrder`, `UpgradeIsWhole`, `UpgradeFailsForCause`, `CreateIsReady`, `ToggleIsSeen`, `RepairEnds` |
| `scripts_destroy` | two nodes per role, two troubles | violated: `DestroyedIsGone` |

### Bounds

- `MaxExecuted` stops workers from starting a step after so many recorded executions.
  It bounds the counters only: the steps in flight still end, and each worker may
  have one more. Two executions let a scenario be executed beside another and after
  another; that the rotation stays balanced however long it goes on is proved.
- One worker per group is enough for every pair of a worker with the caller, the
  timer, the interrupt and the ticker; the second worker brings the races for the
  summary. The proofs are for any number.
- In `Workload`, pools of one slot make every two executions of a scenario meet on the
  same rows, which pools of four do when more executions than slots are in flight. That
  slots of one plan never meet is proved for every pool size and every seed
  (`PlanSlotsApart`), so larger pools add only executions that are independent.
- Across plans that is not so: slots of different index of two plans do meet, in the
  code with pools of four after prepares for two and then three rows. `prepare_runs`
  therefore has pools of two and numbers of rows whose pools of new parents overlap, 1
  and 2: slot 1 of the one plan writes the parent that slot 0 of the other deletes. The
  refused `DELETE` happens in it. The scenario is the one with those pools,
  beside one that relies on seeded accounts and has a cascade; that the other twelve add
  nothing to `RunsFailOnLeftovers` is proved, for all pool sizes up to 100, the code's
  four included.
- The seeds are small: what depends on them is which pools are empty, how the hot keys
  are capped, and where the pools of new parents start.
- `Workload` and `Prepare` need no bound on executions: run counters are kept modulo
  the pool, as they are used, and rows come and go in a finite set. A worker's
  sessions have one value of the variable for the whole of a behaviour.
- `Cluster`: two nodes are the fewest with a second candidate, and make every order
  of failure, return, sweep and attempt; two statements the fewest of which a
  transaction could lose one. The proofs are for any set of nodes.
- `MaxTrouble` counts failures, kills and scripts started out of turn. Three are enough
  for a create cut off, a destroy that then takes the cluster for absent, and one
  more while that is repaired; and for an upgrade that loses a package or is killed, is
  started again and is killed once more. Two nodes per role make a role that is half through.
  The safety properties are proved for any numbers of both.

Deadlock is checked in every run: the finished states of `Engine`, `RunCommand`,
`Cluster` and `ClusterScripts` have explicit stuttering steps, and the others never
stop.

### Fairness

Only where liveness is claimed: in `Engine`, `RunCommand`, `Cluster` and
`ClusterScripts`. The Go scheduler runs
every goroutine that can run: weak fairness of the caller's steps, of each worker's
and of the progress goroutine's. A timer fires, a cancelled context cancels the ones
derived from it, and the database answers every call, with a failure perhaps. A
`select` with several ready branches picks at random, so the progress goroutine does
not take ticks for ever while its context is done: strong fairness of
`ProgressExit`. Nothing is assumed of the user, of the ticker, or of how fast
`database/sql` rolls back. In `RunCommand` every stage and query of the checker
ends. That the database answers a `COMMIT` is a real assumption: the code sets no
deadline for it.

In `Cluster`, the steps of opening, of a call and of the sweep are taken, since each
is code or a check with a timeout, and the timer of the start-up wait fires. No node
has to come up or stay up and no context has to end: `CallEnds` names these as its
premise, since without a deadline nothing else ends the wait for a node.

In `ClusterScripts`, a command ends (TiUP and `mysql` answer, with a failure perhaps)
and the operator goes on with the runbook. Nothing is assumed of how soon a node sees
a new value, of clients, or of systemd; that troubles end is `MaxTrouble`.

## 4. What the runs found

1. `engine_clean_stop`: when the stop falls between the last statement of a scenario
   and its `Commit`, `database/sql` may already have rolled back, and `Commit` answers
   `sql.ErrTxDone`. Its text does not say "context canceled", so the judge counts and
   logs an unexpected failure that the stop has caused, in a run with no fault.
2. `command_always_checks`: an interrupt that arrives when the timer has already
   ended the run cancels the context of the final checks, and no Checker Summary is
   printed, although an interrupt one moment earlier has it printed.
3. `prepare_zero`: `buildRunConfig` takes a recorded zero for a missing value. A
   `prepare` with zero hot keys is followed by runs that plan with sixteen, whose
   parents do not exist.
4. `scripts_destroy`: `cluster_exists` drops the errors of `tiup cluster list`, so a
   list that fails says that there is no cluster. `destroy-cluster.sh` then skips the
   destroy, removes the directory that the running nodes live in, reports that the
   cluster has been removed and exits with zero; TiUP has it registered still, its
   nodes may go on running, and the next create is refused. (`RepairEnds` shows that
   another destroy repairs this, and `NodesStayKnown` that TiUP still knows the nodes.)

Limits that no text of the repository contradicts, seen while modelling:

- Executions do fail after prepares with certain numbers of rows. What an earlier run
  left is in the way of the new plan when the first ids of the two pools of new parents
  overlap: numbers closer than the pool size (with the code's pools of four: prepare for
  two rows, run, prepare for three, and slot 0 of `generic_insert_parent_then_child`
  deletes parent 4, to which a child of the earlier run refers), numbers about
  a hundred apart (2 and 102), and one row after two, where the rows of
  `generic_rebind_child_fk` still refer to the second parent. The `DELETE` is then
  refused, on every execution of the slot, as long as that row is there. Nothing in
  `main.go` keeps such numbers apart. `RunsFailOnLeftovers` says
  that this is the only way: with the recorded inputs, an execution fails by
  a refused `DELETE` alone, and because of a row that no slot of the plan has refer to the
  row deleted. (With a recorded zero, finding 3, `run` has other inputs.)
- With exclusive foreign-key locks, `billing_fk_backfill` (folio, then customer and
  folio) and `billing_journal_posting_bill` (customer and folio, then folio) can
  deadlock; the victim counts as an unexpected failure. With shared locks they cannot.
- An upgrade that was killed after the first TiDB node was patched cannot be finished
  by running the script again: its first assertion asks every TiDB node for the old
  version. One killed before that can (`UpgradeFailsForCause`). One that meets a partial
  package can only after the package has been removed by hand or by a destroy.
- In a call's wait for an alive node `prepare` and `run` have no deadline: with all
  nodes down they wait until a node returns or the user interrupts (`CallEnds`).

## 5. What is proved

All for any number of workers, scenarios per group, errors of the database, durations
and intervals that the named assumptions of `Engine` allow: the counts of workers are
natural numbers, every group has a scenario (`NewRegistry` registers all three), and
the texts about contexts come from contexts only.

`EngineProofs`:

- `TypeCorrect`: `Spec => []TypeOK`; the conjunct on `next` says that the rotation
  index stays in the list of the worker's group.
- `Invariance`: `Spec => []EngineInv`. `SuccessIsCommitted` and `CommitsReported` are
  not inductive. A success is counted steps after its commit, and a lost answer is
  judged, then recorded, while other workers go on. The invariant counts the workers
  in between: `CommitsOK` says that the report lags behind the database by
  the workers about to record a success (`Acked`) and not by more than those sure to
  record something (`Unreported`). That the latter reach the record needs `ErrorsOK`
  ("context canceled" is only met after the cancellation, so a failed commit that is
  durable is never ignored), and that none is left at the return needs `PhasesOK` (who
  exists in which phase of `Run`).
- `AccountingHolds`, `TransactionsScoped`, `ArtifactsIgnored`, `SuccessDurable`,
  `CommitsReportedHolds`, `QuiescentAtReturn`, `SilentAfterReturn`: the safety and
  action properties of the runs, from the invariant.
- `ImplementsContractSafety`: `Spec => Contract!Safety`, the safety part of the
  refinement: each step of the engine is a step of `RunContract` or a stutter.
- `RotationIsFair` (`RotationProofs`): `RotationBalanced`, the fairness of the rotation.
  `RotationInv` gives each worker the rank of the scenario that it is to report next;
  in the lap it is in, it has reported the ranks from its first one up to that. The
  counters of two scenarios then differ by the workers that have reported the one and
  not yet the other, whole laps counting for both.
- `SnapshotsOnlyAdvance`: `SnapshotsAdvance`, from `SnapshotsOK`: what was emitted never
  exceeds the copy last taken, nor that copy the totals, which only grow.

`RunCommandProofs`, on top of it:

- `SummariesShowOneState` and `ExitZeroIsChecked`: `CmdSpec => []SummariesAgree` and
  `CmdSpec => []ExitZeroMeansChecked`. Each step of the command is a step of the engine
  or leaves its variables alone (`CommandEngineStep`), so `EngineInv` carries over. On
  top of it `PrintedOK` says that the engine has returned from the first print on, and
  `SilentStep` of `EngineProofs` that nothing it left running can then count, so the
  three reads of the counters show the same values.
- `InterruptedRunIsChecked` and `CommandTypeCorrect`: `InterruptedRunChecked` and
  `CmdTypeOK`, from the same invariant.

`ClusterProofs`, for any set of nodes and any number of statements: `CallsFailOver`,
`EffectsAreNotRepeated`, `TransactionsAreWhole`, `PoolsAreClosed`, from `ClusterInv`. Its
heart is `AttemptsOK`: as long as a call with a live context and a statement that the
database would take goes on, every node that has been up and listed since it began is
among those not yet asked, or is the one being asked.

`ClusterScriptsProofs`, for any number of nodes per role and of troubles:

- `RolesAreUpgradedInOrder`, `UpgradesAreWhole`, `CreatesAreReady`, `TogglesAreSeen`, from
  `ScriptsInv`: `Progress` says what the commands that a script is through with have
  left, and that nothing else takes it back; `Promises` is what an exit with zero then
  gives. `ToggleIsSeen` needs `SessionsOK`: a session dies with its node.
- `UpgradesFailForCause`, from `PatchesProgress` beside them: behind its commands, an
  upgrade finds every package made and every role marked as patched, whoever made and
  marked them, so that an assertion of it fails only for a cause of `UpgradeHindered`.
- `NodesStayKnown`: every node that is deployed or runs is one TiUP knows
  (`NodesAreKnown`). It rests on the order in `destroy-cluster.sh`, the files
  after `tiup cluster destroy`, and on TiUP's commands being done or not done as a whole.

`ClusterTypeCorrect` is the type invariant of `Cluster`, a part of `ClusterInv`; that of
`ClusterScripts` is a part of `ScriptsInv` (`ScriptsInvariance`).

`ScenarioProofs`, for all integer inputs and every pool size from 1 to 100
(`PoolSizeAssumption`: first ids in one table are at least 100 apart), holds the lemmas
about the fixtures and the statements of the fourteen scenarios. Every row has at most one
owner, the scenario and slot that write it, as a function of its table and id alone
(`Owner`). One lemma per scenario shows that the statements of a slot are `Sound`: they
write only what the slot owns, except the rows of the probes' seeded parents; they refer
only to what they have inserted before, or to fixtures that no slot deletes; and a slot
deletes a parent only after the children that it has hung on it, or with them. From that,
`AnswerIsOk` and `AfterKeeps` say of any single statement that it succeeds on rows as the
statements before it have left them (`Reached`), and leaves them so for the next one; both
modules below use them.

`WorkloadProofs`, for any set of workers, any scenarios assigned to them, all inputs and
any mix of modes:

- `FixturesAlwaysSuffice`, `WorkloadTypeCorrect`, `CascadeAlwaysLeavesNothing`, from
  `RowsInv`. `FixturesSuffice` is far from inductive: that the next statement of a
  transaction succeeds depends on rows that others might change meanwhile. The invariant
  says that a transaction holds an exclusive lock on every row of the statements behind
  it (`Holds`), that locks exclude each other (`Excluded`), and that the rows a
  transaction *sees*, the committed ones under its own, are as its next statement expects
  them (`Sees`). A commit of another worker changes only rows of that worker's own slot,
  or of the same slot, and then the two would hold the lock on its first row at once.
- `SuccessScenariosAlwaysSucceed` and `ProbesAlwaysFail`, from `SharedInv` on top of it:
  with shared locks everywhere, a success scenario never wants an exclusive lock on a row
  that another scenario locks, so it only waits for an execution on its own slot, and only
  at its first statement, when it holds nothing. A set of transactions that all wait for each
  other therefore does not exist. A probe holds the shared lock on its parent when it
  arrives at the update of that parent, and is refused.

`PrepareProofs`, for all inputs that the flags can have and any defaults:

- `PrepareInvariant`: `Spec => []PrepareInv`. `JobOK` says that the statements before the
  current one are done, `MetaOK` that the tables and the rows which the record stands for
  are there, and `Filed` that no row refers to a missing one, or to a leaf that a cascade
  could take away. Which rows the record stands for is the point: not all fixtures, since
  executions delete and insert some of them and may be cut off between prepares with
  other inputs. They are those that no slot ever deletes (`Settled`).
- `PrepareAlwaysSucceeds`, `PlanAlwaysGrounded`, `PrepareTypeCorrect`,
  `PlansKeepSlotsApart`: the invariants of `prepare_runs`, from it.
- `RunsOnlyFailOnLeftovers`: `Spec => RunsFailOnLeftovers`, with no assumption on the
  numbers of rows. `RunsInv` says that the fixtures of the recorded inputs are there when
  `run` reads them as they are. An execution then goes from statement to statement
  (`ExecutionGoes`): each finds the rows it refers to, and the row it replaces deleted,
  because a fixture that a slot deletes is inserted by the same slot (`Expected`). A
  `DELETE` alone may meet a row it does not expect, and `OthersAreLeftovers` says
  that no slot of the plan has linked that row.
- An execution is a recursion over a list of statements, and induction over data is out of
  the prover's reach. No scenario has more than ten statements, so `ExecutionIs` writes
  the recursion out, and the lemmas on one statement are applied ten times.

The invariants `RowsInv`, `SharedInv` and `PrepareInv` were checked by TLC on the
instances of the runs, and on larger ones, before they were proved. Two things came of
it: the wait-for relation had counted refused upgrades as waits, so that two probes
could be each other's victims; and `ProbesFail` needed its condition that the probe has
slots.

Only model-checked: `RunReturns`, `CommandTerminates`, the liveness part of the contract
(`ImplementsContract` as a whole, of which the safety part is proved), `OpenEnds`,
`CallEnds` and `RepairEnds`. All of them are liveness under fairness, which TLAPS does
not do here. Every invariant that a passing run checks has a theorem.

## 6. What is not modelled

- The version in the record: all commands of a model are of one binary.
- The limit of 65535 placeholders of one prepared statement: `newInsertStatement` puts all
  rows of a table in one `INSERT`, so that a `prepare` with tens of thousands of rows is
  refused by the server. `PrepareSucceeds` is about prepares below that limit.
- Times of summaries and snapshots, the layout of what is printed, logging.
- Parsing of flags, nodes and DSNs. A negative count of workers is outside
  `WorkersAssumption`.
- In `internal/db`: a nil `Cluster`, `defaultDuration`, and the text of joined errors
  (its effect on the engine's judge is `CallErrors` of `Engine`). `Cluster` is not
  composed with `Engine` or `Prepare` in one state space; what they need of it is in
  them: a statement applied twice (`ApplyUnacknowledged`), a transaction lost (`Abort`).
- In the scripts: arguments, ports, the rendering of the topology file, monitoring
  nodes, and the two functions of `common.sh` that no script calls. An assertion over
  the nodes of a role looks at all of them at once. Two scripts on one cluster at the
  same time are not modelled: nothing in them is made for it.
- Refinement of `Workload` to an abstract pool: scenarios write without reading, so it
  would say of the database what is assumed of it.

## 7. Plan

Done, in this order: `RunContract`, `Engine`, `RunCommand`, `EngineProofs`,
`SeedPlan`, `Scenarios`, `Database`, `Workload`, `Prepare`, `PrepareProofs`,
`RunCommandProofs`, `Cluster`, `ClusterProofs`, `RotationProofs`, `ClusterScripts`,
`ClusterScriptsProofs`, `ScenarioProofs`, `WorkloadProofs`.

What could still be added:

1. Action properties of `Prepare`: a record once written is replaced only by a complete
   prepare, and a run changes no row that a plan of other inputs relies on.
2. `Workload` refines `Prepare`'s view of an execution: each commit is one
   `ExecuteScenario` that succeeds, every other step leaves the committed rows alone.
   With `RowsInv` that is a step-by-step argument.
3. `Workload` on sessions whose mode changes between executions, and on a database
   that is upgraded under it.
