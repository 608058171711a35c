------------------------------ MODULE Prepare ------------------------------
(***************************************************************************)
(* The life of a database across commands: prepare (src/internal/seed/     *)
(* apply.go) creates the schema, upserts the fixtures statement by         *)
(* statement outside any transaction, and records its inputs last; run     *)
(* (src/cmd/tidb-fk-test/main.go) reads the record, rebuilds the plan,     *)
(* validates it, and executes scenarios on it.  prepare may be cut off     *)
(* between any two statements and run again with other inputs, on a        *)
(* database that earlier prepares and runs have left.                      *)
(*                                                                         *)
(* One command works on a database at a time.  An execution of a run is    *)
(* one step here: its interleavings are the subject of module Workload.    *)
(***************************************************************************)
EXTENDS Database

CONSTANTS
    ParentRows, HotKeys,         \* the values given to prepare's two flags
    DefaultRows, DefaultHotKeys, \* config.Default(): 1000 and 16 in the code
    RunScenarios                 \* the scenarios that runs execute

ASSUME PrepareAssumption ==
    /\ ParentRows \subseteq Int /\ HotKeys \subseteq Int
    /\ DefaultRows \in Int /\ DefaultHotKeys \in Int
    /\ RunScenarios \subseteq Registry

VARIABLES
    tables,  \* the tables that exist
    db,      \* the rows that exist
    meta,    \* the row of fk_prepare_metadata
    job,     \* the prepare in progress and the statement it is at
    plan,    \* the seed inputs of the run in progress
    failure  \* the first error of a statement of the current command

vars == <<tables, db, meta, job, plan, failure>>

NoInputs == [n |-> 0, h |-> 0, known |-> FALSE]
Inputs(n, h) == [n |-> n, h |-> h, known |-> TRUE]

NoJob == [inputs |-> NoInputs, at |-> 0]

-----------------------------------------------------------------------------
(* The statements of ApplyAll, phase by phase.                             *)

\* The foreign keys that the CREATE TABLE statement declares.
TablesReferredTo(table) ==
    CASE table \in {"child_basic", "child_rebind"} -> {"parent_basic"}
      [] table = "child_cascade" -> {"parent_cascade"}
      [] table = "child_hot" -> {"parent_hot"}
      [] table = "folio" -> {"customer"}
      [] table \in {"journal", "foliobalance", "statement"} -> {"customer", "folio"}
      [] table = "posting" -> {"journal"}
      [] table = "bill" -> {"journal", "folio"}
      [] table = "payment" -> {"bill", "journal"}
      [] table = "feelog" -> {"journal", "bill"}
      [] table = "withdrawal" -> {"journal", "statement"}
      [] OTHER -> {}

GenericTables ==
    << "parent_basic", "child_basic", "child_rebind", "parent_cascade",
       "child_cascade", "parent_hot", "child_hot", "probe_summary" >>

\* Faulty variant: folio is created before the customer it refers to.
BillingTablesFolioFirst ==
    << "folio", "customer", "journal", "posting", "bill", "payment",
       "foliobalance", "feelog", "statement", "withdrawal" >>

BillingTables ==
    << "customer", "folio", "journal", "posting", "bill", "payment",
       "foliobalance", "feelog", "statement", "withdrawal" >>

\* The fixtures are inserted in the order in which the tables are created.
Tables == GenericTables \o BillingTables

CreateTable(table) == [kind |-> "create", table |-> table, rows |-> {}]
Upsert(table, rows) == [kind |-> "upsert", table |-> table, rows |-> rows]
RecordMetadata == [kind |-> "record", table |-> "fk_prepare_metadata", rows |-> {}]

\* Faulty variant: the record is written before the rows it speaks of.
ApplyStatementsRecordFirst(in) ==
    LET fixtures == FixtureStatements(in.n, in.h)
    IN  [k \in 1 .. 20 + Len(fixtures) |->
           CASE k = 1 -> CreateTable("fk_prepare_metadata")
             [] k \in 2 .. 19 -> CreateTable(Tables[k - 1])
             [] k = 20 -> RecordMetadata
             [] OTHER -> Upsert(Tables[k - 20], fixtures[k - 20])]

ApplyStatements(in) ==
    LET fixtures == FixtureStatements(in.n, in.h)
        count == Len(fixtures)
    IN  [k \in 1 .. 20 + count |->
           CASE k = 1 -> CreateTable("fk_prepare_metadata")
             [] k \in 2 .. 19 -> CreateTable(Tables[k - 1])
             [] k \in 20 .. 19 + count -> Upsert(Tables[k - 19], fixtures[k - 19])
             [] k = 20 + count -> RecordMetadata]

\* The statements of each prepare that can be started.
GivenInputs == {Inputs(n, h) : n \in ParentRows, h \in HotKeys}
Prepares == [in \in GivenInputs |-> ApplyStatements(in)]

\* newInsertStatement makes no statement of an empty list of rows.
Sent(in) ==
    LET statements == Prepares[in]
    IN  {k \in DOMAIN statements : statements[k].kind = "upsert" => statements[k].rows # {}}

\* What is still to be sent after statement at, and the next of it.
Later(in, at) == {k \in Sent(in) : k > at}
Nearest(ks) == {next \in ks : \A k \in ks : next <= k}

-----------------------------------------------------------------------------
Init ==
    /\ tables = {}
    /\ db = Empty
    /\ meta = NoInputs
    /\ job = NoJob
    /\ plan = NoInputs
    /\ failure = "none"

NothingRuns == job = NoJob /\ plan = NoInputs

StartPrepare(n, h) ==
    /\ NothingRuns
    /\ job' = [inputs |-> Inputs(n, h), at |-> 1]
    /\ failure' = "none"
    /\ UNCHANGED <<tables, db, meta, plan>>

AtStatement == job # NoJob

Current == Prepares[job.inputs][job.at]

\* The table of an INSERT exists, and so do those that a table refers to.
StatementAnswer ==
    LET st == Current
    IN  CASE st.kind = "create" ->
               (IF TablesReferredTo(st.table) \subseteq tables THEN "ok" ELSE "no table")
          [] st.kind = "upsert" ->
               (IF st.table \in tables THEN UpsertAnswer(db, st.rows) ELSE "no table")
          [] st.kind = "record" ->
               (IF st.table \in tables THEN "ok" ELSE "no table")

\* Every statement is its own transaction.
StatementTakesEffect ==
    \E st \in {Current} :
        /\ tables' = IF st.kind = "create" THEN tables \cup {st.table} ELSE tables
        /\ db' = IF st.kind = "upsert" THEN Upserted(db, st.rows) ELSE db
        /\ meta' = IF st.kind = "record" THEN job.inputs ELSE meta

ApplyOk ==
    /\ AtStatement
    /\ StatementAnswer = "ok"
    /\ StatementTakesEffect
    /\ IF Later(job.inputs, job.at) = {} THEN job' = NoJob
       ELSE \E next \in Nearest(Later(job.inputs, job.at)) :
              job' = [job EXCEPT !.at = next]
    /\ UNCHANGED <<plan, failure>>

\* The answer is lost: Cluster.ExecContext sends the statement to another node.
ApplyUnacknowledged ==
    /\ AtStatement
    /\ StatementAnswer = "ok"
    /\ StatementTakesEffect
    /\ UNCHANGED <<job, plan, failure>>

\* A statement fails, prepare is killed, or no node is left: the statements before
\* have taken effect, and the record is the earlier one.
PrepareStops ==
    /\ AtStatement
    /\ failure' = IF StatementAnswer = "ok" THEN failure ELSE StatementAnswer
    /\ job' = NoJob
    /\ UNCHANGED <<tables, db, meta, plan>>

-----------------------------------------------------------------------------
(* run.                                                                    *)

\* buildRunConfig: a recorded zero gives way to the default.
RunInputs(record) ==
    Inputs(IF record.n # 0 THEN record.n ELSE DefaultRows,
           IF record.h # 0 THEN record.h ELSE DefaultHotKeys)

\* The rows that ValidatePreparedState counts, besides the metadata row.
KeyRows(in) ==
    {<<"probe_summary", 1>>}
    \cup (IF ParentCount(in.n) >= 1 THEN {Parent(1), ExistingBill} ELSE {})

\* A run that finds no record, or a key row missing, ends and changes nothing.
StartRun ==
    /\ NothingRuns
    /\ meta.known
    /\ KeyRows(RunInputs(meta)) \subseteq DOMAIN db
    /\ plan' = RunInputs(meta)
    /\ failure' = "none"
    /\ UNCHANGED <<tables, db, meta, job>>

\* One more statement of an execution: nothing more happens after its first error.
Executed(done, st) ==
    LET answer == AnswerTo(done.rows, st)
    IN  IF done.answer # "ok" THEN done
        ELSE IF answer # "ok" THEN [done EXCEPT !.answer = answer]
        ELSE [done EXCEPT !.rows = After(@, st)]

\* The rows and the answer after each number of statements.
Execution(steps) ==
    LET done[k \in 0 .. Len(steps)] ==
          IF k = 0 THEN [rows |-> db, answer |-> "ok"] ELSE Executed(done[k - 1], steps[k])
    IN  done

Execute(steps) == Execution(steps)[Len(steps)]

\* An execution takes any slot: those before it may have been cut off.
ExecuteScenario(s, i) ==
    /\ plan.known
    /\ HasSlots(s, plan.n, plan.h)
    /\ LET done == Execute(StepsOf(s, plan.n, plan.h, i))
       IN  /\ db' = IF done.answer = "ok" THEN done.rows ELSE db
           /\ failure' = IF failure = "none" /\ done.answer # "ok"
                         THEN done.answer ELSE failure
    /\ UNCHANGED <<tables, meta, job, plan>>

StopRun ==
    /\ plan.known
    /\ plan' = NoInputs
    /\ UNCHANGED <<tables, db, meta, job, failure>>

Next ==
    \/ \E n \in ParentRows, h \in HotKeys : StartPrepare(n, h)
    \/ ApplyOk \/ ApplyUnacknowledged \/ PrepareStops
    \/ StartRun \/ StopRun
    \/ \E s \in RunScenarios, i \in Pool : ExecuteScenario(s, i)

Spec == Init /\ [][Next]_vars

-----------------------------------------------------------------------------
(* Properties.                                                             *)

TypeOK ==
    /\ tables \subseteq {"fk_prepare_metadata"} \cup Range(GenericTables) \cup Range(BillingTables)
    /\ \A row \in DOMAIN db : row[1] \in tables /\ db[row] \subseteq DOMAIN db
    /\ \A in \in {meta, job.inputs, plan} :
         in = NoInputs \/ (in \in [n : Int, h : Int, known : {TRUE}])
    /\ job.at \in Nat
    /\ failure \in {"none", "no table", "duplicate", "no parent", "referenced", "no rows"}

\* prepare never fails of itself, on whatever the prepares and runs before it have
\* left, and however often one of its statements is sent.
PrepareSucceeds == AtStatement => StatementAnswer = "ok"

\* The rows that a slot's statements refer to and do not write themselves.
Grounds(s, in, i) ==
    LET steps == Range(StepsOf(s, in.n, in.h, i))
    IN  (UNION {st.refs : st \in steps}) \ {st.row : st \in steps}

\* What run reads from the record can be executed: each row that any slot of the
\* plan relies on is there, even if a later prepare with other inputs was cut off.
PlanIsGrounded ==
    meta.known =>
        \A s \in RunScenarios, i \in Pool :
            HasSlots(s, meta.n, meta.h) => Grounds(s, meta, i) \subseteq DOMAIN db

\* A statement of some slot of the plan has the row refer to the parent.
RefersUnder(in, row, parent) ==
    \E s \in Registry, i \in Pool :
        /\ HasSlots(s, in.n, in.h)
        /\ \E st \in Range(StepsOf(s, in.n, in.h, i)) : st.row = row /\ parent \in st.refs

\* Rows that refer to one that the slot deletes, and that no slot of the plan has refer
\* to it: a run under another number of parents has left them.
Leftovers(in, s, i) ==
    {row \in DOMAIN db : \E st \in Range(StepsOf(s, in.n, in.h, i)) :
        st.op = "delete" /\ st.row \in db[row] /\ ~RefersUnder(in, row, st.row)}

\* An execution under the recorded inputs is never in its own way or in that of another
\* slot, whatever prepares and runs of other sizes were cut off before it: all that can
\* stop it is a DELETE refused because of a row that a run of another plan has left.
RunsFailOnLeftovers ==
    [][(plan = meta /\ failure = "none" /\ failure' # "none") =>
         \A s \in RunScenarios, i \in Pool : ExecuteScenario(s, i) =>
            failure' = "referenced" /\ Leftovers(plan, s, i) # {}]_vars

SlotWrites(s, in, i) == {st.row : st \in Range(StepsOf(s, in.n, in.h, i))}
SlotRefers(s, in, i) == UNION {st.refs : st \in Range(StepsOf(s, in.n, in.h, i))}

\* Two executions in different slots never wait for each other's rows: no row that
\* one writes is written or referred to by the other, so that all they can share
\* are parents that no success scenario ever writes.
SlotsApart(in) ==
    \A s, t \in RunScenarios \cap SuccessScenarios : \A i, j \in Pool :
        (<<s, i>> # <<t, j>> /\ HasSlots(s, in.n, in.h) /\ HasSlots(t, in.n, in.h))
          => SlotWrites(s, in, i) \cap (SlotWrites(t, in, j) \cup SlotRefers(t, in, j)) = {}

PlanSlotsApart == plan.known => SlotsApart(plan)

\* docs/runbooks/tidb-fk-test.md: "`run` always reads those seed inputs from
\* `fk_prepare_metadata`".
PlanIsRecorded == plan.known => plan = meta
=============================================================================
