----------------------------- MODULE RunCommand -----------------------------
(***************************************************************************)
(* The command "tidb-fk-test run" (src/cmd/tidb-fk-test/main.go): the      *)
(* stages before the workload, the engine as the workload, the two         *)
(* summaries, the checker's queries (src/internal/checker/checker.go), and *)
(* the exit status.  The engine's variables are those of module Engine.    *)
(***************************************************************************)
EXTENDS Engine

CONSTANT
    StageFaults  \* the stages that may fail of themselves

Stages == {"log", "config", "open", "metadata", "plan", "validate"}

\* The stages that are given the command's context.
ContextStages == {"open", "metadata", "validate"}

\* The order of the stages in the RunE of newRunCommand.
StageAfter ==
    [s \in Stages |-> CASE s = "log"      -> "config"
                        [] s = "config"   -> "open"
                        [] s = "open"     -> "metadata"
                        [] s = "metadata" -> "plan"
                        [] s = "plan"     -> "validate"
                        [] s = "validate" -> "workload"]

Checks == {"orphan_child", "cascade_result"}

ASSUME StageFaultsAssumption == StageFaults \subseteq Stages

VARIABLES
    cmdPc,          \* a stage, "workload", "print", a check, or "exited"
    exit,           \* "none" until the command ends, then "ok" or "failed"
    printed,        \* what stdout shows
    runSummary,     \* the totals the Run Summary prints
    runRows,        \* the per-scenario table under them
    checkerTotals,  \* the totals the Checker Summary prints
    finalCtx,       \* the context the checker is given
    finalExpired,   \* finalizeCtx has timed out
    checkErr        \* why a query of the checker has failed, if one has

cmdVars == <<cmdPc, exit, printed, runSummary, runRows, checkerTotals,
             finalCtx, finalExpired, checkErr>>
allVars == <<vars, cmdVars>>

CmdTypeOK ==
    /\ TypeOK
    /\ cmdPc \in Stages \cup {"workload", "print", "exited"} \cup Checks
    /\ exit \in {"none", "ok", "failed"}
    /\ printed \subseteq {"notice", "run summary", "checker summary"}
    /\ runSummary \in [Columns -> Nat]
    /\ runRows \in [Scenarios -> [Columns -> Nat]]
    /\ checkerTotals \in [Columns -> Nat]
    /\ finalCtx \in {"none", "parent", "finalize"}
    /\ finalExpired \in BOOLEAN
    /\ checkErr \in {"none", "context", "database"}

CmdInit ==
    /\ Init
    /\ cmdPc = "log"
    /\ exit = "none"
    /\ printed = {}
    /\ runSummary = Zero
    /\ runRows = [s \in Scenarios |-> Zero]
    /\ checkerTotals = Zero
    /\ finalCtx = "none"
    /\ finalExpired = FALSE
    /\ checkErr = "none"

-----------------------------------------------------------------------------

\* A stage that is given a context that is done fails.
StageOk ==
    /\ cmdPc \in Stages
    /\ cmdPc \in ContextStages => ~interrupted
    /\ cmdPc' = StageAfter[cmdPc]
    /\ UNCHANGED <<vars, exit, printed, runSummary, runRows, checkerTotals,
                   finalCtx, finalExpired, checkErr>>

StageFails ==
    /\ cmdPc \in Stages
    /\ cmdPc \in StageFaults \/ (cmdPc \in ContextStages /\ interrupted)
    /\ cmdPc' = "exited"
    /\ exit' = "failed"
    /\ UNCHANGED <<vars, printed, runSummary, runRows, checkerTotals,
                   finalCtx, finalExpired, checkErr>>

\* A step of engine.Run(ctx), which runWorkload waits for.
InRun(A) == cmdPc = "workload" /\ A /\ UNCHANGED cmdVars

\* A step of a goroutine the engine started; nothing but WaitReturn keeps it from
\* running on when runWorkload is past engine.Run.
Beside(A) == cmdPc \notin Stages \cup {"exited"} /\ A /\ UNCHANGED cmdVars

EngineStep ==
    \/ InRun(MainStep)
    \/ Beside(ProgressStep) \/ Beside(TimerFires) \/ Beside(PropagateCancel)
    \/ \E w \in Workers : Beside(WorkerStep(w)) \/ Beside(CancelRollsBack(w))

\* The user may interrupt the command in any of its stages.
UserInterrupt ==
    /\ cmdPc # "exited"
    /\ Interrupt
    /\ UNCHANGED cmdVars

\* runWorkload returns any error but context.Canceled without a summary.
RunRefused ==
    /\ cmdPc = "workload"
    /\ runResult = "invalid"
    /\ cmdPc' = "exited"
    /\ exit' = "failed"
    /\ UNCHANGED <<vars, printed, runSummary, runRows, checkerTotals,
                   finalCtx, finalExpired, checkErr>>

\* BuildSnapshot reads Summary.totals, and the notice says what follows.
Summarize ==
    /\ cmdPc = "workload"
    /\ runResult \in {"nil", "canceled"}
    /\ runSummary' = totals
    /\ printed' = IF runResult = "canceled" THEN {"notice"} ELSE {}
    /\ cmdPc' = "print"
    /\ UNCHANGED <<vars, exit, runRows, checkerTotals, finalCtx, finalExpired, checkErr>>

\* printRunSummary reads Summary.Scenarios; then runFinalChecks is called with
\* ctx and checker.Run starts with a copy of Summary.totals.
PrintThenCheckWith(ctx) ==
    /\ cmdPc = "print"
    /\ runRows' = stats
    /\ printed' = printed \cup {"run summary"}
    /\ finalCtx' = ctx
    /\ checkerTotals' = totals
    /\ cmdPc' = "orphan_child"
    /\ UNCHANGED <<vars, exit, runSummary, finalExpired, checkErr>>

PrintThenCheckWithParent == PrintThenCheckWith("parent")

\* An interrupted run is checked with a context of its own.
PrintThenCheck ==
    PrintThenCheckWith(IF runResult = "canceled" THEN "finalize" ELSE "parent")

\* interruptedFinalizeTimeout.
FinalizeExpires ==
    /\ cmdPc \in Checks
    /\ finalCtx = "finalize"
    /\ ~finalExpired
    /\ finalExpired' = TRUE
    /\ UNCHANGED <<vars, cmdPc, exit, printed, runSummary, runRows,
                   checkerTotals, finalCtx, checkErr>>

FinalCtxLive == IF finalCtx = "parent" THEN ~interrupted ELSE ~finalExpired

OrphanCheckOk ==
    /\ cmdPc = "orphan_child"
    /\ FinalCtxLive
    /\ cmdPc' = "cascade_result"
    /\ UNCHANGED <<vars, exit, printed, runSummary, runRows, checkerTotals,
                   finalCtx, finalExpired, checkErr>>

\* The outcome of a check, passed or not, does not change the exit status.
CascadeCheckOk ==
    /\ cmdPc = "cascade_result"
    /\ FinalCtxLive
    /\ printed' = printed \cup {"checker summary"}
    /\ cmdPc' = "exited"
    /\ exit' = "ok"
    /\ UNCHANGED <<vars, runSummary, runRows, checkerTotals, finalCtx, finalExpired, checkErr>>

CheckErrorEndsWith(status) ==
    /\ cmdPc \in Checks
    /\ \/ ~FinalCtxLive /\ checkErr' = "context"
       \/ DbErrors # {} /\ checkErr' = "database"
    /\ cmdPc' = "exited"
    /\ exit' = status
    /\ UNCHANGED <<vars, printed, runSummary, runRows, checkerTotals,
                   finalCtx, finalExpired>>

CheckErrorSwallowed == CheckErrorEndsWith("ok")

\* runCheck's query fails: runFinalChecks returns before printCheckerSummary.
CheckFails == CheckErrorEndsWith("failed")

CommandStep == StageOk \/ StageFails \/ RunRefused \/ Summarize
               \/ PrintThenCheck \/ OrphanCheckOk \/ CascadeCheckOk \/ CheckFails

Exited == cmdPc = "exited" /\ UNCHANGED allVars

CmdNext == CommandStep \/ EngineStep \/ UserInterrupt \/ FinalizeExpires \/ Exited

\* Every stage and every query of the checker ends; the engine's fairness is
\* that of its goroutines.
CmdFairness ==
    /\ WF_allVars(CommandStep)
    /\ WF_allVars(InRun(MainStep))
    /\ WF_allVars(Beside(TimerFires))
    /\ WF_allVars(Beside(PropagateCancel))
    /\ \A w \in Workers : WF_allVars(Beside(WorkerStep(w)))
    /\ WF_allVars(Beside(TakeTick \/ EmitSnapshot \/ ProgressExit))
    /\ SF_allVars(Beside(ProgressExit))

CmdSpec == CmdInit /\ [][CmdNext]_allVars /\ CmdFairness

-----------------------------------------------------------------------------
(* Properties.                                                             *)

\* The Run Summary's totals, its table, and the Checker Summary are three reads
\* of Summary, without a lock between them; the user sees one state, the final
\* one, since all the engine's goroutines are gone before the first read.
SummariesAgree ==
    /\ "run summary" \in printed => runSummary = totals /\ runRows = stats
    /\ "checker summary" \in printed => checkerTotals = runSummary

\* An interrupted run ends as a normal one does: partial summary, then the
\* checker, exit status 0, unless the finalize timeout or the database forbids;
\* the cancelled context of the run is not what the checker is given.
InterruptedRunChecked ==
    (cmdPc = "exited" /\ runResult = "canceled" /\ checkErr # "database" /\ ~finalExpired)
      => /\ exit = "ok"
         /\ printed = {"notice", "run summary", "checker summary"}

\* Exit status 0 is given to a command that printed both summaries, and to no
\* other: an operator's script may rely on it.
ExitZeroMeansChecked ==
    cmdPc = "exited" =>
      (exit = "ok" <=> {"run summary", "checker summary"} \subseteq printed)

\* The command ends, however it is interrupted, with no engine goroutine left
\* when it closes the database.
CommandTerminates ==
    <>(cmdPc = "exited" /\ (mainPc = "start" \/ (mainPc = "returned" /\ Quiescent)))

\* README.md: "`run` prints a final `Run Summary`, then always runs checker
\* validation and prints a `Checker Summary`".
NormalRunChecked ==
    (cmdPc = "exited" /\ "run summary" \in printed /\ DbErrors = {} /\ ~finalExpired)
      => "checker summary" \in printed
=============================================================================
