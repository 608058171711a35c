-------------------------- MODULE RunCommandProofs --------------------------
(***************************************************************************)
(* Proofs about the run command, on top of the engine's invariant.         *)
(***************************************************************************)
EXTENDS RunCommand, EngineProofs

\* Where the command is, and what it has read and printed by then.  From the
\* print on, the engine has returned, so that its counters stand still.
PrintedOK ==
    /\ cmdPc \in Stages \cup {"workload"} => printed = {}
    /\ cmdPc \in {"print"} \cup Checks => mainPc = "returned"
    /\ printed # {} => mainPc = "returned"
    /\ cmdPc = "print" => runSummary = totals /\ "run summary" \notin printed
    /\ cmdPc \in Checks => "run summary" \in printed
    /\ cmdPc # "exited" => "checker summary" \notin printed
    /\ "checker summary" \in printed => "run summary" \in printed
    /\ "run summary" \in printed =>
         runSummary = totals /\ runRows = stats /\ checkerTotals = totals

\* The result of engine.Run decides which context the checker is given, and what the
\* command may end with.
FinalChecksOK ==
    /\ cmdPc \in Stages => mainPc = "start"
    /\ cmdPc = "print" => printed = IF runResult = "canceled" THEN {"notice"} ELSE {}
    /\ (cmdPc \in Checks /\ runResult = "canceled") =>
         finalCtx = "finalize" /\ printed = {"notice", "run summary"}
    /\ InterruptedRunChecked

CmdInv ==
    /\ EngineInv
    /\ CmdTypeOK
    /\ PrintedOK
    /\ FinalChecksOK
    /\ ExitZeroMeansChecked

\* For the engine, a step of the command is a step of its own or a stutter; beside
\* the command's own steps only the finalize timeout changes a variable of its.
LEMMA CommandEngineStep ==
    ASSUME [CmdNext]_allVars
    PROVE  /\ [Next]_vars
           /\ \/ CommandStep /\ UNCHANGED <<vars, finalExpired>>
              \/ /\ UNCHANGED <<cmdPc, exit, printed, runSummary, runRows,
                                checkerTotals, finalCtx, checkErr>>
                 /\ finalExpired' \in {finalExpired, TRUE}
                 /\ cmdPc \in Stages \cup {"exited"} => UNCHANGED <<mainPc, runResult>>
<1>1. CASE CommandStep
  BY <1>1 DEF CommandStep, StageOk, StageFails, RunRefused, Summarize, PrintThenCheck,
              PrintThenCheckWith, OrphanCheckOk, CascadeCheckOk, CheckFails,
              CheckErrorEndsWith
<1>2. CASE EngineStep
  <2>1. UNCHANGED cmdVars /\ cmdPc \notin Stages \cup {"exited"}
    BY <1>2 DEF EngineStep, InRun, Beside, Stages
  <2>2. Next
    BY <1>2 DEF EngineStep, InRun, Beside, Next, Environment
  <2> QED
    BY <2>1, <2>2 DEF cmdVars
<1>3. CASE UserInterrupt
  BY <1>3 DEF UserInterrupt, Interrupt, Next, Environment, cmdVars, mainVars
<1>4. CASE FinalizeExpires
  BY <1>4 DEF FinalizeExpires, vars, mainVars
<1>5. CASE UNCHANGED allVars
  BY <1>5 DEF allVars, cmdVars, vars, mainVars
<1> QED
  BY <1>1, <1>2, <1>3, <1>4, <1>5 DEF CmdNext, Exited

\* What the engine does beside the command leaves the counters and the result alone
\* once Run has returned.
LEMMA PrintedBeside ==
    ASSUME CmdInv, [Next]_vars,
           UNCHANGED <<cmdPc, exit, printed, runSummary, runRows, checkerTotals,
                       finalCtx, checkErr>>,
           finalExpired' \in {finalExpired, TRUE},
           cmdPc \in Stages \cup {"exited"} => UNCHANGED <<mainPc, runResult>>
    PROVE  PrintedOK' /\ FinalChecksOK' /\ ExitZeroMeansChecked'
<1>1. ExitZeroMeansChecked'
  BY DEF CmdInv, ExitZeroMeansChecked
<1>2. CASE mainPc = "returned"
  <2>1. UNCHANGED <<mainPc, runResult, totals, stats>>
    BY <1>2, SilentStep DEF CmdInv, mainVars, summaryVars
  <2>2. PrintedOK'
    BY <2>1 DEF CmdInv, PrintedOK
  <2>3. FinalChecksOK'
    BY <2>1 DEF CmdInv, CmdTypeOK, FinalChecksOK, InterruptedRunChecked
  <2> QED
    BY <1>1, <2>2, <2>3
<1>3. CASE mainPc # "returned"
  <2>1. PrintedOK'
    BY <1>3 DEF CmdInv, PrintedOK
  <2>2. FinalChecksOK'
    BY <1>3 DEF CmdInv, CmdTypeOK, PrintedOK, FinalChecksOK, InterruptedRunChecked
  <2> QED
    BY <1>1, <2>1, <2>2
<1> QED
  BY <1>2, <1>3

LEMMA PrintedCommand ==
    ASSUME CmdInv, CommandStep, UNCHANGED <<vars, finalExpired>>
    PROVE  PrintedOK' /\ FinalChecksOK' /\ ExitZeroMeansChecked'
<1> USE DEF CmdInv, PrintedOK, FinalChecksOK, InterruptedRunChecked,
        ExitZeroMeansChecked, Stages, Checks
<1>0. UNCHANGED <<mainPc, runResult, totals, stats, finalExpired>>
  BY DEF vars, mainVars, summaryVars
<1>1. mainPc = "start" => runResult = "none"
  BY DEF EngineInv, PhasesOK
<1>2. CASE StageOk
  BY <1>0, <1>1, <1>2 DEF StageOk, StageAfter
<1>3. CASE StageFails
  BY <1>0, <1>1, <1>3 DEF StageFails
<1>4. CASE RunRefused
  BY <1>0, <1>4 DEF RunRefused
<1>5. CASE Summarize
  <2>1. mainPc = "returned"
    BY <1>5 DEF Summarize, EngineInv, PhasesOK
  <2> QED
    BY <1>0, <1>5, <2>1 DEF Summarize
<1>6. CASE PrintThenCheck
  BY <1>0, <1>6 DEF PrintThenCheck, PrintThenCheckWith
<1>7. CASE OrphanCheckOk
  BY <1>0, <1>7 DEF OrphanCheckOk
<1>8. CASE CascadeCheckOk
  BY <1>0, <1>8 DEF CascadeCheckOk
<1>9. CASE CheckFails
  <2>1. cmdPc' = "exited" /\ exit' = "failed" /\ printed' = printed /\ cmdPc \in Checks
    BY <1>9 DEF CheckFails, CheckErrorEndsWith
  <2>2. finalCtx = "finalize" => finalExpired = TRUE \/ checkErr' = "database"
    BY <1>9 DEF CheckFails, CheckErrorEndsWith, FinalCtxLive, CmdTypeOK
  <2>3. runResult' = "canceled" => finalExpired' = TRUE \/ checkErr' = "database"
    <3>1. runResult' = "canceled" => finalCtx = "finalize"
      BY <1>0, <2>1
    <3>2. finalExpired' = finalExpired
      BY <1>0
    <3> QED
      BY <2>2, <3>1, <3>2
  <2>4. PrintedOK' /\ ExitZeroMeansChecked'
    BY <1>0, <1>9 DEF CheckFails, CheckErrorEndsWith
  <2> QED
    BY <2>1, <2>3, <2>4
<1> QED
  BY <1>2, <1>3, <1>4, <1>5, <1>6, <1>7, <1>8, <1>9 DEF CommandStep

\* The command's own variables keep their types.
LEMMA CmdTypeStep ==
    ASSUME CmdTypeOK, TypeOK', [CmdNext]_allVars
    PROVE  CmdTypeOK'
<1>1. CASE CommandStep
  <2> USE DEF CmdTypeOK, TypeOK, Stages, Checks
  <2>1. CASE StageOk \/ StageFails \/ RunRefused
    BY <2>1 DEF StageOk, StageFails, RunRefused, StageAfter
  <2>2. CASE Summarize
    BY <2>2 DEF Summarize
  <2>3. CASE PrintThenCheck
    BY <2>3 DEF PrintThenCheck, PrintThenCheckWith
  <2>4. CASE OrphanCheckOk \/ CascadeCheckOk \/ CheckFails
    BY <2>4 DEF OrphanCheckOk, CascadeCheckOk, CheckFails, CheckErrorEndsWith
  <2> QED
    BY <1>1, <2>1, <2>2, <2>3, <2>4 DEF CommandStep
<1>2. CASE UNCHANGED <<cmdPc, exit, printed, runSummary, runRows,
                       checkerTotals, finalCtx, checkErr>>
           /\ finalExpired' \in {finalExpired, TRUE}
  BY <1>2 DEF CmdTypeOK
<1> QED
  BY <1>1, <1>2, CommandEngineStep

LEMMA CmdInvInit == CmdInit => CmdInv
<1> SUFFICES ASSUME CmdInit PROVE CmdInv
  OBVIOUS
<1>1. EngineInv
  BY InvInit DEF CmdInit
<1>2. cmdPc = "log" /\ printed = {} /\ mainPc = "start"
  BY DEF CmdInit, Init
<1>3. CmdTypeOK
  BY <1>1 DEF CmdInit, CmdTypeOK, EngineInv, Stages, Zero, Columns
<1> QED
  BY <1>1, <1>2, <1>3 DEF CmdInv, PrintedOK, FinalChecksOK, InterruptedRunChecked,
     ExitZeroMeansChecked, Stages, Checks

LEMMA CmdInvStep == CmdInv /\ [CmdNext]_allVars => CmdInv'
<1> SUFFICES ASSUME CmdInv, [CmdNext]_allVars PROVE CmdInv'
  OBVIOUS
<1>1. EngineInv'
  BY CommandEngineStep, InvStep DEF CmdInv
<1>2. CmdTypeOK'
  BY <1>1, CmdTypeStep DEF CmdInv, EngineInv
<1>3. PrintedOK' /\ FinalChecksOK' /\ ExitZeroMeansChecked'
  BY CommandEngineStep, PrintedCommand, PrintedBeside
<1> QED
  BY <1>1, <1>2, <1>3 DEF CmdInv

\* Behind the command's properties.
THEOREM CommandInvariance == CmdSpec => []CmdInv
BY CmdInvInit, CmdInvStep, PTL DEF CmdSpec

\* The three unlocked reads of the counters show one state, the final one, for any
\* number of workers and whatever is interrupted when.
THEOREM SummariesShowOneState == CmdSpec => []SummariesAgree
<1>1. CmdInv => SummariesAgree
  BY DEF CmdInv, PrintedOK, SummariesAgree
<1> QED
  BY <1>1, CommandInvariance, PTL

\* Exit status 0 is that of a command that has printed both summaries.
THEOREM ExitZeroIsChecked == CmdSpec => []ExitZeroMeansChecked
<1>1. CmdInv => ExitZeroMeansChecked
  BY DEF CmdInv
<1> QED
  BY <1>1, CommandInvariance, PTL

\* A run interrupted at any point ends with its partial summary and the checker's,
\* unless the finalize timeout or the database forbids, for any number of workers.
THEOREM InterruptedRunIsChecked == CmdSpec => []InterruptedRunChecked
<1>1. CmdInv => InterruptedRunChecked
  BY DEF CmdInv, FinalChecksOK
<1> QED
  BY <1>1, CommandInvariance, PTL

\* Every variable of the command and of the engine under it keeps its type.
THEOREM CommandTypeCorrect == CmdSpec => []CmdTypeOK
<1>1. CmdInv => CmdTypeOK
  BY DEF CmdInv
<1> QED
  BY <1>1, CommandInvariance, PTL
=============================================================================
