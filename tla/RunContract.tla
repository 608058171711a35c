---------------------------- MODULE RunContract ----------------------------
(***************************************************************************)
(* What a call of Engine.Run (internal/runner/engine.go) promises to       *)
(* runWorkload (cmd/tidb-fk-test/main.go), without workers, transactions,  *)
(* or tickers.  Run is refused, or it runs: while it runs, executions are  *)
(* counted one at a time, each in exactly one outcome column; then it      *)
(* returns, once, and the tally it leaves behind is final, which is why    *)
(* runWorkload may print it and hand it to the checker without a lock.     *)
(***************************************************************************)
EXTENDS Naturals

VARIABLES
    phase,      \* "idle", "running" or "returned"
    cancelled,  \* has the caller's context been cancelled?
    result,     \* what Run returned: "none" until it has
    tally       \* the counters of report.Summary

cvars == <<phase, cancelled, result, tally>>

Outcomes == {"success", "expectedFailure", "unexpectedFailure"}
Columns == Outcomes \cup {"executed"}

Init == /\ phase = "idle"
        /\ cancelled = FALSE
        /\ result = "none"
        /\ tally = [c \in Columns |-> 0]

\* The caller's context may be cancelled at any time, also after Run returned.
Cancel == /\ cancelled' = TRUE
          /\ UNCHANGED <<phase, result, tally>>

\* A negative duration is refused before anything is started.
Refuse == /\ phase = "idle"
          /\ phase' = "returned"
          /\ result' = "invalid"
          /\ UNCHANGED <<cancelled, tally>>

Begin == /\ phase = "idle"
         /\ phase' = "running"
         /\ UNCHANGED <<cancelled, result, tally>>

\* One scenario execution is counted, in one outcome column.
Count == /\ phase = "running"
         /\ \E o \in Outcomes :
              tally' = [c \in Columns |-> IF c \in {"executed", o}
                                            THEN tally[c] + 1 ELSE tally[c]]
         /\ UNCHANGED <<phase, cancelled, result>>

\* ctx.Err() is returned only if the context was cancelled.
Return == /\ phase = "running"
          /\ phase' = "returned"
          /\ \/ result' = "nil"
             \/ cancelled /\ result' = "canceled"
          /\ UNCHANGED <<cancelled, tally>>

Next == Cancel \/ Refuse \/ Begin \/ Count \/ Return

Safety == Init /\ [][Next]_cvars

\* Run does return: the caller waits for it without a timeout.
Spec == Safety /\ WF_cvars(Refuse \/ Begin) /\ WF_cvars(Return)
=============================================================================
