------------------------------ MODULE Cluster ------------------------------
(***************************************************************************)
(* The pools of connections to the TiDB nodes and the routing of calls to  *)
(* them (src/internal/db/cluster.go): openCluster, the three calls of a    *)
(* Session that are routed, the transactions that are not, and Close.      *)
(* hasql's background update, which publishes the set of alive nodes, and  *)
(* database/sql under it are external.                                     *)
(*                                                                         *)
(* One caller is modelled.  A Cluster keeps no state between or about its  *)
(* calls, so that another caller is no more than the nodes' coming and     *)
(* going, which may happen at any step here.                               *)
(***************************************************************************)
EXTENDS Integers

CONSTANTS
    Nodes,        \* the DSNs that normalizeDSNs keeps; each has one pool
    NoNode,
    MaxStatements \* bound: the statements of a transaction

ASSUME NodesAssumption == NoNode \notin Nodes
ASSUME StatementsAssumption == MaxStatements \in Nat

Kinds == {"begin", "exec", "query"}
Statements == 1 .. MaxStatements

VARIABLES
    \* the nodes, and the context of the call in progress
    up,         \* the nodes that answer, and do so within a check's timeout
    ctxDone,
    \* hasql
    sweep,      \* "off", "idle", or "checking" all nodes at once
    checked,    \* the nodes whose check in this sweep has ended
    passed,     \* those of them that passed
    known,      \* the alive nodes of the last sweep that was published
    discovered, \* the nodes that a published sweep has handed to the cluster
    \* openCluster and Close
    openPc,
    pools,      \* the sql.DBs that are open
    preflighted,
    waitExpired, \* StartupWait is over
    \* the call in progress, or the last one
    callPc,
    kind,
    refusable,  \* the database refuses the statement, or refuses it a second time
    first,      \* the node that the call has chosen to begin with
    rest,       \* the candidates that it has not asked yet
    at,         \* the node it is asking
    applied,    \* the nodes on which its statement has taken effect
    result,
    \* history of a call that has not succeeded: the nodes that have not failed, and
    \* those that every published sweep has listed, since it began
    steady,
    listed,
    \* the transaction that BeginTx has returned
    txPc,
    txNode,
    session,    \* the connection it is bound to is alive
    acked,      \* the statements that the caller has been told were executed
    kept,       \* the statements that the session holds
    durable     \* the statements that the database has made durable

envVars == <<up, ctxDone>>
hasqlVars == <<sweep, checked, passed, known, discovered>>
openVars == <<openPc, pools, preflighted, waitExpired>>
callVars == <<callPc, kind, refusable, first, rest, at, applied, result>>
history == <<steady, listed>>
txVars == <<txPc, txNode, session, acked, kept, durable>>
vars == <<envVars, hasqlVars, openVars, callVars, history, txVars>>

OpenPcs == {"dial", "preflight", "create", "wait", "open", "failed", "closed"}
CallPcs == {"idle", "pick", "wait", "iterate", "try", "sent"}
TxPcs == {"none", "open", "committing", "failed"}
\* Why a statement that reaches a live node is refused: never, always (the error
\* is the statement's own), or when it has taken effect before.
Refusals == {"never", "always", "repeated"}

TypeOK ==
    /\ up \subseteq Nodes /\ ctxDone \in BOOLEAN
    /\ sweep \in {"off", "idle", "checking"}
    /\ checked \subseteq Nodes /\ passed \subseteq checked
    /\ known \subseteq discovered /\ discovered \in {{}, Nodes}
    /\ openPc \in OpenPcs
    /\ pools \subseteq Nodes /\ preflighted \subseteq Nodes
    /\ waitExpired \in BOOLEAN
    /\ callPc \in CallPcs /\ kind \in Kinds /\ refusable \in Refusals
    /\ first \in Nodes \cup {NoNode} /\ at \in Nodes \cup {NoNode}
    /\ callPc \in {"iterate", "try", "sent"} => first \in Nodes
    /\ rest \subseteq Nodes /\ applied \subseteq Nodes
    /\ result \in {"none", "ok", "failed"}
    /\ steady \subseteq up /\ listed \subseteq Nodes
    /\ txPc \in TxPcs /\ txNode \in Nodes \cup {NoNode} /\ session \in BOOLEAN
    /\ acked \subseteq Statements /\ kept \subseteq Statements
    /\ durable \subseteq Statements

Init ==
    /\ up \in SUBSET Nodes /\ ctxDone = FALSE
    /\ sweep = "off" /\ checked = {} /\ passed = {} /\ known = {} /\ discovered = {}
    /\ openPc = "dial" /\ pools = {} /\ preflighted = {} /\ waitExpired = FALSE
    /\ callPc = "idle" /\ kind = "query" /\ refusable = "never"
    /\ first = NoNode /\ rest = {} /\ at = NoNode /\ applied = {} /\ result = "none"
    /\ steady = {} /\ listed = {}
    /\ txPc = "none" /\ txNode = NoNode /\ session = FALSE
    /\ acked = {} /\ kept = {} /\ durable = {}

-----------------------------------------------------------------------------
(* The nodes and the context.                                              *)

\* A node that goes down takes the sessions on it along.
NodeDown(n) ==
    /\ n \in up
    /\ up' = up \ {n}
    /\ steady' = steady \ {n}
    /\ session' = (session /\ txNode # n)
    /\ kept' = IF txNode = n THEN {} ELSE kept
    /\ UNCHANGED <<ctxDone, hasqlVars, openVars, callVars, listed,
                   txPc, txNode, acked, durable>>

NodeUp(n) ==
    /\ n \in Nodes \ up
    /\ up' = up \cup {n}
    /\ UNCHANGED <<ctxDone, hasqlVars, openVars, callVars, history, txVars>>

CtxDone ==
    /\ ~ctxDone
    /\ ctxDone' = TRUE
    /\ UNCHANGED <<up, hasqlVars, openVars, callVars, history, txVars>>

-----------------------------------------------------------------------------
(* hasql: every UpdateInterval all nodes are checked with tidbChecker.     *)

StartSweep ==
    /\ sweep = "idle"
    /\ sweep' = "checking"
    /\ UNCHANGED <<envVars, checked, passed, known, discovered, openVars, callVars,
                   history, txVars>>

\* tidbChecker: SELECT 1, with UpdateTimeout.
CheckNode(n) ==
    /\ sweep = "checking"
    /\ n \in Nodes \ checked
    /\ checked' = checked \cup {n}
    /\ passed' = IF n \in up THEN passed \cup {n} ELSE passed
    /\ UNCHANGED <<envVars, sweep, known, discovered, openVars, callVars, history, txVars>>

Publish ==
    /\ sweep = "checking"
    /\ checked = Nodes
    /\ known' = passed
    /\ listed' = listed \cap passed
    /\ discovered' = Nodes
    /\ sweep' = "idle"
    /\ checked' = {}
    /\ passed' = {}
    /\ UNCHANGED <<envVars, openVars, callVars, steady, txVars>>

UpdateStep == StartSweep \/ Publish \/ \E n \in Nodes : CheckNode(n)

-----------------------------------------------------------------------------
(* openCluster and Close.                                                  *)

OpenLeavesAlone == UNCHANGED <<envVars, callVars, history, txVars>>

DialNode(n) ==
    /\ openPc = "dial"
    /\ n \in Nodes \ pools
    /\ pools' = pools \cup {n}
    /\ OpenLeavesAlone
    /\ UNCHANGED <<openPc, preflighted, waitExpired, hasqlVars>>

Dialed ==
    /\ openPc = "dial"
    /\ Nodes # {} /\ pools = Nodes
    /\ openPc' = "preflight"
    /\ OpenLeavesAlone
    /\ UNCHANGED <<pools, preflighted, waitExpired, hasqlVars>>

\* Every error of openCluster closes the pools that are open by then.
FailOpen ==
    /\ openPc' = "failed"
    /\ pools' = {}
    /\ preflighted' = {} /\ waitExpired' = FALSE
    /\ OpenLeavesAlone

\* No DSN is left, the driver is not registered, or sql.Open finds a DSN malformed.
DialFails == openPc = "dial" /\ FailOpen /\ UNCHANGED hasqlVars

\* preflightCluster asks one pool after the other, each for a second at most.
PreflightOk(n) ==
    /\ openPc = "preflight"
    /\ n \in (Nodes \ preflighted) \cap up
    /\ ~ctxDone
    /\ openPc' = "create"
    /\ preflighted' = {}
    /\ OpenLeavesAlone
    /\ UNCHANGED <<pools, waitExpired, hasqlVars>>

PreflightUnreachable(n) ==
    /\ openPc = "preflight"
    /\ n \in Nodes \ preflighted
    /\ n \notin up \/ ctxDone
    /\ preflighted' = preflighted \cup {n}
    /\ OpenLeavesAlone
    /\ UNCHANGED <<openPc, pools, waitExpired, hasqlVars>>

PreflightFails ==
    /\ openPc = "preflight"
    /\ preflighted = Nodes
    /\ FailOpen
    /\ UNCHANGED hasqlVars

\* NewCluster starts the background update and does not wait for it.
CreateCluster ==
    /\ openPc = "create"
    /\ openPc' = "wait"
    /\ sweep' = "idle"
    /\ OpenLeavesAlone
    /\ UNCHANGED <<pools, preflighted, waitExpired, checked, passed, known, discovered>>

CreateFails == openPc = "create" /\ FailOpen /\ UNCHANGED hasqlVars

WaitExpires ==
    /\ openPc = "wait"
    /\ ~waitExpired
    /\ waitExpired' = TRUE
    /\ OpenLeavesAlone
    /\ UNCHANGED <<openPc, pools, preflighted, hasqlVars>>

OpenOk ==
    /\ openPc = "wait"
    /\ known # {}
    /\ openPc' = "open"
    /\ waitExpired' = FALSE
    /\ OpenLeavesAlone
    /\ UNCHANGED <<pools, preflighted, hasqlVars>>

\* hasql's Close stops the update and closes the pools of the nodes it has
\* discovered: none, before the first sweep is published.
CloseHasql ==
    /\ sweep' = "off"
    /\ checked' = {} /\ passed' = {}
    /\ known' = {} /\ discovered' = {}

WaitFailsWhen(expired) ==
    /\ openPc = "wait"
    /\ expired
    /\ CloseHasql
    /\ FailOpen

\* Faulty variant: the wait for the first sweep is given ctx, not waitCtx.
OpenWaitForgetsTimeout == WaitFailsWhen(ctxDone)

\* Faulty variant: the pools are left to hasql's Close.
OpenWaitLeavesPools ==
    /\ openPc = "wait"
    /\ waitExpired \/ ctxDone
    /\ CloseHasql
    /\ openPc' = "failed"
    /\ pools' = pools \ discovered
    /\ preflighted' = {} /\ waitExpired' = FALSE
    /\ OpenLeavesAlone

\* errors.Join(err, cl.Close(), closeAllDBs(openedDBs))
OpenWaitFails == WaitFailsWhen(waitExpired \/ ctxDone)

\* Cluster.Close, which the commands defer.
Close ==
    /\ openPc = "open"
    /\ callPc = "idle" /\ txPc = "none"
    /\ openPc' = "closed"
    /\ pools' = pools \ discovered
    /\ CloseHasql
    /\ OpenLeavesAlone
    /\ UNCHANGED <<preflighted, waitExpired>>

OpenStep == \/ Dialed \/ DialFails \/ PreflightFails
            \/ \E n \in Nodes : DialNode(n) \/ PreflightOk(n) \/ PreflightUnreachable(n)
            \/ CreateCluster \/ CreateFails \/ OpenOk \/ OpenWaitFails

-----------------------------------------------------------------------------
(* BeginTx, ExecContext and QueryRowContext with its Scan.                 *)

CallLeavesAlone == UNCHANGED <<up, hasqlVars, openVars>>

\* Each call brings a context, which may be done already.
StartCall(k) ==
    /\ openPc = "open"
    /\ callPc = "idle" /\ txPc = "none"
    /\ callPc' = "pick"
    /\ kind' = k
    /\ refusable' \in (IF k = "exec" THEN Refusals ELSE {"never", "always"})
    /\ ctxDone' \in BOOLEAN
    /\ first' = NoNode /\ rest' = {} /\ at' = NoNode
    /\ applied' = {} /\ result' = "none"
    /\ steady' = up /\ listed' = known
    /\ acked' = {} /\ durable' = {}
    /\ CallLeavesAlone
    /\ UNCHANGED <<txPc, txNode, session, kept>>

\* The locals of the call are gone.
EndCall(answer) ==
    /\ callPc' = "idle" /\ result' = answer
    /\ first' = NoNode /\ rest' = {} /\ at' = NoNode /\ applied' = {}
    /\ IF answer = "failed" THEN UNCHANGED history ELSE steady' = {} /\ listed' = {}

PickFirstOr(pc) ==
    /\ callPc = "pick"
    /\ IF known = {} THEN callPc' = pc /\ UNCHANGED first
       ELSE callPc' = "iterate" /\ first' \in known
    /\ CallLeavesAlone
    /\ UNCHANGED <<ctxDone, kind, refusable, rest, at, applied, result, history, txVars>>

\* Faulty variant: the nil that Node returns when no node is alive is not handled.
PickFirstUnguarded == PickFirstOr("iterate")

\* candidateNodes: the set of alive nodes is read for the first candidate ...
PickFirst == PickFirstOr("wait")

WaitForNodeOk ==
    /\ callPc = "wait"
    /\ first' \in known
    /\ callPc' = "iterate"
    /\ CallLeavesAlone
    /\ UNCHANGED <<ctxDone, kind, refusable, rest, at, applied, result, history, txVars>>

WaitForNodeFailsWhen(over) ==
    /\ callPc = "wait"
    /\ over
    /\ EndCall("failed")
    /\ CallLeavesAlone
    /\ UNCHANGED <<ctxDone, kind, refusable, txVars>>

\* Faulty variant: WaitForNode is given a context of its own.
WaitForNodeForgetsCtx == WaitForNodeFailsWhen(FALSE)

\* ... which is waited for without any limit but the context, ...
WaitForNodeFails == WaitForNodeFailsWhen(ctxDone)

\* ... and read once more for the others, in an order of hasql's own.
Iterate ==
    /\ callPc = "iterate"
    /\ rest' = known \ {first}
    /\ callPc' = "try"
    /\ CallLeavesAlone
    /\ UNCHANGED <<ctxDone, kind, refusable, first, at, applied, result, history, txVars>>

Candidates == IF at = NoNode THEN {first} ELSE rest

Send(n) ==
    /\ callPc = "try"
    /\ n \in Candidates
    /\ at' = n
    /\ rest' = rest \ {n}
    /\ callPc' = "sent"
    /\ CallLeavesAlone
    /\ UNCHANGED <<ctxDone, kind, refusable, first, applied, result, history, txVars>>

Refuses == refusable = "always" \/ (refusable = "repeated" /\ applied \ {at} # {})

\* A statement takes effect on a node that may fail before it has answered.
TakesEffect ==
    /\ callPc = "sent"
    /\ kind = "exec"
    /\ at \in up \ applied
    /\ ~ctxDone
    /\ ~Refuses
    /\ applied' = applied \cup {at}
    /\ CallLeavesAlone
    /\ UNCHANGED <<ctxDone, callPc, kind, refusable, first, rest, at, result, history, txVars>>

AnswerOkThen(over) ==
    /\ callPc = "sent"
    /\ at \in up
    /\ ~ctxDone
    /\ IF kind = "exec" THEN at \in applied ELSE ~Refuses
    /\ IF over THEN EndCall("ok")
       ELSE callPc' = "try" /\ UNCHANGED <<first, rest, at, applied, result, history>>
    /\ IF kind = "begin"
       THEN /\ txPc' = "open" /\ txNode' = at /\ session' = TRUE
            /\ acked' = {} /\ kept' = {} /\ durable' = {}
       ELSE UNCHANGED txVars
    /\ CallLeavesAlone
    /\ UNCHANGED <<ctxDone, kind, refusable>>

\* Faulty variant: the loop over the nodes goes on after a success.
AnswerOkGoesOn == AnswerOkThen(rest = {})

AnswerOk == AnswerOkThen(TRUE)

AnswerFails ==
    /\ callPc = "sent"
    /\ \/ at \notin up
       \/ ctxDone
       \/ Refuses /\ at \notin applied

\* The error is joined to those before; the last one ends the call.
AnswerErrorThen(over) ==
    /\ AnswerFails
    /\ IF over THEN EndCall("failed")
       ELSE callPc' = "try" /\ UNCHANGED <<first, rest, at, applied, result, history>>
    /\ CallLeavesAlone
    /\ UNCHANGED <<ctxDone, kind, refusable, txVars>>

\* Faulty variant: the first error ends the call.
AnswerErrorStops == AnswerErrorThen(TRUE)

AnswerError == AnswerErrorThen(rest = {})

CallStep == \/ PickFirst \/ WaitForNodeOk \/ WaitForNodeFails \/ Iterate
            \/ \E n \in Nodes : Send(n)
            \/ TakesEffect \/ AnswerOk \/ AnswerError

-----------------------------------------------------------------------------
(* sqlTx: every call goes to the sql.Tx, and so to one connection.         *)

TxLeavesAlone == UNCHANGED <<envVars, hasqlVars, openVars, callVars, history>>

IsNext(st) == acked = {s \in Statements : s < st}

\* Faulty variant: a statement is routed as a call of the Cluster is, to any node.
TxStatementRouted(st) ==
    /\ txPc = "open"
    /\ IsNext(st)
    /\ up # {} /\ ~ctxDone
    /\ acked' = acked \cup {st}
    /\ durable' = durable \cup {st}
    /\ TxLeavesAlone
    /\ UNCHANGED <<txPc, txNode, session, kept>>

TxStatementOk(st) ==
    /\ txPc = "open"
    /\ IsNext(st)
    /\ session /\ ~ctxDone
    /\ acked' = acked \cup {st}
    /\ kept' = kept \cup {st}
    /\ TxLeavesAlone
    /\ UNCHANGED <<txPc, txNode, session, durable>>

\* The session is lost, the context done, or the statement refused: of an error the
\* engine knows no way on but Rollback.
TxStatementFails ==
    /\ txPc = "open"
    /\ txPc' = "failed"
    /\ TxLeavesAlone
    /\ UNCHANGED <<txNode, session, acked, kept, durable>>

EndTx == /\ txPc' = "none" /\ txNode' = NoNode
         /\ session' = FALSE /\ kept' = {}

Rollback ==
    /\ txPc \in {"open", "failed"}
    /\ EndTx
    /\ TxLeavesAlone
    /\ UNCHANGED <<acked, durable>>

\* COMMIT makes durable what the session holds, on a node that may fail after.
CommitTakesEffect ==
    /\ txPc = "open"
    /\ session /\ ~ctxDone
    /\ durable' = kept
    /\ txPc' = "committing"
    /\ TxLeavesAlone
    /\ UNCHANGED <<txNode, session, acked, kept>>

\* The answer is nil, or an error if the session is lost: that it may be the one
\* or the other is for module Engine.
CommitAnswered ==
    /\ txPc = "committing"
    /\ EndTx
    /\ TxLeavesAlone
    /\ UNCHANGED <<acked, durable>>

TxStep == TxStatementFails \/ Rollback \/ CommitTakesEffect \/ CommitAnswered
          \/ \E st \in Statements : TxStatementOk(st)

-----------------------------------------------------------------------------
NodeStep == \E n \in Nodes : NodeDown(n) \/ NodeUp(n)

Ended == openPc \in {"failed", "closed"} /\ UNCHANGED vars

Next ==
    \/ NodeStep \/ CtxDone
    \/ UpdateStep \/ OpenStep \/ WaitExpires \/ Close
    \/ \E k \in Kinds : StartCall(k)
    \/ CallStep \/ TxStep
    \/ Ended

\* Go runs the goroutines that can run and fires the timers; a node that is up
\* answers, and a connection to one that is down fails.  Nothing makes a node stay
\* up or come back, a context end, or a caller call.
Fairness ==
    /\ WF_vars(UpdateStep)
    /\ WF_vars(OpenStep)
    /\ WF_vars(WaitExpires)
    /\ WF_vars(CallStep)

Spec == Init /\ [][Next]_vars /\ Fairness

-----------------------------------------------------------------------------
(* Properties.                                                             *)

\* Failover.  A call fails only if its context is done, the database refuses the
\* statement, or there is no node that has been up and listed as alive since the
\* call began: that the list was stale, and that it changed between its two reads,
\* may cost an attempt and never the call.
Failover ==
    (result = "failed" /\ ~ctxDone /\ refusable = "never") => steady \cap listed = {}

\* A statement sent outside a transaction takes effect on a second node only if
\* the node that had it first failed before it answered.
EffectOnce == at \in applied => applied \cap steady \subseteq {at}

\* Nothing of a transaction is durable before COMMIT, and then all of it that was
\* acknowledged, whichever nodes fail and come back meanwhile.
TxAllOrNothing ==
    /\ txPc \in {"open", "failed"} => durable = {}
    /\ durable \in {{}, acked}

\* An attempt to open that has failed, and a Cluster that is closed, leave no pool
\* open.  hasql closes those of its nodes only from the first sweep on.
NoPoolLeft == openPc \in {"failed", "closed"} => pools = {}

\* Opening ends, whatever the nodes do: StartupWait sees to that.
OpenEnds == <>(openPc \in {"open", "failed"})

\* A call ends if its context ever does, or some node is up for good: waiting for
\* an alive node has no other limit.
CallEnds ==
    ([](callPc # "idle" => <>(ctxDone \/ callPc = "idle"))
       \/ \E n \in Nodes : <>[](n \in up))
      => [](callPc # "idle" => <>(callPc = "idle"))
-----------------------------------------------------------------------------
(* The inductive invariant behind the safety properties.                   *)

\* A call has asked its candidates but for rest and at; those that did not answer
\* are not steady.  A statement that failed has taken effect on none that is.
AttemptsOK ==
    /\ callPc \in {"idle", "pick", "wait", "iterate"} =>
         at = NoNode /\ rest = {} /\ applied = {}
    /\ callPc \in {"pick", "wait", "iterate"} => listed \subseteq known
    /\ at \notin rest /\ applied \cap rest = {}
    /\ callPc = "try" =>
         /\ at = NoNode => steady \cap listed \subseteq rest \cup {first} /\ applied = {}
         /\ at # NoNode => rest # {}
         /\ ctxDone \/ applied \cap steady = {}
    /\ callPc = "sent" => at \in Nodes /\ (ctxDone \/ applied \cap steady \subseteq {at})
    /\ (callPc \in {"try", "sent"} /\ at # NoNode /\ ~ctxDone /\ refusable = "never") =>
         steady \cap listed \subseteq rest \cup (IF callPc = "sent" THEN {at} ELSE {})

\* What the session holds is what has been acknowledged, while there is a session.
TransactionOK ==
    /\ session => kept = acked /\ txPc # "none"
    /\ txPc = "committing" => durable = acked

\* Calls and transactions are those of an open cluster, which has published a sweep.
OpenOK ==
    /\ openPc = "open" => discovered = Nodes
    /\ callPc # "idle" \/ txPc # "none" => openPc = "open"

ClusterInv ==
    /\ TypeOK /\ AttemptsOK /\ Failover /\ EffectOnce
    /\ TransactionOK /\ TxAllOrNothing /\ OpenOK /\ NoPoolLeft
=============================================================================
