--------------------------- MODULE ClusterProofs ---------------------------
(***************************************************************************)
(* Proofs about the cluster of pools, for any number of nodes: the         *)
(* inductive invariant ClusterInv, one lemma per group of actions.         *)
(***************************************************************************)
EXTENDS Cluster, TLAPS

LEMMA ClusterInvInit == Init => ClusterInv
BY NodesAssumption DEF Init, ClusterInv, TypeOK, AttemptsOK, Failover, EffectOnce,
   TransactionOK, TxAllOrNothing, OpenOK, NoPoolLeft, OpenPcs, CallPcs, TxPcs, Kinds, Refusals

\* The nodes, the context and the sweeps: a call loses the nodes that fail, and those
\* that a sweep no longer lists, from steady and listed.
LEMMA NodesKeepInv ==
    ASSUME ClusterInv, NodeStep \/ CtxDone
    PROVE  ClusterInv'
<1> USE DEF ClusterInv, OpenPcs, CallPcs, TxPcs, Kinds, Refusals
<1>1. ASSUME NEW n \in Nodes, NodeDown(n) PROVE ClusterInv'
  <2> USE <1>1 DEF NodeDown, hasqlVars, openVars, callVars
  <2>1. TypeOK'
    BY DEF TypeOK
  <2>2. AttemptsOK'
    BY DEF AttemptsOK
  <2>3. Failover' /\ EffectOnce'
    BY DEF Failover, EffectOnce
  <2>4. TransactionOK' /\ TxAllOrNothing'
    BY DEF TransactionOK, TxAllOrNothing
  <2>5. OpenOK' /\ NoPoolLeft'
    BY DEF OpenOK, NoPoolLeft
  <2> QED
    BY <2>1, <2>2, <2>3, <2>4, <2>5
<1>2. ASSUME NEW n \in Nodes, NodeUp(n) PROVE ClusterInv'
  BY <1>2 DEF NodeUp, hasqlVars, openVars, callVars, history, txVars, TypeOK, AttemptsOK,
     Failover, EffectOnce, TransactionOK, TxAllOrNothing, OpenOK, NoPoolLeft
<1>3. CASE CtxDone
  BY <1>3 DEF CtxDone, hasqlVars, openVars, callVars, history, txVars, TypeOK, AttemptsOK,
     Failover, EffectOnce, TransactionOK, TxAllOrNothing, OpenOK, NoPoolLeft
<1> QED
  BY <1>1, <1>2, <1>3 DEF NodeStep

LEMMA UpdateKeepsInv ==
    ASSUME ClusterInv, UpdateStep
    PROVE  ClusterInv'
<1> USE DEF ClusterInv, OpenPcs, CallPcs, TxPcs, Kinds, Refusals, envVars, openVars,
        callVars, txVars
<1>1. CASE StartSweep
  BY <1>1 DEF StartSweep, history, TypeOK, AttemptsOK, Failover, EffectOnce,
     TransactionOK, TxAllOrNothing, OpenOK, NoPoolLeft
<1>2. ASSUME NEW n \in Nodes, CheckNode(n) PROVE ClusterInv'
  BY <1>2 DEF CheckNode, history, TypeOK, AttemptsOK, Failover, EffectOnce,
     TransactionOK, TxAllOrNothing, OpenOK, NoPoolLeft
<1>3. CASE Publish
  <2> USE <1>3 DEF Publish
  <2>1. TypeOK'
    BY DEF TypeOK
  <2>2. AttemptsOK'
    BY DEF AttemptsOK
  <2>3. Failover' /\ EffectOnce'
    BY DEF Failover, EffectOnce
  <2>4. TransactionOK' /\ TxAllOrNothing'
    BY DEF TransactionOK, TxAllOrNothing
  <2>5. OpenOK' /\ NoPoolLeft'
    BY DEF OpenOK, NoPoolLeft
  <2> QED
    BY <2>1, <2>2, <2>3, <2>4, <2>5
<1> QED
  BY <1>1, <1>2, <1>3 DEF UpdateStep

\* Opening and closing: no call is in progress.
LEMMA OpenKeepsInv ==
    ASSUME ClusterInv, OpenStep \/ WaitExpires \/ Close
    PROVE  ClusterInv'
<1> USE DEF ClusterInv
<1>1. TypeOK'
  <2> USE DEF TypeOK, OpenPcs, OpenLeavesAlone, envVars, callVars, history, txVars, hasqlVars
  <2>1. CASE OpenWaitFails
    BY <2>1 DEF OpenWaitFails, WaitFailsWhen, CloseHasql, FailOpen, OpenOK
  <2>2. CASE Close
    BY <2>2 DEF Close, CloseHasql, openVars
  <2>3. CASE WaitExpires \/ Dialed \/ CreateCluster \/ OpenOk
    BY <2>3, ZenonT(60) DEF WaitExpires, Dialed, CreateCluster, OpenOk
  <2>4. CASE DialFails \/ PreflightFails \/ CreateFails
    BY <2>4, ZenonT(60) DEF DialFails, PreflightFails, CreateFails, FailOpen
  <2>5. ASSUME NEW n \in Nodes, DialNode(n) \/ PreflightOk(n) \/ PreflightUnreachable(n)
        PROVE  TypeOK'
    BY <2>5 DEF DialNode, PreflightOk, PreflightUnreachable
  <2> QED
    BY <2>1, <2>2, <2>3, <2>4, <2>5 DEF OpenStep
<1>2. /\ callPc = "idle" /\ txPc = "none"
      /\ OpenLeavesAlone
  BY DEF OpenStep, WaitExpires, Close, CloseHasql, OpenWaitFails, WaitFailsWhen, FailOpen,
     Dialed, CreateCluster, OpenOk, DialFails, PreflightFails, CreateFails, DialNode,
     PreflightOk, PreflightUnreachable, OpenOK
<1>3. AttemptsOK' /\ Failover' /\ EffectOnce'
  BY <1>2 DEF AttemptsOK, Failover, EffectOnce, OpenLeavesAlone, envVars, callVars, history
<1>4. TransactionOK' /\ TxAllOrNothing'
  BY <1>2 DEF OpenLeavesAlone, TransactionOK, TxAllOrNothing, txVars
<1>5. /\ openPc' = "open" => discovered' = Nodes
      /\ NoPoolLeft'
  BY DEF OpenStep, WaitExpires, Close, CloseHasql, OpenWaitFails, WaitFailsWhen, FailOpen,
     Dialed, CreateCluster, OpenOk, DialFails, PreflightFails, CreateFails, DialNode,
     PreflightOk, PreflightUnreachable, OpenLeavesAlone, hasqlVars, OpenOK, NoPoolLeft, TypeOK
<1> QED
  BY <1>1, <1>2, <1>3, <1>4, <1>5 DEF OpenOK, OpenLeavesAlone, callVars, txVars

\* The routed calls.
LEMMA CallKeepsInv ==
    ASSUME ClusterInv, CallStep \/ \E k \in Kinds : StartCall(k)
    PROVE  ClusterInv'
<1> USE NodesAssumption DEF ClusterInv
<1>1. TypeOK' /\ AttemptsOK' /\ Failover' /\ EffectOnce'
  <2> USE DEF TypeOK, AttemptsOK, Failover, EffectOnce, CallPcs, Refusals, EndCall,
          CallLeavesAlone, hasqlVars, openVars, history
  <2>1. ASSUME NEW k \in Kinds, StartCall(k)
        PROVE  TypeOK' /\ AttemptsOK' /\ Failover' /\ EffectOnce'
    BY <2>1 DEF StartCall, Kinds
  <2>2. CASE PickFirst
    BY <2>2 DEF PickFirst, PickFirstOr, txVars
  <2>3. CASE WaitForNodeOk
    BY <2>3 DEF WaitForNodeOk, txVars
  <2>4. CASE WaitForNodeFails
    BY <2>4 DEF WaitForNodeFails, WaitForNodeFailsWhen, txVars
  <2>5. CASE Iterate
    BY <2>5 DEF Iterate, txVars
  <2>6. ASSUME NEW n \in Nodes, Send(n) PROVE TypeOK' /\ AttemptsOK' /\ Failover' /\ EffectOnce'
    BY <2>6 DEF Send, Candidates, txVars
  <2>7. CASE TakesEffect
    BY <2>7 DEF TakesEffect, txVars
  <2>8. CASE AnswerOk
    BY <2>8 DEF AnswerOk, AnswerOkThen, txVars, TxPcs, Statements
  <2>9. CASE AnswerError
    BY <2>9 DEF AnswerError, AnswerErrorThen, AnswerFails, Refuses, txVars
  <2> HIDE DEF TypeOK, AttemptsOK, Failover, EffectOnce, EndCall
  <2> QED
    BY <2>1, <2>2, <2>3, <2>4, <2>5, <2>6, <2>7, <2>8, <2>9 DEF CallStep
<1>2. TransactionOK' /\ TxAllOrNothing' /\ OpenOK' /\ NoPoolLeft'
  <2> USE DEF TransactionOK, TxAllOrNothing, OpenOK, NoPoolLeft, CallLeavesAlone,
          hasqlVars, openVars, txVars
  <2>1. ASSUME NEW k \in Kinds, StartCall(k)
        PROVE  TransactionOK' /\ TxAllOrNothing' /\ OpenOK' /\ NoPoolLeft'
    BY <2>1 DEF StartCall
  <2>2. CASE AnswerOk
    BY <2>2 DEF AnswerOk, AnswerOkThen
  <2>3. ASSUME CallStep, ~AnswerOk
        PROVE  UNCHANGED <<openPc, pools, discovered, txVars>> /\ callPc # "idle"
    BY <2>3 DEF CallStep, PickFirst, PickFirstOr, WaitForNodeOk, WaitForNodeFails,
       WaitForNodeFailsWhen, Iterate, Send, TakesEffect, AnswerError, AnswerErrorThen, AnswerFails
  <2> QED
    BY <2>1, <2>2, <2>3
<1> QED
  BY <1>1, <1>2

\* The transaction, bound to its session.
LEMMA TxKeepsInv ==
    ASSUME ClusterInv, TxStep
    PROVE  ClusterInv'
<1> USE DEF ClusterInv
<1>1. TxLeavesAlone
  BY DEF TxStep, TxStatementFails, Rollback, CommitTakesEffect, CommitAnswered, TxStatementOk
<1>2. AttemptsOK' /\ Failover' /\ EffectOnce' /\ NoPoolLeft'
  BY <1>1 DEF TxLeavesAlone, envVars, hasqlVars, openVars, callVars, history, AttemptsOK, Failover,
     EffectOnce, NoPoolLeft
<1>3. txPc # "none"
  BY DEF TxStep, TxStatementFails, Rollback, CommitTakesEffect, CommitAnswered, TxStatementOk
<1>4. OpenOK'
  BY <1>1, <1>3 DEF TxLeavesAlone, hasqlVars, openVars, callVars, OpenOK
<1>5. TypeOK' /\ TransactionOK' /\ TxAllOrNothing'
  <2> USE <1>1 DEF TxLeavesAlone, envVars, hasqlVars, openVars, callVars, history,
          TypeOK, TxPcs, TransactionOK, TxAllOrNothing, EndTx
  <2>1. ASSUME NEW st \in Statements, TxStatementOk(st)
        PROVE  TypeOK' /\ TransactionOK' /\ TxAllOrNothing'
    BY <2>1 DEF TxStatementOk
  <2>2. CASE TxStatementFails
    BY <2>2 DEF TxStatementFails
  <2>3. CASE Rollback
    BY <2>3 DEF Rollback
  <2>4. CASE CommitTakesEffect
    BY <2>4 DEF CommitTakesEffect
  <2>5. CASE CommitAnswered
    BY <2>5 DEF CommitAnswered
  <2> QED
    BY <2>1, <2>2, <2>3, <2>4, <2>5 DEF TxStep
<1> QED
  BY <1>2, <1>4, <1>5

LEMMA ClusterInvStep == ClusterInv /\ [Next]_vars => ClusterInv'
<1> SUFFICES ASSUME ClusterInv, [Next]_vars PROVE ClusterInv'
  OBVIOUS
<1>1. CASE UNCHANGED vars
  BY <1>1 DEF vars, envVars, hasqlVars, openVars, callVars, history, txVars, ClusterInv,
     TypeOK, AttemptsOK, Failover, EffectOnce, TransactionOK, TxAllOrNothing, OpenOK, NoPoolLeft
<1> QED
  BY <1>1, NodesKeepInv, UpdateKeepsInv, OpenKeepsInv, CallKeepsInv, TxKeepsInv
     DEF Next, Ended

\* The invariant behind the properties of the cluster.
THEOREM ClusterInvariance == Spec => []ClusterInv
BY ClusterInvInit, ClusterInvStep, PTL DEF Spec

\* The sets of nodes and pools, the states of open, call and transaction: what each action
\* of cluster.go leaves them in, a first node whenever a call is on its way to one.
THEOREM ClusterTypeCorrect == Spec => []TypeOK
<1>1. ClusterInv => TypeOK
  BY DEF ClusterInv
<1> QED
  BY <1>1, ClusterInvariance, PTL

\* For any number of nodes, however they come and go while a call goes round: it fails
\* for want of a node only if none has been up and listed all along.
THEOREM CallsFailOver == Spec => []Failover
<1>1. ClusterInv => Failover
  BY DEF ClusterInv
<1> QED
  BY <1>1, ClusterInvariance, PTL

\* A statement is not sent to a second node while the first that executed it stands.
THEOREM EffectsAreNotRepeated == Spec => []EffectOnce
<1>1. ClusterInv => EffectOnce
  BY DEF ClusterInv
<1> QED
  BY <1>1, ClusterInvariance, PTL

\* A transaction is durable as a whole or not at all, for any number of statements.
THEOREM TransactionsAreWhole == Spec => []TxAllOrNothing
<1>1. ClusterInv => TxAllOrNothing
  BY DEF ClusterInv
<1> QED
  BY <1>1, ClusterInvariance, PTL

\* A failed open, at whatever point, and Close leave no pool open.
THEOREM PoolsAreClosed == Spec => []NoPoolLeft
<1>1. ClusterInv => NoPoolLeft
  BY DEF ClusterInv
<1> QED
  BY <1>1, ClusterInvariance, PTL
=============================================================================
