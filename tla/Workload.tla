------------------------------ MODULE Workload ------------------------------
(***************************************************************************)
(* The transactions of concurrent workers on one prepared database: each   *)
(* execution takes the next slot of its scenario's pool, and its           *)
(* statements run in order in one pessimistic transaction, which waits for *)
(* row locks.  How workers choose scenarios and how outcomes are counted   *)
(* is the subject of module Engine; here any worker may take any scenario  *)
(* of its group at any time.                                               *)
(*                                                                         *)
(* A foreign-key check locks the row referred to: exclusively, or shared   *)
(* when tidb_foreign_key_check_in_shared_lock is on in the session.  An    *)
(* upgrade of one's shared lock is refused with the error that the probes  *)
(* expect.  A pooled session keeps the value it began with, so after a     *)
(* toggle without a restart sessions of both values are in use.            *)
(***************************************************************************)
EXTENDS Database

CONSTANTS
    Workers,
    Assigned,    \* the scenarios each worker may be given
    N, H,        \* the seed inputs
    SharedLocks  \* whether the sessions of each worker may have shared locks on

ASSUME WorkloadAssumption ==
    /\ Assigned \in [Workers -> SUBSET Registry]
    /\ N \in Int /\ H \in Int
    /\ SharedLocks \subseteq [Workers -> BOOLEAN]

VARIABLES
    shared,     \* per worker, whether the sessions it is given take shared locks
    db,         \* the committed rows
    runCounter, \* per scenario, the counter that selectPoolSlot takes modulo the pool
    exec,       \* per worker, the scenario and slot it executes and the statement it is at
    put, gone,  \* per worker, the rows its transaction has written and removed
    held,       \* per worker, the locks it holds
    last        \* per worker, how its last execution ended, until the next begins

vars == <<shared, db, runCounter, exec, put, gone, held, last>>

Idle == [scenario |-> "none", slot |-> 0, at |-> 0]
NotYet == [scenario |-> "none", answer |-> "none"]

Errors == {"duplicate", "no parent", "referenced", "no rows",
           "no slot", "upgrade", "deadlock", "aborted"}

Modes == {"S", "X"}

TypeOK ==
    /\ \A row \in DOMAIN db : db[row] \subseteq DOMAIN db
    /\ runCounter \in [Registry -> Pool]
    /\ shared \in SharedLocks
    /\ \A w \in Workers :
         /\ exec[w] = Idle \/ (exec[w].scenario \in Assigned[w] /\ exec[w].slot \in Pool)
         /\ exec[w] = Idle => held[w] = {} /\ put[w] = Empty /\ gone[w] = {}
         /\ \A l \in held[w] : l[1] \in Modes
         /\ last[w].answer \in Errors \cup {"none", "committed"}

Init ==
    /\ shared \in SharedLocks
    /\ db = Prepared(N, H)
    /\ runCounter = [s \in Registry |-> 0]
    /\ exec = [w \in Workers |-> Idle]
    /\ put = [w \in Workers |-> Empty]
    /\ gone = [w \in Workers |-> {}]
    /\ held = [w \in Workers |-> {}]
    /\ last = [w \in Workers |-> NotYet]

-----------------------------------------------------------------------------
Active(w) == exec[w] # Idle

\* What the transaction of w sees: the committed rows under its own writes.
View(w) == Overlay(put[w], Without(db, gone[w]))

Steps(w) == StepsOf(exec[w].scenario, N, H, exec[w].slot)

AtStatement(w) == Active(w) /\ exec[w].at <= Len(Steps(w))

Current(w) == Steps(w)[exec[w].at]

-----------------------------------------------------------------------------
(* Locks.                                                                  *)

Owns(w, mode, row) == <<"X", row>> \in held[w] \/ <<mode, row>> \in held[w]

\* The mode in which a foreign-key check locks the row referred to.
ReferenceModeExclusive(w) == "X"
ReferenceMode(w) == IF shared[w] THEN "S" ELSE "X"

\* A statement locks the rows it writes or removes, and the rows that it newly
\* refers to, when it finds the row it rebinds.
Wanted(w) ==
    LET st   == Current(w)
        view == View(w)
        old  == IF st.row \in DOMAIN view THEN view[st.row] ELSE {}
        refs == IF st.op = "rebind" /\ st.row \notin DOMAIN view
                THEN {} ELSE st.refs \ old
    IN  {<<"X", row>> : row \in {st.row} \cup Removed(view, st)}
        \cup {<<ReferenceMode(w), row>> : row \in refs}

\* The locks that w still has to wait for, in any order.
Needed(w) ==
    IF ~AtStatement(w) THEN {}
    ELSE {l \in Wanted(w) : ~Owns(w, l[1], l[2])}

Upgrades(w, l) == l[1] = "X" /\ <<"S", l[2]>> \in held[w]

Conflict(l, m) == l[2] = m[2] /\ "X" \in {l[1], m[1]}

Blocked(w, l) == \E v \in Workers \ {w} : \E m \in held[v] : Conflict(l, m)

\* An upgrade is refused whoever else holds the lock: it does not wait.
WaitsFor(w, v) ==
    \E l \in Needed(w), m \in held[v] : v # w /\ ~Upgrades(w, l) /\ Conflict(l, m)

\* Every member of the set waits for a member of the set.
DeadlockIn(S) == S # {} /\ \A w \in S : \E v \in S : WaitsFor(w, v)

-----------------------------------------------------------------------------
(* Executions.                                                             *)

\* The transaction ends: its locks and its writes are gone.
End(w, answer) ==
    /\ exec' = [exec EXCEPT ![w] = Idle]
    /\ put' = [put EXCEPT ![w] = Empty]
    /\ gone' = [gone EXCEPT ![w] = {}]
    /\ held' = [held EXCEPT ![w] = {}]
    /\ last' = [last EXCEPT ![w] = [scenario |-> exec[w].scenario, answer |-> answer]]

\* An error of Run, or of the connection, has the engine roll back.
Fail(w, answer) == End(w, answer) /\ UNCHANGED <<shared, db, runCounter>>

\* Faulty variant: the slot is taken without the remainder.
TakeSlotNoWrap(s) == runCounter' = [runCounter EXCEPT ![s] = @ + 1]

\* runCounter.Add(1) - 1, of which only the remainder by the pool matters.
TakeSlot(s) == runCounter' = [runCounter EXCEPT ![s] = (@ + 1) % PoolSize]

Begin(w, s) ==
    /\ ~Active(w)
    /\ HasSlots(s, N, H)
    /\ TakeSlot(s)
    /\ exec' = [exec EXCEPT ![w] =
                  [scenario |-> s, slot |-> runCounter[s], at |-> 1]]
    /\ last' = [last EXCEPT ![w] = NotYet]
    /\ UNCHANGED <<shared, db, put, gone, held>>

\* Run finds the billing plan missing before it moves the counter; selectPoolSlot
\* finds a generic pool empty after it.
NoSlot(w, s) ==
    /\ ~Active(w)
    /\ ~HasSlots(s, N, H)
    /\ IF s \in GenericScenarios THEN TakeSlot(s) ELSE UNCHANGED runCounter
    /\ last' = [last EXCEPT ![w] = [scenario |-> s, answer |-> "no slot"]]
    /\ UNCHANGED <<shared, db, exec, put, gone, held>>

GrantLock(w) ==
    /\ \E l \in Needed(w) :
         /\ ~Upgrades(w, l)
         /\ ~Blocked(w, l)
         /\ held' = [held EXCEPT ![w] = @ \cup {l}]
    /\ UNCHANGED <<shared, db, runCounter, exec, put, gone, last>>

RefuseUpgrade(w) ==
    /\ \E l \in Needed(w) : Upgrades(w, l)
    /\ Fail(w, "upgrade")

\* The database breaks a deadlock at the cost of one of its transactions.
Victim(w) ==
    /\ \E S \in SUBSET Workers : w \in S /\ DeadlockIn(S)
    /\ Fail(w, "deadlock")

StatementTakesEffect(w) ==
    LET st   == Current(w)
        view == View(w)
    IN  /\ put' = [put EXCEPT ![w] =
                     Overlay(Written(view, st), Without(@, Removed(view, st)))]
        /\ gone' = [gone EXCEPT ![w] = @ \cup Removed(view, st)]
        /\ exec' = [exec EXCEPT ![w].at = @ + 1]
        /\ UNCHANGED <<shared, db, runCounter, held, last>>

\* Run goes on to the next statement, or returns the error of this one.
ExecuteStatement(w) ==
    /\ AtStatement(w)
    /\ Needed(w) = {}
    /\ LET answer == AnswerTo(View(w), Current(w))
       IN  IF answer = "ok" THEN StatementTakesEffect(w) ELSE Fail(w, answer)

\* A stop, a lost connection or a restarting node ends the transaction.
Abort(w) == Active(w) /\ Fail(w, "aborted")

Commit(w) ==
    /\ Active(w)
    /\ exec[w].at = Len(Steps(w)) + 1
    /\ db' = View(w)
    /\ End(w, "committed")
    /\ UNCHANGED <<shared, runCounter>>

Work(w) == GrantLock(w) \/ RefuseUpgrade(w) \/ Victim(w)
           \/ ExecuteStatement(w) \/ Commit(w)

Next == \E w \in Workers :
           \/ \E s \in Assigned[w] : Begin(w, s) \/ NoSlot(w, s)
           \/ Work(w)
           \/ Abort(w)

Spec == Init /\ [][Next]_vars

-----------------------------------------------------------------------------
(* Properties.                                                             *)

\* No scenario of any group ever meets a foreign-key error, a duplicate key or
\* a missing row, whatever runs beside it, whichever slot it shares with a
\* slower execution of itself, and wherever the ones before it were cut off.
FixturesSuffice ==
    \A w \in Workers :
        last[w].answer \notin {"duplicate", "no parent", "referenced", "no rows"}

AllShared == \A w \in Workers : shared[w]

\* Where every session takes shared locks, a success scenario that has slots fails only
\* when it is cut off from outside: its locks neither deadlock nor have to be upgraded.
SuccessScenariosSucceed ==
    AllShared => \A w \in Workers :
        last[w].scenario \in SuccessScenarios /\ HasSlots(last[w].scenario, N, H)
            => last[w].answer \in {"committed", "aborted"}

\* Where every session takes shared locks, a probe that has slots and is not cut off meets
\* its expected error, whatever runs beside it: it never commits.
ProbesFail ==
    AllShared => \A w \in Workers :
        last[w].scenario \in Probes /\ HasSlots(last[w].scenario, N, H)
            => last[w].answer \in {"upgrade", "aborted"}

\* The checker's cascade_result query finds no row once an execution of the first
\* slot of the cascade scenario has committed, then and ever after.
CascadeLeavesNothing ==
    [][LET left == Children(db, DeleteParentCascadeSlot(0).parent)
       IN  /\ (db' # db /\ left = {}) => left' = {}
           /\ \A w \in Workers :
                (/\ exec[w].scenario = "generic_delete_parent_cascade"
                 /\ exec[w].slot = 0
                 /\ last'[w].answer = "committed") => left' = {}]_vars
=============================================================================
