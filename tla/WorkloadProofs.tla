--------------------------- MODULE WorkloadProofs ---------------------------
(***************************************************************************)
(* Proofs about Workload, for any set of workers, any assignment of        *)
(* scenarios to them, all seed inputs and all pool sizes that              *)
(* PoolSizeAssumption allows.                                              *)
(*                                                                         *)
(* The inductive invariant says of every transaction that the rows it      *)
(* sees are as its next statement expects them.  Other transactions cannot *)
(* spoil that: whatever it has written or removed it holds exclusively,    *)
(* and two transactions of one slot exclude each other from their first    *)
(* statement on.                                                           *)
(***************************************************************************)
EXTENDS Workload, ScenarioProofs

Typed ==
    /\ shared \in SharedLocks
    /\ runCounter \in [Registry -> Pool]
    /\ exec \in [Workers -> [scenario : Registry \cup {"none"}, slot : Pool, at : Nat]]
    /\ last \in [Workers -> [scenario : Registry \cup {"none"},
                             answer   : Errors \cup {"none", "committed"}]]
    /\ DOMAIN put = Workers
    /\ DOMAIN gone = Workers
    /\ DOMAIN held = Workers

\* An execution is at a statement of an existing slot, and its outcome is open; between
\* two of them, a worker has no transaction.
Executes(w) ==
    IF Active(w)
    THEN /\ exec[w].scenario \in Assigned[w]
         /\ IsSlot(exec[w].scenario, exec[w].slot, N, H)
         /\ exec[w].at \in 1 .. Len(Steps(w)) + 1
         /\ last[w] = NotYet
    ELSE put[w] = Empty /\ gone[w] = {} /\ held[w] = {}

Touched(w) == DOMAIN put[w] \cup gone[w]

\* A transaction holds the rows of the statements behind it, and all that it has
\* written or removed; these are rows of its slot.
Holds(w) ==
    /\ \A l \in held[w] : l[1] \in Modes
    /\ Active(w) => \A j \in 1 .. exec[w].at - 1 : <<"X", Steps(w)[j].row>> \in held[w]
    /\ \A row \in Touched(w) : <<"X", row>> \in held[w] /\ OwnRow(Steps(w), row)
    /\ \A row \in gone[w] : Deletes(Steps(w), row)
    /\ exec[w].at = 1 => Touched(w) = {}

\* No two transactions have locks that exclude each other.
Excluded ==
    \A w, v \in Workers : \A l \in held[w], m \in held[v] : w # v => ~Conflict(l, m)

\* The rows that a transaction sees are as its next statement expects them.
Sees(w) ==
    /\ Sane(View(w), N, H)
    /\ Active(w) => Reached(View(w), Steps(w), exec[w].at)

RowsInv ==
    /\ Typed
    /\ \A w \in Workers : Executes(w) /\ Holds(w)
    /\ Excluded
    /\ Sane(db, N, H)
    /\ \A w \in Workers : Sees(w)
    /\ FixturesSuffice

-----------------------------------------------------------------------------
(* Steps seen from one worker.                                             *)

Untouched(w) == /\ exec'[w] = exec[w] /\ put'[w] = put[w] /\ gone'[w] = gone[w]
                /\ held'[w] = held[w] /\ last'[w] = last[w]

LEMMA UntouchedKeeps ==
    ASSUME NEW w \in Workers, Untouched(w), Executes(w), Holds(w)
    PROVE  Executes(w)' /\ Holds(w)'
<1>1. Steps(w)' = Steps(w) /\ Active(w)' = Active(w) /\ Touched(w)' = Touched(w)
  BY DEF Untouched, Steps, Active, Touched
<1>2. Executes(w)'
  BY <1>1 DEF Executes, Untouched
<1>3. Holds(w)'
  BY <1>1 DEF Holds, Untouched
<1>. QED  BY <1>2, <1>3

LEMMA UntouchedSees ==
    ASSUME NEW w \in Workers, Untouched(w), db' = db, Sees(w)
    PROVE  Sees(w)'
<1>1. Steps(w)' = Steps(w) /\ Active(w)' = Active(w) /\ View(w)' = View(w)
  BY DEF Untouched, Steps, Active, View
<1>. QED  BY <1>1 DEF Sees, Untouched

\* A worker without a transaction sees the committed rows.
LEMMA IdleKeeps ==
    ASSUME NEW w \in Workers, exec'[w] = Idle, put'[w] = Empty, gone'[w] = {}, held'[w] = {},
           Sane(db', N, H)
    PROVE  Executes(w)' /\ Holds(w)' /\ Sees(w)'
<1>1. ~Active(w)' /\ Touched(w)' = {}
  BY DEF Active, Touched, Empty
<1>2. Executes(w)'
  BY <1>1 DEF Executes
<1>3. Holds(w)'
  BY <1>1 DEF Holds
<1>4. \A row : Agree(db', View(w)', row)
  BY DEF Agree, View, Empty, Overlay, Without, Restrict
<1>5. Sane(View(w)', N, H)
  BY <1>4, SaneWhenAgreed
<1>. QED  BY <1>1, <1>2, <1>3, <1>5 DEF Sees

\* No new lock is granted.
LEMMA ExcludedKeeps ==
    ASSUME Excluded, \A w \in Workers : held'[w] \subseteq held[w]
    PROVE  Excluded'
  BY DEF Excluded, Conflict

LEMMA EndStep ==
    ASSUME Typed, NEW v \in Workers, NEW answer \in Errors \cup {"committed"}, End(v, answer)
    PROVE  /\ exec'[v] = Idle /\ put'[v] = Empty /\ gone'[v] = {} /\ held'[v] = {}
           /\ last'[v].answer = answer /\ last'[v].scenario = exec[v].scenario
           /\ \A w \in Workers \ {v} : Untouched(w)
           /\ (shared' = shared /\ runCounter' = runCounter) => Typed'
<1>1. /\ exec'[v] = Idle /\ put'[v] = Empty /\ gone'[v] = {} /\ held'[v] = {}
      /\ last'[v] = [scenario |-> exec[v].scenario, answer |-> answer]
  BY DEF Typed, End
<1>2. \A w \in Workers \ {v} : Untouched(w)
  BY DEF Typed, End, Untouched
<1>3. Idle \in [scenario : Registry \cup {"none"}, slot : Pool, at : Nat]
  BY PoolSizeAssumption DEF Idle, Pool
<1>4. DOMAIN put' = Workers /\ DOMAIN gone' = Workers /\ DOMAIN held' = Workers
  BY DEF Typed, End
<1>5. exec' \in [Workers -> [scenario : Registry \cup {"none"}, slot : Pool, at : Nat]]
  BY <1>3 DEF Typed, End
<1>6. last' \in [Workers -> [scenario : Registry \cup {"none"},
                             answer   : Errors \cup {"none", "committed"}]]
  BY DEF Typed, End
<1>. QED  BY <1>1, <1>2, <1>4, <1>5, <1>6 DEF Typed

-----------------------------------------------------------------------------
(* Each action keeps RowsInv.                                              *)

LEMMA FailKeeps ==
    ASSUME RowsInv, NEW v \in Workers, NEW answer \in {"upgrade", "deadlock", "aborted"},
           Fail(v, answer)
    PROVE  RowsInv'
<1>. USE DEF Fail
<1>1. answer \in Errors
  BY DEF Errors
<1>2. /\ exec'[v] = Idle /\ put'[v] = Empty /\ gone'[v] = {} /\ held'[v] = {}
      /\ last'[v].answer = answer
      /\ \A w \in Workers \ {v} : Untouched(w)
      /\ Typed'
  BY <1>1, EndStep DEF RowsInv
<1>3. Sane(db', N, H)
  BY DEF RowsInv
<1>4. \A w \in Workers : Executes(w)' /\ Holds(w)'
  BY <1>2, <1>3, IdleKeeps, UntouchedKeeps DEF RowsInv
<1>5. \A w \in Workers : Sees(w)'
  BY <1>2, <1>3, IdleKeeps, UntouchedSees DEF RowsInv
<1>6. \A w \in Workers : held'[w] \subseteq held[w]
  BY <1>2 DEF Untouched
<1>7. Excluded'
  BY <1>6, ExcludedKeeps DEF RowsInv
<1>8. FixturesSuffice'
  BY <1>2 DEF RowsInv, FixturesSuffice, Untouched
<1>. QED  BY <1>2, <1>3, <1>4, <1>5, <1>7, <1>8 DEF RowsInv

\* No statement fails, so that the error of one is no outcome.
LEMMA TransactionIsReady ==
    ASSUME RowsInv, NEW w \in Workers, AtStatement(w)
    PROVE  /\ Ready(View(w), exec[w].scenario, exec[w].slot, exec[w].at, N, H)
           /\ AnswerTo(View(w), Current(w)) = "ok"
<1>1. Active(w) /\ exec[w].at <= Len(Steps(w)) /\ Executes(w) /\ Sees(w)
  BY DEF AtStatement, RowsInv
<1>2. Len(Steps(w)) \in Nat
  BY <1>1, EverySlotIsSound, WorkloadAssumption
  DEF Executes, IsSlot, Sound, WellFormed, StartsAtChild, Steps
<1>3. exec[w].at \in 1 .. Len(Steps(w))
  BY <1>1, <1>2 DEF Executes
<1>4. Ready(View(w), exec[w].scenario, exec[w].slot, exec[w].at, N, H)
  BY <1>1, <1>3, WorkloadAssumption DEF Ready, Executes, Sees, Steps
<1>. QED  BY <1>4, AnswerIsOk DEF Current, Steps

LEMMA NextSlot ==
    ASSUME NEW i \in Pool
    PROVE  (i + 1) % PoolSize \in Pool
  BY PoolSizeAssumption DEF Pool

LEMMA BeginKeeps ==
    ASSUME RowsInv, NEW v \in Workers, NEW s \in Assigned[v], Begin(v, s)
    PROVE  RowsInv'
<1>. USE DEF Begin
<1>1. s \in Registry /\ runCounter[s] \in Pool /\ 1 \in Nat
  BY WorkloadAssumption DEF RowsInv, Typed
<1>2. /\ exec'[v] = [scenario |-> s, slot |-> runCounter[s], at |-> 1]
      /\ put'[v] = Empty /\ gone'[v] = {} /\ held'[v] = {} /\ last'[v] = NotYet
  BY DEF RowsInv, Typed, Executes
<1>3. \A w \in Workers \ {v} : Untouched(w)
  BY DEF RowsInv, Typed, Untouched
<1>4. Typed'
  <2>1. runCounter' \in [Registry -> Pool]
    BY <1>1, NextSlot DEF TakeSlot, RowsInv, Typed
  <2>2. exec' \in [Workers -> [scenario : Registry \cup {"none"}, slot : Pool, at : Nat]]
    BY <1>1 DEF RowsInv, Typed
  <2>3. last' \in [Workers -> [scenario : Registry \cup {"none"},
                               answer   : Errors \cup {"none", "committed"}]]
    BY DEF RowsInv, Typed, NotYet
  <2>. QED  BY <2>1, <2>2, <2>3 DEF RowsInv, Typed
<1>5. Active(v)' /\ Touched(v)' = {} /\ IsSlot(s, runCounter[s], N, H)
  <2>1. s # "none"
    BY <1>1 DEF Registry, SuccessScenarios, GenericScenarios, BillingScenarios, Probes
  <2>. QED  BY <1>1, <1>2, <2>1 DEF Active, Idle, Touched, Empty, IsSlot
<1>6. Steps(v)' = StepsOf(s, N, H, runCounter[s])
  BY <1>2 DEF Steps
<1>7. Executes(v)' /\ Holds(v)'
  <2>1. Len(Steps(v)') \in Nat
    BY <1>5, <1>6, EverySlotIsSound, WorkloadAssumption
    DEF IsSlot, Sound, WellFormed, StartsAtChild
  <2>2. Executes(v)'
    BY <1>2, <1>5, <2>1 DEF Executes
  <2>3. Holds(v)'
    BY <1>2, <1>5 DEF Holds, Touched
  <2>. QED  BY <2>2, <2>3
<1>8. Sees(v)'
  <2>1. \A row : Agree(db, View(v)', row)
    BY <1>2 DEF Agree, View, Empty, Overlay, Without, Restrict
  <2>2. Sane(View(v)', N, H)
    BY <2>1, SaneWhenAgreed DEF RowsInv
  <2>3. Reached(View(v)', Steps(v)', 1)
    BY DEF Reached, Absent, Present, Detached
  <2>. QED  BY <1>2, <2>2, <2>3 DEF Sees
<1>9. \A w \in Workers : Executes(w)' /\ Holds(w)'
  BY <1>3, <1>7, UntouchedKeeps DEF RowsInv
<1>10. \A w \in Workers : Sees(w)'
  BY <1>3, <1>8, UntouchedSees DEF RowsInv
<1>11. Excluded'
  BY ExcludedKeeps DEF RowsInv
<1>12. FixturesSuffice'
  <2>1. last'[v].answer = "none"
    BY <1>2 DEF NotYet
  <2>2. last'[v].answer \notin {"duplicate", "no parent", "referenced", "no rows"}
    BY <2>1
  <2>3. \A w \in Workers \ {v} : last'[w] = last[w]
    BY <1>3 DEF Untouched
  <2>. QED  BY <2>2, <2>3 DEF RowsInv, FixturesSuffice
<1>. QED  BY <1>4, <1>9, <1>10, <1>11, <1>12 DEF RowsInv

LEMMA NoSlotKeeps ==
    ASSUME RowsInv, NEW v \in Workers, NEW s \in Assigned[v], NoSlot(v, s)
    PROVE  RowsInv'
<1>1. s \in Registry /\ runCounter[s] \in Pool
  BY WorkloadAssumption DEF RowsInv, Typed
<1>2. last'[v].answer = "no slot" /\ \A w \in Workers \ {v} : Untouched(w)
  BY DEF NoSlot, RowsInv, Typed, Untouched
<1>3. Typed'
  <2>1. runCounter' \in [Registry -> Pool]
    BY <1>1, NextSlot DEF NoSlot, TakeSlot, RowsInv, Typed
  <2>2. last' \in [Workers -> [scenario : Registry \cup {"none"},
                               answer   : Errors \cup {"none", "committed"}]]
    BY <1>1 DEF NoSlot, RowsInv, Typed, Errors
  <2>. QED  BY <2>1, <2>2 DEF NoSlot, RowsInv, Typed
<1>4. Executes(v)' /\ Holds(v)'
  <2>1. exec' = exec /\ put' = put /\ gone' = gone /\ held' = held /\ ~Active(v)
    BY DEF NoSlot
  <2>2. put[v] = Empty /\ gone[v] = {} /\ held[v] = {}
    BY <2>1 DEF RowsInv, Executes
  <2>3. ~Active(v)'
    BY <2>1 DEF Active
  <2>4. DOMAIN put'[v] = {} /\ gone'[v] = {}
    BY <2>1, <2>2 DEF Empty
  <2>5. Touched(v)' = {}
    BY <2>4 DEF Touched
  <2>. QED  BY <2>1, <2>2, <2>3, <2>5 DEF Executes, Holds
<1>5. Sees(v)'
  BY DEF NoSlot, RowsInv, Sees, View, Active, Steps
<1>6. \A w \in Workers : Executes(w)' /\ Holds(w)'
  BY <1>2, <1>4, UntouchedKeeps DEF RowsInv
<1>7. \A w \in Workers : Sees(w)'
  BY <1>2, <1>5, UntouchedSees DEF NoSlot, RowsInv
<1>8. Excluded'
  BY ExcludedKeeps DEF NoSlot, RowsInv
<1>9. FixturesSuffice'
  BY <1>2 DEF RowsInv, FixturesSuffice, Untouched
<1>. QED  BY <1>3, <1>6, <1>7, <1>8, <1>9 DEF NoSlot, RowsInv

LEMMA GrantLockKeeps ==
    ASSUME RowsInv, NEW v \in Workers, GrantLock(v)
    PROVE  RowsInv'
<1>. USE DEF GrantLock
<1>1. PICK l \in Needed(v) : ~Blocked(v, l) /\ held' = [held EXCEPT ![v] = @ \cup {l}]
  OBVIOUS
<1>2. Typed' /\ \A w \in Workers \ {v} : Untouched(w)
  BY <1>1 DEF RowsInv, Typed, Untouched
<1>3. held'[v] = held[v] \cup {l}
  BY <1>1 DEF RowsInv, Typed
<1>4. l[1] \in Modes /\ Active(v)
  BY DEF Needed, Wanted, AtStatement, Modes, ReferenceMode
<1>5. Steps(v)' = Steps(v) /\ Active(v)' = Active(v) /\ Touched(v)' = Touched(v)
      /\ View(v)' = View(v)
  BY DEF Steps, Active, Touched, View
<1>6. Executes(v)' /\ Sees(v)'
  BY <1>4, <1>5 DEF RowsInv, Executes, Sees
<1>7. Holds(v)'
  BY <1>3, <1>4, <1>5 DEF RowsInv, Holds
<1>8. \A w \in Workers : Executes(w)' /\ Holds(w)'
  BY <1>2, <1>6, <1>7, UntouchedKeeps DEF RowsInv
<1>9. \A w \in Workers : Sees(w)'
  BY <1>2, <1>6, UntouchedSees DEF RowsInv
<1>10. Excluded'
  <2>1. \A w \in Workers \ {v} : \A m \in held[w] : ~Conflict(l, m) /\ ~Conflict(m, l)
    BY <1>1 DEF Blocked, Conflict
  <2>2. \A w \in Workers \ {v} : held'[w] = held[w]
    BY <1>2 DEF Untouched
  <2>. QED  BY <1>3, <2>1, <2>2 DEF RowsInv, Excluded, Conflict
<1>11. FixturesSuffice'
  BY DEF RowsInv, FixturesSuffice
<1>. QED  BY <1>2, <1>8, <1>9, <1>10, <1>11 DEF RowsInv

\* A statement that takes effect leaves its transaction ready for the next one.
LEMMA StatementKeeps ==
    ASSUME RowsInv, NEW v \in Workers, AtStatement(v), Needed(v) = {}, StatementTakesEffect(v)
    PROVE  RowsInv'
<1>. DEFINE st   == Current(v)
            view == View(v)
            at   == exec[v].at
<1>1. Ready(view, exec[v].scenario, exec[v].slot, at, N, H)
  BY TransactionIsReady
<1>2. /\ put'[v] = Overlay(Written(view, st), Without(put[v], Removed(view, st)))
      /\ gone'[v] = gone[v] \cup Removed(view, st)
      /\ exec'[v] = [exec[v] EXCEPT !.at = at + 1]
      /\ UNCHANGED <<shared, db, runCounter, held, last>>
  BY DEF RowsInv, Typed, StatementTakesEffect
<1>3. \A w \in Workers \ {v} : Untouched(w)
  <2>. SUFFICES ASSUME NEW w \in Workers \ {v} PROVE Untouched(w)
    OBVIOUS
  <2>1. exec'[w] = exec[w]
    BY DEF RowsInv, Typed, StatementTakesEffect
  <2>2. put'[w] = put[w] /\ gone'[w] = gone[w]
    BY DEF RowsInv, Typed, StatementTakesEffect
  <2>. QED  BY <1>2, <2>1, <2>2 DEF Untouched
<1>4. /\ exec'[v].scenario = exec[v].scenario /\ exec'[v].slot = exec[v].slot
      /\ exec'[v].at = at + 1 /\ at \in Nat
      /\ exec[v] \in [scenario : Registry \cup {"none"}, slot : Pool, at : Nat]
  BY <1>2 DEF RowsInv, Typed
<1>5. Active(v) /\ Active(v)' /\ Steps(v)' = Steps(v) /\ st = Steps(v)[at]
  <2>1. Active(v) /\ Executes(v) /\ exec[v].scenario # "none"
    BY DEF AtStatement, RowsInv, Executes, IsSlot, Registry, SuccessScenarios,
           GenericScenarios, BillingScenarios, Probes
  <2>. QED  BY <1>4, <2>1 DEF Active, Idle, Steps, Current
<1>6. Typed'
  <2>1. exec' \in [Workers -> [scenario : Registry \cup {"none"}, slot : Pool, at : Nat]]
    BY <1>4 DEF StatementTakesEffect, RowsInv, Typed
  <2>. QED  BY <2>1 DEF StatementTakesEffect, RowsInv, Typed
<1>7. at \in 1 .. Len(Steps(v)) /\ Len(Steps(v)) \in Nat /\ InOrder(Steps(v), at)
  BY <1>1, EverySlotIsSound
  DEF Ready, IsSlot, Sound, WellFormed, StartsAtChild, Steps
<1>8. Executes(v)'
  BY <1>2, <1>4, <1>5, <1>7 DEF RowsInv, Executes
<1>9. /\ <<"X", st.row>> \in held[v]
      /\ \A row \in Removed(view, st) : <<"X", row>> \in held[v]
  <2>1. \A row \in {st.row} \cup Removed(view, st) : <<"X", row>> \in Wanted(v)
    BY DEF Wanted
  <2>2. \A l \in Wanted(v) : Owns(v, l[1], l[2])
    BY DEF Needed
  <2>. QED  BY <2>1, <2>2 DEF Owns
<1>10. /\ \A row \in Removed(view, st) : Deletes(Steps(v), row) /\ OwnRow(Steps(v), row)
       /\ \A row \in WrittenRows(view, st) : row = st.row /\ OwnRow(Steps(v), row)
  <2>1. \A row \in Removed(view, st) : Deletes(Steps(v), row)
    <3>1. CASE st.op = "delete"
      BY <1>1, <1>5, <3>1, RemovedIs DEF Steps
    <3>2. CASE st.op # "delete"
      BY <3>2 DEF Removed
    <3>. QED  BY <3>1, <3>2
  <2>2. \A row \in WrittenRows(view, st) : row = st.row /\ OwnRow(Steps(v), row)
    BY <1>5, <1>7 DEF WrittenRows, OwnRow
  <2>. QED  BY <2>1, <2>2 DEF Deletes, OwnRow
<1>11. /\ DOMAIN put'[v] = WrittenRows(view, st) \cup (DOMAIN put[v] \ Removed(view, st))
       /\ \A row \in DOMAIN put'[v] :
            put'[v][row] = IF row \in WrittenRows(view, st) THEN st.refs ELSE put[v][row]
  <2>. DEFINE over == Written(view, st)
  <2>1. DOMAIN over = WrittenRows(view, st) /\ \A row \in DOMAIN over : over[row] = st.refs
    BY DEF Written
  <2>2. put'[v] = Overlay(over, Without(put[v], Removed(view, st)))
    BY <1>2
  <2>. HIDE DEF over, st, view
  <2>. QED  BY <2>1, <2>2 DEF Overlay, Without, Restrict
<1>. HIDE DEF st, view, at
<1>12. Holds(v)'
  <2>1. Holds(v) /\ held'[v] = held[v]
    BY <1>2 DEF RowsInv
  <2>2. \A j \in 1 .. exec'[v].at - 1 : <<"X", Steps(v)[j].row>> \in held[v]
    BY <1>4, <1>5, <1>9, <2>1 DEF Holds, at
  <2>3. \A row \in Touched(v)' : <<"X", row>> \in held[v] /\ OwnRow(Steps(v), row)
    BY <1>2, <1>9, <1>10, <1>11, <2>1 DEF Holds, Touched
  <2>4. \A row \in gone'[v] : Deletes(Steps(v), row)
    BY <1>2, <1>10, <2>1 DEF Holds
  <2>5. exec'[v].at # 1
    BY <1>4, <1>7
  <2>. QED  BY <1>5, <2>1, <2>2, <2>3, <2>4, <2>5 DEF Holds
<1>13. Sees(v)'
  <2>1. /\ Sane(After(view, st), N, H)
        /\ Reached(After(view, st), Steps(v), at + 1)
    BY <1>1, <1>5, AfterKeeps DEF Steps
  <2>2. /\ DOMAIN view = DOMAIN put[v] \cup (DOMAIN db \ gone[v])
        /\ \A row \in DOMAIN view : view[row] = IF row \in DOMAIN put[v] THEN put[v][row]
                                                                        ELSE db[row]
    BY DEF view, View, Overlay, Without, Restrict
  <2>3. /\ DOMAIN View(v)' = DOMAIN put'[v] \cup (DOMAIN db \ gone'[v])
        /\ \A row \in DOMAIN View(v)' :
             View(v)'[row] = IF row \in DOMAIN put'[v] THEN put'[v][row] ELSE db[row]
    BY <1>2 DEF View, Overlay, Without, Restrict
  <2>4. /\ DOMAIN After(view, st) = WrittenRows(view, st) \cup (DOMAIN view \ Removed(view, st))
        /\ \A row \in DOMAIN After(view, st) :
             After(view, st)[row] = IF row \in WrittenRows(view, st) THEN st.refs ELSE view[row]
    BY AfterDomain, AfterValue
  <2>5. \A row : Agree(After(view, st), View(v)', row)
    <3>1. DOMAIN After(view, st) = DOMAIN View(v)'
      BY <1>2, <1>11, <2>2, <2>3, <2>4
    <3>2. \A row \in DOMAIN View(v)' : After(view, st)[row] = View(v)'[row]
      BY <1>11, <2>2, <2>3, <2>4, <3>1
    <3>. QED  BY <3>1, <3>2 DEF Agree
  <2>6. Sane(View(v)', N, H)
    BY <2>1, <2>5, SaneWhenAgreed
  <2>7. Reached(View(v)', Steps(v), at + 1)
    BY <2>1, <2>5, ReachedWhenAgreed
  <2>. QED  BY <1>4, <1>5, <2>6, <2>7 DEF Sees, at
<1>14. \A w \in Workers : Executes(w)' /\ Holds(w)'
  BY <1>3, <1>8, <1>12, UntouchedKeeps DEF RowsInv
<1>15. \A w \in Workers : Sees(w)'
  BY <1>2, <1>3, <1>13, UntouchedSees DEF RowsInv
<1>16. Excluded'
  BY <1>2, ExcludedKeeps DEF RowsInv
<1>17. FixturesSuffice' /\ Sane(db', N, H)
  BY <1>2 DEF RowsInv, FixturesSuffice
<1>. QED  BY <1>6, <1>14, <1>15, <1>16, <1>17 DEF RowsInv

\* A commit leaves every other transaction with sane rows: no row that it depends on
\* was the committed one's to change.
LEMMA CommitKeeps ==
    ASSUME RowsInv, NEW v \in Workers, Commit(v)
    PROVE  RowsInv'
<1>1. /\ Active(v) /\ db' = View(v) /\ End(v, "committed")
      /\ shared' = shared /\ runCounter' = runCounter
  BY DEF Commit
<1>2. /\ exec'[v] = Idle /\ put'[v] = Empty /\ gone'[v] = {} /\ held'[v] = {}
      /\ last'[v].answer = "committed"
      /\ \A w \in Workers \ {v} : Untouched(w)
      /\ Typed'
  BY <1>1, EndStep DEF RowsInv
<1>3. Sane(db', N, H)
  BY <1>1 DEF RowsInv, Sees
<1>4. \A w \in Workers : Executes(w)' /\ Holds(w)'
  BY <1>2, <1>3, IdleKeeps, UntouchedKeeps DEF RowsInv
<1>5. ASSUME NEW w \in Workers \ {v} PROVE Sees(w)'
  <2>1. /\ exec'[w] = exec[w] /\ put'[w] = put[w] /\ gone'[w] = gone[w]
        /\ Executes(w) /\ Holds(w) /\ Sees(w) /\ Executes(v) /\ Holds(v) /\ Sees(v)
    BY <1>2 DEF Untouched, RowsInv
  <2>. DEFINE mine   == Overlay(put[w], Without(db, gone[w]))
              theirs == Overlay(put[v], Without(db, gone[v]))
              next   == Overlay(put[w], Without(theirs, gone[w]))
  <2>2. View(w) = mine /\ View(v) = theirs /\ View(w)' = next
    BY <1>1, <2>1 DEF View
  <2>3. Steps(w)' = Steps(w) /\ Active(w)' = Active(w)
    BY <2>1 DEF Steps, Active
  <2>4. Sane(mine, N, H) /\ Sane(theirs, N, H)
    BY <2>1, <2>2 DEF Sees
  <2>5. /\ DOMAIN mine = DOMAIN put[w] \cup (DOMAIN db \ gone[w])
        /\ \A row \in DOMAIN mine :
             mine[row] = IF row \in DOMAIN put[w] THEN put[w][row] ELSE db[row]
    BY DEF Overlay, Without, Restrict
  <2>6. /\ DOMAIN theirs = DOMAIN put[v] \cup (DOMAIN db \ gone[v])
        /\ \A row \in DOMAIN theirs :
             theirs[row] = IF row \in DOMAIN put[v] THEN put[v][row] ELSE db[row]
    BY DEF Overlay, Without, Restrict
  <2>. HIDE DEF theirs
  <2>7. /\ DOMAIN next = DOMAIN put[w] \cup (DOMAIN theirs \ gone[w])
        /\ \A row \in DOMAIN next :
             next[row] = IF row \in DOMAIN put[w] THEN put[w][row] ELSE theirs[row]
    BY DEF Overlay, Without, Restrict
  <2>. HIDE DEF mine, next
  <2>8. Sane(next, N, H)
    <3>1. CASE Touched(w) = {}
      <4>1. DOMAIN put[w] = {} /\ gone[w] = {}
        BY <3>1 DEF Touched
      <4>2. \A row : Agree(theirs, next, row)
        BY <2>7, <4>1 DEF Agree
      <4>. QED  BY <2>4, <4>2, SaneWhenAgreed
    <3>2. CASE Touched(v) = {}
      <4>1. DOMAIN put[v] = {} /\ gone[v] = {}
        BY <3>2 DEF Touched
      <4>2. \A row : Agree(mine, next, row)
        BY <2>5, <2>6, <2>7, <4>1 DEF Agree
      <4>. QED  BY <2>4, <4>2, SaneWhenAgreed
    <3>3. CASE Touched(w) # {} /\ Touched(v) # {}
      <4>1. Active(w)
        BY <2>1, <3>3 DEF Executes, Touched, Empty
      <4>2. exec[w].at > 1 /\ exec[v].at > 1
        BY <1>1, <2>1, <3>3, <4>1 DEF Executes, Holds
      <4>3. <<"X", Steps(w)[1].row>> \in held[w] /\ <<"X", Steps(v)[1].row>> \in held[v]
        BY <1>1, <2>1, <4>1, <4>2 DEF Executes, Holds
      <4>4. Steps(w)[1].row # Steps(v)[1].row
        BY <4>3 DEF RowsInv, Excluded, Conflict
      <4>5. <<exec[w].scenario, exec[w].slot>> # <<exec[v].scenario, exec[v].slot>>
        BY <4>4 DEF Steps
      <4>6. /\ IsSlot(exec[w].scenario, exec[w].slot, N, H)
            /\ IsSlot(exec[v].scenario, exec[v].slot, N, H)
        BY <1>1, <2>1, <4>1 DEF Executes
      <4>7. /\ \A row \in DOMAIN put[w] \cup gone[w] : OwnRow(Steps(w), row)
            /\ \A row \in gone[w] : Deletes(Steps(w), row)
            /\ \A row \in DOMAIN put[v] \cup gone[v] : OwnRow(Steps(v), row)
        BY <2>1 DEF Holds, Touched
      <4>. QED
        BY <2>4, <4>5, <4>6, <4>7, SaneWhenCommitted, WorkloadAssumption
        DEF Steps, mine, theirs, next
    <3>. QED  BY <3>1, <3>2, <3>3
  <2>9. ASSUME Active(w) PROVE Reached(next, Steps(w), exec[w].at)
    <3>1. ASSUME NEW j \in 1 .. exec[w].at - 1 PROVE Agree(mine, next, Steps(w)[j].row)
      <4>. DEFINE row == Steps(w)[j].row
      <4>1. <<"X", row>> \in held[w]
        BY <2>1, <2>9 DEF Holds
      <4>2. row \notin DOMAIN put[v] /\ row \notin gone[v]
        <5>1. ASSUME row \in Touched(v) PROVE FALSE
          <6>1. <<"X", row>> \in held[v]
            BY <2>1, <5>1 DEF Holds
          <6>. QED  BY <4>1, <6>1 DEF RowsInv, Excluded, Conflict
        <5>. QED  BY <5>1 DEF Touched
      <4>. HIDE DEF row
      <4>3. Agree(mine, next, row)
        BY <2>5, <2>6, <2>7, <4>2 DEF Agree
      <4>. QED  BY <4>3 DEF row
    <3>2. Reached(mine, Steps(w), exec[w].at)
      BY <2>1, <2>2, <2>9 DEF Sees
    <3>. QED  BY <3>1, <3>2, ReachedWhenAgreed
  <2>. QED  BY <2>1, <2>2, <2>3, <2>8, <2>9 DEF Sees
<1>6. \A w \in Workers : Sees(w)'
  BY <1>2, <1>3, <1>5, IdleKeeps
<1>7. \A w \in Workers : held'[w] \subseteq held[w]
  BY <1>2 DEF Untouched
<1>8. Excluded'
  BY <1>7, ExcludedKeeps DEF RowsInv
<1>9. FixturesSuffice'
  BY <1>2 DEF RowsInv, FixturesSuffice, Untouched
<1>. QED  BY <1>2, <1>3, <1>4, <1>6, <1>8, <1>9 DEF RowsInv

LEMMA RowsInvInit == Init => RowsInv
<1>. SUFFICES ASSUME Init PROVE RowsInv
  OBVIOUS
<1>1. /\ shared \in SharedLocks /\ db = Prepared(N, H)
      /\ runCounter = [s \in Registry |-> 0] /\ exec = [w \in Workers |-> Idle]
      /\ put = [w \in Workers |-> Empty] /\ gone = [w \in Workers |-> {}]
      /\ held = [w \in Workers |-> {}] /\ last = [w \in Workers |-> NotYet]
  BY DEF Init
<1>2. 0 \in Pool
  BY PoolSizeAssumption DEF Pool
<1>3. Typed
  BY <1>1, <1>2 DEF Typed, Idle, NotYet
<1>4. Sane(db, N, H)
  BY <1>1, PreparedIsSound, WorkloadAssumption DEF Sane
<1>5. ASSUME NEW w \in Workers PROVE Executes(w) /\ Holds(w) /\ Sees(w)
  <2>1. exec[w] = Idle /\ put[w] = Empty /\ gone[w] = {} /\ held[w] = {}
    BY <1>1
  <2>2. ~Active(w) /\ Touched(w) = {}
    BY <2>1 DEF Active, Touched, Empty
  <2>3. \A row : Agree(db, View(w), row)
    BY <2>1 DEF Agree, View, Empty, Overlay, Without, Restrict
  <2>4. Sane(View(w), N, H)
    BY <1>4, <2>3, SaneWhenAgreed
  <2>. QED  BY <2>1, <2>2, <2>4 DEF Executes, Holds, Sees
<1>6. Excluded
  BY <1>1 DEF Excluded
<1>7. FixturesSuffice
  BY <1>1 DEF FixturesSuffice, NotYet
<1>. QED  BY <1>3, <1>4, <1>5, <1>6, <1>7 DEF RowsInv

LEMMA RowsInvNext == RowsInv /\ [Next]_vars => RowsInv'
<1>. SUFFICES ASSUME RowsInv, [Next]_vars PROVE RowsInv'
  OBVIOUS
<1>1. ASSUME NEW w \in Workers, NEW s \in Assigned[w], Begin(w, s) PROVE RowsInv'
  BY <1>1, BeginKeeps
<1>2. ASSUME NEW w \in Workers, NEW s \in Assigned[w], NoSlot(w, s) PROVE RowsInv'
  BY <1>2, NoSlotKeeps
<1>3. ASSUME NEW w \in Workers, GrantLock(w) PROVE RowsInv'
  BY <1>3, GrantLockKeeps
<1>4. ASSUME NEW w \in Workers, RefuseUpgrade(w) PROVE RowsInv'
  BY <1>4, FailKeeps DEF RefuseUpgrade
<1>5. ASSUME NEW w \in Workers, Victim(w) PROVE RowsInv'
  BY <1>5, FailKeeps DEF Victim
<1>6. ASSUME NEW w \in Workers, ExecuteStatement(w) PROVE RowsInv'
  <2>1. AnswerTo(View(w), Current(w)) = "ok"
    BY <1>6, TransactionIsReady DEF ExecuteStatement
  <2>2. StatementTakesEffect(w) /\ AtStatement(w) /\ Needed(w) = {}
    BY <1>6, <2>1 DEF ExecuteStatement
  <2>. QED  BY <2>2, StatementKeeps
<1>7. ASSUME NEW w \in Workers, Commit(w) PROVE RowsInv'
  BY <1>7, CommitKeeps
<1>8. ASSUME NEW w \in Workers, Abort(w) PROVE RowsInv'
  BY <1>8, FailKeeps DEF Abort
<1>9. CASE UNCHANGED vars
  BY <1>9
  DEF vars, RowsInv, Typed, Executes, Holds, Excluded, Sees, FixturesSuffice, Active,
      Steps, View, Touched
<1>. QED
  BY <1>1, <1>2, <1>3, <1>4, <1>5, <1>6, <1>7, <1>8, <1>9 DEF Next, Work

\* Whatever runs beside it and wherever the executions before it were cut off, no
\* statement of any scenario meets a foreign-key error, a duplicate key or a missing
\* row: the order of its statements and prepare's fixtures rule it out, in Run of every
\* scenario.
THEOREM FixturesAlwaysSuffice == Spec => []FixturesSuffice
<1>1. RowsInv => FixturesSuffice
  BY DEF RowsInv
<1>. QED  BY RowsInvInit, RowsInvNext, <1>1, PTL DEF Spec

\* The workers' transactions keep the types and the integrity of the rows.
THEOREM WorkloadTypeCorrect == Spec => []TypeOK
<1>1. RowsInv => TypeOK
  <2>. SUFFICES ASSUME RowsInv PROVE TypeOK
    OBVIOUS
  <2>1. \A row \in DOMAIN db : db[row] \subseteq DOMAIN db
    BY DEF RowsInv, Sane, Closed
  <2>2. ASSUME NEW w \in Workers
        PROVE  /\ exec[w] = Idle \/ (exec[w].scenario \in Assigned[w] /\ exec[w].slot \in Pool)
               /\ exec[w] = Idle => held[w] = {} /\ put[w] = Empty /\ gone[w] = {}
               /\ \A l \in held[w] : l[1] \in Modes
               /\ last[w].answer \in Errors \cup {"none", "committed"}
    <3>1. Executes(w) /\ Holds(w) /\ Typed
      BY DEF RowsInv
    <3>2. exec[w] = Idle \/ (exec[w].scenario \in Assigned[w] /\ exec[w].slot \in Pool)
      BY <3>1 DEF Executes, Active, IsSlot
    <3>3. exec[w] = Idle => held[w] = {} /\ put[w] = Empty /\ gone[w] = {}
      BY <3>1 DEF Executes, Active
    <3>4. last[w].answer \in Errors \cup {"none", "committed"}
      BY <3>1 DEF Typed
    <3>. QED  BY <3>1, <3>2, <3>3, <3>4 DEF Holds
  <2>. QED  BY <2>1, <2>2 DEF RowsInv, Typed, TypeOK
<1>. QED  BY RowsInvInit, RowsInvNext, <1>1, PTL DEF Spec

-----------------------------------------------------------------------------
(* With shared locks in all sessions.                                      *)

\* A row that some slot creates, removes or selects.
SlotRow(row) ==
    \E s \in Registry, i \in Pool : IsSlot(s, i, N, H) /\ OwnRow(StepsOf(s, N, H, i), row)

\* Exclusive locks are on rows of the transaction's slot, its first row among them, and
\* shared locks on rows of no slot.  A probe about to update a parent shares it.
Shares(w) ==
    /\ \A l \in held[w] : l[1] = "X" => OwnRow(Steps(w), l[2])
    /\ \A l \in held[w] : l[1] = "S" => ~SlotRow(l[2])
    /\ held[w] # {} => <<"X", Steps(w)[1].row>> \in held[w]
    /\ (Active(w) /\ exec[w].scenario \in Probes) =>
         /\ exec[w].at \in 1 .. 3
         /\ exec[w].at = 3 => <<"S", Steps(w)[3].row>> \in held[w]

SharedInv ==
    AllShared =>
        /\ \A w \in Workers : Shares(w)
        /\ SuccessScenariosSucceed
        /\ ProbesFail

LEMMA UntouchedShares ==
    ASSUME NEW w \in Workers, Untouched(w), Shares(w)
    PROVE  Shares(w)'
<1>1. Steps(w)' = Steps(w) /\ Active(w)' = Active(w)
  BY DEF Untouched, Steps, Active
<1>. QED  BY <1>1 DEF Shares, Untouched

LEMMA IdleShares ==
    ASSUME NEW w \in Workers, exec'[w] = Idle, held'[w] = {}
    PROVE  Shares(w)'
  BY DEF Shares, Active

\* A probe's last statement updates a row of no slot that the one before refers to.
LEMMA ProbeSteps ==
    ASSUME NEW s \in Probes, NEW i, IsSlot(s, i, N, H)
    PROVE  LET steps == StepsOf(s, N, H, i)
           IN  /\ Len(steps) = 3
               /\ steps[1].op \in {"delete", "select"} /\ steps[2].op = "insert"
               /\ steps[3].row \in steps[2].refs /\ ~SlotRow(steps[3].row)
<1>. DEFINE steps == StepsOf(s, N, H, i)
<1>1. EndsAtParent(steps) /\ StartsAtChild(steps)
  BY EverySlotIsSound, WorkloadAssumption DEF IsSlot, Sound, WellFormed
<1>. HIDE DEF steps
<1>2. ~Present(steps, 2, steps[3].row)
  BY <1>1 DEF StartsAtChild, Present
<1>3. 2 \in 1 .. Len(steps) /\ steps[3].row \in steps[2].refs
  BY <1>1 DEF EndsAtParent
<1>4. ~SlotRow(steps[3].row)
  BY <1>2, <1>3, RefersBack, WorkloadAssumption DEF SlotRow, steps
<1>. QED  BY <1>1, <1>4 DEF EndsAtParent, StartsAtChild, steps

\* The locks that a transaction still needs: on rows of its slot, shared ones on rows of
\* no slot, or a probe's upgrade.
LEMMA NeededIs ==
    ASSUME RowsInv, AllShared, NEW w \in Workers, Shares(w), NEW l \in Needed(w)
    PROVE  /\ Active(w)
           /\ \/ l[1] = "X" /\ OwnRow(Steps(w), l[2])
              \/ l[1] = "S" /\ ~SlotRow(l[2])
              \/ l[1] = "X" /\ Upgrades(w, l) /\ exec[w].scenario \in Probes
<1>. DEFINE st == Current(w)
            view == View(w)
            at == exec[w].at
            s == exec[w].scenario
            i == exec[w].slot
<1>1. AtStatement(w) /\ l \in Wanted(w) /\ ~Owns(w, l[1], l[2])
  BY DEF Needed
<1>2. Active(w) /\ Holds(w) /\ Ready(view, s, i, at, N, H)
  BY <1>1, TransactionIsReady DEF RowsInv, AtStatement
<1>3. /\ IsSlot(s, i, N, H) /\ at \in 1 .. Len(Steps(w)) /\ st = Steps(w)[at]
      /\ Steps(w) = StepsOf(s, N, H, i)
  BY <1>2 DEF Ready, Current, Steps
<1>4. ReferenceMode(w) = "S"
  BY DEF AllShared, ReferenceMode
<1>5. \/ l[1] = "X" /\ l[2] \in {st.row} \cup Removed(view, st)
      \/ l[1] = "S" /\ l[2] \in st.refs
  BY <1>1, <1>4 DEF Wanted
<1>6. CASE l[1] = "X" /\ l[2] \in Removed(view, st)
  <2>1. st.op = "delete"
    BY <1>6 DEF Removed
  <2>2. Deletes(Steps(w), l[2])
    BY <1>2, <1>3, <1>6, <2>1, RemovedIs
  <2>. QED  BY <1>2, <1>6, <2>2 DEF Deletes, OwnRow
<1>7. CASE l[1] = "X" /\ l[2] = st.row
  <2>1. CASE st.op # "update"
    BY <1>2, <1>3, <1>7, <2>1 DEF OwnRow
  <2>2. CASE s \in SuccessScenarios
    BY <1>2, <1>3, <1>7, <2>2, EverySlotIsSound, WorkloadAssumption DEF IsSlot, Sound
  <2>3. CASE s \in Probes /\ st.op = "update"
    <3>1. Len(Steps(w)) = 3 /\ Steps(w)[1].op # "update" /\ Steps(w)[2].op # "update"
      BY <1>3, <2>3, ProbeSteps
    <3>2. at = 3
      BY <1>3, <2>3, <3>1
    <3>3. <<"S", st.row>> \in held[w]
      BY <1>2, <1>3, <2>3, <3>2 DEF Shares
    <3>. QED  BY <1>2, <1>7, <2>3, <3>3 DEF Upgrades
  <2>. QED  BY <1>3, <2>1, <2>2, <2>3 DEF IsSlot, Registry
<1>8. CASE l[1] = "S" /\ l[2] \in st.refs
  <2>1. ~Present(Steps(w), at, l[2])
    <3>1. ASSUME Present(Steps(w), at, l[2]) PROVE <<"X", l[2]>> \in held[w]
      BY <1>2, <3>1 DEF Present, Holds
    <3>. QED  BY <1>1, <3>1 DEF Owns
  <2>2. \A t, j : IsSlot(t, j, N, H) => ~OwnRow(StepsOf(t, N, H, j), l[2])
    BY <1>3, <1>8, <2>1, RefersBack, WorkloadAssumption
  <2>. QED  BY <1>2, <1>8, <2>2 DEF SlotRow
<1>. QED  BY <1>5, <1>6, <1>7, <1>8

\* The first lock of a transaction is the exclusive one on the row of its first statement.
LEMMA FirstNeeded ==
    ASSUME RowsInv, NEW w \in Workers, exec[w].at = 1, NEW l \in Needed(w)
    PROVE  l = <<"X", Steps(w)[1].row>>
<1>1. AtStatement(w) /\ l \in Wanted(w)
  BY DEF Needed
<1>2. /\ IsSlot(exec[w].scenario, exec[w].slot, N, H)
      /\ OnlyLinks(View(w), N, H) /\ Current(w) = Steps(w)[1]
  BY <1>1, TransactionIsReady DEF Ready, Sane, Current
<1>3. Current(w).refs = {} /\ Removed(View(w), Current(w)) \subseteq {Current(w).row}
  BY <1>2, FirstStatement, WorkloadAssumption DEF Steps
<1>. QED  BY <1>1, <1>2, <1>3 DEF Wanted

\* Only a transaction without locks waits, and only for one that has some.
LEMMA HoldersDoNotWait ==
    ASSUME RowsInv, AllShared, \A u \in Workers : Shares(u),
           NEW w \in Workers, NEW v \in Workers, WaitsFor(w, v)
    PROVE  held[w] = {} /\ held[v] # {}
<1>1. PICK l \in Needed(w), m \in held[v] : v # w /\ ~Upgrades(w, l) /\ Conflict(l, m)
  BY DEF WaitsFor
<1>2. /\ Active(w) /\ Shares(w) /\ Shares(v)
      /\ \/ l[1] = "X" /\ OwnRow(Steps(w), l[2])
         \/ l[1] = "S" /\ ~SlotRow(l[2])
  BY <1>1, NeededIs
<1>3. /\ IsSlot(exec[w].scenario, exec[w].slot, N, H)
      /\ IsSlot(exec[v].scenario, exec[v].slot, N, H)
      /\ m[1] \in Modes
  BY <1>1, <1>2 DEF RowsInv, Executes, Holds
<1>4. l[2] = m[2] /\ (l[1] = "X" \/ m[1] = "X")
  BY <1>1 DEF Conflict
<1>5. m[1] = "X" /\ OwnRow(Steps(v), m[2]) /\ l[1] = "X" /\ OwnRow(Steps(w), l[2])
  BY <1>2, <1>3, <1>4 DEF Shares, Modes, SlotRow, Steps, IsSlot
<1>6. Steps(w) = Steps(v)
  BY <1>3, <1>4, <1>5, SlotsShareNothing, WorkloadAssumption DEF Steps
<1>7. <<"X", Steps(v)[1].row>> \in held[v]
  BY <1>1, <1>2 DEF Shares
<1>8. held[w] = {}
  BY <1>1, <1>2, <1>6, <1>7 DEF Shares, RowsInv, Excluded, Conflict
<1>. QED  BY <1>1, <1>8

LEMMA NoDeadlock ==
    ASSUME RowsInv, AllShared, \A u \in Workers : Shares(u), NEW S \in SUBSET Workers
    PROVE  ~DeadlockIn(S)
<1>. SUFFICES ASSUME DeadlockIn(S) PROVE FALSE
  OBVIOUS
<1>1. PICK w \in S : TRUE
  BY DEF DeadlockIn
<1>2. PICK v \in S : WaitsFor(w, v)
  BY DEF DeadlockIn
<1>3. PICK u \in S : WaitsFor(v, u)
  BY DEF DeadlockIn
<1>. QED  BY <1>2, <1>3, HoldersDoNotWait

LEMMA SharedInvInit == Init => SharedInv
<1>. SUFFICES ASSUME Init PROVE SharedInv
  OBVIOUS
<1>1. \A w \in Workers : exec[w] = Idle /\ held[w] = {} /\ last[w] = NotYet
  BY DEF Init
<1>2. \A w \in Workers : Shares(w)
  BY <1>1 DEF Shares, Active
<1>3. "none" \notin SuccessScenarios \cup Probes
  BY DEF SuccessScenarios, GenericScenarios, BillingScenarios, Probes
<1>4. SuccessScenariosSucceed /\ ProbesFail
  BY <1>1, <1>3 DEF SuccessScenariosSucceed, ProbesFail, NotYet
<1>. QED  BY <1>2, <1>4 DEF SharedInv

\* What an outcome has to be where all sessions share.
Fits(outcome) ==
    HasSlots(outcome.scenario, N, H) =>
        /\ outcome.scenario \in SuccessScenarios => outcome.answer \in {"committed", "aborted"}
        /\ outcome.scenario \in Probes => outcome.answer \in {"upgrade", "aborted"}

LEMMA SharedInvKept ==
    ASSUME SharedInv, AllShared, shared' = shared, NEW v \in Workers,
           \A w \in Workers \ {v} : Untouched(w), Shares(v)', Fits(last'[v])
    PROVE  SharedInv'
<1>1. \A w \in Workers : Shares(w)'
  BY UntouchedShares DEF SharedInv
<1>2. \A w \in Workers : Fits(last'[w])
  BY DEF SharedInv, SuccessScenariosSucceed, ProbesFail, Fits, Untouched
<1>3. SuccessScenariosSucceed' /\ ProbesFail'
  BY <1>2 DEF SuccessScenariosSucceed, ProbesFail, Fits
<1>. QED  BY <1>1, <1>3 DEF SharedInv

LEMMA ScenarioKinds ==
    /\ SuccessScenarios \cap Probes = {}
    /\ "none" \notin SuccessScenarios \cup Probes
  BY DEF SuccessScenarios, GenericScenarios, BillingScenarios, Probes

\* A transaction that ends, by whatever answer, leaves the others as they are.
LEMMA EndShares ==
    ASSUME RowsInv, SharedInv, AllShared, NEW v \in Workers,
           NEW answer \in Errors \cup {"committed"}, End(v, answer), shared' = shared,
           HasSlots(exec[v].scenario, N, H) =>
             /\ exec[v].scenario \in SuccessScenarios => answer \in {"committed", "aborted"}
             /\ exec[v].scenario \in Probes => answer \in {"upgrade", "aborted"}
    PROVE  SharedInv'
<1>1. /\ exec'[v] = Idle /\ held'[v] = {}
      /\ last'[v].answer = answer /\ last'[v].scenario = exec[v].scenario
      /\ \A w \in Workers \ {v} : Untouched(w)
  BY EndStep DEF RowsInv
<1>2. Shares(v)'
  BY <1>1, IdleShares
<1>3. Fits(last'[v])
  BY <1>1 DEF Fits
<1>. QED  BY <1>1, <1>2, <1>3, SharedInvKept

LEMMA RefusedIsProbe ==
    ASSUME RowsInv, SharedInv, AllShared, NEW v \in Workers, RefuseUpgrade(v)
    PROVE  exec[v].scenario \in Probes
<1>1. PICK l \in Needed(v) : Upgrades(v, l)
  BY DEF RefuseUpgrade
<1>2. Shares(v) /\ <<"S", l[2]>> \in held[v] /\ l[1] = "X"
  BY <1>1 DEF SharedInv, Upgrades
<1>3. ~SlotRow(l[2])
  BY <1>2 DEF Shares
<1>4. Active(v) /\ (OwnRow(Steps(v), l[2]) \/ exec[v].scenario \in Probes)
  BY <1>2, NeededIs
<1>5. IsSlot(exec[v].scenario, exec[v].slot, N, H)
  BY <1>4 DEF RowsInv, Executes
<1>. QED  BY <1>3, <1>4, <1>5 DEF SlotRow, IsSlot, Steps

\* A probe that comes to its last statement cannot go on: it needs the row exclusively
\* that it shares.
LEMMA ProbeStops ==
    ASSUME RowsInv, SharedInv, AllShared, NEW v \in Workers, Active(v),
           exec[v].scenario \in Probes
    PROVE  /\ Len(Steps(v)) = 3 /\ exec[v].at \in 1 .. 3
           /\ exec[v].at = 3 => Needed(v) # {}
<1>1. Shares(v) /\ IsSlot(exec[v].scenario, exec[v].slot, N, H)
  BY DEF RowsInv, SharedInv, Executes
<1>2. Len(Steps(v)) = 3 /\ ~SlotRow(Steps(v)[3].row)
  BY <1>1, ProbeSteps DEF Steps
<1>3. exec[v].at \in 1 .. 3
  BY <1>1 DEF Shares
<1>4. ASSUME exec[v].at = 3 PROVE Needed(v) # {}
  <2>. DEFINE row == Steps(v)[3].row
  <2>1. AtStatement(v) /\ Current(v).row = row
    BY <1>2, <1>4 DEF AtStatement, Current
  <2>2. <<"X", row>> \in Wanted(v)
    BY <2>1 DEF Wanted
  <2>3. <<"X", row>> \notin held[v]
    BY <1>1, <1>2 DEF Shares, SlotRow, IsSlot, Steps
  <2>4. <<"X", row>> \in Needed(v)
    BY <2>1, <2>2, <2>3 DEF Needed, Owns
  <2>. QED  BY <2>4
<1>. QED  BY <1>2, <1>3, <1>4

LEMMA GrantLockShares ==
    ASSUME RowsInv, SharedInv, AllShared, NEW v \in Workers, GrantLock(v)
    PROVE  SharedInv'
<1>1. PICK l \in Needed(v) : ~Upgrades(v, l) /\ held' = [held EXCEPT ![v] = @ \cup {l}]
  BY DEF GrantLock
<1>2. /\ held'[v] = held[v] \cup {l} /\ shared' = shared /\ last'[v] = last[v]
      /\ \A w \in Workers \ {v} : Untouched(w)
  BY <1>1 DEF GrantLock, RowsInv, Typed, Untouched
<1>3. Shares(v) /\ Executes(v) /\ Holds(v)
  BY DEF SharedInv, RowsInv
<1>4. /\ Active(v)
      /\ \/ l[1] = "X" /\ OwnRow(Steps(v), l[2])
         \/ l[1] = "S" /\ ~SlotRow(l[2])
  BY <1>1, <1>3, NeededIs
<1>5. exec' = exec /\ Steps(v)' = Steps(v) /\ Active(v)' = Active(v)
  BY DEF GrantLock, Steps, Active
<1>6. <<"X", Steps(v)[1].row>> \in held'[v]
  <2>1. CASE exec[v].at = 1
    BY <1>2, <2>1, FirstNeeded
  <2>2. CASE exec[v].at # 1
    <3>1. exec[v].at \in Nat /\ 1 \in 1 .. exec[v].at - 1
      BY <1>3, <1>4, <2>2 DEF Executes, RowsInv, Typed
    <3>. QED  BY <1>2, <1>3, <1>4, <3>1 DEF Holds
  <2>. QED  BY <2>1, <2>2
<1>7. Shares(v)'
  <2>1. \A m \in held'[v] : m[1] = "X" => OwnRow(Steps(v), m[2])
    BY <1>2, <1>3, <1>4 DEF Shares
  <2>2. \A m \in held'[v] : m[1] = "S" => ~SlotRow(m[2])
    BY <1>2, <1>3, <1>4 DEF Shares
  <2>. QED  BY <1>2, <1>3, <1>5, <1>6, <2>1, <2>2 DEF Shares
<1>8. Fits(last'[v])
  BY <1>2 DEF SharedInv, SuccessScenariosSucceed, ProbesFail, Fits
<1>. QED  BY <1>2, <1>7, <1>8, SharedInvKept

LEMMA StatementShares ==
    ASSUME RowsInv, SharedInv, AllShared, NEW v \in Workers,
           AtStatement(v), Needed(v) = {}, StatementTakesEffect(v)
    PROVE  SharedInv'
<1>. DEFINE at == exec[v].at
<1>1. /\ exec'[v] = [exec[v] EXCEPT !.at = at + 1]
      /\ held'[v] = held[v] /\ last'[v] = last[v] /\ shared' = shared
  BY DEF StatementTakesEffect, RowsInv, Typed
<1>2. \A w \in Workers \ {v} : Untouched(w)
  <2>. SUFFICES ASSUME NEW w \in Workers \ {v} PROVE Untouched(w)
    OBVIOUS
  <2>1. exec'[w] = exec[w] /\ put'[w] = put[w] /\ gone'[w] = gone[w]
    BY DEF RowsInv, Typed, StatementTakesEffect
  <2>2. held' = held /\ last' = last
    BY DEF StatementTakesEffect
  <2>. QED  BY <2>1, <2>2 DEF Untouched
<1>3. /\ exec'[v].scenario = exec[v].scenario /\ exec'[v].slot = exec[v].slot
      /\ exec'[v].at = at + 1 /\ at \in Nat
  BY <1>1 DEF RowsInv, Typed
<1>4. Active(v) /\ Shares(v) /\ Steps(v)' = Steps(v)
  BY <1>3 DEF AtStatement, SharedInv, Steps
<1>5. ASSUME exec[v].scenario \in Probes
      PROVE  at + 1 \in 1 .. 3 /\ (at + 1 = 3 => <<"S", Steps(v)[3].row>> \in held[v])
  <2>1. Len(Steps(v)) = 3 /\ at \in 1 .. 2
    BY <1>3, <1>4, <1>5, ProbeStops
  <2>2. ASSUME at = 2 PROVE <<"S", Steps(v)[3].row>> \in held[v]
    <3>. DEFINE row == Steps(v)[3].row
                st  == Current(v)
    <3>1. /\ Ready(View(v), exec[v].scenario, exec[v].slot, at, N, H)
          /\ AnswerTo(View(v), st) = "ok"
      BY TransactionIsReady
    <3>2. /\ IsSlot(exec[v].scenario, exec[v].slot, N, H) /\ st = Steps(v)[2]
          /\ st.op = "insert" /\ row \in st.refs /\ ~SlotRow(row)
      BY <1>5, <2>2, <3>1, ProbeSteps DEF Ready, Current, Steps
    <3>3. st.row \notin DOMAIN View(v)
      <4>1. InOrder(Steps(v), at)
        BY <3>1, EverySlotIsSound DEF Ready, IsSlot, Sound, WellFormed, Steps
      <4>2. Absent(Steps(v), at, st.row)
        BY <2>2, <3>2, <4>1 DEF InOrder
      <4>. QED  BY <3>1, <4>2 DEF Ready, Reached, Steps
    <3>4. ReferenceMode(v) = "S"
      BY DEF AllShared, ReferenceMode
    <3>. HIDE DEF row, st
    <3>5. <<"S", row>> \in Wanted(v)
      BY <3>2, <3>3, <3>4 DEF Wanted, st
    <3>6. Owns(v, "S", row)
      BY <3>5 DEF Needed
    <3>7. <<"X", row>> \notin held[v]
      BY <1>4, <3>2 DEF Shares, SlotRow, IsSlot, Steps
    <3>. QED  BY <3>6, <3>7 DEF Owns, row
  <2>. QED  BY <2>1, <2>2
<1>6. Shares(v)'
  BY <1>1, <1>3, <1>4, <1>5 DEF Shares
<1>7. Fits(last'[v])
  BY <1>1 DEF SharedInv, SuccessScenariosSucceed, ProbesFail, Fits
<1>. QED  BY <1>1, <1>2, <1>6, <1>7, SharedInvKept

LEMMA BeginShares ==
    ASSUME RowsInv, SharedInv, AllShared, NEW v \in Workers, NEW s \in Assigned[v], Begin(v, s)
    PROVE  SharedInv'
<1>1. /\ exec'[v] = [scenario |-> s, slot |-> runCounter[s], at |-> 1]
      /\ held'[v] = {} /\ last'[v] = NotYet /\ shared' = shared
      /\ \A w \in Workers \ {v} : Untouched(w)
  BY DEF Begin, RowsInv, Typed, Executes, Untouched
<1>2. Shares(v)'
  BY <1>1 DEF Shares
<1>3. Fits(last'[v])
  BY <1>1, ScenarioKinds DEF Fits, NotYet
<1>. QED  BY <1>1, <1>2, <1>3, SharedInvKept

LEMMA NoSlotShares ==
    ASSUME RowsInv, SharedInv, AllShared, NEW v \in Workers, NEW s \in Assigned[v], NoSlot(v, s)
    PROVE  SharedInv'
<1>1. /\ exec'[v] = exec[v] /\ held'[v] = held[v] /\ shared' = shared
      /\ last'[v].scenario = s /\ ~HasSlots(s, N, H)
      /\ \A w \in Workers \ {v} : Untouched(w)
  BY DEF NoSlot, RowsInv, Typed, Untouched
<1>2. Shares(v)'
  BY <1>1 DEF SharedInv, Shares, Steps, Active
<1>3. Fits(last'[v])
  BY <1>1 DEF Fits
<1>. QED  BY <1>1, <1>2, <1>3, SharedInvKept

LEMMA SharedInvNext == RowsInv /\ SharedInv /\ [Next]_vars => SharedInv'
<1>. SUFFICES ASSUME RowsInv, SharedInv, [Next]_vars, AllShared' PROVE SharedInv'
  BY DEF SharedInv
<1>1. shared' = shared
  BY DEF Next, Work, vars, Begin, NoSlot, GrantLock, RefuseUpgrade, Victim, Abort, Fail,
         ExecuteStatement, StatementTakesEffect, Commit
<1>2. AllShared
  BY <1>1 DEF AllShared
<1>3. ASSUME NEW w \in Workers, NEW s \in Assigned[w], Begin(w, s) PROVE SharedInv'
  BY <1>2, <1>3, BeginShares
<1>4. ASSUME NEW w \in Workers, NEW s \in Assigned[w], NoSlot(w, s) PROVE SharedInv'
  BY <1>2, <1>4, NoSlotShares
<1>5. ASSUME NEW w \in Workers, GrantLock(w) PROVE SharedInv'
  BY <1>2, <1>5, GrantLockShares
<1>6. ASSUME NEW w \in Workers, RefuseUpgrade(w) PROVE SharedInv'
  <2>1. exec[w].scenario \in Probes /\ exec[w].scenario \notin SuccessScenarios
    BY <1>2, <1>6, RefusedIsProbe, ScenarioKinds
  <2>2. End(w, "upgrade") /\ "upgrade" \in Errors
    BY <1>6 DEF RefuseUpgrade, Fail, Errors
  <2>. QED  BY <1>1, <1>2, <2>1, <2>2, EndShares
<1>7. ASSUME NEW w \in Workers, Victim(w) PROVE SharedInv'
  BY <1>2, <1>7, NoDeadlock DEF Victim, SharedInv
<1>8. ASSUME NEW w \in Workers, ExecuteStatement(w) PROVE SharedInv'
  <2>1. AnswerTo(View(w), Current(w)) = "ok"
    BY <1>8, TransactionIsReady DEF ExecuteStatement
  <2>2. StatementTakesEffect(w) /\ AtStatement(w) /\ Needed(w) = {}
    BY <1>8, <2>1 DEF ExecuteStatement
  <2>. QED  BY <1>2, <2>2, StatementShares
<1>9. ASSUME NEW w \in Workers, Commit(w) PROVE SharedInv'
  <2>1. Active(w) /\ exec[w].at = Len(Steps(w)) + 1 /\ End(w, "committed")
    BY <1>9 DEF Commit
  <2>2. ASSUME exec[w].scenario \in Probes PROVE FALSE
    <3>1. Len(Steps(w)) = 3 /\ exec[w].at \in 1 .. 3
      BY <1>2, <2>1, <2>2, ProbeStops
    <3>. QED  BY <2>1, <3>1
  <2>. QED  BY <1>1, <1>2, <2>1, <2>2, EndShares
<1>10. ASSUME NEW w \in Workers, Abort(w) PROVE SharedInv'
  <2>1. End(w, "aborted") /\ "aborted" \in Errors
    BY <1>10 DEF Abort, Fail, Errors
  <2>. QED  BY <1>1, <1>2, <2>1, EndShares
<1>11. CASE UNCHANGED vars
  BY <1>11
  DEF vars, SharedInv, Shares, SuccessScenariosSucceed, ProbesFail, Active, Steps, AllShared
<1>. QED
  BY <1>3, <1>4, <1>5, <1>6, <1>7, <1>8, <1>9, <1>10, <1>11 DEF Next, Work

\* With tidb_foreign_key_check_in_shared_lock on in all sessions, an execution of a
\* success scenario that has slots ends in a commit unless it is cut off: its
\* transaction meets no deadlock and no refused upgrade, however many workers run it.
THEOREM SuccessScenariosAlwaysSucceed == Spec => []SuccessScenariosSucceed
<1>1. SharedInv => SuccessScenariosSucceed
  BY DEF SharedInv, SuccessScenariosSucceed
<1>. QED
  BY RowsInvInit, RowsInvNext, SharedInvInit, SharedInvNext, <1>1, PTL DEF Spec

\* With it on in all sessions, a probe that has slots meets the error that it is there to
\* provoke, and never commits.
THEOREM ProbesAlwaysFail == Spec => []ProbesFail
<1>1. SharedInv => ProbesFail
  BY DEF SharedInv, ProbesFail
<1>. QED
  BY RowsInvInit, RowsInvNext, SharedInvInit, SharedInvNext, <1>1, PTL DEF Spec

-----------------------------------------------------------------------------
(* The cascade scenario.                                                   *)

CascadeSteps == StepsOf("generic_delete_parent_cascade", N, H, 0)
CascadeParent == DeleteParentCascadeSlot(0).parent

LEMMA CascadeSlot ==
    /\ IsSlot("generic_delete_parent_cascade", 0, N, H)
    /\ Len(CascadeSteps) = 5
    /\ OwnRow(CascadeSteps, CascadeParent)
    /\ Absent(CascadeSteps, 6, CascadeParent)
<1>1. 0 \in Pool
  BY PoolSizeAssumption DEF Pool
<1>2. IsSlot("generic_delete_parent_cascade", 0, N, H)
  BY <1>1 DEF IsSlot, HasSlots, Registry, SuccessScenarios, GenericScenarios
<1>3. /\ Len(CascadeSteps) = 5
      /\ CascadeSteps[5].op = "delete" /\ CascadeSteps[5].row = CascadeParent
  BY DEF CascadeSteps, CascadeParent, StepsOf, DeleteParentCascade, Delete, Statement
<1>4. OwnRow(CascadeSteps, CascadeParent)
  BY <1>3 DEF OwnRow
<1>5. Absent(CascadeSteps, 6, CascadeParent)
  BY <1>3 DEF Absent
<1>. QED  BY <1>2, <1>3, <1>4, <1>5

\* A commit brings the parent of the first cascade slot no children, unless it had some.
LEMMA CommitAddsNoChildren ==
    ASSUME RowsInv, NEW w \in Workers, Commit(w)
    PROVE  /\ Children(db, CascadeParent) = {} => Children(db', CascadeParent) = {}
           /\ (exec[w].scenario = "generic_delete_parent_cascade" /\ exec[w].slot = 0)
                => Children(db', CascadeParent) = {}
<1>1. /\ Active(w) /\ db' = View(w) /\ exec[w].at = Len(Steps(w)) + 1
      /\ Executes(w) /\ Holds(w) /\ Sees(w)
  BY DEF Commit, RowsInv
<1>2. OnlyLinks(View(w), N, H) /\ Closed(View(w)) /\ Reached(View(w), Steps(w), exec[w].at)
  BY <1>1 DEF Sees, Sane
<1>3. ASSUME exec[w].scenario = "generic_delete_parent_cascade", exec[w].slot = 0
      PROVE  Children(db', CascadeParent) = {}
  <2>1. Steps(w) = CascadeSteps
    BY <1>3 DEF Steps, CascadeSteps
  <2>2. exec[w].at = 6
    BY <1>1, <2>1, CascadeSlot
  <2>3. CascadeParent \notin DOMAIN View(w)
    BY <1>2, <2>1, <2>2, CascadeSlot DEF Reached
  <2>. QED  BY <1>1, <1>2, <2>3 DEF Closed, Children
<1>4. ASSUME ~(exec[w].scenario = "generic_delete_parent_cascade" /\ exec[w].slot = 0),
             NEW child \in Children(db', CascadeParent)
      PROVE  child \in Children(db, CascadeParent)
  <2>1. child \in DOMAIN View(w) /\ CascadeParent \in View(w)[child]
    BY <1>1 DEF Children
  <2>2. Links(CascadeSteps, child, CascadeParent)
    BY <1>2, <2>1, CascadeSlot DEF OnlyLinks, CascadeSteps
  <2>3. OwnRow(CascadeSteps, child)
    BY <2>2, CascadeSlot, LinksAreOwn, WorkloadAssumption DEF CascadeSteps
  <2>4. ~OwnRow(Steps(w), child)
    BY <1>1, <1>4, <2>3, CascadeSlot, SlotsShareNothing, WorkloadAssumption
    DEF Executes, Steps, CascadeSteps
  <2>5. child \notin DOMAIN put[w]
    BY <1>1, <2>4 DEF Holds, Touched
  <2>. QED  BY <2>1, <2>5 DEF View, Overlay, Without, Restrict, Children
<1>. QED  BY <1>3, <1>4

\* The checker's cascade_result query finds no child of the first slot's parent once an
\* execution of generic_delete_parent_cascade on that slot has committed, and no later
\* commit of any scenario brings one back.
THEOREM CascadeAlwaysLeavesNothing == Spec => CascadeLeavesNothing
<1>1. ASSUME RowsInv, [Next]_vars
      PROVE  [LET left == Children(db, DeleteParentCascadeSlot(0).parent)
              IN  /\ (db' # db /\ left = {}) => left' = {}
                  /\ \A w \in Workers :
                       (/\ exec[w].scenario = "generic_delete_parent_cascade"
                        /\ exec[w].slot = 0
                        /\ last'[w].answer = "committed") => left' = {}]_vars
  <2>. DEFINE left == Children(db, CascadeParent)
              Kind(w) == exec[w].scenario = "generic_delete_parent_cascade" /\ exec[w].slot = 0
  <2>1. \A w \in Workers : Kind(w) => Active(w) /\ last[w].answer # "committed"
    BY <1>1 DEF RowsInv, Executes, Active, Idle, NotYet
  <2>2. left' = Children(db', CascadeParent)
    BY DEF CascadeParent
  <2>3. ASSUME NEW v \in Workers, Commit(v)
        PROVE  /\ left = {} => left' = {}
               /\ \A w \in Workers : Kind(w) /\ last'[w].answer = "committed" => left' = {}
    <3>1. \A w \in Workers \ {v} : last'[w] = last[w]
      BY <1>1, <2>3 DEF Commit, End, RowsInv, Typed
    <3>. QED  BY <1>1, <2>1, <2>2, <2>3, <3>1, CommitAddsNoChildren
  <2>4. ASSUME NEW v \in Workers,
               \/ \E s \in Assigned[v] : Begin(v, s) \/ NoSlot(v, s)
               \/ GrantLock(v) \/ RefuseUpgrade(v) \/ Victim(v) \/ Abort(v)
               \/ ExecuteStatement(v)
        PROVE  db' = db /\ \A w \in Workers : Kind(w) => last'[w].answer # "committed"
    <3>1. ASSUME NEW answer \in {"upgrade", "deadlock", "aborted"}, Fail(v, answer)
          PROVE  db' = db /\ \A w \in Workers : Kind(w) => last'[w].answer # "committed"
      BY <1>1, <2>1, <3>1 DEF Fail, End, RowsInv, Typed
    <3>2. CASE \E s \in Assigned[v] : Begin(v, s) \/ NoSlot(v, s)
      <4>1. db' = db /\ ~Active(v) /\ \A w \in Workers \ {v} : last'[w] = last[w]
        BY <1>1, <3>2 DEF Begin, NoSlot, RowsInv, Typed
      <4>. QED  BY <2>1, <4>1
    <3>3. CASE GrantLock(v)
      BY <2>1, <3>3 DEF GrantLock
    <3>4. CASE RefuseUpgrade(v)
      BY <3>1, <3>4 DEF RefuseUpgrade
    <3>5. CASE Victim(v)
      BY <3>1, <3>5 DEF Victim
    <3>6. CASE Abort(v)
      BY <3>1, <3>6 DEF Abort
    <3>7. CASE ExecuteStatement(v)
      <4>1. StatementTakesEffect(v)
        BY <1>1, <3>7, TransactionIsReady DEF ExecuteStatement
      <4>. QED  BY <2>1, <4>1 DEF StatementTakesEffect
    <3>. QED  BY <2>4, <3>2, <3>3, <3>4, <3>5, <3>6, <3>7
  <2>5. CASE UNCHANGED vars
    BY <2>5
  <2>6. CASE Next
    <3>1. PICK v \in Workers :
            \/ \E s \in Assigned[v] : Begin(v, s) \/ NoSlot(v, s)
            \/ Work(v)
            \/ Abort(v)
      BY <2>6 DEF Next
    <3>2. CASE Commit(v)
      BY <2>3, <3>2 DEF CascadeParent
    <3>3. CASE ~Commit(v)
      BY <2>4, <3>1, <3>3 DEF Work, CascadeParent
    <3>. QED  BY <3>2, <3>3
  <2>. QED  BY <1>1, <2>5, <2>6
<1>. QED  BY RowsInvInit, RowsInvNext, <1>1, PTL DEF Spec, CascadeLeavesNothing
=============================================================================
