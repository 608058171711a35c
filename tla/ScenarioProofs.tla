--------------------------- MODULE ScenarioProofs ---------------------------
(***************************************************************************)
(* What the statements of a slot are to each other and to the fixtures,    *)
(* for every pair of seed inputs and every pool size that                  *)
(* PoolSizeAssumption allows: the facts about the seed plan and the        *)
(* scenarios that the proofs about Workload and Prepare rest on.           *)
(***************************************************************************)
EXTENDS Database, TLAPS

(***************************************************************************)
(* Every row that a scenario creates has one owner, the scenario and slot  *)
(* that write it, which its table and id determine.  A row that no slot    *)
(* creates is nobody's.                                                    *)
(***************************************************************************)
Nobody == <<"nobody", 0>>

OwnerBy(row, first, scenario) == <<scenario, row[2] - first>>

Owner(row, n) ==
    LET id == row[2]
    IN  CASE row[1] = "child_basic" ->
               (IF id < 11001 THEN OwnerBy(row, 10001, "generic_insert_existing_parent")
                ELSE IF id < 20001
                     THEN OwnerBy(row, 11001, "generic_update_child_no_fk_change")
                ELSE OwnerBy(row, 20001, "generic_insert_parent_then_child"))
          [] row[1] = "parent_basic" ->
               (IF id <= ParentCount(n) THEN Nobody
                ELSE IF id <= ParentCount(n) + 100
                     THEN OwnerBy(row, ParentCount(n) + 1, "generic_insert_parent_then_child")
                ELSE OwnerBy(row, ParentCount(n) + 101,
                             "generic_insert_parent_then_update_child_fk"))
          [] row[1] = "child_rebind" ->
               (IF id < 13001
                THEN OwnerBy(row, 12001, "generic_insert_parent_then_update_child_fk")
                ELSE OwnerBy(row, 13001, "generic_rebind_child_fk"))
          [] row[1] = "parent_cascade" -> OwnerBy(row, 14001, "generic_delete_parent_cascade")
          [] row[1] = "child_cascade" -> OwnerBy(row, 15001, "generic_delete_parent_cascade")
          [] row[1] = "child_hot" ->
               OwnerBy(row, 16001, "generic_concurrent_hot_parent_insert")
          [] row[1] = "journal" ->
               (IF id < 10001 THEN Nobody
                ELSE IF id < 14001 THEN OwnerBy(row, 10001, "billing_journal_posting_bill")
                ELSE IF id < 19001 THEN OwnerBy(row, 14001, "billing_fk_backfill")
                ELSE OwnerBy(row, 19001, "billing_payment_mixed_references"))
          [] row[1] = "posting" -> OwnerBy(row, 11001, "billing_journal_posting_bill")
          [] row[1] = "bill" ->
               (IF id < 12001 THEN Nobody
                ELSE IF id < 15001 THEN OwnerBy(row, 12001, "billing_journal_posting_bill")
                ELSE OwnerBy(row, 15001, "billing_fk_backfill"))
          [] row[1] = "foliobalance" -> OwnerBy(row, 13001, "billing_folio_balance_update")
          [] row[1] = "feelog" -> OwnerBy(row, 16001, "billing_fk_backfill")
          [] row[1] = "statement" ->
               (IF id < 21001 THEN OwnerBy(row, 17001, "billing_fk_backfill")
                ELSE IF id < 23001 THEN OwnerBy(row, 21001, "billing_cascade_path")
                ELSE OwnerBy(row, 23001, "statement_folio_parent_update_probe"))
          [] row[1] = "withdrawal" ->
               (IF id < 22001 THEN OwnerBy(row, 18001, "billing_fk_backfill")
                ELSE OwnerBy(row, 22001, "billing_cascade_path"))
          [] row[1] = "payment" ->
               (IF id < 20001 THEN OwnerBy(row, 18001, "payment_bill_update_probe")
                ELSE OwnerBy(row, 20001, "billing_payment_mixed_references"))
          [] OTHER -> Nobody

-----------------------------------------------------------------------------
(* A list of statements.                                                   *)

\* The rows that a statement list creates, removes or selects for itself: all that it
\* works on but the parent that a probe updates.
OwnRow(steps, row) == \E k \in 1 .. Len(steps) : steps[k].row = row /\ steps[k].op # "update"

Deletes(steps, row) == \E k \in 1 .. Len(steps) : steps[k].row = row /\ steps[k].op = "delete"

\* Some statement has row child refer to row parent.
Links(steps, child, parent) ==
    \E k \in 1 .. Len(steps) : steps[k].row = child /\ parent \in steps[k].refs

\* Before statement k, the row is sure to be deleted and not yet inserted again.
Absent(steps, k, row) ==
    \E j \in 1 .. k - 1 :
        /\ steps[j].op = "delete" /\ steps[j].row = row
        /\ \A m \in j + 1 .. k - 1 : ~(steps[m].op = "insert" /\ steps[m].row = row)

\* Before statement k, the row is sure to be inserted, and nothing was deleted since.
Present(steps, k, row) ==
    \E j \in 1 .. k - 1 :
        /\ steps[j].op = "insert" /\ steps[j].row = row
        /\ \A m \in j + 1 .. k - 1 : steps[m].op # "delete"

\* Before statement k, the child is sure not to refer to the parent: it was deleted
\* or inserted, and no statement has it refer to the parent since.
Detached(steps, k, child, parent) ==
    \E j \in 1 .. k - 1 :
        /\ steps[j].op \in {"delete", "insert"} /\ steps[j].row = child
        /\ \A m \in j .. k - 1 : steps[m].row = child => parent \notin steps[m].refs

\* A statement that inserts a row finds it deleted, one that deletes a row finds its
\* children detached or cascading, and one that updates a row has it already, unless it
\* is the last.
InOrder(steps, k) ==
    LET st == steps[k]
    IN  /\ st.op = "insert" => Absent(steps, k, st.row)
        /\ st.op = "delete" =>
             \A child : Links(steps, child, st.row) =>
                /\ Deletes(steps, child)
                /\ <<child[1], st.row[1]>> \in Cascading \/ Detached(steps, k, child, st.row)
                /\ \A c : ~Links(steps, c, child)
        /\ st.op \notin {"insert", "rebind"} => st.refs = {}

\* The list is not empty, and its first statement works on a row that has no children, and
\* is no update.
StartsAtChild(steps) ==
    /\ Len(steps) \in Nat /\ Len(steps) >= 1 /\ DOMAIN steps = 1 .. Len(steps)
    /\ steps[1].op \in {"delete", "select"}
    /\ \A child : ~Links(steps, child, steps[1].row)

WellFormed(steps) == StartsAtChild(steps) /\ \A k \in 1 .. Len(steps) : InOrder(steps, k)

\* A row that prepare has left.
Fixture(row, n, h) == \E r \in FixtureRows(n, h) : r.row = row

\* What a statement needs and does not create is a fixture that the list leaves alone.
Grounded(steps, k, n, h) ==
    /\ \A row \in steps[k].refs :
         Present(steps, k, row) \/ (Fixture(row, n, h) /\ ~OwnRow(steps, row))
    /\ steps[k].op = "select" => Fixture(steps[k].row, n, h) /\ ~Deletes(steps, steps[k].row)

\* The statements of slot i of scenario s stay with the rows of that slot, and refer
\* only to these and to rows that are nobody's.
Owned(s, i, steps, k, n) ==
    /\ steps[k].op # "update" => Owner(steps[k].row, n) = <<s, i>>
    /\ \A row \in steps[k].refs : Owner(row, n) \in {<<s, i>>, Nobody}

\* A probe inserts a row that refers to a parent and then updates the parent.
EndsAtParent(steps) ==
    /\ Len(steps) = 3
    /\ steps[2].op = "insert" /\ steps[3].op = "update"
    /\ steps[3].row \in steps[2].refs

Sound(s, n, h, i) ==
    LET steps == StepsOf(s, n, h, i)
    IN  /\ WellFormed(steps)
        /\ \A k \in 1 .. Len(steps) : Grounded(steps, k, n, h)
        /\ \A k \in 1 .. Len(steps) : Owned(s, i, steps, k, n)
        /\ s \in SuccessScenarios => \A k \in 1 .. Len(steps) : OwnRow(steps, steps[k].row)
        /\ s \in Probes => EndsAtParent(steps)

-----------------------------------------------------------------------------
(* The fixtures.                                                           *)

GenericRows(n, h) ==
    UNION { GenericParentBasicRows(n), GenericChildBasicRows(n), GenericChildRebindRows(n),
            GenericParentCascadeRows, GenericChildCascadeRows,
            GenericParentHotRows(n, h), GenericChildHotRows(n, h), GenericProbeSummaryRows }

BillingRows(n) ==
    UNION { BillingCustomerRows(n), BillingFolioRows(n), BillingJournalRows(n),
            BillingPostingRows, BillingBillRows(n), BillingPaymentRows,
            BillingFolioBalanceRows(n), BillingFeeLogRows,
            BillingStatementRows(n), BillingWithdrawalRows }

LEMMA UnionOfEight ==
    ASSUME NEW a1, NEW a2, NEW a3, NEW a4, NEW a5, NEW a6, NEW a7, NEW a8
    PROVE  UNION Range(<<a1, a2, a3, a4, a5, a6, a7, a8>> \o << >>)
             = UNION {a1, a2, a3, a4, a5, a6, a7, a8}
  BY DEF Range

LEMMA UnionOfEighteen ==
    ASSUME NEW a1, NEW a2, NEW a3, NEW a4, NEW a5, NEW a6, NEW a7, NEW a8,
           NEW b1, NEW b2, NEW b3, NEW b4, NEW b5, NEW b6, NEW b7, NEW b8, NEW b9, NEW b10
    PROVE  UNION Range(<<a1, a2, a3, a4, a5, a6, a7, a8>>
                       \o <<b1, b2, b3, b4, b5, b6, b7, b8, b9, b10>>)
             = UNION {a1, a2, a3, a4, a5, a6, a7, a8,
                      b1, b2, b3, b4, b5, b6, b7, b8, b9, b10}
  BY DEF Range

\* FixtureRows without the sequences of statements.
LEMMA FixturesByTable ==
    ASSUME NEW n \in Int, NEW h \in Int
    PROVE  FixtureRows(n, h) =
             GenericRows(n, h) \cup (IF ParentCount(n) = 0 THEN {} ELSE BillingRows(n))
<1>1. CASE ParentCount(n) = 0
  BY <1>1, UnionOfEight
  DEF FixtureRows, FixtureStatements, GenericFixtureStatements, BillingFixtureStatements,
      GenericRows
<1>2. CASE ParentCount(n) # 0
  BY <1>2, UnionOfEighteen
  DEF FixtureRows, FixtureStatements, GenericFixtureStatements, BillingFixtureStatements,
      GenericRows, BillingRows
<1>. QED  BY <1>1, <1>2

\* The fixtures that slots rely on.
LEMMA GenericFixtures ==
    ASSUME NEW n \in Int, NEW h \in Int
    PROVE  /\ \A p \in 1 .. ParentCount(n) : Fixture(Parent(p), n, h)
           /\ \A p \in 1 .. HotCount(n, h) : Fixture(<<"parent_hot", p>>, n, h)
           /\ \A i \in Pool : Fixture(DeleteParentCascadeSlot(i).parent, n, h)
<1>1. GenericRows(n, h) \subseteq FixtureRows(n, h)
  BY FixturesByTable
<1>2. /\ GenericParentBasicRows(n) \subseteq FixtureRows(n, h)
      /\ GenericParentHotRows(n, h) \subseteq FixtureRows(n, h)
      /\ GenericParentCascadeRows \subseteq FixtureRows(n, h)
  BY <1>1 DEF GenericRows
<1>3. /\ \A p \in 1 .. ParentCount(n) : Plain(Parent(p)) \in FixtureRows(n, h)
      /\ \A p \in 1 .. HotCount(n, h) : Plain(<<"parent_hot", p>>) \in FixtureRows(n, h)
      /\ \A i \in Pool : Plain(DeleteParentCascadeSlot(i).parent) \in FixtureRows(n, h)
  BY <1>2 DEF GenericParentBasicRows, GenericParentHotRows, GenericParentCascadeRows
<1>4. \A row : Plain(row).row = row
  BY DEF Plain, Referring
<1>. QED  BY <1>3, <1>4 DEF Fixture

LEMMA BillingFixtures ==
    ASSUME NEW n \in Int, NEW h \in Int, ParentCount(n) >= 1
    PROVE  /\ Fixture(ExistingJournal, n, h) /\ Fixture(ExistingBill, n, h)
           /\ \A i \in 0 .. n - 1 : Fixture(Customer(n, i), n, h) /\ Fixture(Folio(n, i), n, h)
           /\ \A i \in Pool :
                /\ Fixture(Customer(n, i), n, h) /\ Fixture(Folio(n, i), n, h)
                /\ Fixture(JournalPostingBillSlot(i).journal, n, h)
                /\ Fixture(FKBackfillSlot(i).journal, n, h)
                /\ Fixture(FKBackfillSlot(i).bill, n, h)
                /\ Fixture(FKBackfillSlot(i).statement, n, h)
                /\ Fixture(PaymentMixedReferenceSlot(i).journal, n, h)
                /\ Fixture(CascadePathSlot(i).statement, n, h)
                /\ Fixture(FolioBalanceUpdateSlot(i).balance, n, h)
<1>0. \A row, refs : Plain(row).row = row /\ Referring(row, refs).row = row
  BY DEF Plain, Referring
<1>1. BillingRows(n) \subseteq FixtureRows(n, h)
  BY FixturesByTable
<1>2. /\ BillingCustomerRows(n) \subseteq FixtureRows(n, h)
      /\ BillingFolioRows(n) \subseteq FixtureRows(n, h)
      /\ BillingJournalRows(n) \subseteq FixtureRows(n, h)
      /\ BillingBillRows(n) \subseteq FixtureRows(n, h)
      /\ BillingStatementRows(n) \subseteq FixtureRows(n, h)
      /\ BillingFolioBalanceRows(n) \subseteq FixtureRows(n, h)
  BY <1>1 DEF BillingRows
<1>3. /\ Fixture(ExistingJournal, n, h) /\ Fixture(ExistingBill, n, h)
  BY <1>2 DEF Fixture, BillingJournalRows, BillingBillRows, Referring
<1>4. \A i \in 0 .. n - 1 : Fixture(Customer(n, i), n, h) /\ Fixture(Folio(n, i), n, h)
  <2>1. \A i \in 0 .. n - 1 : /\ Plain(Customer(n, i)) \in FixtureRows(n, h)
                               /\ Referring(Folio(n, i), {Customer(n, i)}) \in FixtureRows(n, h)
    BY <1>2 DEF BillingCustomerRows, BillingFolioRows
  <2>. QED  BY <1>0, <2>1 DEF Fixture
<1>5. ASSUME NEW i \in Pool
      PROVE  Fixture(Customer(n, i), n, h) /\ Fixture(Folio(n, i), n, h)
  <2>1. i % n \in 0 .. n - 1 /\ (i % n) % n = i % n
    BY PoolSizeAssumption DEF ParentCount, Pool
  <2>2. Customer(n, i) = Customer(n, i % n) /\ Folio(n, i) = Folio(n, i % n)
    BY <2>1 DEF Customer, Folio
  <2>. QED  BY <1>4, <2>1, <2>2
<1>6. ASSUME NEW i \in Pool
      PROVE  /\ Fixture(JournalPostingBillSlot(i).journal, n, h)
             /\ Fixture(FKBackfillSlot(i).journal, n, h)
             /\ Fixture(PaymentMixedReferenceSlot(i).journal, n, h)
  <2>1. \A slot \in {JournalPostingBillSlot(i), FKBackfillSlot(i), PaymentMixedReferenceSlot(i)} :
           Referring(slot.journal, Account(n, i)) \in FixtureRows(n, h)
    BY <1>2 DEF BillingJournalRows
  <2>. QED  BY <1>0, <2>1 DEF Fixture
<1>7. ASSUME NEW i \in Pool
      PROVE  /\ Fixture(FKBackfillSlot(i).bill, n, h)
             /\ Fixture(FKBackfillSlot(i).statement, n, h)
             /\ Fixture(CascadePathSlot(i).statement, n, h)
             /\ Fixture(FolioBalanceUpdateSlot(i).balance, n, h)
  <2>1. Referring(FKBackfillSlot(i).bill, {FKBackfillSlot(i).journal, Folio(n, i)})
          \in FixtureRows(n, h)
    BY <1>2 DEF BillingBillRows
  <2>2. /\ Referring(FKBackfillSlot(i).statement, Account(n, i)) \in FixtureRows(n, h)
        /\ Referring(CascadePathSlot(i).statement, Account(n, i)) \in FixtureRows(n, h)
        /\ Referring(FolioBalanceUpdateSlot(i).balance, Account(n, i)) \in FixtureRows(n, h)
    BY <1>2 DEF BillingStatementRows, BillingFolioBalanceRows
  <2>. QED  BY <1>0, <2>1, <2>2 DEF Fixture
<1>. QED  BY <1>3, <1>4, <1>5, <1>6, <1>7

-----------------------------------------------------------------------------
(* Every slot is sound, scenario by scenario: first the statements one by  *)
(* one, then whose rows they are, which of them are fixtures, and in which *)
(* tables the slot's own rows are.                                         *)

USE DEF Statement, Delete, Insert, Rebind, Update, SelectForUpdate,
        WellFormed, StartsAtChild, InOrder, Grounded, Owned, EndsAtParent,
        OwnRow, Deletes, Links, Absent, Present, Detached

LEMMA InsertExistingParentIsSound ==
    ASSUME NEW n \in Int, NEW h \in Int, NEW i \in Pool,
           HasSlots("generic_insert_existing_parent", n, h)
    PROVE  Sound("generic_insert_existing_parent", n, h, i)
<1>. DEFINE s == "generic_insert_existing_parent"
            child == InsertExistingParentSlot(i).child
            parent == Parent(1)
            steps == StepsOf(s, n, h, i)
<1>1. /\ Len(steps) = 2 /\ DOMAIN steps = 1 .. 2
      /\ steps[1] = Delete(child)
      /\ steps[2] = Insert(child, {parent})
  BY DEF StepsOf, InsertExistingParent, InsertExistingParentSlot, Replace
<1>2. /\ Owner(child, n) = <<s, i>>
      /\ Owner(parent, n) = Nobody
  BY PoolSizeAssumption
  DEF Owner, OwnerBy, Nobody, HasSlots, ParentCount, HotCount, Pool, Parent,
      InsertExistingParentSlot
<1>3. Fixture(parent, n, h)
  BY GenericFixtures, PoolSizeAssumption DEF HasSlots, Pool, ParentCount, HotCount
<1>. HIDE DEF steps, child, parent
<1>4. WellFormed(steps)
  BY <1>1, <1>2, <1>3 DEF Nobody
<1>5. \A k \in 1 .. Len(steps) : Grounded(steps, k, n, h) /\ Owned(s, i, steps, k, n)
  BY <1>1, <1>2, <1>3 DEF Nobody
<1>6. \A k \in 1 .. Len(steps) : OwnRow(steps, steps[k].row)
  BY <1>1
<1>. QED
  BY <1>4, <1>5, <1>6
  DEF Sound, steps, SuccessScenarios, GenericScenarios, BillingScenarios, Probes

LEMMA InsertParentThenChildIsSound ==
    ASSUME NEW n \in Int, NEW h \in Int, NEW i \in Pool,
           HasSlots("generic_insert_parent_then_child", n, h)
    PROVE  Sound("generic_insert_parent_then_child", n, h, i)
<1>. DEFINE s == "generic_insert_parent_then_child"
            child == InsertParentThenChildSlot(n, i).child
            parent == InsertParentThenChildSlot(n, i).parent
            steps == StepsOf(s, n, h, i)
<1>1. /\ Len(steps) = 4 /\ DOMAIN steps = 1 .. 4
      /\ steps[1] = Delete(child)
      /\ steps[2] = Delete(parent)
      /\ steps[3] = Insert(parent, {})
      /\ steps[4] = Insert(child, {parent})
  BY DEF StepsOf, InsertParentThenChild, InsertParentThenChildSlot
<1>2. /\ Owner(child, n) = <<s, i>>
      /\ Owner(parent, n) = <<s, i>>
  BY PoolSizeAssumption
  DEF Owner, OwnerBy, Nobody, HasSlots, ParentCount, HotCount, Pool, Parent,
      InsertParentThenChildSlot
<1>3. /\ child[1] = "child_basic"
      /\ parent[1] = "parent_basic"
  BY DEF InsertParentThenChildSlot, Parent
<1>. HIDE DEF steps, child, parent
<1>4. WellFormed(steps)
  BY <1>1, <1>2, <1>3 DEF Nobody
<1>5. \A k \in 1 .. Len(steps) : Grounded(steps, k, n, h) /\ Owned(s, i, steps, k, n)
  BY <1>1, <1>2, <1>3 DEF Nobody
<1>6. \A k \in 1 .. Len(steps) : OwnRow(steps, steps[k].row)
  BY <1>1
<1>. QED
  BY <1>4, <1>5, <1>6
  DEF Sound, steps, SuccessScenarios, GenericScenarios, BillingScenarios, Probes

LEMMA UpdateChildNoFKChangeIsSound ==
    ASSUME NEW n \in Int, NEW h \in Int, NEW i \in Pool,
           HasSlots("generic_update_child_no_fk_change", n, h)
    PROVE  Sound("generic_update_child_no_fk_change", n, h, i)
<1>. DEFINE s == "generic_update_child_no_fk_change"
            child == UpdateChildNoFKChangeSlot(i).child
            parent == Parent(1)
            steps == StepsOf(s, n, h, i)
<1>1. /\ Len(steps) = 3 /\ DOMAIN steps = 1 .. 3
      /\ steps[1] = Delete(child)
      /\ steps[2] = Insert(child, {parent})
      /\ steps[3] = Update(child)
  <2>1. steps = << Delete(child), Insert(child, {parent}) >> \o << Update(child) >>
    BY DEF StepsOf, UpdateChildNoFKChange, UpdateChildNoFKChangeSlot, Replace
  <2>. HIDE DEF steps, child, parent
  <2>. QED  BY ONLY <2>1, SMTT(30)
<1>2. /\ Owner(child, n) = <<s, i>>
      /\ Owner(parent, n) = Nobody
  BY PoolSizeAssumption
  DEF Owner, OwnerBy, Nobody, HasSlots, ParentCount, HotCount, Pool, Parent,
      UpdateChildNoFKChangeSlot
<1>3. Fixture(parent, n, h)
  BY GenericFixtures, PoolSizeAssumption DEF HasSlots, Pool, ParentCount, HotCount
<1>. HIDE DEF steps, child, parent
<1>4. WellFormed(steps)
  BY <1>1, <1>2, <1>3 DEF Nobody
<1>5. \A k \in 1 .. Len(steps) : Grounded(steps, k, n, h) /\ Owned(s, i, steps, k, n)
  BY <1>1, <1>2, <1>3 DEF Nobody
<1>6. \A k \in 1 .. Len(steps) : OwnRow(steps, steps[k].row)
  BY <1>1
<1>. QED
  BY <1>4, <1>5, <1>6
  DEF Sound, steps, SuccessScenarios, GenericScenarios, BillingScenarios, Probes

LEMMA RebindChildFKIsSound ==
    ASSUME NEW n \in Int, NEW h \in Int, NEW i \in Pool,
           HasSlots("generic_rebind_child_fk", n, h)
    PROVE  Sound("generic_rebind_child_fk", n, h, i)
<1>. DEFINE s == "generic_rebind_child_fk"
            child == RebindChildSlot(i).child
            base == Parent(1)
            target == Parent(2)
            steps == StepsOf(s, n, h, i)
<1>1. /\ Len(steps) = 3 /\ DOMAIN steps = 1 .. 3
      /\ steps[1] = Delete(child)
      /\ steps[2] = Insert(child, {base})
      /\ steps[3] = Rebind(child, {target})
  BY DEF StepsOf, RebindChildFK, RebindChildSlot, Replace
<1>2. /\ Owner(child, n) = <<s, i>>
      /\ Owner(base, n) = Nobody
      /\ Owner(target, n) = Nobody
  BY PoolSizeAssumption
  DEF Owner, OwnerBy, Nobody, HasSlots, ParentCount, HotCount, Pool, Parent, RebindChildSlot
<1>3. /\ Fixture(base, n, h)
      /\ Fixture(target, n, h)
  BY GenericFixtures, PoolSizeAssumption DEF HasSlots, Pool, ParentCount, HotCount
<1>. HIDE DEF steps, child, base, target
<1>4. WellFormed(steps)
  BY <1>1, <1>2, <1>3 DEF Nobody
<1>5. \A k \in 1 .. Len(steps) : Grounded(steps, k, n, h) /\ Owned(s, i, steps, k, n)
  BY <1>1, <1>2, <1>3 DEF Nobody
<1>6. \A k \in 1 .. Len(steps) : OwnRow(steps, steps[k].row)
  BY <1>1
<1>. QED
  BY <1>4, <1>5, <1>6
  DEF Sound, steps, SuccessScenarios, GenericScenarios, BillingScenarios, Probes

LEMMA InsertParentThenUpdateChildFKIsSound ==
    ASSUME NEW n \in Int, NEW h \in Int, NEW i \in Pool,
           HasSlots("generic_insert_parent_then_update_child_fk", n, h)
    PROVE  Sound("generic_insert_parent_then_update_child_fk", n, h, i)
<1>. DEFINE s == "generic_insert_parent_then_update_child_fk"
            child == InsertParentThenUpdateChildSlot(n, i).child
            target == InsertParentThenUpdateChildSlot(n, i).target
            base == Parent(1)
            steps == StepsOf(s, n, h, i)
<1>1. /\ Len(steps) = 5 /\ DOMAIN steps = 1 .. 5
      /\ steps[1] = Delete(child)
      /\ steps[2] = Insert(child, {base})
      /\ steps[3] = Delete(target)
      /\ steps[4] = Insert(target, {})
      /\ steps[5] = Rebind(child, {target})
  BY DEF StepsOf, InsertParentThenUpdateChildFK, InsertParentThenUpdateChildSlot, Replace
<1>2. /\ Owner(child, n) = <<s, i>>
      /\ Owner(target, n) = <<s, i>>
      /\ Owner(base, n) = Nobody
  BY PoolSizeAssumption
  DEF Owner, OwnerBy, Nobody, HasSlots, ParentCount, HotCount, Pool, Parent,
      InsertParentThenUpdateChildSlot
<1>3. Fixture(base, n, h)
  BY GenericFixtures, PoolSizeAssumption DEF HasSlots, Pool, ParentCount, HotCount
<1>4. /\ child[1] = "child_rebind"
      /\ target[1] = "parent_basic"
  BY DEF InsertParentThenUpdateChildSlot, Parent
<1>. HIDE DEF steps, child, target, base
<1>5. WellFormed(steps)
  BY <1>1, <1>2, <1>3, <1>4 DEF Nobody
<1>6. \A k \in 1 .. Len(steps) : Grounded(steps, k, n, h) /\ Owned(s, i, steps, k, n)
  BY <1>1, <1>2, <1>3, <1>4 DEF Nobody
<1>7. \A k \in 1 .. Len(steps) : OwnRow(steps, steps[k].row)
  BY <1>1
<1>. QED
  BY <1>5, <1>6, <1>7
  DEF Sound, steps, SuccessScenarios, GenericScenarios, BillingScenarios, Probes

LEMMA DeleteParentCascadeIsSound ==
    ASSUME NEW n \in Int, NEW h \in Int, NEW i \in Pool,
           HasSlots("generic_delete_parent_cascade", n, h)
    PROVE  Sound("generic_delete_parent_cascade", n, h, i)
<1>. DEFINE s == "generic_delete_parent_cascade"
            child == DeleteParentCascadeSlot(i).child
            parent == DeleteParentCascadeSlot(i).parent
            steps == StepsOf(s, n, h, i)
<1>1. /\ Len(steps) = 5 /\ DOMAIN steps = 1 .. 5
      /\ steps[1] = Delete(child)
      /\ steps[2] = Delete(parent)
      /\ steps[3] = Insert(parent, {})
      /\ steps[4] = Insert(child, {parent})
      /\ steps[5] = Delete(parent)
  BY DEF StepsOf, DeleteParentCascade, DeleteParentCascadeSlot
<1>2. /\ Owner(child, n) = <<s, i>>
      /\ Owner(parent, n) = <<s, i>>
  BY PoolSizeAssumption
  DEF Owner, OwnerBy, Nobody, HasSlots, ParentCount, HotCount, Pool, Parent, DeleteParentCascadeSlot
<1>3. /\ child[1] = "child_cascade"
      /\ parent[1] = "parent_cascade"
  BY DEF DeleteParentCascadeSlot
<1>. HIDE DEF steps, child, parent
<1>4. WellFormed(steps)
  BY <1>1, <1>2, <1>3 DEF Nobody, Cascading
<1>5. \A k \in 1 .. Len(steps) : Grounded(steps, k, n, h) /\ Owned(s, i, steps, k, n)
  BY <1>1, <1>2, <1>3 DEF Nobody
<1>6. \A k \in 1 .. Len(steps) : OwnRow(steps, steps[k].row)
  BY <1>1
<1>. QED
  BY <1>4, <1>5, <1>6
  DEF Sound, steps, SuccessScenarios, GenericScenarios, BillingScenarios, Probes

LEMMA ConcurrentHotParentInsertIsSound ==
    ASSUME NEW n \in Int, NEW h \in Int, NEW i \in Pool,
           HasSlots("generic_concurrent_hot_parent_insert", n, h)
    PROVE  Sound("generic_concurrent_hot_parent_insert", n, h, i)
<1>. DEFINE s == "generic_concurrent_hot_parent_insert"
            child == ConcurrentHotParentInsertSlot(n, h, i).child
            parent == ConcurrentHotParentInsertSlot(n, h, i).parent
            steps == StepsOf(s, n, h, i)
<1>1. /\ Len(steps) = 2 /\ DOMAIN steps = 1 .. 2
      /\ steps[1] = Delete(child)
      /\ steps[2] = Insert(child, {parent})
  BY DEF StepsOf, ConcurrentHotParentInsert, ConcurrentHotParentInsertSlot, Replace
<1>2. /\ Owner(child, n) = <<s, i>>
      /\ Owner(parent, n) = Nobody
  BY PoolSizeAssumption
  DEF Owner, OwnerBy, Nobody, HasSlots, ParentCount, HotCount, Pool, Parent,
      ConcurrentHotParentInsertSlot
<1>3. Fixture(parent, n, h)
  BY GenericFixtures, PoolSizeAssumption
  DEF HasSlots, Pool, ParentCount, HotCount, ConcurrentHotParentInsertSlot
<1>. HIDE DEF steps, child, parent
<1>4. WellFormed(steps)
  BY <1>1, <1>2, <1>3 DEF Nobody
<1>5. \A k \in 1 .. Len(steps) : Grounded(steps, k, n, h) /\ Owned(s, i, steps, k, n)
  BY <1>1, <1>2, <1>3 DEF Nobody
<1>6. \A k \in 1 .. Len(steps) : OwnRow(steps, steps[k].row)
  BY <1>1
<1>. QED
  BY <1>4, <1>5, <1>6
  DEF Sound, steps, SuccessScenarios, GenericScenarios, BillingScenarios, Probes

LEMMA JournalPostingBillIsSound ==
    ASSUME NEW n \in Int, NEW h \in Int, NEW i \in Pool,
           HasSlots("billing_journal_posting_bill", n, h)
    PROVE  Sound("billing_journal_posting_bill", n, h, i)
<1>. DEFINE s == "billing_journal_posting_bill"
            journal == JournalPostingBillSlot(i).journal
            posting == JournalPostingBillSlot(i).posting
            bill == JournalPostingBillSlot(i).bill
            customer == Customer(n, i)
            folio == Folio(n, i)
            steps == StepsOf(s, n, h, i)
<1>1. /\ Len(steps) = 6 /\ DOMAIN steps = 1 .. 6
      /\ steps[1] = Delete(bill)
      /\ steps[2] = Delete(posting)
      /\ steps[3] = Delete(journal)
      /\ steps[4] = Insert(journal, {customer, folio})
      /\ steps[5] = Insert(posting, {journal})
      /\ steps[6] = Insert(bill, {journal, folio})
  BY DEF StepsOf, JournalPostingBill, JournalPostingBillSlot, Account
<1>2. /\ Owner(journal, n) = <<s, i>>
      /\ Owner(posting, n) = <<s, i>>
      /\ Owner(bill, n) = <<s, i>>
      /\ Owner(customer, n) = Nobody
      /\ Owner(folio, n) = Nobody
  BY PoolSizeAssumption
  DEF Owner, OwnerBy, Nobody, HasSlots, ParentCount, HotCount, Pool, Parent,
      JournalPostingBillSlot, Customer, Folio
<1>3. /\ Fixture(customer, n, h)
      /\ Fixture(folio, n, h)
  BY BillingFixtures, PoolSizeAssumption DEF HasSlots, Pool, ParentCount, HotCount
<1>4. /\ journal[1] = "journal"
      /\ posting[1] = "posting"
      /\ bill[1] = "bill"
  BY DEF JournalPostingBillSlot
<1>. HIDE DEF steps, journal, posting, bill, customer, folio
<1>5. WellFormed(steps)
  BY <1>1, <1>2, <1>3, <1>4 DEF Nobody
<1>6. \A k \in 1 .. Len(steps) : Grounded(steps, k, n, h) /\ Owned(s, i, steps, k, n)
  BY <1>1, <1>2, <1>3, <1>4 DEF Nobody
<1>7. \A k \in 1 .. Len(steps) : OwnRow(steps, steps[k].row)
  BY <1>1
<1>. QED
  BY <1>5, <1>6, <1>7
  DEF Sound, steps, SuccessScenarios, GenericScenarios, BillingScenarios, Probes

LEMMA FolioBalanceUpdateIsSound ==
    ASSUME NEW n \in Int, NEW h \in Int, NEW i \in Pool,
           HasSlots("billing_folio_balance_update", n, h)
    PROVE  Sound("billing_folio_balance_update", n, h, i)
<1>. DEFINE s == "billing_folio_balance_update"
            balance == FolioBalanceUpdateSlot(i).balance
            steps == StepsOf(s, n, h, i)
<1>1. /\ Len(steps) = 2 /\ DOMAIN steps = 1 .. 2
      /\ steps[1] = SelectForUpdate(balance)
      /\ steps[2] = Update(balance)
  BY DEF StepsOf, FolioBalanceUpdate, FolioBalanceUpdateSlot
<1>2. Owner(balance, n) = <<s, i>>
  BY PoolSizeAssumption
  DEF Owner, OwnerBy, Nobody, HasSlots, ParentCount, HotCount, Pool, Parent, FolioBalanceUpdateSlot
<1>3. Fixture(balance, n, h)
  BY BillingFixtures, PoolSizeAssumption DEF HasSlots, Pool, ParentCount, HotCount
<1>. HIDE DEF steps, balance
<1>4. WellFormed(steps)
  BY <1>1, <1>2, <1>3 DEF Nobody
<1>5. \A k \in 1 .. Len(steps) : Grounded(steps, k, n, h) /\ Owned(s, i, steps, k, n)
  BY <1>1, <1>2, <1>3 DEF Nobody
<1>6. \A k \in 1 .. Len(steps) : OwnRow(steps, steps[k].row)
  BY <1>1
<1>. QED
  BY <1>4, <1>5, <1>6
  DEF Sound, steps, SuccessScenarios, GenericScenarios, BillingScenarios, Probes

LEMMA FKBackfillIsSound ==
    ASSUME NEW n \in Int, NEW h \in Int, NEW i \in Pool,
           HasSlots("billing_fk_backfill", n, h)
    PROVE  Sound("billing_fk_backfill", n, h, i)
<1>. DEFINE s == "billing_fk_backfill"
            journal == FKBackfillSlot(i).journal
            bill == FKBackfillSlot(i).bill
            feelog == FKBackfillSlot(i).feelog
            statement == FKBackfillSlot(i).statement
            withdrawal == FKBackfillSlot(i).withdrawal
            customer == Customer(n, i)
            folio == Folio(n, i)
            steps == StepsOf(s, n, h, i)
<1>1. /\ Len(steps) = 10 /\ DOMAIN steps = 1 .. 10
      /\ steps[1] = Delete(feelog)
      /\ steps[2] = Delete(withdrawal)
      /\ steps[3] = Delete(bill)
      /\ steps[4] = Delete(statement)
      /\ steps[5] = Insert(feelog, {journal})
      /\ steps[6] = Insert(withdrawal, {journal})
      /\ steps[7] = Insert(bill, {journal, folio})
      /\ steps[8] = Rebind(feelog, {journal, bill})
      /\ steps[9] = Insert(statement, {customer, folio})
      /\ steps[10] = Rebind(withdrawal, {journal, statement})
  BY DEF StepsOf, FKBackfill, FKBackfillSlot, Account
<1>2. /\ Owner(journal, n) = <<s, i>>
      /\ Owner(bill, n) = <<s, i>>
      /\ Owner(feelog, n) = <<s, i>>
      /\ Owner(statement, n) = <<s, i>>
      /\ Owner(withdrawal, n) = <<s, i>>
      /\ Owner(customer, n) = Nobody
      /\ Owner(folio, n) = Nobody
  BY PoolSizeAssumption
  DEF Owner, OwnerBy, Nobody, HasSlots, ParentCount, HotCount, Pool, Parent, FKBackfillSlot,
      Customer, Folio
<1>3. /\ Fixture(customer, n, h)
      /\ Fixture(folio, n, h)
      /\ Fixture(journal, n, h)
  BY BillingFixtures, PoolSizeAssumption DEF HasSlots, Pool, ParentCount, HotCount
<1>4. /\ journal[1] = "journal"
      /\ bill[1] = "bill"
      /\ feelog[1] = "feelog"
      /\ statement[1] = "statement"
      /\ withdrawal[1] = "withdrawal"
  BY DEF FKBackfillSlot
<1>. HIDE DEF steps, journal, bill, feelog, statement, withdrawal, customer, folio
<1>5. WellFormed(steps)
  <2>1. feelog \notin {journal, bill, statement, customer, folio}
    BY <1>2, <1>4 DEF Nobody
  <2>2. StartsAtChild(steps)
    BY <1>1, <2>1
  <2>3. \A k \in 1 .. Len(steps) : InOrder(steps, k)
    BY <1>1, <1>2, <1>3, <1>4 DEF Nobody
  <2>. QED  BY <2>2, <2>3
<1>6. \A k \in 1 .. Len(steps) : Grounded(steps, k, n, h) /\ Owned(s, i, steps, k, n)
  BY <1>1, <1>2, <1>3, <1>4 DEF Nobody
<1>7. \A k \in 1 .. Len(steps) : OwnRow(steps, steps[k].row)
  BY <1>1
<1>. QED
  BY <1>5, <1>6, <1>7
  DEF Sound, steps, SuccessScenarios, GenericScenarios, BillingScenarios, Probes

LEMMA PaymentMixedReferencesIsSound ==
    ASSUME NEW n \in Int, NEW h \in Int, NEW i \in Pool,
           HasSlots("billing_payment_mixed_references", n, h)
    PROVE  Sound("billing_payment_mixed_references", n, h, i)
<1>. DEFINE s == "billing_payment_mixed_references"
            journal == PaymentMixedReferenceSlot(i).journal
            payment == PaymentMixedReferenceSlot(i).payment
            bill == ExistingBill
            customer == Customer(n, i)
            folio == Folio(n, i)
            steps == StepsOf(s, n, h, i)
<1>1. /\ Len(steps) = 4 /\ DOMAIN steps = 1 .. 4
      /\ steps[1] = Delete(payment)
      /\ steps[2] = Delete(journal)
      /\ steps[3] = Insert(journal, {customer, folio})
      /\ steps[4] = Insert(payment, {bill, journal})
  BY DEF StepsOf, PaymentMixedReferences, PaymentMixedReferenceSlot, Account
<1>2. /\ Owner(journal, n) = <<s, i>>
      /\ Owner(payment, n) = <<s, i>>
      /\ Owner(bill, n) = Nobody
      /\ Owner(customer, n) = Nobody
      /\ Owner(folio, n) = Nobody
  BY PoolSizeAssumption
  DEF Owner, OwnerBy, Nobody, HasSlots, ParentCount, HotCount, Pool, Parent,
      PaymentMixedReferenceSlot, ExistingBill, Customer, Folio
<1>3. /\ Fixture(bill, n, h)
      /\ Fixture(customer, n, h)
      /\ Fixture(folio, n, h)
  BY BillingFixtures, PoolSizeAssumption DEF HasSlots, Pool, ParentCount, HotCount
<1>4. /\ journal[1] = "journal"
      /\ payment[1] = "payment"
  BY DEF PaymentMixedReferenceSlot
<1>. HIDE DEF steps, journal, payment, bill, customer, folio
<1>5. WellFormed(steps)
  BY <1>1, <1>2, <1>3, <1>4 DEF Nobody
<1>6. \A k \in 1 .. Len(steps) : Grounded(steps, k, n, h) /\ Owned(s, i, steps, k, n)
  BY <1>1, <1>2, <1>3, <1>4 DEF Nobody
<1>7. \A k \in 1 .. Len(steps) : OwnRow(steps, steps[k].row)
  BY <1>1
<1>. QED
  BY <1>5, <1>6, <1>7
  DEF Sound, steps, SuccessScenarios, GenericScenarios, BillingScenarios, Probes

LEMMA CascadePathIsSound ==
    ASSUME NEW n \in Int, NEW h \in Int, NEW i \in Pool,
           HasSlots("billing_cascade_path", n, h)
    PROVE  Sound("billing_cascade_path", n, h, i)
<1>. DEFINE s == "billing_cascade_path"
            statement == CascadePathSlot(i).statement
            withdrawal == CascadePathSlot(i).withdrawal
            journal == ExistingJournal
            customer == Customer(n, i)
            folio == Folio(n, i)
            steps == StepsOf(s, n, h, i)
<1>1. /\ Len(steps) = 5 /\ DOMAIN steps = 1 .. 5
      /\ steps[1] = Delete(withdrawal)
      /\ steps[2] = Delete(statement)
      /\ steps[3] = Insert(statement, {customer, folio})
      /\ steps[4] = Insert(withdrawal, {journal, statement})
      /\ steps[5] = Delete(statement)
  BY DEF StepsOf, CascadePath, CascadePathSlot, Account
<1>2. /\ Owner(statement, n) = <<s, i>>
      /\ Owner(withdrawal, n) = <<s, i>>
      /\ Owner(journal, n) = Nobody
      /\ Owner(customer, n) = Nobody
      /\ Owner(folio, n) = Nobody
  BY PoolSizeAssumption
  DEF Owner, OwnerBy, Nobody, HasSlots, ParentCount, HotCount, Pool, Parent, CascadePathSlot,
      ExistingJournal, Customer, Folio
<1>3. /\ Fixture(journal, n, h)
      /\ Fixture(customer, n, h)
      /\ Fixture(folio, n, h)
  BY BillingFixtures, PoolSizeAssumption DEF HasSlots, Pool, ParentCount, HotCount
<1>4. /\ statement[1] = "statement"
      /\ withdrawal[1] = "withdrawal"
  BY DEF CascadePathSlot
<1>. HIDE DEF steps, statement, withdrawal, journal, customer, folio
<1>5. WellFormed(steps)
  BY <1>1, <1>2, <1>3, <1>4 DEF Nobody, Cascading
<1>6. \A k \in 1 .. Len(steps) : Grounded(steps, k, n, h) /\ Owned(s, i, steps, k, n)
  BY <1>1, <1>2, <1>3, <1>4 DEF Nobody
<1>7. \A k \in 1 .. Len(steps) : OwnRow(steps, steps[k].row)
  BY <1>1
<1>. QED
  BY <1>5, <1>6, <1>7
  DEF Sound, steps, SuccessScenarios, GenericScenarios, BillingScenarios, Probes

LEMMA PaymentBillUpdateProbeIsSound ==
    ASSUME NEW n \in Int, NEW h \in Int, NEW i \in Pool,
           HasSlots("payment_bill_update_probe", n, h)
    PROVE  Sound("payment_bill_update_probe", n, h, i)
<1>. DEFINE s == "payment_bill_update_probe"
            payment == PaymentBillUpdateProbeSlot(i).payment
            bill == ExistingBill
            journal == ExistingJournal
            steps == StepsOf(s, n, h, i)
<1>1. /\ Len(steps) = 3 /\ DOMAIN steps = 1 .. 3
      /\ steps[1] = Delete(payment)
      /\ steps[2] = Insert(payment, {bill, journal})
      /\ steps[3] = Update(bill)
  BY DEF StepsOf, PaymentBillUpdateProbe, PaymentBillUpdateProbeSlot, Replace
<1>2. /\ Owner(payment, n) = <<s, i>>
      /\ Owner(bill, n) = Nobody
      /\ Owner(journal, n) = Nobody
  BY PoolSizeAssumption
  DEF Owner, OwnerBy, Nobody, HasSlots, ParentCount, HotCount, Pool, Parent,
      PaymentBillUpdateProbeSlot, ExistingBill, ExistingJournal
<1>3. /\ Fixture(bill, n, h)
      /\ Fixture(journal, n, h)
  BY BillingFixtures, PoolSizeAssumption DEF HasSlots, Pool, ParentCount, HotCount
<1>. HIDE DEF steps, payment, bill, journal
<1>4. WellFormed(steps)
  BY <1>1, <1>2, <1>3 DEF Nobody
<1>5. \A k \in 1 .. Len(steps) : Grounded(steps, k, n, h) /\ Owned(s, i, steps, k, n)
  BY <1>1, <1>2, <1>3 DEF Nobody
<1>6. EndsAtParent(steps)
  BY <1>1
<1>. QED
  BY <1>4, <1>5, <1>6
  DEF Sound, steps, SuccessScenarios, GenericScenarios, BillingScenarios, Probes

LEMMA StatementFolioParentUpdateProbeIsSound ==
    ASSUME NEW n \in Int, NEW h \in Int, NEW i \in Pool,
           HasSlots("statement_folio_parent_update_probe", n, h)
    PROVE  Sound("statement_folio_parent_update_probe", n, h, i)
<1>. DEFINE s == "statement_folio_parent_update_probe"
            statement == StatementFolioParentUpdateProbeSlot(i).statement
            customer == Customer(n, i)
            folio == Folio(n, i)
            steps == StepsOf(s, n, h, i)
<1>1. /\ Len(steps) = 3 /\ DOMAIN steps = 1 .. 3
      /\ steps[1] = Delete(statement)
      /\ steps[2] = Insert(statement, {customer, folio})
      /\ steps[3] = Update(folio)
  BY DEF StepsOf, StatementFolioParentUpdateProbe, StatementFolioParentUpdateProbeSlot,
         Account, Replace
<1>2. /\ Owner(statement, n) = <<s, i>>
      /\ Owner(customer, n) = Nobody
      /\ Owner(folio, n) = Nobody
  BY PoolSizeAssumption
  DEF Owner, OwnerBy, Nobody, HasSlots, ParentCount, HotCount, Pool, Parent,
      StatementFolioParentUpdateProbeSlot, Customer, Folio
<1>3. /\ Fixture(customer, n, h)
      /\ Fixture(folio, n, h)
  BY BillingFixtures, PoolSizeAssumption DEF HasSlots, Pool, ParentCount, HotCount
<1>. HIDE DEF steps, statement, customer, folio
<1>4. WellFormed(steps)
  BY <1>1, <1>2, <1>3 DEF Nobody
<1>5. \A k \in 1 .. Len(steps) : Grounded(steps, k, n, h) /\ Owned(s, i, steps, k, n)
  BY <1>1, <1>2, <1>3 DEF Nobody
<1>6. EndsAtParent(steps)
  BY <1>1
<1>. QED
  BY <1>4, <1>5, <1>6
  DEF Sound, steps, SuccessScenarios, GenericScenarios, BillingScenarios, Probes

HIDE DEF Statement, Delete, Insert, Rebind, Update, SelectForUpdate,
         WellFormed, StartsAtChild, InOrder, Grounded, Owned, EndsAtParent,
         OwnRow, Deletes, Links, Absent, Present, Detached

LEMMA EverySlotIsSound ==
    ASSUME NEW n \in Int, NEW h \in Int, NEW s \in Registry, NEW i \in Pool, HasSlots(s, n, h)
    PROVE  Sound(s, n, h, i)
  BY InsertExistingParentIsSound,
     InsertParentThenChildIsSound,
     UpdateChildNoFKChangeIsSound,
     RebindChildFKIsSound,
     InsertParentThenUpdateChildFKIsSound,
     DeleteParentCascadeIsSound,
     ConcurrentHotParentInsertIsSound,
     JournalPostingBillIsSound,
     FolioBalanceUpdateIsSound,
     FKBackfillIsSound,
     PaymentMixedReferencesIsSound,
     CascadePathIsSound,
     PaymentBillUpdateProbeIsSound,
     StatementFolioParentUpdateProbeIsSound
  DEF Registry, SuccessScenarios, GenericScenarios, BillingScenarios, Probes
-----------------------------------------------------------------------------
(* The fixtures and the slots.                                             *)

\* A row that a fixture refers to is a fixture, and either nobody's or one that the
\* statements of its slot have the same row refer to.
LinkedTo(r, row, n, h) ==
    /\ Fixture(row, n, h)
    /\ \/ Owner(row, n) = Nobody
       \/ \E s \in Registry, i \in Pool :
            Owner(row, n) = <<s, i>> /\ Links(StepsOf(s, n, h, i), r.row, row)

LEMMA GenericFixturesLinked ==
    ASSUME NEW n \in Int, NEW h \in Int, NEW r \in GenericRows(n, h), NEW row \in r.refs
    PROVE  LinkedTo(r, row, n, h)
<1>. USE PoolSizeAssumption DEF LinkedTo
<1>1. CASE r \in GenericParentBasicRows(n) \cup GenericParentCascadeRows
               \cup GenericParentHotRows(n, h) \cup GenericProbeSummaryRows
  BY <1>1 DEF GenericParentBasicRows, GenericParentCascadeRows, GenericParentHotRows,
     GenericProbeSummaryRows, Plain, Referring
<1>2. CASE r \in GenericChildBasicRows(n) \cup GenericChildRebindRows(n)
  <2>1. row = Parent(1) /\ ParentCount(n) >= 1 /\ ParentCount(n) \in Int
    BY <1>2 DEF GenericChildBasicRows, GenericChildRebindRows, Referring, ParentCount
  <2>2. Owner(row, n) = Nobody
    BY <2>1 DEF Owner, Parent
  <2>. QED  BY <2>1, <2>2, GenericFixtures
<1>3. CASE r \in GenericChildHotRows(n, h)
  <2>1. PICK i \in Pool : row = ConcurrentHotParentInsertSlot(n, h, i).parent
                          /\ HotCount(n, h) # 0
    BY <1>3 DEF GenericChildHotRows, Referring
  <2>2. HotCount(n, h) \in Nat /\ 1 + (i % HotCount(n, h)) \in 1 .. HotCount(n, h)
    <3>1. HotCount(n, h) \in Nat \ {0}
      BY <2>1 DEF HotCount, ParentCount
    <3>. QED  BY <3>1 DEF Pool
  <2>3. Owner(row, n) = Nobody
    BY <2>1 DEF Owner, ConcurrentHotParentInsertSlot
  <2>. QED
    BY <2>1, <2>2, <2>3, GenericFixtures DEF ConcurrentHotParentInsertSlot
<1>4. CASE r \in GenericChildCascadeRows
  <2>. DEFINE s == "generic_delete_parent_cascade"
  <2>1. PICK i \in Pool : /\ row = DeleteParentCascadeSlot(i).parent
                          /\ r.row = DeleteParentCascadeSlot(i).child
    BY <1>4 DEF GenericChildCascadeRows, Referring
  <2>2. Owner(row, n) = <<s, i>>
    BY <2>1 DEF Owner, OwnerBy, DeleteParentCascadeSlot, Pool
  <2>3. /\ Len(StepsOf(s, n, h, i)) = 5
        /\ StepsOf(s, n, h, i)[4].row = r.row
        /\ StepsOf(s, n, h, i)[4].refs = {row}
    BY <2>1 DEF StepsOf, DeleteParentCascade, Delete, Insert, Statement
  <2>. QED  BY <2>1, <2>2, <2>3, GenericFixtures
            DEF Links, Registry, SuccessScenarios, GenericScenarios
<1>. QED  BY <1>1, <1>2, <1>3, <1>4 DEF GenericRows

LEMMA BillingFixturesLinked ==
    ASSUME NEW n \in Int, NEW h \in Int, ParentCount(n) >= 1,
           NEW r \in BillingRows(n), NEW row \in r.refs
    PROVE  LinkedTo(r, row, n, h)
<1>. USE PoolSizeAssumption DEF LinkedTo
<1>. DEFINE posting == "billing_journal_posting_bill"
            backfill == "billing_fk_backfill"
            mixed == "billing_payment_mixed_references"
            cascade == "billing_cascade_path"
            Linked(s, i, k) == /\ k \in 1 .. Len(StepsOf(s, n, h, i))
                               /\ StepsOf(s, n, h, i)[k].row = r.row
                               /\ row \in StepsOf(s, n, h, i)[k].refs
<1>1. \A i \in Int : /\ Owner(Customer(n, i), n) = Nobody
                     /\ Owner(Folio(n, i), n) = Nobody
  BY DEF Owner, Customer, Folio
<1>2. Owner(ExistingJournal, n) = Nobody /\ Owner(ExistingBill, n) = Nobody
  BY DEF Owner, ExistingJournal, ExistingBill
<1>3. 0 \in Pool /\ Pool \subseteq Int /\ 0 .. n - 1 \subseteq Int
  BY DEF Pool
<1>4. ASSUME NEW s \in Registry, NEW i \in Pool, NEW k, Linked(s, i, k),
             Owner(row, n) = <<s, i>>, Fixture(row, n, h)
      PROVE  LinkedTo(r, row, n, h)
  BY <1>4 DEF Links
<1>5. CASE r \in BillingCustomerRows(n)
  BY <1>5 DEF BillingCustomerRows, Plain, Referring
<1>6. CASE r \in BillingFolioRows(n)
  BY <1>6, <1>1, <1>3, BillingFixtures DEF BillingFolioRows, Referring
<1>7. CASE r \in BillingJournalRows(n) \cup BillingFolioBalanceRows(n) \cup BillingStatementRows(n)
  <2>1. \E i \in Pool : row \in Account(n, i)
    <3>1. \A i, own : row \in Referring(own, Account(n, i)).refs => row \in Account(n, i)
      BY DEF Referring
    <3>2. CASE r \in BillingJournalRows(n)
      BY <3>1, <3>2, <1>3 DEF BillingJournalRows
    <3>3. CASE r \in BillingFolioBalanceRows(n)
      BY <3>1, <3>3 DEF BillingFolioBalanceRows
    <3>4. CASE r \in BillingStatementRows(n)
      BY <3>1, <3>4 DEF BillingStatementRows
    <3>. QED  BY <1>7, <3>2, <3>3, <3>4
  <2>. QED  BY <2>1, <1>1, <1>3, BillingFixtures DEF Account
<1>8. CASE r \in BillingPostingRows
  <2>1. PICK i \in Pool : /\ r.row = JournalPostingBillSlot(i).posting
                          /\ row = JournalPostingBillSlot(i).journal
    BY <1>8 DEF BillingPostingRows, Referring
  <2>2. Linked(posting, i, 5)
    BY <2>1 DEF StepsOf, JournalPostingBill, Insert, Statement
  <2>3. Owner(row, n) = <<posting, i>>
    BY <2>1 DEF Owner, OwnerBy, JournalPostingBillSlot, Pool
  <2>. QED  BY <2>1, <2>2, <2>3, <1>4, BillingFixtures
            DEF Registry, SuccessScenarios, BillingScenarios
<1>9. CASE r \in BillingBillRows(n)
  <2>1. CASE row \in {ExistingJournal} \cup {Folio(n, i) : i \in Pool}
    BY <2>1, <1>1, <1>2, <1>3, BillingFixtures
  <2>2. CASE \E i \in Pool : /\ r.row = JournalPostingBillSlot(i).bill
                             /\ row = JournalPostingBillSlot(i).journal
    <3>1. PICK i \in Pool : /\ r.row = JournalPostingBillSlot(i).bill
                            /\ row = JournalPostingBillSlot(i).journal
      BY <2>2
    <3>2. Linked(posting, i, 6)
      BY <3>1 DEF StepsOf, JournalPostingBill, Insert, Statement
    <3>3. Owner(row, n) = <<posting, i>>
      BY <3>1 DEF Owner, OwnerBy, JournalPostingBillSlot, Pool
    <3>. QED  BY <3>1, <3>2, <3>3, <1>4, BillingFixtures
              DEF Registry, SuccessScenarios, BillingScenarios
  <2>3. CASE \E i \in Pool : r.row = FKBackfillSlot(i).bill /\ row = FKBackfillSlot(i).journal
    <3>1. PICK i \in Pool : r.row = FKBackfillSlot(i).bill /\ row = FKBackfillSlot(i).journal
      BY <2>3
    <3>2. Linked(backfill, i, 7)
      BY <3>1 DEF StepsOf, FKBackfill, Insert, Statement
    <3>3. Owner(row, n) = <<backfill, i>>
      BY <3>1 DEF Owner, OwnerBy, FKBackfillSlot, Pool
    <3>. QED  BY <3>1, <3>2, <3>3, <1>4, BillingFixtures
              DEF Registry, SuccessScenarios, BillingScenarios
  <2>. QED  BY <1>9, <1>3, <2>1, <2>2, <2>3 DEF BillingBillRows, Referring
<1>10. CASE r \in BillingPaymentRows
  <2>1. CASE row \in {ExistingBill, ExistingJournal}
    BY <2>1, <1>2, BillingFixtures
  <2>2. CASE \E i \in Pool : /\ r.row = PaymentMixedReferenceSlot(i).payment
                             /\ row = PaymentMixedReferenceSlot(i).journal
    <3>1. PICK i \in Pool : /\ r.row = PaymentMixedReferenceSlot(i).payment
                            /\ row = PaymentMixedReferenceSlot(i).journal
      BY <2>2
    <3>2. Linked(mixed, i, 4)
      BY <3>1 DEF StepsOf, PaymentMixedReferences, Insert, Statement
    <3>3. Owner(row, n) = <<mixed, i>>
      BY <3>1 DEF Owner, OwnerBy, PaymentMixedReferenceSlot, Pool
    <3>. QED  BY <3>1, <3>2, <3>3, <1>4, BillingFixtures
              DEF Registry, SuccessScenarios, BillingScenarios
  <2>. QED  BY <1>10, <2>1, <2>2 DEF BillingPaymentRows, Referring
<1>11. CASE r \in BillingFeeLogRows
  <2>1. PICK i \in Pool : /\ r.row = FKBackfillSlot(i).feelog
                          /\ row \in {FKBackfillSlot(i).journal, FKBackfillSlot(i).bill}
    BY <1>11 DEF BillingFeeLogRows, Referring
  <2>2. Linked(backfill, i, 8)
    BY <2>1 DEF StepsOf, FKBackfill, Rebind, Statement
  <2>3. Owner(row, n) = <<backfill, i>>
    BY <2>1 DEF Owner, OwnerBy, FKBackfillSlot, Pool
  <2>. QED  BY <2>1, <2>2, <2>3, <1>4, BillingFixtures
            DEF Registry, SuccessScenarios, BillingScenarios
<1>12. CASE r \in BillingWithdrawalRows
  <2>1. CASE row = ExistingJournal
    BY <2>1, <1>2, BillingFixtures
  <2>2. CASE \E i \in Pool : /\ r.row = FKBackfillSlot(i).withdrawal
                             /\ row \in {FKBackfillSlot(i).journal, FKBackfillSlot(i).statement}
    <3>1. PICK i \in Pool : /\ r.row = FKBackfillSlot(i).withdrawal
                            /\ row \in {FKBackfillSlot(i).journal, FKBackfillSlot(i).statement}
      BY <2>2
    <3>2. Linked(backfill, i, 10)
      BY <3>1 DEF StepsOf, FKBackfill, Rebind, Statement
    <3>3. Owner(row, n) = <<backfill, i>>
      BY <3>1 DEF Owner, OwnerBy, FKBackfillSlot, Pool
    <3>. QED  BY <3>1, <3>2, <3>3, <1>4, BillingFixtures
              DEF Registry, SuccessScenarios, BillingScenarios
  <2>3. CASE \E i \in Pool : /\ r.row = CascadePathSlot(i).withdrawal
                             /\ row = CascadePathSlot(i).statement
    <3>1. PICK i \in Pool : /\ r.row = CascadePathSlot(i).withdrawal
                            /\ row = CascadePathSlot(i).statement
      BY <2>3
    <3>2. Linked(cascade, i, 4)
      BY <3>1 DEF StepsOf, CascadePath, Insert, Statement
    <3>3. Owner(row, n) = <<cascade, i>>
      BY <3>1 DEF Owner, OwnerBy, CascadePathSlot, Pool
    <3>. QED  BY <3>1, <3>2, <3>3, <1>4, BillingFixtures
              DEF Registry, SuccessScenarios, BillingScenarios
  <2>. QED  BY <1>12, <2>1, <2>2, <2>3 DEF BillingWithdrawalRows, Referring
<1>. QED  BY <1>5, <1>6, <1>7, <1>8, <1>9, <1>10, <1>11, <1>12 DEF BillingRows

LEMMA FixturesLinked ==
    ASSUME NEW n \in Int, NEW h \in Int, NEW r \in FixtureRows(n, h), NEW row \in r.refs
    PROVE  LinkedTo(r, row, n, h)
  BY FixturesByTable, GenericFixturesLinked, BillingFixturesLinked DEF ParentCount
-----------------------------------------------------------------------------
(* Slots among each other.                                                 *)

IsSlot(s, i, n, h) == s \in Registry /\ i \in Pool /\ HasSlots(s, n, h)

\* A fixture that no slot ever deletes.
Kept(row, n, h) ==
    /\ Fixture(row, n, h)
    /\ \A s, i : IsSlot(s, i, n, h) => ~Deletes(StepsOf(s, n, h, i), row)

LEMMA OwnersOfSlots ==
    ASSUME NEW n \in Int, NEW h \in Int, NEW s, NEW i, IsSlot(s, i, n, h), NEW row
    PROVE  /\ OwnRow(StepsOf(s, n, h, i), row) => Owner(row, n) = <<s, i>>
           /\ (\E child : Links(StepsOf(s, n, h, i), child, row))
                => Owner(row, n) \in {<<s, i>>, Nobody}
           /\ <<s, i>> # Nobody
<1>. DEFINE steps == StepsOf(s, n, h, i)
<1>1. \A k \in 1 .. Len(steps) : Owned(s, i, steps, k, n)
  BY EverySlotIsSound DEF IsSlot, Sound
<1>2. <<s, i>> # Nobody
  BY DEF IsSlot, Nobody, Registry, SuccessScenarios, GenericScenarios, BillingScenarios, Probes
<1>. HIDE DEF steps
<1>3. OwnRow(steps, row) => Owner(row, n) = <<s, i>>
  BY <1>1 DEF OwnRow, Owned
<1>4. (\E child : Links(steps, child, row)) => Owner(row, n) \in {<<s, i>>, Nobody}
  BY <1>1 DEF Links, Owned
<1>. QED  BY <1>2, <1>3, <1>4 DEF steps

\* A slot's own row is no other slot's, and no other slot refers to it.
LEMMA SlotsShareNothing ==
    ASSUME NEW n \in Int, NEW h \in Int, NEW row,
           NEW s, NEW i, IsSlot(s, i, n, h), OwnRow(StepsOf(s, n, h, i), row),
           NEW t, NEW j, IsSlot(t, j, n, h),
           OwnRow(StepsOf(t, n, h, j), row) \/ \E child : Links(StepsOf(t, n, h, j), child, row)
    PROVE  s = t /\ i = j
<1>1. Owner(row, n) = <<s, i>> /\ <<s, i>> # Nobody
  BY OwnersOfSlots
<1>2. Owner(row, n) \in {<<t, j>>, Nobody}
  BY OwnersOfSlots
<1>. QED  BY <1>1, <1>2

\* Only rows of a slot are made to refer to others.
LEMMA LinksAreOwn ==
    ASSUME NEW n \in Int, NEW h \in Int, NEW s, NEW i, IsSlot(s, i, n, h),
           NEW row, NEW parent, Links(StepsOf(s, n, h, i), row, parent)
    PROVE  OwnRow(StepsOf(s, n, h, i), row)
<1>. DEFINE steps == StepsOf(s, n, h, i)
<1>1. \A k \in 1 .. Len(steps) : InOrder(steps, k)
  BY EverySlotIsSound DEF IsSlot, Sound, WellFormed
<1>2. PICK k \in 1 .. Len(steps) : steps[k].row = row /\ parent \in steps[k].refs
  BY DEF Links
<1>. QED  BY <1>1, <1>2 DEF InOrder, OwnRow

\* A row that a statement refers to was inserted before it, or is a fixture that stays
\* and that no slot has for its own.
LEMMA RefersBack ==
    ASSUME NEW n \in Int, NEW h \in Int, NEW s, NEW i, IsSlot(s, i, n, h),
           NEW k \in 1 .. Len(StepsOf(s, n, h, i)), NEW row \in StepsOf(s, n, h, i)[k].refs
    PROVE  \/ Present(StepsOf(s, n, h, i), k, row)
           \/ /\ Kept(row, n, h)
              /\ \A t, j : IsSlot(t, j, n, h) => ~OwnRow(StepsOf(t, n, h, j), row)
<1>. DEFINE steps == StepsOf(s, n, h, i)
<1>1. SUFFICES ASSUME ~Present(steps, k, row)
               PROVE  /\ Fixture(row, n, h)
                      /\ \A t, j : IsSlot(t, j, n, h) => ~OwnRow(StepsOf(t, n, h, j), row)
  BY DEF Kept, Deletes, OwnRow
<1>2. Fixture(row, n, h) /\ ~OwnRow(steps, row)
  BY <1>1, EverySlotIsSound DEF IsSlot, Sound, Grounded
<1>3. Links(steps, steps[k].row, row)
  BY DEF Links
<1>. QED  BY <1>2, <1>3, SlotsShareNothing

\* A row that is selected is a fixture that stays.
LEMMA SelectsKept ==
    ASSUME NEW n \in Int, NEW h \in Int, NEW s, NEW i, IsSlot(s, i, n, h),
           NEW k \in 1 .. Len(StepsOf(s, n, h, i)), StepsOf(s, n, h, i)[k].op = "select"
    PROVE  Kept(StepsOf(s, n, h, i)[k].row, n, h)
<1>. DEFINE steps == StepsOf(s, n, h, i)
            row == steps[k].row
<1>1. Fixture(row, n, h) /\ ~Deletes(steps, row)
  BY EverySlotIsSound DEF IsSlot, Sound, Grounded
<1>2. OwnRow(steps, row)
  BY DEF OwnRow
<1>3. ASSUME NEW t, NEW j, IsSlot(t, j, n, h), Deletes(StepsOf(t, n, h, j), row) PROVE FALSE
  <2>1. OwnRow(StepsOf(t, n, h, j), row)
    BY <1>3 DEF Deletes, OwnRow
  <2>. QED  BY <1>1, <1>2, <1>3, <2>1, SlotsShareNothing
<1>. QED  BY <1>1, <1>3 DEF Kept

-----------------------------------------------------------------------------
(* Rows that exist.                                                        *)

\* Whoever refers to a slot's own row is linked to it by the slot's statements.
OnlyLinks(db, n, h) ==
    \A row \in DOMAIN db : \A parent \in db[row] : \A s, i :
        (IsSlot(s, i, n, h) /\ OwnRow(StepsOf(s, n, h, i), parent))
            => Links(StepsOf(s, n, h, i), row, parent)

Closed(db) == \A row \in DOMAIN db : db[row] \subseteq DOMAIN db

KeepsFixtures(db, n, h) == \A row : Kept(row, n, h) => row \in DOMAIN db

\* What the statements before k have made sure of.
Reached(db, steps, k) ==
    \A row :
        /\ Absent(steps, k, row) => row \notin DOMAIN db
        /\ Present(steps, k, row) => row \in DOMAIN db
        /\ \A parent : Detached(steps, k, row, parent) /\ row \in DOMAIN db
                         => parent \notin db[row]

LEMMA AfterDomain ==
    ASSUME NEW db, NEW st
    PROVE  DOMAIN After(db, st) = WrittenRows(db, st) \cup (DOMAIN db \ Removed(db, st))
<1>. DEFINE over == Written(db, st)
<1>1. DOMAIN over = WrittenRows(db, st)
  BY DEF Written
<1>2. After(db, st) = Overlay(over, Without(db, Removed(db, st)))
  BY DEF After
<1>. HIDE DEF over
<1>. QED  BY <1>1, <1>2 DEF Overlay, Without, Restrict

LEMMA AfterValue ==
    ASSUME NEW db, NEW st, NEW row \in DOMAIN After(db, st)
    PROVE  After(db, st)[row] = IF row \in WrittenRows(db, st) THEN st.refs ELSE db[row]
<1>. DEFINE over == Written(db, st)
<1>1. DOMAIN over = WrittenRows(db, st) /\ \A r \in DOMAIN over : over[r] = st.refs
  BY DEF Written
<1>2. After(db, st) = Overlay(over, Without(db, Removed(db, st)))
  BY DEF After
<1>. HIDE DEF over
<1>. QED  BY <1>1, <1>2 DEF Overlay, Without, Restrict

LEMMA PreparedIsSound ==
    ASSUME NEW n \in Int, NEW h \in Int
    PROVE  /\ OnlyLinks(Prepared(n, h), n, h)
           /\ Closed(Prepared(n, h))
           /\ KeepsFixtures(Prepared(n, h), n, h)
<1>. DEFINE rows == FixtureRows(n, h)
            db == Prepared(n, h)
<1>1. DOMAIN db = {r.row : r \in rows}
  BY DEF Prepared, Upserted, Empty, Overlay
<1>2. \A row \in DOMAIN db : \E r \in rows : r.row = row /\ db[row] = r.refs
  <2>1. ASSUME NEW row \in DOMAIN db PROVE db[row] = (CHOOSE r \in rows : r.row = row).refs
    BY <1>1, <2>1 DEF Prepared, Upserted, Empty, Overlay
  <2>2. ASSUME NEW row \in DOMAIN db
        PROVE  /\ (CHOOSE r \in rows : r.row = row) \in rows
               /\ (CHOOSE r \in rows : r.row = row).row = row
    BY <1>1
  <2>. QED  BY <2>1, <2>2
<1>3. \A row : Fixture(row, n, h) <=> row \in DOMAIN db
  BY <1>1 DEF Fixture
<1>. HIDE DEF rows, db
<1>4. ASSUME NEW row \in DOMAIN db, NEW parent \in db[row]
      PROVE  /\ parent \in DOMAIN db
             /\ \A s, i : (IsSlot(s, i, n, h) /\ OwnRow(StepsOf(s, n, h, i), parent))
                            => Links(StepsOf(s, n, h, i), row, parent)
  <2>1. PICK r \in rows : r.row = row /\ db[row] = r.refs
    BY <1>2
  <2>2. LinkedTo(r, parent, n, h)
    BY <2>1, FixturesLinked DEF rows
  <2>3. ASSUME NEW s, NEW i, IsSlot(s, i, n, h), OwnRow(StepsOf(s, n, h, i), parent)
        PROVE  Links(StepsOf(s, n, h, i), row, parent)
    <3>1. Owner(parent, n) = <<s, i>> /\ <<s, i>> # Nobody
      BY <2>3, OwnersOfSlots
    <3>. QED  BY <3>1, <2>1, <2>2 DEF LinkedTo
  <2>. QED  BY <2>2, <2>3, <1>3 DEF LinkedTo
<1>. QED  BY <1>3, <1>4 DEF OnlyLinks, Closed, KeepsFixtures, Kept, db

-----------------------------------------------------------------------------
(* A statement of a slot on rows that the statements before it have left.  *)

Sane(db, n, h) == OnlyLinks(db, n, h) /\ Closed(db) /\ KeepsFixtures(db, n, h)

\* The rows db are as statement k of slot i of scenario s expects them.
Ready(db, s, i, k, n, h) ==
    /\ n \in Int /\ h \in Int
    /\ IsSlot(s, i, n, h)
    /\ k \in 1 .. Len(StepsOf(s, n, h, i))
    /\ Sane(db, n, h)
    /\ Reached(db, StepsOf(s, n, h, i), k)

\* The references of the statement are there to refer to.
LEMMA RefersToRows ==
    ASSUME NEW db, NEW s, NEW i, NEW k, NEW n, NEW h, Ready(db, s, i, k, n, h)
    PROVE  StepsOf(s, n, h, i)[k].refs \subseteq DOMAIN db
<1>. DEFINE steps == StepsOf(s, n, h, i)
<1>. SUFFICES ASSUME NEW row \in steps[k].refs PROVE row \in DOMAIN db
  OBVIOUS
<1>1. Present(steps, k, row) \/ Kept(row, n, h)
  BY RefersBack DEF Ready
<1>. QED  BY <1>1 DEF Ready, Sane, KeepsFixtures, Reached

\* Whoever refers to a row that a slot has for its own is linked to it by the slot.
LEMMA ChildrenAreLinked ==
    ASSUME NEW db, NEW s, NEW i, NEW k, NEW n, NEW h, Ready(db, s, i, k, n, h),
           NEW row, OwnRow(StepsOf(s, n, h, i), row), NEW child \in Children(db, row)
    PROVE  Links(StepsOf(s, n, h, i), child, row)
  BY DEF Ready, Sane, OnlyLinks, Children

\* A deleted row leaves nobody behind who refers to it or to its cascading children.
LEMMA RemovedIs ==
    ASSUME NEW db, NEW s, NEW i, NEW k, NEW n, NEW h, Ready(db, s, i, k, n, h),
           NEW st, st = StepsOf(s, n, h, i)[k], st.op = "delete"
    PROVE  /\ Children(db, st.row) = Cascaded(db, st.row)
           /\ \A row \in Removed(db, st) : Deletes(StepsOf(s, n, h, i), row)
           /\ \A row \in Removed(db, st) : Children(db, row) \subseteq Removed(db, st)
<1>. DEFINE steps == StepsOf(s, n, h, i)
<1>1. InOrder(steps, k) /\ k \in 1 .. Len(steps)
  BY EverySlotIsSound DEF Ready, IsSlot, Sound, WellFormed
<1>. HIDE DEF steps
<1>2. Deletes(steps, st.row) /\ OwnRow(steps, st.row)
  BY <1>1 DEF Deletes, OwnRow, steps
<1>3. ASSUME NEW child \in Children(db, st.row)
      PROVE  /\ Deletes(steps, child)
             /\ child \in Cascaded(db, st.row)
             /\ Children(db, child) = {}
  <2>1. Links(steps, child, st.row)
    BY <1>2, ChildrenAreLinked DEF steps
  <2>2. /\ Deletes(steps, child)
        /\ <<child[1], st.row[1]>> \in Cascading \/ Detached(steps, k, child, st.row)
        /\ \A c : ~Links(steps, c, child)
    BY <1>1, <2>1 DEF InOrder, steps
  <2>3. ~Detached(steps, k, child, st.row)
    BY DEF Ready, Reached, Children, steps
  <2>4. OwnRow(steps, child)
    BY <2>2 DEF Deletes, OwnRow
  <2>5. Children(db, child) = {}
    BY <2>2, <2>4, ChildrenAreLinked DEF steps
  <2>. QED  BY <2>2, <2>3, <2>5 DEF Cascaded
<1>4. Children(db, st.row) = Cascaded(db, st.row)
  BY <1>3 DEF Cascaded
<1>5. Removed(db, st) = {st.row} \cup Children(db, st.row)
  BY <1>4 DEF Removed
<1>. QED  BY <1>2, <1>3, <1>4, <1>5 DEF steps

LEMMA AnswerIsOk ==
    ASSUME NEW db, NEW s, NEW i, NEW k, NEW n, NEW h, Ready(db, s, i, k, n, h)
    PROVE  AnswerTo(db, StepsOf(s, n, h, i)[k]) = "ok"
<1>. DEFINE steps == StepsOf(s, n, h, i)
            st == steps[k]
<1>1. InOrder(steps, k)
  BY EverySlotIsSound DEF Ready, IsSlot, Sound, WellFormed
<1>2. st.op = "insert" => st.row \notin DOMAIN db
  BY <1>1 DEF Ready, Reached, InOrder
<1>3. st.refs \subseteq DOMAIN db
  BY RefersToRows
<1>4. st.op = "delete" => Children(db, st.row) = Cascaded(db, st.row)
  BY RemovedIs
<1>5. st.op = "select" => st.row \in DOMAIN db
  BY SelectsKept DEF Ready, Sane, KeepsFixtures
<1>. HIDE DEF st
<1>. QED  BY <1>2, <1>3, <1>4, <1>5 DEF AnswerTo, st

\* Each statement makes sure of what the ones after it rely on.
LEMMA ReachedNext ==
    ASSUME NEW db, NEW steps, Len(steps) \in Nat, NEW k \in 1 .. Len(steps),
           Reached(db, steps, k), NEW st, st = steps[k]
    PROVE  Reached(After(db, st), steps, k + 1)
<1>. DEFINE next == After(db, st)
<1>1. Reached(db, steps, k) /\ k \in 1 .. Len(steps) /\ Len(steps) \in Nat
  OBVIOUS
<1>2. /\ DOMAIN next = WrittenRows(db, st) \cup (DOMAIN db \ Removed(db, st))
      /\ \A row \in DOMAIN next :
           next[row] = IF row \in WrittenRows(db, st) THEN st.refs ELSE db[row]
  BY AfterDomain, AfterValue
<1>3. /\ st.op = "insert" => WrittenRows(db, st) = {st.row}
      /\ WrittenRows(db, st) \subseteq {st.row}
      /\ \A row \in WrittenRows(db, st) : st.op = "insert" \/ row \in DOMAIN db
      /\ st.op = "delete" => WrittenRows(db, st) = {} /\ st.row \in Removed(db, st)
      /\ st.op # "delete" => Removed(db, st) = {}
  BY DEF WrittenRows, Removed
<1>. HIDE DEF next
<1>. SUFFICES ASSUME NEW row
              PROVE  /\ Absent(steps, k + 1, row) => row \notin DOMAIN next
                     /\ Present(steps, k + 1, row) => row \in DOMAIN next
                     /\ \A parent : Detached(steps, k + 1, row, parent) /\ row \in DOMAIN next
                                      => parent \notin next[row]
  BY DEF Reached, next
<1>4. st = steps[k] /\ k \in Nat /\ 1 .. (k + 1) - 1 = 1 .. k /\ k \in 1 .. k
      /\ \A m \in 1 .. k : m = k \/ m \in 1 .. k - 1
  BY <1>1
<1>5. ASSUME Absent(steps, k + 1, row) PROVE row \notin DOMAIN next
  <2>1. PICK j \in 1 .. k : /\ steps[j].op = "delete" /\ steps[j].row = row
                            /\ \A m \in j + 1 .. (k + 1) - 1 :
                                 ~(steps[m].op = "insert" /\ steps[m].row = row)
    BY <1>4, <1>5 DEF Absent
  <2>2. CASE j = k
    BY <1>2, <1>3, <1>4, <2>1, <2>2
  <2>3. CASE j # k
    <3>1. j \in 1 .. k - 1 /\ \A m \in j + 1 .. k - 1 : m \in j + 1 .. (k + 1) - 1
      BY <1>4, <2>3
    <3>2. Absent(steps, k, row)
      BY <2>1, <3>1 DEF Absent
    <3>3. ~(st.op = "insert" /\ st.row = row)
      BY <1>4, <2>1, <3>1
    <3>. QED  BY <1>1, <1>2, <1>3, <3>2, <3>3 DEF Reached
  <2>. QED  BY <2>2, <2>3
<1>6. ASSUME Present(steps, k + 1, row) PROVE row \in DOMAIN next
  <2>1. PICK j \in 1 .. k : /\ steps[j].op = "insert" /\ steps[j].row = row
                            /\ \A m \in j + 1 .. (k + 1) - 1 : steps[m].op # "delete"
    BY <1>4, <1>6 DEF Present
  <2>2. CASE j = k
    BY <1>2, <1>3, <1>4, <2>1, <2>2
  <2>3. CASE j # k
    <3>1. j \in 1 .. k - 1 /\ \A m \in j + 1 .. k - 1 : m \in j + 1 .. (k + 1) - 1
      BY <1>4, <2>3
    <3>2. Present(steps, k, row)
      BY <2>1, <3>1 DEF Present
    <3>3. st.op # "delete"
      BY <1>4, <2>1, <3>1
    <3>. QED  BY <1>1, <1>2, <1>3, <3>2, <3>3 DEF Reached
  <2>. QED  BY <2>2, <2>3
<1>7. ASSUME NEW parent, Detached(steps, k + 1, row, parent), row \in DOMAIN next
      PROVE  parent \notin next[row]
  <2>1. PICK j \in 1 .. k : /\ steps[j].op \in {"delete", "insert"} /\ steps[j].row = row
                            /\ \A m \in j .. (k + 1) - 1 :
                                 steps[m].row = row => parent \notin steps[m].refs
    BY <1>4, <1>7 DEF Detached
  <2>2. st.row = row => parent \notin st.refs
    BY <1>4, <2>1
  <2>3. CASE j = k
    BY <1>2, <1>3, <1>4, <1>7, <2>1, <2>2, <2>3
  <2>4. CASE j # k
    <3>1. j \in 1 .. k - 1 /\ \A m \in j .. k - 1 : m \in j .. (k + 1) - 1
      BY <1>4, <2>4
    <3>2. Detached(steps, k, row, parent)
      BY <2>1, <3>1 DEF Detached
    <3>. QED  BY <1>1, <1>2, <1>3, <1>7, <2>2, <3>2 DEF Reached
  <2>. QED  BY <2>3, <2>4
<1>. QED  BY <1>5, <1>6, <1>7 DEF next

\* A statement leaves the rows as the next one expects them.
LEMMA AfterKeeps ==
    ASSUME NEW db, NEW s, NEW i, NEW k, NEW n, NEW h, Ready(db, s, i, k, n, h),
           NEW st, st = StepsOf(s, n, h, i)[k]
    PROVE  /\ Sane(After(db, st), n, h)
           /\ Reached(After(db, st), StepsOf(s, n, h, i), k + 1)
<1>. DEFINE steps == StepsOf(s, n, h, i)
            next == After(db, st)
<1>1. /\ n \in Int /\ h \in Int /\ IsSlot(s, i, n, h)
      /\ k \in 1 .. Len(steps) /\ Len(steps) \in Nat
      /\ OnlyLinks(db, n, h) /\ Closed(db) /\ KeepsFixtures(db, n, h)
      /\ Reached(db, steps, k)
  BY EverySlotIsSound DEF Ready, Sane, IsSlot, Sound, WellFormed, StartsAtChild
<1>2. /\ DOMAIN next = WrittenRows(db, st) \cup (DOMAIN db \ Removed(db, st))
      /\ \A row \in DOMAIN next :
           next[row] = IF row \in WrittenRows(db, st) THEN st.refs ELSE db[row]
  BY AfterDomain, AfterValue
<1>3. /\ st.op = "insert" => WrittenRows(db, st) = {st.row}
      /\ WrittenRows(db, st) \subseteq {st.row}
      /\ \A row \in WrittenRows(db, st) : st.op = "insert" \/ row \in DOMAIN db
      /\ st.op = "delete" => WrittenRows(db, st) = {} /\ st.row \in Removed(db, st)
      /\ st.op # "delete" => Removed(db, st) = {}
  BY DEF WrittenRows, Removed
<1>4. st.refs \subseteq DOMAIN db
  BY RefersToRows
<1>5. /\ \A row \in Removed(db, st) : Deletes(steps, row)
      /\ \A row \in Removed(db, st) : Children(db, row) \subseteq Removed(db, st)
  BY <1>3, RemovedIs
<1>. HIDE DEF next, steps
<1>6. OnlyLinks(next, n, h)
  <2>. SUFFICES ASSUME NEW row \in DOMAIN next, NEW parent \in next[row], NEW t, NEW j,
                       IsSlot(t, j, n, h), OwnRow(StepsOf(t, n, h, j), parent)
                PROVE  Links(StepsOf(t, n, h, j), row, parent)
    BY DEF OnlyLinks
  <2>1. CASE row \in WrittenRows(db, st)
    <3>1. Links(steps, row, parent)
      BY <1>1, <1>2, <1>3, <2>1 DEF Links, steps
    <3>. QED  BY <1>1, <3>1, SlotsShareNothing DEF steps
  <2>2. CASE row \notin WrittenRows(db, st)
    BY <1>1, <1>2, <2>2 DEF OnlyLinks
  <2>. QED  BY <2>1, <2>2
<1>7. Closed(next)
  <2>. SUFFICES ASSUME NEW row \in DOMAIN next, NEW parent \in next[row]
                PROVE  parent \in DOMAIN next
    BY DEF Closed
  <2>1. CASE row \in WrittenRows(db, st)
    BY <1>2, <1>3, <1>4, <2>1
  <2>2. CASE row \notin WrittenRows(db, st)
    <3>1. row \in DOMAIN db \ Removed(db, st) /\ parent \in db[row]
      BY <1>2, <2>2
    <3>2. parent \in DOMAIN db /\ row \in Children(db, parent)
      BY <1>1, <3>1 DEF Closed, Children
    <3>3. parent \notin Removed(db, st)
      BY <1>5, <3>1, <3>2
    <3>. QED  BY <1>2, <3>2, <3>3
  <2>. QED  BY <2>1, <2>2
<1>8. KeepsFixtures(next, n, h)
  <2>. SUFFICES ASSUME NEW row, Kept(row, n, h) PROVE row \in DOMAIN next
    BY DEF KeepsFixtures
  <2>1. row \in DOMAIN db /\ ~Deletes(steps, row)
    BY <1>1 DEF KeepsFixtures, Kept, steps
  <2>. QED  BY <1>2, <1>5, <2>1
<1>9. Reached(next, steps, k + 1)
  BY <1>1, ReachedNext DEF next, steps
<1>. QED  BY <1>6, <1>7, <1>8, <1>9 DEF Sane, next, steps

\* The first statement works on one row, a child or one that nobody refers to.
LEMMA FirstStatement ==
    ASSUME NEW n \in Int, NEW h \in Int, NEW s, NEW i, IsSlot(s, i, n, h),
           NEW db, OnlyLinks(db, n, h), NEW st, st = StepsOf(s, n, h, i)[1]
    PROVE  /\ st.refs = {} /\ OwnRow(StepsOf(s, n, h, i), st.row)
           /\ Removed(db, st) \subseteq {st.row}
<1>. DEFINE steps == StepsOf(s, n, h, i)
<1>1. StartsAtChild(steps) /\ InOrder(steps, 1) /\ 1 \in 1 .. Len(steps)
  BY EverySlotIsSound DEF IsSlot, Sound, WellFormed, StartsAtChild
<1>. HIDE DEF steps
<1>2. OwnRow(steps, st.row) /\ st.refs = {}
  BY <1>1 DEF StartsAtChild, OwnRow, InOrder, steps
<1>3. \A child : ~Links(steps, child, st.row)
  BY <1>1 DEF StartsAtChild, steps
<1>4. Children(db, st.row) = {}
  BY <1>2, <1>3 DEF OnlyLinks, Children, steps
<1>. QED  BY <1>2, <1>4 DEF Removed, Cascaded, steps

-----------------------------------------------------------------------------
(* The same rows seen another way.                                         *)

\* Two sets of rows have the same to say about row.
Agree(db, other, row) ==
    /\ row \in DOMAIN db <=> row \in DOMAIN other
    /\ row \in DOMAIN db => db[row] = other[row]

LEMMA SaneWhenAgreed ==
    ASSUME NEW db, NEW other, NEW n, NEW h, Sane(db, n, h), \A row : Agree(db, other, row)
    PROVE  Sane(other, n, h)
<1>1. DOMAIN db = DOMAIN other /\ \A row \in DOMAIN other : db[row] = other[row]
  BY DEF Agree
<1>2. OnlyLinks(other, n, h)
  BY <1>1 DEF Sane, OnlyLinks
<1>3. Closed(other)
  BY <1>1 DEF Sane, Closed
<1>4. KeepsFixtures(other, n, h)
  BY <1>1 DEF Sane, KeepsFixtures
<1>. QED  BY <1>2, <1>3, <1>4 DEF Sane

LEMMA ReachedWhenAgreed ==
    ASSUME NEW db, NEW other, NEW steps, NEW k, Reached(db, steps, k),
           \A j \in 1 .. k - 1 : Agree(db, other, steps[j].row)
    PROVE  Reached(other, steps, k)
<1>1. \A row : Absent(steps, k, row) => Agree(db, other, row)
  BY DEF Absent
<1>2. \A row : Present(steps, k, row) => Agree(db, other, row)
  BY DEF Present
<1>3. \A row, parent : Detached(steps, k, row, parent) => Agree(db, other, row)
  BY DEF Detached
<1>. QED  BY <1>1, <1>2, <1>3 DEF Reached, Agree

(***************************************************************************)
(* A transaction of slot i of s has written the rows put and removed the   *)
(* rows gone, another one, of slot j of t, has written and removed others. *)
(* When the latter commits, what the former sees stays sane.               *)
(***************************************************************************)
LEMMA SaneWhenCommitted ==
    ASSUME NEW db, NEW n \in Int, NEW h \in Int,
           NEW s, NEW i, IsSlot(s, i, n, h), NEW put, NEW gone,
           NEW t, NEW j, IsSlot(t, j, n, h), NEW put2, NEW gone2,
           <<s, i>> # <<t, j>>,
           \A row \in DOMAIN put \cup gone : OwnRow(StepsOf(s, n, h, i), row),
           \A row \in gone : Deletes(StepsOf(s, n, h, i), row),
           \A row \in DOMAIN put2 \cup gone2 : OwnRow(StepsOf(t, n, h, j), row),
           NEW mine, mine = Overlay(put, Without(db, gone)), Sane(mine, n, h),
           NEW theirs, theirs = Overlay(put2, Without(db, gone2)), Sane(theirs, n, h),
           NEW next, next = Overlay(put, Without(theirs, gone))
    PROVE  Sane(next, n, h)
<1>. DEFINE own == StepsOf(s, n, h, i)
            other == StepsOf(t, n, h, j)
<1>1. /\ DOMAIN mine = DOMAIN put \cup (DOMAIN db \ gone)
      /\ DOMAIN theirs = DOMAIN put2 \cup (DOMAIN db \ gone2)
      /\ DOMAIN next = DOMAIN put \cup (DOMAIN theirs \ gone)
  <2>1. DOMAIN mine = DOMAIN put \cup (DOMAIN db \ gone)
    BY DEF Overlay, Without, Restrict
  <2>2. DOMAIN theirs = DOMAIN put2 \cup (DOMAIN db \ gone2)
    BY DEF Overlay, Without, Restrict
  <2>3. DOMAIN next = DOMAIN put \cup (DOMAIN theirs \ gone)
    BY DEF Overlay, Without, Restrict
  <2>. QED  BY <2>1, <2>2, <2>3
<1>2. \A row \in DOMAIN mine : mine[row] = IF row \in DOMAIN put THEN put[row] ELSE db[row]
  BY DEF Overlay, Without, Restrict
<1>3. \A row \in DOMAIN theirs :
        theirs[row] = IF row \in DOMAIN put2 THEN put2[row] ELSE db[row]
  BY DEF Overlay, Without, Restrict
<1>4. \A row \in DOMAIN next :
        next[row] = IF row \in DOMAIN put THEN put[row] ELSE theirs[row]
  BY DEF Overlay, Without, Restrict
<1>5. /\ OnlyLinks(mine, n, h) /\ Closed(mine)
      /\ OnlyLinks(theirs, n, h) /\ Closed(theirs) /\ KeepsFixtures(theirs, n, h)
  BY DEF Sane
<1>6. \A row : ~(OwnRow(own, row) /\ OwnRow(other, row))
  BY SlotsShareNothing
<1>7. \A row, parent : /\ Links(own, row, parent) => OwnRow(own, row)
                       /\ Links(other, row, parent) => OwnRow(other, row)
  BY LinksAreOwn
<1>8. \A row \in DOMAIN put \cup gone : OwnRow(own, row)
  OBVIOUS
<1>9. \A row \in DOMAIN put2 \cup gone2 : OwnRow(other, row)
  OBVIOUS
<1>10. \A row \in gone : Deletes(own, row)
  OBVIOUS
<1>11. \A row \in DOMAIN mine : \A parent \in mine[row] : OwnRow(other, parent)
                                                                  => Links(other, row, parent)
  BY <1>5 DEF OnlyLinks
<1>12. \A row \in DOMAIN theirs : \A parent \in theirs[row] : OwnRow(own, parent)
                                                                      => Links(own, row, parent)
  BY <1>5 DEF OnlyLinks
<1>13. OnlyLinks(next, n, h)
  BY <1>1, <1>2, <1>4, <1>5 DEF OnlyLinks
<1>14. KeepsFixtures(next, n, h)
  BY <1>1, <1>5, <1>10 DEF KeepsFixtures, Kept
<1>. HIDE DEF own, other
<1>15. ASSUME NEW row \in DOMAIN next, NEW parent \in next[row], parent \notin DOMAIN next
       PROVE  FALSE
  <2>1. CASE row \in DOMAIN put
    <3>1. row \in DOMAIN mine /\ parent \in mine[row]
      BY <1>1, <1>2, <1>4, <1>15, <2>1
    <3>2. parent \in DOMAIN mine
      BY <1>5, <3>1 DEF Closed
    <3>3. parent \in gone2
      BY <1>1, <1>15, <3>2
    <3>4. Links(other, row, parent)
      BY <1>9, <1>11, <3>1, <3>3
    <3>. QED  BY <1>6, <1>7, <1>8, <2>1, <3>4
  <2>2. CASE row \notin DOMAIN put
    <3>1. row \in DOMAIN theirs \ gone /\ parent \in theirs[row]
      BY <1>1, <1>4, <1>15, <2>2
    <3>2. parent \in DOMAIN theirs
      BY <1>5, <3>1 DEF Closed
    <3>3. parent \in gone \ DOMAIN put
      BY <1>1, <1>15, <3>2
    <3>4. Links(own, row, parent)
      BY <1>8, <1>12, <3>1, <3>3
    <3>5. row \notin DOMAIN put2
      BY <1>6, <1>7, <1>9, <3>4
    <3>6. row \in DOMAIN mine /\ parent \in mine[row]
      BY <1>1, <1>2, <1>3, <2>2, <3>1, <3>5
    <3>7. parent \in DOMAIN mine
      BY <1>5, <3>6 DEF Closed
    <3>. QED  BY <1>1, <3>3, <3>7
  <2>. QED  BY <2>1, <2>2
<1>16. Closed(next)
  BY <1>15 DEF Closed
<1>. QED  BY <1>13, <1>14, <1>16 DEF Sane
=============================================================================
