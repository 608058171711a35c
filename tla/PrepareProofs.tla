--------------------------- MODULE PrepareProofs ---------------------------
(***************************************************************************)
(* Proofs about Prepare, for every pair of seed inputs and every pool size *)
(* that PoolSizeAssumption allows.                                         *)
(*                                                                         *)
(* Two inductive invariants carry them.  PrepareInv relates the statement  *)
(* that a prepare is at, and the record, to the tables and rows that must  *)
(* be there by then; RunsInv says that the rows which the slots on record  *)
(* count on stay.  An execution is a list of at most ten statements,       *)
(* applied one after the other: a lemma on one statement is carried        *)
(* through them by ExecutionIs.                                            *)
(***************************************************************************)
EXTENDS Prepare, ScenarioProofs

InputsType == [n : Int, h : Int, known : BOOLEAN]

-----------------------------------------------------------------------------
(* The statements of prepare, one by one.                                  *)

LEMMA TablesAre ==
    /\ Len(Tables) = 18 /\ DOMAIN Tables = 1 .. 18
    /\ Tables[1] = "parent_basic" /\ Tables[2] = "child_basic" /\ Tables[3] = "child_rebind"
    /\ Tables[4] = "parent_cascade" /\ Tables[5] = "child_cascade"
    /\ Tables[6] = "parent_hot" /\ Tables[7] = "child_hot" /\ Tables[8] = "probe_summary"
    /\ Tables[9] = "customer" /\ Tables[10] = "folio" /\ Tables[11] = "journal"
    /\ Tables[12] = "posting" /\ Tables[13] = "bill" /\ Tables[14] = "payment"
    /\ Tables[15] = "foliobalance" /\ Tables[16] = "feelog"
    /\ Tables[17] = "statement" /\ Tables[18] = "withdrawal"
  BY DEF Tables, GenericTables, BillingTables

LEMMA TablesDiffer ==
    ASSUME NEW i \in 1 .. 18, NEW j \in 1 .. 18, Tables[i] = Tables[j]
    PROVE  i = j
  BY TablesAre

\* A table is created after those that it refers to.
LEMMA TablesInOrder ==
    ASSUME NEW k \in 1 .. 18, NEW table \in TablesReferredTo(Tables[k])
    PROVE  \E j \in 1 .. k - 1 : Tables[j] = table
  BY TablesAre DEF TablesReferredTo

LEMMA EighteenInOrder ==
    ASSUME NEW a1, NEW a2, NEW a3, NEW a4, NEW a5, NEW a6, NEW a7, NEW a8,
           NEW b1, NEW b2, NEW b3, NEW b4, NEW b5, NEW b6, NEW b7, NEW b8, NEW b9, NEW b10,
           NEW seq, seq = <<a1, a2, a3, a4, a5, a6, a7, a8>>
                          \o <<b1, b2, b3, b4, b5, b6, b7, b8, b9, b10>>
    PROVE  /\ Len(seq) = 18 /\ DOMAIN seq = 1 .. 18
           /\ seq[1] = a1 /\ seq[2] = a2 /\ seq[3] = a3
           /\ seq[4] = a4 /\ seq[5] = a5 /\ seq[6] = a6
           /\ seq[7] = a7 /\ seq[8] = a8 /\ seq[9] = b1
           /\ seq[10] = b2 /\ seq[11] = b3 /\ seq[12] = b4
           /\ seq[13] = b5 /\ seq[14] = b6 /\ seq[15] = b7
           /\ seq[16] = b8 /\ seq[17] = b9 /\ seq[18] = b10
  OBVIOUS

LEMMA FixtureStatementsAre ==
    ASSUME NEW n \in Int, NEW h \in Int
    PROVE  /\ Len(FixtureStatements(n, h)) = IF ParentCount(n) = 0 THEN 8 ELSE 18
           /\ DOMAIN FixtureStatements(n, h) = 1 .. Len(FixtureStatements(n, h))
           /\ FixtureStatements(n, h)[1] = GenericParentBasicRows(n)
           /\ FixtureStatements(n, h)[2] = GenericChildBasicRows(n)
           /\ FixtureStatements(n, h)[3] = GenericChildRebindRows(n)
           /\ FixtureStatements(n, h)[4] = GenericParentCascadeRows
           /\ FixtureStatements(n, h)[5] = GenericChildCascadeRows
           /\ FixtureStatements(n, h)[6] = GenericParentHotRows(n, h)
           /\ FixtureStatements(n, h)[7] = GenericChildHotRows(n, h)
           /\ FixtureStatements(n, h)[8] = GenericProbeSummaryRows
           /\ ParentCount(n) # 0 =>
                /\ FixtureStatements(n, h)[9] = BillingCustomerRows(n)
                /\ FixtureStatements(n, h)[10] = BillingFolioRows(n)
                /\ FixtureStatements(n, h)[11] = BillingJournalRows(n)
                /\ FixtureStatements(n, h)[12] = BillingPostingRows
                /\ FixtureStatements(n, h)[13] = BillingBillRows(n)
                /\ FixtureStatements(n, h)[14] = BillingPaymentRows
                /\ FixtureStatements(n, h)[15] = BillingFolioBalanceRows(n)
                /\ FixtureStatements(n, h)[16] = BillingFeeLogRows
                /\ FixtureStatements(n, h)[17] = BillingStatementRows(n)
                /\ FixtureStatements(n, h)[18] = BillingWithdrawalRows
<1>1. CASE ParentCount(n) = 0
  BY <1>1 DEF FixtureStatements, GenericFixtureStatements, BillingFixtureStatements
<1>2. CASE ParentCount(n) # 0
  BY <1>2, EighteenInOrder
  DEF FixtureStatements, GenericFixtureStatements, BillingFixtureStatements
<1>. QED  BY <1>1, <1>2

LEMMA ApplyStatementsAre ==
    ASSUME NEW in \in InputsType
    PROVE  LET count == Len(FixtureStatements(in.n, in.h))
           IN  /\ DOMAIN ApplyStatements(in) = 1 .. 20 + count
               /\ ApplyStatements(in)[1] = CreateTable("fk_prepare_metadata")
               /\ \A k \in 1 .. 18 : ApplyStatements(in)[1 + k] = CreateTable(Tables[k])
               /\ \A k \in 1 .. count :
                    ApplyStatements(in)[19 + k]
                      = Upsert(Tables[k], FixtureStatements(in.n, in.h)[k])
               /\ ApplyStatements(in)[20 + count] = RecordMetadata
<1>. DEFINE fixtures == FixtureStatements(in.n, in.h)
            count == Len(fixtures)
            all == ApplyStatements(in)
<1>1. count \in {8, 18}
  BY FixtureStatementsAre DEF InputsType
<1>2. all = [k \in 1 .. 20 + count |->
               CASE k = 1 -> CreateTable("fk_prepare_metadata")
                 [] k \in 2 .. 19 -> CreateTable(Tables[k - 1])
                 [] k \in 20 .. 19 + count -> Upsert(Tables[k - 19], fixtures[k - 19])
                 [] k = 20 + count -> RecordMetadata]
  BY DEF ApplyStatements
<1>. HIDE DEF fixtures, all
<1>3. DOMAIN all = 1 .. 20 + count
  BY <1>1, <1>2
<1>4. all[1] = CreateTable("fk_prepare_metadata") /\ all[20 + count] = RecordMetadata
  BY <1>1, <1>2
<1>5. \A k \in 1 .. 18 : all[1 + k] = CreateTable(Tables[k])
  BY <1>1, <1>2, SMTT(30)
<1>6. ASSUME NEW k \in 1 .. count PROVE all[19 + k] = Upsert(Tables[k], fixtures[k])
  <2>1. 19 + k \in 20 .. 19 + count /\ (19 + k) - 19 = k
    BY <1>1
  <2>2. ASSUME NEW j \in 20 .. 19 + count
        PROVE  all[j] = Upsert(Tables[j - 19], fixtures[j - 19])
    BY <1>1, <1>2
  <2>. QED  BY <2>1, <2>2
<1>. QED
  BY <1>3, <1>4, <1>5, <1>6 DEF fixtures, all

\* What the list of prepares holds for the inputs that prepare can be given.
LEMMA PreparesAre ==
    ASSUME NEW in \in GivenInputs
    PROVE  in \in InputsType /\ in.known /\ Prepares[in] = ApplyStatements(in)
<1>1. PICK n \in ParentRows, h \in HotKeys : in = Inputs(n, h)
  BY DEF GivenInputs
<1>2. n \in Int /\ h \in Int
  BY PrepareAssumption
<1>3. Prepares[in] = ApplyStatements(in)
  BY DEF Prepares
<1>. QED  BY <1>1, <1>2, <1>3 DEF Inputs, InputsType

\* The rows are of this table and refer to rows of tables that it refers to.
OfTable(rows, table) ==
    \A r \in rows : r.row[1] = table /\ \A ref \in r.refs : ref[1] \in TablesReferredTo(table)

LEMMA FixturesOfTables ==
    ASSUME NEW n \in Int, NEW h \in Int, NEW k \in 1 .. Len(FixtureStatements(n, h))
    PROVE  OfTable(FixtureStatements(n, h)[k], Tables[k])
<1>. USE DEF OfTable, TablesReferredTo, Plain, Referring
<1>1. OfTable(GenericParentBasicRows(n), "parent_basic")
  BY DEF GenericParentBasicRows, Parent
<1>2. OfTable(GenericChildBasicRows(n), "child_basic")
  BY DEF GenericChildBasicRows, Parent, InsertExistingParentSlot, UpdateChildNoFKChangeSlot
<1>3. OfTable(GenericChildRebindRows(n), "child_rebind")
  BY DEF GenericChildRebindRows, Parent, RebindChildSlot, InsertParentThenUpdateChildSlot
<1>4. OfTable(GenericParentCascadeRows, "parent_cascade")
  BY DEF GenericParentCascadeRows, DeleteParentCascadeSlot
<1>5. OfTable(GenericChildCascadeRows, "child_cascade")
  BY DEF GenericChildCascadeRows, DeleteParentCascadeSlot
<1>6. OfTable(GenericParentHotRows(n, h), "parent_hot")
  BY DEF GenericParentHotRows
<1>7. OfTable(GenericChildHotRows(n, h), "child_hot")
  BY DEF GenericChildHotRows, ConcurrentHotParentInsertSlot
<1>8. OfTable(GenericProbeSummaryRows, "probe_summary")
  BY DEF GenericProbeSummaryRows
<1>9. OfTable(BillingCustomerRows(n), "customer")
  BY DEF BillingCustomerRows, Customer
<1>10. OfTable(BillingFolioRows(n), "folio")
  BY DEF BillingFolioRows, Customer, Folio
<1>11. OfTable(BillingJournalRows(n), "journal")
  BY DEF BillingJournalRows, Account, Customer, Folio, ExistingJournal, JournalPostingBillSlot,
      FKBackfillSlot, PaymentMixedReferenceSlot
<1>12. OfTable(BillingPostingRows, "posting")
  BY DEF BillingPostingRows, JournalPostingBillSlot
<1>13. OfTable(BillingBillRows(n), "bill")
  BY DEF BillingBillRows, ExistingBill, ExistingJournal, Folio, JournalPostingBillSlot,
         FKBackfillSlot
<1>14. OfTable(BillingPaymentRows, "payment")
  BY DEF BillingPaymentRows, ExistingBill, ExistingJournal, PaymentMixedReferenceSlot,
      PaymentBillUpdateProbeSlot
<1>15. OfTable(BillingFolioBalanceRows(n), "foliobalance")
  BY DEF BillingFolioBalanceRows, FolioBalanceUpdateSlot, Account, Customer, Folio
<1>16. OfTable(BillingFeeLogRows, "feelog")
  BY DEF BillingFeeLogRows, FKBackfillSlot
<1>17. OfTable(BillingStatementRows(n), "statement")
  BY DEF BillingStatementRows, FKBackfillSlot, CascadePathSlot, Account, Customer, Folio
<1>18. OfTable(BillingWithdrawalRows, "withdrawal")
  BY DEF BillingWithdrawalRows, FKBackfillSlot, CascadePathSlot, ExistingJournal
<1>. HIDE DEF OfTable, TablesReferredTo, Plain, Referring
<1>. DEFINE fixtures == FixtureStatements(n, h)
<1>19. \A j \in 1 .. 8 : OfTable(fixtures[j], Tables[j])
  <2>1. /\ OfTable(fixtures[1], Tables[1]) /\ OfTable(fixtures[2], Tables[2])
        /\ OfTable(fixtures[3], Tables[3]) /\ OfTable(fixtures[4], Tables[4])
        /\ OfTable(fixtures[5], Tables[5]) /\ OfTable(fixtures[6], Tables[6])
        /\ OfTable(fixtures[7], Tables[7]) /\ OfTable(fixtures[8], Tables[8])
    BY FixtureStatementsAre, TablesAre, <1>1, <1>2, <1>3, <1>4, <1>5, <1>6, <1>7, <1>8,
       ZenonT(60)
  <2>. HIDE DEF fixtures
  <2>. QED  BY <2>1
<1>20. ASSUME ParentCount(n) # 0 PROVE \A j \in 9 .. 18 : OfTable(fixtures[j], Tables[j])
  <2>1. /\ OfTable(fixtures[9], Tables[9]) /\ OfTable(fixtures[10], Tables[10])
        /\ OfTable(fixtures[11], Tables[11]) /\ OfTable(fixtures[12], Tables[12])
        /\ OfTable(fixtures[13], Tables[13]) /\ OfTable(fixtures[14], Tables[14])
        /\ OfTable(fixtures[15], Tables[15]) /\ OfTable(fixtures[16], Tables[16])
        /\ OfTable(fixtures[17], Tables[17]) /\ OfTable(fixtures[18], Tables[18])
    BY FixtureStatementsAre, TablesAre, <1>20, <1>9, <1>10, <1>11, <1>12, <1>13, <1>14,
       <1>15, <1>16, <1>17, <1>18, ZenonT(60)
  <2>. HIDE DEF fixtures
  <2>. QED  BY <2>1
<1>21. /\ ParentCount(n) = 0 => k \in 1 .. 8
       /\ k \in 1 .. 8 \/ k \in 9 .. 18
  <2>1. Len(FixtureStatements(n, h)) = IF ParentCount(n) = 0 THEN 8 ELSE 18
    BY FixtureStatementsAre
  <2>. QED  BY <2>1
<1>. HIDE DEF fixtures
<1>22. OfTable(fixtures[k], Tables[k])
  BY <1>19, <1>20, <1>21
<1>. QED  BY <1>22 DEF fixtures

-----------------------------------------------------------------------------
(* An execution, statement by statement.                                   *)

\* No scenario has more than ten statements: the execution of as many is written out, so
\* that the function that Execution chooses exists.
LEMMA ExecutionIs ==
    ASSUME NEW steps, NEW last \in 0 .. 10, last = Len(steps)
    PROVE  /\ Execution(steps)[0] = [rows |-> db, answer |-> "ok"]
           /\ \A k \in 1 .. last :
                Execution(steps)[k] = Executed(Execution(steps)[k - 1], steps[k])
<1>. DEFINE e0 == [rows |-> db, answer |-> "ok"]
            e1 == Executed(e0, steps[1])
            e2 == Executed(e1, steps[2])
            e3 == Executed(e2, steps[3])
            e4 == Executed(e3, steps[4])
            e5 == Executed(e4, steps[5])
            e6 == Executed(e5, steps[6])
            e7 == Executed(e6, steps[7])
            e8 == Executed(e7, steps[8])
            e9 == Executed(e8, steps[9])
            e10 == Executed(e9, steps[10])
            Item(k) ==
              CASE k = 0 -> e0
                [] k = 1 -> e1
                [] k = 2 -> e2
                [] k = 3 -> e3
                [] k = 4 -> e4
                [] k = 5 -> e5
                [] k = 6 -> e6
                [] k = 7 -> e7
                [] k = 8 -> e8
                [] k = 9 -> e9
                [] k = 10 -> e10
            written == [k \in 0 .. last |-> Item(k)]
            Follows(f) ==
              f = [k \in 0 .. last |-> IF k = 0 THEN e0 ELSE Executed(f[k - 1], steps[k])]
<1>1. Follows(written)
  <2>. HIDE DEF e0, e1, e2, e3, e4, e5, e6, e7, e8, e9, e10
  <2>. DEFINE Is(j, e) == j <= last => written[j] = e
  <2>1. /\ Is(0, e0) /\ Is(1, e1) /\ Is(2, e2) /\ Is(3, e3) /\ Is(4, e4) /\ Is(5, e5)
        /\ Is(6, e6) /\ Is(7, e7) /\ Is(8, e8) /\ Is(9, e9) /\ Is(10, e10)
    OBVIOUS
  <2>. HIDE DEF written
  <2>2. ASSUME NEW k \in 0 .. last
        PROVE  written[k] = IF k = 0 THEN e0 ELSE Executed(written[k - 1], steps[k])
    <3>. DEFINE Follow(j, e, f) == j + 1 = k /\ f = Executed(e, steps[j + 1])
                                 /\ Is(j, e) /\ Is(j + 1, f)
    <3>1. ASSUME NEW j \in 0 .. 9, NEW e, NEW f, Follow(j, e, f)
          PROVE  written[k] = Executed(written[k - 1], steps[k])
      BY <3>1
    <3>2. k = 0 \/ k - 1 \in 0 .. 9
      OBVIOUS
    <3>3. /\ k = 1 => Follow(0, e0, e1)
          /\ k = 2 => Follow(1, e1, e2)
          /\ k = 3 => Follow(2, e2, e3)
          /\ k = 4 => Follow(3, e3, e4)
          /\ k = 5 => Follow(4, e4, e5)
      BY <2>1 DEF e1, e2, e3, e4, e5
    <3>4. /\ k = 6 => Follow(5, e5, e6)
          /\ k = 7 => Follow(6, e6, e7)
          /\ k = 8 => Follow(7, e7, e8)
          /\ k = 9 => Follow(8, e8, e9)
          /\ k = 10 => Follow(9, e9, e10)
      BY <2>1 DEF e6, e7, e8, e9, e10
    <3>. HIDE DEF Is, Follow
    <3>5. k # 0 => \E j \in 0 .. 9 : \E e, f : Follow(j, e, f)
      BY <3>2, <3>3, <3>4
    <3>6. k = 0 => written[k] = e0
      BY <2>1 DEF Is
    <3>. QED  BY <3>1, <3>5, <3>6
  <2>. HIDE DEF Item
  <2>3. written = [k \in 0 .. last |-> written[k]]
    BY DEF written
  <2>. QED  BY <2>2, <2>3
<1>2. Execution(steps) = CHOOSE f : Follows(f)
  BY DEF Execution
<1>. HIDE DEF e0, e1, e2, e3, e4, e5, e6, e7, e8, e9, e10, Item, written
<1>3. Follows(Execution(steps))
  BY <1>1, <1>2
<1>4. Execution(steps)[0] = e0
  BY <1>3
<1>5. \A k \in 1 .. last : Execution(steps)[k] = Executed(Execution(steps)[k - 1], steps[k])
  BY <1>3
<1>. QED  BY <1>4, <1>5 DEF e0

AllTables ==
    {"fk_prepare_metadata", "parent_basic", "child_basic", "child_rebind", "parent_cascade",
     "child_cascade", "parent_hot", "child_hot", "probe_summary", "customer", "folio",
     "journal", "posting", "bill", "payment", "foliobalance", "feelog", "statement",
     "withdrawal"}

\* The tables whose rows go with their parents; no table refers to them.
Leaves == {"child_cascade", "withdrawal"}

\* The lists are short, work on tables of the schema, and refer to no leaf.
Fits(steps) ==
    /\ Len(steps) \in 1 .. 10
    /\ \A k \in 1 .. Len(steps) :
         /\ steps[k].row[1] \in AllTables
         /\ \A ref \in steps[k].refs : ref[1] \notin Leaves

LEMMA SlotsFit ==
    ASSUME NEW n \in Int, NEW h \in Int, NEW s \in Registry, NEW i \in Pool
    PROVE  Fits(StepsOf(s, n, h, i))
<1>. USE DEF Statement, Delete, Insert, Rebind, Update, SelectForUpdate, Fits, Leaves, AllTables
<1>1. CASE s = "generic_insert_existing_parent"
  BY <1>1
  DEF StepsOf, InsertExistingParent, Replace, InsertExistingParentSlot, Parent
<1>2. CASE s = "generic_insert_parent_then_child"
  BY <1>2
  DEF StepsOf, InsertParentThenChild, InsertParentThenChildSlot, Parent
<1>3. CASE s = "generic_update_child_no_fk_change"
  BY <1>3
  DEF StepsOf, UpdateChildNoFKChange, Replace, UpdateChildNoFKChangeSlot, Parent
<1>4. CASE s = "generic_rebind_child_fk"
  BY <1>4
  DEF StepsOf, RebindChildFK, Replace, RebindChildSlot, Parent
<1>5. CASE s = "generic_insert_parent_then_update_child_fk"
  BY <1>5
  DEF StepsOf, InsertParentThenUpdateChildFK, Replace, InsertParentThenUpdateChildSlot, Parent
<1>6. CASE s = "generic_delete_parent_cascade"
  BY <1>6
  DEF StepsOf, DeleteParentCascade, DeleteParentCascadeSlot
<1>7. CASE s = "generic_concurrent_hot_parent_insert"
  BY <1>7
  DEF StepsOf, ConcurrentHotParentInsert, Replace, ConcurrentHotParentInsertSlot
<1>8. CASE s = "billing_journal_posting_bill"
  BY <1>8
  DEF StepsOf, JournalPostingBill, JournalPostingBillSlot, Account, Customer, Folio
<1>9. CASE s = "billing_folio_balance_update"
  BY <1>9
  DEF StepsOf, FolioBalanceUpdate, FolioBalanceUpdateSlot
<1>10. CASE s = "billing_fk_backfill"
  BY <1>10
  DEF StepsOf, FKBackfill, FKBackfillSlot, Account, Customer, Folio
<1>11. CASE s = "billing_payment_mixed_references"
  BY <1>11
  DEF StepsOf, PaymentMixedReferences, PaymentMixedReferenceSlot, Account, Customer, Folio,
      ExistingBill
<1>12. CASE s = "billing_cascade_path"
  BY <1>12
  DEF StepsOf, CascadePath, CascadePathSlot, Account, Customer, Folio, ExistingJournal
<1>13. CASE s = "payment_bill_update_probe"
  BY <1>13
  DEF StepsOf, PaymentBillUpdateProbe, Replace, PaymentBillUpdateProbeSlot, ExistingBill,
      ExistingJournal
<1>14. CASE s = "statement_folio_parent_update_probe"
  BY <1>14
  DEF StepsOf, StatementFolioParentUpdateProbe, Replace, StatementFolioParentUpdateProbeSlot,
      Account, Customer, Folio
<1>. QED  BY <1>1, <1>2, <1>3, <1>4, <1>5, <1>6, <1>7,
             <1>8, <1>9, <1>10, <1>11, <1>12, <1>13, <1>14
          DEF Registry, SuccessScenarios, GenericScenarios, BillingScenarios, Probes

-----------------------------------------------------------------------------
(* The invariant.                                                          *)

\* No slot deletes these rows: they are nobody's, or journals that the slots of
\* billing_fk_backfill refer to and do not write.
Stable(row, n) ==
    \/ Owner(row, n) = Nobody
    \/ row[1] = "journal" /\ Owner(row, n)[1] = "billing_fk_backfill"

\* The fixtures of these inputs that no execution deletes.
Settled(in) ==
    {row \in {r.row : r \in FixtureRows(in.n, in.h)} : Stable(row, in.n)}

\* The rows are of tables that exist, and what they refer to is there and no leaf.
Filed(rows) ==
    /\ Closed(rows)
    /\ \A row \in DOMAIN rows :
         row[1] \in tables /\ \A ref \in rows[row] : ref[1] \notin Leaves

\* What the statement of a prepare was to bring about is the case.
Done(st) ==
    /\ st.kind = "create" => st.table \in tables
    /\ st.kind = "upsert" => \A r \in st.rows : r.row \in DOMAIN db

InputsOK ==
    /\ meta \in InputsType /\ plan \in InputsType
    /\ job \in [inputs : InputsType, at : Int]
    /\ \A in \in {meta, job.inputs, plan} : in = NoInputs \/ in.known

\* All statements before the current one are done, and no run goes on.
JobOK ==
    job # NoJob =>
        /\ plan = NoInputs
        /\ job.inputs \in GivenInputs
        /\ job.at \in Sent(job.inputs)
        /\ \A k \in DOMAIN Prepares[job.inputs] :
             k < job.at => Done(Prepares[job.inputs][k])

MetaOK ==
    meta.known =>
        /\ AllTables \subseteq tables
        /\ Settled(meta) \subseteq DOMAIN db

Failures == {"none", "no table", "duplicate", "no parent", "referenced", "no rows"}

PrepareInv ==
    /\ InputsOK
    /\ tables \subseteq AllTables
    /\ Filed(db)
    /\ failure \in Failures
    /\ JobOK
    /\ MetaOK
    /\ plan.known => meta.known /\ plan = RunInputs(meta)

-----------------------------------------------------------------------------
(* The statements of prepare succeed, one after the other.                 *)

LEMMA FixtureIsInserted ==
    ASSUME NEW n \in Int, NEW h \in Int, NEW row
    PROVE  Fixture(row, n, h) <=>
             \E k \in 1 .. Len(FixtureStatements(n, h)) :
                \E r \in FixtureStatements(n, h)[k] : r.row = row
<1>. DEFINE fixtures == FixtureStatements(n, h)
            count == Len(fixtures)
<1>1. DOMAIN fixtures = 1 .. count
  BY FixtureStatementsAre
<1>2. \A r : r \in FixtureRows(n, h) <=> \E k \in DOMAIN fixtures : r \in fixtures[k]
  BY DEF FixtureRows, Range
<1>. HIDE DEF fixtures
<1>. QED  BY <1>1, <1>2 DEF Fixture, fixtures

\* A row refers to rows of earlier statements.
LEMMA RefersEarlier ==
    ASSUME NEW n \in Int, NEW h \in Int, NEW k \in 1 .. Len(FixtureStatements(n, h)),
           NEW r \in FixtureStatements(n, h)[k], NEW row \in r.refs
    PROVE  \E j \in 1 .. k - 1 : \E q \in FixtureStatements(n, h)[j] : q.row = row
<1>. DEFINE fixtures == FixtureStatements(n, h)
            count == Len(fixtures)
<1>1. /\ DOMAIN fixtures = 1 .. count /\ count = IF ParentCount(n) = 0 THEN 8 ELSE 18
      /\ k \in 1 .. 18 /\ \A i \in 1 .. count : i \in 1 .. 18
  <2>1. DOMAIN fixtures = 1 .. count /\ count = IF ParentCount(n) = 0 THEN 8 ELSE 18
    BY FixtureStatementsAre
  <2>. HIDE DEF fixtures
  <2>2. count \in {8, 18}
    BY <2>1
  <2>. QED  BY <2>1, <2>2 DEF fixtures
<1>2. row[1] \in TablesReferredTo(Tables[k])
  BY FixturesOfTables DEF OfTable
<1>3. PICK j \in 1 .. k - 1 : Tables[j] = row[1]
  BY <1>1, <1>2, TablesInOrder
<1>4. r \in FixtureRows(n, h)
  BY <1>1 DEF FixtureRows, Range
<1>5. PICK i \in 1 .. count : \E q \in fixtures[i] : q.row = row
  BY <1>4, FixturesLinked, FixtureIsInserted DEF LinkedTo
<1>6. Tables[i] = row[1]
  BY <1>5, FixturesOfTables DEF OfTable
<1>. HIDE DEF fixtures
<1>7. i \in 1 .. 18 /\ j \in 1 .. 18
  BY <1>1, <1>3, <1>5
<1>8. i = j
  BY <1>3, <1>6, <1>7, TablesDiffer
<1>. QED  BY <1>3, <1>5, <1>8 DEF fixtures

\* Statement st is at this position of the list, and those before it are done.
Follows(st, at, fixtures, count) ==
    /\ \/ at = 1 /\ st = CreateTable("fk_prepare_metadata")
       \/ \E j \in 1 .. 18 : at = 1 + j /\ st = CreateTable(Tables[j])
       \/ \E j \in 1 .. count : at = 19 + j /\ st = Upsert(Tables[j], fixtures[j])
       \/ at = 20 + count /\ st = RecordMetadata
    /\ at > 1 => "fk_prepare_metadata" \in tables
    /\ \A j \in 1 .. 18 : 1 + j < at => Tables[j] \in tables
    /\ \A j \in 1 .. count : 19 + j < at => \A r \in fixtures[j] : r.row \in DOMAIN db

LEMMA StatementAt ==
    ASSUME NEW fixtures, NEW count \in Nat, NEW all, NEW at \in 1 .. 20 + count,
           all[1] = CreateTable("fk_prepare_metadata"),
           \A j \in 1 .. 18 : all[1 + j] = CreateTable(Tables[j]),
           \A j \in 1 .. count : all[19 + j] = Upsert(Tables[j], fixtures[j]),
           all[20 + count] = RecordMetadata,
           \A k \in 1 .. 20 + count : k < at => Done(all[k])
    PROVE  Follows(all[at], at, fixtures, count)
<1>1. \/ at = 1
      \/ \E j \in 1 .. 18 : at = 1 + j
      \/ \E j \in 1 .. count : at = 19 + j
      \/ at = 20 + count
  <2>1. \/ at = 1
        \/ at - 1 \in 1 .. 18
        \/ at - 19 \in 1 .. count
        \/ at = 20 + count
    OBVIOUS
  <2>2. at = 1 + (at - 1) /\ at = 19 + (at - 19)
    OBVIOUS
  <2>. QED  BY <2>1, <2>2
<1>2. at > 1 => "fk_prepare_metadata" \in tables
  <2>1. at > 1 => Done(all[1])
    OBVIOUS
  <2>. QED  BY <2>1 DEF Done, CreateTable
<1>3. ASSUME NEW j \in 1 .. 18, 1 + j < at PROVE Tables[j] \in tables
  <2>1. Done(all[1 + j]) /\ all[1 + j] = CreateTable(Tables[j])
    BY <1>3
  <2>. QED  BY <2>1 DEF Done, CreateTable
<1>4. ASSUME NEW j \in 1 .. count, 19 + j < at
      PROVE  \A r \in fixtures[j] : r.row \in DOMAIN db
  <2>1. Done(all[19 + j]) /\ all[19 + j] = Upsert(Tables[j], fixtures[j])
    BY <1>4
  <2>. QED  BY <2>1 DEF Done, Upsert
<1>. QED  BY <1>1, <1>2, <1>3, <1>4 DEF Follows

\* The same for the current statement of a prepare.
LEMMA CurrentIs ==
    ASSUME InputsOK, JobOK, AtStatement,
           NEW fixtures, fixtures = FixtureStatements(job.inputs.n, job.inputs.h)
    PROVE  /\ job.inputs.n \in Int /\ job.inputs.h \in Int /\ job.inputs \in InputsType
           /\ \E count \in 0 .. 18 :
                /\ count = Len(fixtures) /\ job.at \in 1 .. 20 + count
                /\ Follows(Current, job.at, fixtures, count)
<1>. DEFINE all == Prepares[job.inputs]
<1>1. job.inputs \in InputsType /\ job.inputs.n \in Int /\ job.inputs.h \in Int
  BY DEF InputsOK, InputsType
<1>2. Len(fixtures) \in 0 .. 18
  <2>1. Len(fixtures) = IF ParentCount(job.inputs.n) = 0 THEN 8 ELSE 18
    BY <1>1, FixtureStatementsAre
  <2>. QED  BY <2>1
<1>3. PICK count \in 0 .. 18 : count = Len(fixtures)
  BY <1>2
<1>4. /\ DOMAIN all = 1 .. 20 + count
      /\ all[1] = CreateTable("fk_prepare_metadata")
      /\ \A j \in 1 .. 18 : all[1 + j] = CreateTable(Tables[j])
      /\ \A j \in 1 .. count : all[19 + j] = Upsert(Tables[j], fixtures[j])
      /\ all[20 + count] = RecordMetadata
  <2>1. all = ApplyStatements(job.inputs)
    BY PreparesAre DEF JobOK, AtStatement
  <2>. QED  BY <1>1, <1>3, <2>1, ApplyStatementsAre
<1>5. job.at \in 1 .. 20 + count /\ Current = all[job.at]
      /\ \A k \in 1 .. 20 + count : k < job.at => Done(all[k])
  BY <1>4 DEF JobOK, AtStatement, Sent, Current
<1>. HIDE DEF all
<1>6. count \in Nat
  OBVIOUS
<1>7. Follows(all[job.at], job.at, fixtures, count)
  BY <1>4, <1>5, <1>6, StatementAt
<1>. QED  BY <1>1, <1>3, <1>5, <1>7

\* The answer to each statement of a prepare is no error.
LEMMA StatementSucceeds ==
    ASSUME InputsOK, JobOK, AtStatement
    PROVE  StatementAnswer = "ok"
<1>. DEFINE fixtures == FixtureStatements(job.inputs.n, job.inputs.h)
<1>. HIDE DEF fixtures
<1>1. PICK count \in 0 .. 18 :
      /\ job.inputs.n \in Int /\ job.inputs.h \in Int
      /\ count = Len(fixtures) /\ job.at \in 1 .. 20 + count
      /\ Follows(Current, job.at, fixtures, count)
  BY CurrentIs DEF fixtures
<1>2. CASE job.at = 1 /\ Current = CreateTable("fk_prepare_metadata")
  BY <1>2 DEF StatementAnswer, CreateTable, TablesReferredTo
<1>3. CASE \E j \in 1 .. 18 : job.at = 1 + j /\ Current = CreateTable(Tables[j])
  <2>1. PICK j \in 1 .. 18 : job.at = 1 + j /\ Current = CreateTable(Tables[j])
    BY <1>3
  <2>2. ASSUME NEW table \in TablesReferredTo(Tables[j]) PROVE table \in tables
    <3>1. PICK i \in 1 .. j - 1 : Tables[i] = table
      BY TablesInOrder
    <3>2. i \in 1 .. 18 /\ 1 + i < job.at
      BY <2>1
    <3>. QED  BY <1>1, <3>1, <3>2 DEF Follows
  <2>. QED  BY <2>1, <2>2 DEF StatementAnswer, CreateTable
<1>4. CASE \E j \in 1 .. count : job.at = 19 + j /\ Current = Upsert(Tables[j], fixtures[j])
  <2>1. PICK j \in 1 .. count : job.at = 19 + j /\ Current = Upsert(Tables[j], fixtures[j])
    BY <1>4
  <2>2. Tables[j] \in tables
    <3>1. j \in 1 .. 18 /\ 1 + j < job.at
      BY <2>1
    <3>. QED  BY <1>1, <3>1 DEF Follows
  <2>3. ASSUME NEW r \in fixtures[j], NEW row \in r.refs PROVE row \in DOMAIN db
    <3>1. PICK i \in 1 .. j - 1 : \E q \in fixtures[i] : q.row = row
      BY <1>1, RefersEarlier DEF fixtures
    <3>2. i \in 1 .. count /\ 19 + i < job.at
      BY <1>1, <2>1
    <3>. QED  BY <1>1, <3>1, <3>2 DEF Follows
  <2>4. UpsertAnswer(db, fixtures[j]) = "ok"
    BY <2>3 DEF UpsertAnswer
  <2>. QED  BY <2>1, <2>2, <2>4 DEF StatementAnswer, Upsert
<1>5. CASE job.at = 20 + count /\ Current = RecordMetadata
  BY <1>1, <1>5 DEF StatementAnswer, RecordMetadata, Follows
<1>. QED  BY <1>1, <1>2, <1>3, <1>4, <1>5 DEF Follows

-----------------------------------------------------------------------------
(* The effect of a statement of prepare.                                   *)

LEMMA UpsertedIs ==
    ASSUME NEW rows, NEW added
    PROVE  /\ DOMAIN Upserted(rows, added) = {r.row : r \in added} \cup DOMAIN rows
           /\ \A row \in DOMAIN Upserted(rows, added) :
                Upserted(rows, added)[row] =
                  IF row \in {r.row : r \in added}
                  THEN (CHOOSE r \in added : r.row = row).refs ELSE rows[row]
<1>. DEFINE over == [row \in {r.row : r \in added} |-> (CHOOSE r \in added : r.row = row).refs]
<1>1. Upserted(rows, added) = Overlay(over, rows)
  BY DEF Upserted
<1>2. /\ DOMAIN over = {r.row : r \in added}
      /\ \A row \in DOMAIN over : over[row] = (CHOOSE r \in added : r.row = row).refs
  OBVIOUS
<1>. HIDE DEF over
<1>. QED  BY <1>1, <1>2 DEF Overlay

\* A row of the result was there before, or is one of those added.
LEMMA UpsertedRows ==
    ASSUME NEW rows, NEW added, NEW row \in DOMAIN Upserted(rows, added)
    PROVE  \/ row \in DOMAIN rows /\ Upserted(rows, added)[row] = rows[row]
           \/ \E r \in added : r.row = row /\ Upserted(rows, added)[row] = r.refs
<1>1. CASE row \in {r.row : r \in added}
  <2>. DEFINE chosen == CHOOSE r \in added : r.row = row
  <2>1. \E r \in added : r.row = row
    BY <1>1
  <2>2. chosen \in added /\ chosen.row = row
    BY <2>1
  <2>3. Upserted(rows, added)[row] = chosen.refs
    BY <1>1, UpsertedIs
  <2>. QED  BY <2>2, <2>3
<1>2. CASE row \notin {r.row : r \in added}
  <2>. DEFINE keys == {r.row : r \in added}
              all == Upserted(rows, added)
  <2>1. row \notin keys /\ row \in DOMAIN all
    BY <1>2
  <2>2. DOMAIN all = keys \cup DOMAIN rows
    BY UpsertedIs
  <2>3. all[row] = IF row \in keys THEN (CHOOSE r \in added : r.row = row).refs ELSE rows[row]
    BY UpsertedIs
  <2>. HIDE DEF keys, all
  <2>4. row \in DOMAIN rows /\ all[row] = rows[row]
    BY <2>1, <2>2, <2>3
  <2>. QED  BY <2>4 DEF all
<1>. QED  BY <1>1, <1>2

LEMMA LeavesAreNoParents ==
    ASSUME NEW table, NEW parent \in TablesReferredTo(table)
    PROVE  parent \notin Leaves
  BY DEF TablesReferredTo, Leaves

LEMMA UpsertKeepsFiled ==
    ASSUME NEW rows, NEW added, NEW table \in tables,
           Filed(rows), OfTable(added, table), UpsertAnswer(rows, added) = "ok"
    PROVE  Filed(Upserted(rows, added))
<1>. DEFINE all == Upserted(rows, added)
<1>1. DOMAIN all = {r.row : r \in added} \cup DOMAIN rows
  BY UpsertedIs
<1>2. \A r \in added : r.refs \subseteq DOMAIN all
  <2>1. {q.row : q \in added} \cup DOMAIN rows = DOMAIN rows \cup {q.row : q \in added}
    OBVIOUS
  <2>. QED  BY <1>1, <2>1 DEF UpsertAnswer
<1>. HIDE DEF all
<1>3. ASSUME NEW row \in DOMAIN all
      PROVE  /\ all[row] \subseteq DOMAIN all
             /\ row[1] \in tables
             /\ \A ref \in all[row] : ref[1] \notin Leaves
  <2>1. CASE row \in DOMAIN rows /\ all[row] = rows[row]
    BY <1>1, <2>1 DEF Filed, Closed
  <2>2. CASE \E r \in added : r.row = row /\ all[row] = r.refs
    <3>1. PICK r \in added : r.row = row /\ all[row] = r.refs
      BY <2>2
    <3>2. row[1] = table /\ \A ref \in r.refs : ref[1] \in TablesReferredTo(table)
      BY <3>1 DEF OfTable
    <3>. QED  BY <1>2, <3>1, <3>2, LeavesAreNoParents
  <2>. QED  BY <2>1, <2>2, UpsertedRows DEF all
<1>. QED  BY <1>3 DEF Filed, Closed, all

\* What a statement of a prepare does, and what it leaves alone.
LEMMA EffectKeeps ==
    ASSUME PrepareInv, AtStatement, StatementTakesEffect
    PROVE  /\ tables \subseteq tables' /\ tables' \subseteq AllTables
           /\ DOMAIN db \subseteq DOMAIN db'
           /\ Filed(db)'
           /\ \A st : Done(st) \/ st = Current => Done(st)'
           /\ meta' \in {meta, job.inputs}
           /\ MetaOK'
<1>. DEFINE fixtures == FixtureStatements(job.inputs.n, job.inputs.h)
<1>. HIDE DEF fixtures
<1>1. PICK count \in 0 .. 18 :
      /\ job.inputs.n \in Int /\ job.inputs.h \in Int
      /\ count = Len(fixtures) /\ job.at \in 1 .. 20 + count
      /\ Follows(Current, job.at, fixtures, count)
  BY CurrentIs DEF fixtures, PrepareInv
<1>2. /\ StatementAnswer = "ok"
      /\ Filed(db) /\ tables \subseteq AllTables /\ MetaOK
  BY StatementSucceeds DEF PrepareInv
<1>3. /\ tables' = IF Current.kind = "create" THEN tables \cup {Current.table} ELSE tables
      /\ db' = IF Current.kind = "upsert" THEN Upserted(db, Current.rows) ELSE db
      /\ meta' = IF Current.kind = "record" THEN job.inputs ELSE meta
  BY DEF StatementTakesEffect
<1>4. \/ \E table \in AllTables : Current = CreateTable(table)
      \/ \E j \in 1 .. count : job.at = 19 + j /\ Current = Upsert(Tables[j], fixtures[j])
      \/ job.at = 20 + count /\ Current = RecordMetadata
  <2>1. \A j \in 1 .. 18 : Tables[j] \in AllTables
    BY TablesAre DEF AllTables
  <2>2. "fk_prepare_metadata" \in AllTables
    BY DEF AllTables
  <2>. QED  BY <1>1, <2>1, <2>2 DEF Follows
<1>. DEFINE Result ==
       /\ tables \subseteq tables' /\ tables' \subseteq AllTables
       /\ DOMAIN db \subseteq DOMAIN db'
       /\ Filed(db)'
       /\ \A st : Done(st) \/ st = Current => Done(st)'
       /\ meta' \in {meta, job.inputs}
       /\ MetaOK'
<1>5. ASSUME NEW table \in AllTables, Current = CreateTable(table)
      PROVE  Result
  <2>1. tables' = tables \cup {table} /\ db' = db /\ meta' = meta
    BY <1>3, <1>5 DEF CreateTable
  <2>. QED  BY <1>2, <1>5, <2>1 DEF CreateTable, Filed, Closed, Done, MetaOK, Settled
<1>6. ASSUME NEW j \in 1 .. count, Current = Upsert(Tables[j], fixtures[j])
      PROVE  Result
  <2>1. tables' = tables /\ db' = Upserted(db, fixtures[j]) /\ meta' = meta
    BY <1>3, <1>6 DEF Upsert
  <2>2. DOMAIN db' = {r.row : r \in fixtures[j]} \cup DOMAIN db
    BY <2>1, UpsertedIs
  <2>3. Tables[j] \in tables /\ UpsertAnswer(db, fixtures[j]) = "ok"
    BY <1>2, <1>6 DEF StatementAnswer, Upsert
  <2>4. OfTable(fixtures[j], Tables[j])
    BY <1>1, FixturesOfTables DEF fixtures
  <2>5. Filed(Upserted(db, fixtures[j]))
    BY <1>2, <2>3, <2>4, UpsertKeepsFiled
  <2>6. Filed(db)'
    BY <2>1, <2>5 DEF Filed
  <2>. HIDE DEF fixtures
  <2>7. \A st : Done(st) => Done(st)'
    BY <2>1, <2>2 DEF Done
  <2>8. ASSUME NEW st, st = Current PROVE Done(st)'
    <3>1. st.kind = "upsert" /\ st.rows = fixtures[j]
      BY <1>6, <2>8 DEF Upsert
    <3>2. \A r \in st.rows : r.row \in DOMAIN db'
      BY <2>2, <3>1
    <3>. QED  BY <3>1, <3>2 DEF Done
  <2>9. MetaOK'
    BY <1>2, <2>1, <2>2 DEF MetaOK, Settled
  <2>10. tables \subseteq tables' /\ tables' \subseteq AllTables /\ DOMAIN db \subseteq DOMAIN db'
    BY <1>2, <2>1, <2>2
  <2>. QED  BY <2>1, <2>6, <2>7, <2>8, <2>9, <2>10
<1>7. ASSUME job.at = 20 + count, Current = RecordMetadata
      PROVE  Result
  <2>1. tables' = tables /\ db' = db /\ meta' = job.inputs
    BY <1>3, <1>7 DEF RecordMetadata
  <2>2. "fk_prepare_metadata" \in tables /\ \A j \in 1 .. 18 : Tables[j] \in tables
    <3>1. job.at > 1 /\ \A j \in 1 .. 18 : 1 + j < job.at
      BY <1>7
    <3>. QED  BY <1>1, <3>1 DEF Follows
  <2>3. AllTables \subseteq tables
    BY <2>2, TablesAre DEF AllTables
  <2>4. \A j \in 1 .. count : \A r \in fixtures[j] : r.row \in DOMAIN db
    <3>1. \A j \in 1 .. count : 19 + j < job.at
      BY <1>7
    <3>. QED  BY <1>1, <3>1 DEF Follows
  <2>5. ASSUME NEW row \in Settled(job.inputs) PROVE row \in DOMAIN db
    <3>1. Fixture(row, job.inputs.n, job.inputs.h)
      BY DEF Settled, Fixture
    <3>2. PICK j \in 1 .. count : \E r \in fixtures[j] : r.row = row
      BY <1>1, <3>1, FixtureIsInserted DEF fixtures
    <3>. QED  BY <2>4, <3>2
  <2>6. Settled(meta)' \subseteq DOMAIN db'
    BY <2>1, <2>5 DEF Settled
  <2>. QED
    BY <1>2, <1>7, <2>1, <2>3, <2>6 DEF RecordMetadata, Filed, Done, MetaOK
<1>. HIDE DEF Result
<1>8. Result
  BY <1>4, <1>5, <1>6, <1>7
<1>. QED  BY <1>8 DEF Result

-----------------------------------------------------------------------------
(* The steps of prepare.                                                   *)

LEMMA PrepareInvInit == Init => PrepareInv
<1>. SUFFICES ASSUME Init PROVE PrepareInv
  OBVIOUS
<1>1. InputsOK
  BY DEF Init, InputsOK, InputsType, NoInputs, NoJob
<1>2. DOMAIN db = {}
  BY DEF Init, Empty
<1>. QED
  BY <1>1, <1>2 DEF Init, PrepareInv, Filed, Closed, Failures, JobOK, MetaOK, NoInputs

LEMMA StartPrepareKeeps ==
    ASSUME PrepareInv, NEW n \in ParentRows, NEW h \in HotKeys, StartPrepare(n, h)
    PROVE  PrepareInv'
<1>. DEFINE in == Inputs(n, h)
<1>1. /\ in \in InputsType /\ in.known /\ n \in Int /\ h \in Int
      /\ in.n = n /\ in.h = h /\ in \in GivenInputs
  <2>1. in \in GivenInputs
    BY DEF GivenInputs
  <2>. QED  BY <2>1, PrepareAssumption DEF Inputs, InputsType
<1>2. /\ UNCHANGED <<tables, db, meta, plan>> /\ plan = NoInputs
      /\ job' = [inputs |-> in, at |-> 1] /\ failure' = "none"
  BY DEF StartPrepare, NothingRuns
<1>. HIDE DEF in
<1>3. InputsOK'
  BY <1>1, <1>2 DEF PrepareInv, InputsOK
<1>4. 1 \in Sent(in) /\ DOMAIN Prepares[in] \subseteq Nat \ {0}
  <2>1. PICK count \in 0 .. 18 : count = Len(FixtureStatements(n, h))
    <3>1. Len(FixtureStatements(n, h)) = IF ParentCount(n) = 0 THEN 8 ELSE 18
      BY <1>1, FixtureStatementsAre
    <3>2. Len(FixtureStatements(n, h)) \in 0 .. 18
      BY <3>1
    <3>. QED  BY <3>2
  <2>2. /\ DOMAIN Prepares[in] = 1 .. 20 + count
        /\ Prepares[in][1] = CreateTable("fk_prepare_metadata")
    BY <1>1, <2>1, ApplyStatementsAre, PreparesAre
  <2>. QED  BY <2>2 DEF Sent, CreateTable
<1>5. JobOK'
  <2>1. job'.inputs = in /\ job'.at = 1
    BY <1>2
  <2>2. ASSUME NEW k \in DOMAIN Prepares[in] PROVE ~(k < 1)
    BY <1>4
  <2>. QED  BY <1>1, <1>2, <1>4, <2>1, <2>2 DEF JobOK
<1>. QED
  BY <1>2, <1>3, <1>5 DEF PrepareInv, Filed, Closed, Failures, MetaOK, Settled

\* Between a statement and the next one sent, there is nothing to insert.
LEMMA ApplyOkKeeps ==
    ASSUME PrepareInv, ApplyOk
    PROVE  PrepareInv'
<1>1. PICK in : in = job.inputs
  OBVIOUS
<1>. DEFINE all == Prepares[in]
            later == {k \in Sent(in) : k > job.at}
<1>2. /\ AtStatement /\ StatementTakesEffect /\ plan' = plan /\ failure' = failure
      /\ job' = NoJob \/ \E next \in later : /\ \A k \in later : next <= k
                                             /\ job' = [job EXCEPT !.at = next]
  BY <1>1 DEF ApplyOk, Later, Nearest
<1>3. /\ tables \subseteq tables' /\ tables' \subseteq AllTables
      /\ DOMAIN db \subseteq DOMAIN db'
      /\ Filed(db)'
      /\ \A st : Done(st) \/ st = Current => Done(st)'
      /\ meta' \in {meta, in}
      /\ MetaOK'
  BY <1>1, <1>2, EffectKeeps
<1>4. /\ InputsOK /\ plan = NoInputs /\ failure \in Failures
      /\ in \in InputsType /\ in \in GivenInputs /\ job.at \in Int /\ job.at \in Sent(in)
      /\ \A k \in DOMAIN all : k < job.at => Done(all[k])
  BY <1>1, <1>2 DEF PrepareInv, InputsOK, JobOK, AtStatement
<1>5. DOMAIN all \subseteq Nat
  <2>1. PICK count : DOMAIN all = 1 .. 20 + count
    BY <1>4, ApplyStatementsAre, PreparesAre
  <2>. QED  BY <2>1
<1>6. Current = all[job.at]
  BY <1>1 DEF Current
<1>7. \A k \in DOMAIN all : k \in Sent(in) \/ Done(all[k])'
  <2>. SUFFICES ASSUME NEW k \in DOMAIN all, k \notin Sent(in) PROVE Done(all[k])'
    OBVIOUS
  <2>1. all[k].kind = "upsert" /\ all[k].rows = {}
    BY DEF Sent
  <2>. QED  BY <2>1 DEF Done
<1>8. InputsOK'
  <2>1. job' \in [inputs : InputsType, at : Int] /\ job'.inputs \in {in, NoInputs}
    <3>1. NoJob \in [inputs : InputsType, at : Int] /\ NoJob.inputs = NoInputs
      BY DEF NoJob, NoInputs, InputsType
    <3>2. later \subseteq Int /\ job \in [inputs : InputsType, at : Int]
      BY <1>4, <1>5 DEF Sent, InputsOK
    <3>. HIDE DEF later
    <3>. QED  BY <1>1, <1>2, <3>1, <3>2
  <2>2. in = NoInputs \/ in.known
    BY <1>1, <1>4 DEF InputsOK
  <2>. QED  BY <1>2, <1>3, <1>4, <2>1, <2>2 DEF InputsOK
<1>9. ASSUME job' # NoJob PROVE JobOK'
  <2>1. PICK next \in later : job' = [job EXCEPT !.at = next]
                              /\ \A k \in later : next <= k
    BY <1>2, <1>9
  <2>2. job'.inputs = in /\ job'.at = next
    BY <1>1, <1>4, <2>1 DEF InputsOK
  <2>3. ASSUME NEW k \in DOMAIN all, k < next PROVE Done(all[k])'
    <3>1. CASE k < job.at
      BY <1>3, <1>4, <3>1
    <3>2. CASE k = job.at
      BY <1>3, <1>6, <3>2
    <3>3. CASE k > job.at
      <4>1. k \notin later
        BY <1>5, <2>1, <2>3 DEF Sent
      <4>. QED  BY <1>7, <3>3, <4>1
    <3>. QED  BY <1>4, <1>5, <3>1, <3>2, <3>3
  <2>4. next \in Sent(in)
    OBVIOUS
  <2>. HIDE DEF all
  <2>5. \A k \in DOMAIN Prepares[job'.inputs] :
          k < job'.at => Done(Prepares[job.inputs][k])'
    BY <2>2, <2>3 DEF all
  <2>. QED  BY <1>2, <1>4, <2>2, <2>4, <2>5 DEF JobOK
<1>10. JobOK'
  BY <1>9 DEF JobOK
<1>. QED
  BY <1>2, <1>3, <1>4, <1>8, <1>10 DEF PrepareInv, NoInputs

LEMMA ApplyUnacknowledgedKeeps ==
    ASSUME PrepareInv, ApplyUnacknowledged
    PROVE  PrepareInv'
<1>1. PICK in : in = job.inputs
  OBVIOUS
<1>. DEFINE all == Prepares[in]
<1>2. /\ AtStatement /\ StatementTakesEffect
      /\ job' = job /\ plan' = plan /\ failure' = failure
  BY DEF ApplyUnacknowledged
<1>3. /\ tables \subseteq tables' /\ tables' \subseteq AllTables
      /\ Filed(db)'
      /\ \A st : Done(st) => Done(st)'
      /\ meta' \in {meta, in}
      /\ MetaOK'
  BY <1>1, <1>2, EffectKeeps
<1>4. /\ InputsOK /\ plan = NoInputs /\ failure \in Failures
      /\ in \in GivenInputs /\ job.at \in Sent(in)
      /\ \A k \in DOMAIN all : k < job.at => Done(all[k])
  BY <1>1, <1>2 DEF PrepareInv, InputsOK, JobOK, AtStatement
<1>5. InputsOK'
  BY <1>1, <1>2, <1>3, <1>4 DEF InputsOK
<1>6. \A k \in DOMAIN all : k < job.at => Done(all[k])'
  BY <1>3, <1>4
<1>. HIDE DEF all
<1>7. \A k \in DOMAIN Prepares[job'.inputs] :
        k < job'.at => Done(Prepares[job.inputs][k])'
  BY <1>1, <1>2, <1>6 DEF all
<1>8. JobOK'
  BY <1>1, <1>2, <1>4, <1>7 DEF JobOK
<1>. QED
  BY <1>2, <1>3, <1>4, <1>5, <1>8 DEF PrepareInv, NoInputs

LEMMA PrepareStopsKeeps ==
    ASSUME PrepareInv, PrepareStops
    PROVE  PrepareInv'
<1>1. StatementAnswer = "ok"
  BY StatementSucceeds DEF PrepareStops, PrepareInv
<1>2. failure' = failure /\ job' = NoJob /\ UNCHANGED <<tables, db, meta, plan>>
  BY <1>1 DEF PrepareStops
<1>3. InputsOK'
  <2>1. NoJob \in [inputs : InputsType, at : Int] /\ NoJob.inputs = NoInputs
    BY DEF NoJob, NoInputs, InputsType
  <2>. QED  BY <1>2, <2>1 DEF PrepareInv, InputsOK
<1>. QED
  BY <1>2, <1>3 DEF PrepareInv, Filed, Closed, JobOK, MetaOK, Settled

LEMMA StartRunKeeps ==
    ASSUME PrepareInv, StartRun
    PROVE  PrepareInv'
<1>1. /\ UNCHANGED <<tables, db, meta, job>> /\ job = NoJob /\ meta.known
      /\ plan' = RunInputs(meta) /\ failure' = "none"
  BY DEF StartRun, NothingRuns
<1>2. plan' \in InputsType /\ plan'.known
  BY <1>1, PrepareAssumption DEF RunInputs, Inputs, InputsType, PrepareInv, InputsOK
<1>3. InputsOK'
  BY <1>1, <1>2 DEF PrepareInv, InputsOK
<1>. QED
  BY <1>1, <1>3 DEF PrepareInv, Filed, Closed, JobOK, MetaOK, Settled, Failures

LEMMA StopRunKeeps ==
    ASSUME PrepareInv, StopRun
    PROVE  PrepareInv'
<1>1. UNCHANGED <<tables, db, meta, job, failure>> /\ plan.known /\ plan' = NoInputs
  BY DEF StopRun
<1>2. NoInputs \in InputsType /\ ~NoInputs.known
  BY DEF NoInputs, InputsType
<1>3. InputsOK'
  BY <1>1, <1>2 DEF PrepareInv, InputsOK
<1>4. job = NoJob
  BY <1>1, <1>2 DEF PrepareInv, JobOK
<1>. QED
  BY <1>1, <1>2, <1>3, <1>4 DEF PrepareInv, Filed, Closed, JobOK, MetaOK, Settled

-----------------------------------------------------------------------------
(* The steps of run.                                                       *)

Answers == {"ok", "duplicate", "no parent", "referenced", "no rows"}

LEMMA AnswerIsOne ==
    ASSUME NEW rows, NEW st
    PROVE  AnswerTo(rows, st) \in Answers
  BY DEF AnswerTo, Answers

\* Rows that a statement deletes are its own or leaves; it leaves the others, and the
\* references of those that stay.
LEMMA StatementKeepsFiled ==
    ASSUME NEW rows, NEW st, Filed(rows), AllTables \subseteq tables,
           st.row[1] \in AllTables, \A ref \in st.refs : ref[1] \notin Leaves,
           AnswerTo(rows, st) = "ok"
    PROVE  /\ Filed(After(rows, st))
           /\ \A row \in DOMAIN rows :
                \/ row \in DOMAIN After(rows, st)
                \/ st.op = "delete" /\ (row = st.row \/ row[1] \in Leaves)
<1>. DEFINE all == After(rows, st)
<1>1. /\ DOMAIN all = WrittenRows(rows, st) \cup (DOMAIN rows \ Removed(rows, st))
      /\ \A row \in DOMAIN all :
           all[row] = IF row \in WrittenRows(rows, st) THEN st.refs ELSE rows[row]
  BY AfterDomain, AfterValue
<1>2. /\ st.op = "insert" => st.refs \subseteq DOMAIN rows \cup {st.row}
      /\ st.op = "rebind" /\ st.row \in DOMAIN rows => st.refs \subseteq DOMAIN rows
      /\ st.op = "delete" => Children(rows, st.row) = Cascaded(rows, st.row)
  BY DEF AnswerTo
<1>3. \A child \in Cascaded(rows, st.row) : child[1] \in Leaves
  BY DEF Cascaded, Cascading, Leaves
<1>. HIDE DEF all
<1>4. CASE st.op = "delete"
  <2>1. /\ WrittenRows(rows, st) = {}
        /\ Removed(rows, st) = {st.row} \cup Cascaded(rows, st.row)
    BY <1>4 DEF WrittenRows, Removed
  <2>2. DOMAIN all = DOMAIN rows \ ({st.row} \cup Cascaded(rows, st.row))
        /\ \A row \in DOMAIN all : all[row] = rows[row]
    BY <1>1, <2>1
  <2>3. ASSUME NEW row \in DOMAIN all, NEW ref \in all[row]
        PROVE  ref \in DOMAIN all /\ ref[1] \notin Leaves
    <3>1. ref \in rows[row] /\ row \in DOMAIN rows /\ row \notin Cascaded(rows, st.row)
      BY <2>2
    <3>2. ref \in DOMAIN rows /\ ref[1] \notin Leaves
      BY <3>1 DEF Filed, Closed
    <3>3. ref # st.row
      BY <1>2, <1>4, <3>1 DEF Children
    <3>4. ref \notin Cascaded(rows, st.row)
      BY <1>3, <3>2
    <3>. QED  BY <2>2, <3>2, <3>3, <3>4
  <2>4. \A row \in DOMAIN all : row[1] \in tables
    BY <2>2 DEF Filed
  <2>5. Filed(all)
    BY <2>3, <2>4 DEF Filed, Closed
  <2>. QED  BY <1>3, <1>4, <2>2, <2>5 DEF all
<1>5. CASE st.op # "delete"
  <2>1. Removed(rows, st) = {}
    BY <1>5 DEF Removed
  <2>2. DOMAIN all = WrittenRows(rows, st) \cup DOMAIN rows
    BY <1>1, <2>1
  <2>3. \A row \in WrittenRows(rows, st) : row = st.row /\ st.refs \subseteq DOMAIN all
    BY <1>2, <2>2 DEF WrittenRows
  <2>4. ASSUME NEW row \in DOMAIN all
        PROVE  /\ all[row] \subseteq DOMAIN all /\ row[1] \in tables
               /\ \A ref \in all[row] : ref[1] \notin Leaves
    <3>1. CASE row \in WrittenRows(rows, st)
      BY <1>1, <2>3, <3>1
    <3>2. CASE row \notin WrittenRows(rows, st)
      BY <1>1, <2>2, <3>2 DEF Filed, Closed
    <3>. QED  BY <3>1, <3>2
  <2>5. Filed(all)
    BY <2>4 DEF Filed, Closed
  <2>. QED  BY <2>2, <2>5 DEF all
<1>. QED  BY <1>4, <1>5

\* What is settled by a record is so for the plan that run makes of it, and no leaf.
LEMMA SettledIsStable ==
    ASSUME NEW in \in InputsType, NEW row \in Settled(in), NEW n \in Int,
           in.n # 0 => n = in.n
    PROVE  Stable(row, n) /\ row[1] \notin Leaves
<1>. DEFINE fixtures == FixtureStatements(in.n, in.h)
<1>1. Stable(row, in.n) /\ Fixture(row, in.n, in.h) /\ in.n \in Int /\ in.h \in Int
  BY DEF Settled, Fixture, InputsType
<1>2. row[1] \notin Leaves
  BY <1>1 DEF Stable, Owner, OwnerBy, Nobody, Leaves
<1>3. CASE in.n # 0
  BY <1>1, <1>2, <1>3
<1>4. CASE in.n = 0
  <2>1. PICK k \in 1 .. Len(fixtures) : \E r \in fixtures[k] : r.row = row
    BY <1>1, FixtureIsInserted
  <2>2. OfTable(fixtures[k], Tables[k])
    BY <1>1, FixturesOfTables
  <2>3. row[1] = Tables[k]
    BY <2>1, <2>2 DEF OfTable
  <2>4. Len(fixtures) = 8 /\ fixtures[1] = {}
    <3>1. ParentCount(in.n) = 0
      BY <1>4 DEF ParentCount
    <3>2. GenericParentBasicRows(in.n) = {}
      BY <3>1 DEF GenericParentBasicRows
    <3>3. fixtures[1] = GenericParentBasicRows(in.n)
      BY <1>1, FixtureStatementsAre
    <3>4. Len(fixtures) = IF ParentCount(in.n) = 0 THEN 8 ELSE 18
      BY <1>1, FixtureStatementsAre, ZenonT(60)
    <3>. QED  BY <3>1, <3>2, <3>3, <3>4
  <2>. HIDE DEF fixtures
  <2>5. k \in 2 .. 8
    BY <2>1, <2>4
  <2>6. row[1] # "parent_basic"
    BY <2>3, <2>5, TablesAre
  <2>7. Owner(row, n) = Owner(row, in.n)
    BY <2>6 DEF Owner, OwnerBy
  <2>. QED  BY <1>1, <1>2, <2>7 DEF Stable
<1>. QED  BY <1>3, <1>4

\* Statement after statement, up to the last.
LEMMA UpToTheLast ==
    ASSUME NEW last \in 0 .. 10, NEW holds, holds[0],
           \A k \in 1 .. last : holds[k - 1] => holds[k]
    PROVE  holds[last]
<1>. DEFINE Is(k) == k <= last => holds[k]
<1>1. ASSUME NEW k \in 0 .. 9, Is(k) PROVE Is(k + 1)
  BY <1>1
<1>2. Is(0)
  OBVIOUS
<1>. HIDE DEF Is
<1>3. Is(1) /\ Is(2) /\ Is(3) /\ Is(4) /\ Is(5)
  BY <1>1, <1>2
<1>4. Is(6) /\ Is(7) /\ Is(8) /\ Is(9) /\ Is(10)
  BY <1>1, <1>3
<1>5. \A k \in 0 .. 10 : Is(k)
  BY <1>2, <1>3, <1>4
<1>. QED  BY <1>5 DEF Is

\* A slot never works on a row that is nobody's, nor fk_backfill on a journal.
LEMMA OwnRowsAreUnstable ==
    ASSUME NEW n \in Int, NEW h \in Int, NEW s, NEW i, IsSlot(s, i, n, h),
           NEW row, OwnRow(StepsOf(s, n, h, i), row)
    PROVE  ~Stable(row, n)
<1>1. Owner(row, n) = <<s, i>> /\ <<s, i>> # Nobody
  BY OwnersOfSlots
<1>2. ASSUME s = "billing_fk_backfill" PROVE row[1] # "journal"
  <2>1. StepsOf(s, n, h, i) = FKBackfill(n, i)
    BY <1>2 DEF StepsOf
  <2>2. \A k \in 1 .. Len(FKBackfill(n, i)) : FKBackfill(n, i)[k].row[1] # "journal"
    BY DEF FKBackfill, FKBackfillSlot, Statement, Delete, Insert, Rebind
  <2>. QED  BY <2>1, <2>2 DEF OwnRow
<1>. QED  BY <1>1, <1>2 DEF Stable

\* What an execution leaves, whichever statement it ends at.
Stays(rows, settled) == Filed(rows) /\ settled \subseteq DOMAIN rows

Left(done, settled) ==
    \E rows, answer :
        /\ done = [rows |-> rows, answer |-> answer]
        /\ Stays(rows, settled) /\ answer \in Answers

LEMMA ExecutedIs ==
    ASSUME NEW rows, NEW was, NEW st, NEW done, done = [rows |-> rows, answer |-> was]
    PROVE  \/ Executed(done, st) = done
           \/ Executed(done, st) = [rows |-> rows, answer |-> AnswerTo(rows, st)]
           \/ /\ AnswerTo(rows, st) = "ok"
              /\ Executed(done, st) = [rows |-> After(rows, st), answer |-> was]
<1>. DEFINE answer == AnswerTo(rows, st)
<1>1. Executed(done, st)
        = IF was # "ok" THEN done
          ELSE IF answer # "ok" THEN [done EXCEPT !.answer = answer]
          ELSE [done EXCEPT !.rows = After(rows, st)]
  BY DEF Executed
<1>. HIDE DEF answer
<1>2. [done EXCEPT !.answer = answer] = [rows |-> rows, answer |-> answer]
  OBVIOUS
<1>3. [done EXCEPT !.rows = After(rows, st)] = [rows |-> After(rows, st), answer |-> was]
  OBVIOUS
<1>. QED  BY <1>1, <1>2, <1>3 DEF answer

LEMMA ExecutedKeeps ==
    ASSUME NEW done, NEW st, NEW settled, Left(done, settled),
           \A rows : AnswerTo(rows, st) = "ok" /\ Stays(rows, settled)
                       => Stays(After(rows, st), settled)
    PROVE  Left(Executed(done, st), settled)
<1>1. PICK rows, was : /\ done = [rows |-> rows, answer |-> was]
                       /\ Stays(rows, settled) /\ was \in Answers
  BY DEF Left
<1>2. AnswerTo(rows, st) \in Answers
  BY AnswerIsOne
<1>3. CASE Executed(done, st) = done
  BY <1>3
<1>4. CASE Executed(done, st) = [rows |-> rows, answer |-> AnswerTo(rows, st)]
  BY <1>1, <1>2, <1>4 DEF Left
<1>5. CASE /\ AnswerTo(rows, st) = "ok"
           /\ Executed(done, st) = [rows |-> After(rows, st), answer |-> was]
  BY <1>1, <1>5 DEF Left
<1>. QED  BY <1>1, <1>3, <1>4, <1>5, ExecutedIs

LEMMA ExecutionKeeps ==
    ASSUME NEW n \in Int, NEW h \in Int, NEW s, NEW i, IsSlot(s, i, n, h),
           NEW settled, \A row \in settled : Stable(row, n) /\ row[1] \notin Leaves,
           AllTables \subseteq tables, Filed(db), settled \subseteq DOMAIN db
    PROVE  Left(Execute(StepsOf(s, n, h, i)), settled)
<1>. DEFINE steps == StepsOf(s, n, h, i)
            holds == [k \in 0 .. 10 |-> Left(Execution(steps)[k], settled)]
<1>1. Fits(steps)
  BY SlotsFit DEF IsSlot
<1>. HIDE DEF steps
<1>2. PICK last \in 0 .. 10 : last = Len(steps)
  BY <1>1 DEF Fits
<1>3. /\ Execution(steps)[0] = [rows |-> db, answer |-> "ok"]
      /\ \A k \in 1 .. last :
           Execution(steps)[k] = Executed(Execution(steps)[k - 1], steps[k])
  BY <1>2, ExecutionIs
<1>4. Left(Execution(steps)[0], settled)
  BY <1>3 DEF Left, Stays, Answers
<1>5. ASSUME NEW k \in 1 .. last, NEW done, done = Execution(steps)[k - 1], Left(done, settled)
      PROVE  Left(Executed(done, steps[k]), settled)
  <2>. DEFINE st == steps[k]
  <2>1. st.row[1] \in AllTables /\ \A ref \in st.refs : ref[1] \notin Leaves
    BY <1>1, <1>2 DEF Fits
  <2>2. ASSUME st.op = "delete" PROVE st.row \notin settled
    <3>1. OwnRow(steps, st.row)
      BY <1>2, <2>2 DEF OwnRow
    <3>2. ~Stable(st.row, n)
      BY <3>1, OwnRowsAreUnstable DEF steps
    <3>. QED  BY <3>2
  <2>. HIDE DEF st
  <2>3. ASSUME NEW rows, AnswerTo(rows, st) = "ok", Stays(rows, settled)
        PROVE  Stays(After(rows, st), settled)
    <3>1. Filed(rows) /\ settled \subseteq DOMAIN rows
      BY <2>3 DEF Stays
    <3>2. /\ Filed(After(rows, st))
          /\ \A row \in DOMAIN rows :
               \/ row \in DOMAIN After(rows, st)
               \/ st.op = "delete" /\ (row = st.row \/ row[1] \in Leaves)
      BY <2>1, <2>3, <3>1, StatementKeepsFiled
    <3>. QED  BY <2>2, <3>1, <3>2 DEF Stays
  <2>. QED  BY <1>5, <2>3, ExecutedKeeps DEF st
<1>6. \A k \in 1 .. last : holds[k - 1] => holds[k]
  <2>. SUFFICES ASSUME NEW k \in 1 .. last, holds[k - 1] PROVE holds[k]
    OBVIOUS
  <2>1. k - 1 \in 0 .. 10 /\ k \in 0 .. 10
    OBVIOUS
  <2>2. Left(Execution(steps)[k - 1], settled)
    BY <2>1
  <2>3. Left(Executed(Execution(steps)[k - 1], steps[k]), settled)
    BY <1>5, <2>2
  <2>4. Left(Execution(steps)[k], settled)
    BY <1>3, <2>3
  <2>. QED  BY <2>1, <2>4
<1>7. holds[0]
  BY <1>4
<1>8. holds[last]
  <2>. HIDE DEF holds
  <2>. QED  BY <1>6, <1>7, UpToTheLast
<1>9. Left(Execution(steps)[last], settled)
  BY <1>8
<1>. QED  BY <1>2, <1>9 DEF Execute, steps

LEMMA ExecuteScenarioKeeps ==
    ASSUME PrepareInv, NEW s \in RunScenarios, NEW i \in Pool, ExecuteScenario(s, i)
    PROVE  PrepareInv'
<1>. DEFINE done == Execute(StepsOf(s, plan.n, plan.h, i))
<1>1. /\ plan.known /\ HasSlots(s, plan.n, plan.h)
      /\ db' = IF done.answer = "ok" THEN done.rows ELSE db
      /\ failure' = IF failure = "none" /\ done.answer # "ok" THEN done.answer ELSE failure
      /\ UNCHANGED <<tables, meta, job, plan>>
  BY DEF ExecuteScenario
<1>2. /\ InputsOK /\ Filed(db) /\ failure \in Failures
      /\ meta.known /\ plan = RunInputs(meta)
      /\ AllTables \subseteq tables /\ Settled(meta) \subseteq DOMAIN db
  BY <1>1 DEF PrepareInv, MetaOK
<1>3. /\ meta \in InputsType /\ plan.n \in Int /\ plan.h \in Int
      /\ meta.n # 0 => plan.n = meta.n
  BY <1>2 DEF InputsOK, InputsType, RunInputs, Inputs
<1>4. \A row \in Settled(meta) : Stable(row, plan.n) /\ row[1] \notin Leaves
  BY <1>3, SettledIsStable
<1>5. IsSlot(s, i, plan.n, plan.h)
  BY <1>1, PrepareAssumption DEF IsSlot
<1>6. Left(done, Settled(meta))
  BY <1>2, <1>3, <1>4, <1>5, ExecutionKeeps
<1>. HIDE DEF done
<1>7. Filed(done.rows) /\ Settled(meta) \subseteq DOMAIN done.rows /\ done.answer \in Answers
  BY <1>6 DEF Left, Stays
<1>8. job = NoJob
  BY <1>1 DEF PrepareInv, JobOK, NoInputs
<1>9. Filed(db') /\ Settled(meta) \subseteq DOMAIN db'
  BY <1>1, <1>2, <1>7
<1>10. Filed(db)' /\ MetaOK'
  BY <1>1, <1>2, <1>9 DEF Filed, MetaOK, Settled
<1>11. failure' \in Failures
  <2>1. \A answer \in Answers : answer = "ok" \/ answer \in Failures
    BY DEF Answers, Failures
  <2>. QED  BY <1>1, <1>2, <1>7, <2>1
<1>12. InputsOK' /\ JobOK'
  BY <1>1, <1>2, <1>8 DEF InputsOK, JobOK
<1>. QED  BY <1>1, <1>2, <1>10, <1>11, <1>12 DEF PrepareInv

LEMMA PrepareInvNext == PrepareInv /\ [Next]_vars => PrepareInv'
<1>. SUFFICES ASSUME PrepareInv, [Next]_vars PROVE PrepareInv'
  OBVIOUS
<1>1. CASE \E n \in ParentRows, h \in HotKeys : StartPrepare(n, h)
  BY <1>1, StartPrepareKeeps
<1>2. CASE ApplyOk
  BY <1>2, ApplyOkKeeps
<1>3. CASE ApplyUnacknowledged
  BY <1>3, ApplyUnacknowledgedKeeps
<1>4. CASE PrepareStops
  BY <1>4, PrepareStopsKeeps
<1>5. CASE StartRun
  BY <1>5, StartRunKeeps
<1>6. CASE StopRun
  BY <1>6, StopRunKeeps
<1>7. CASE \E s \in RunScenarios, i \in Pool : ExecuteScenario(s, i)
  BY <1>7, ExecuteScenarioKeeps
<1>8. CASE UNCHANGED vars
  BY <1>8 DEF vars, PrepareInv, InputsOK, Filed, Closed, JobOK, Done, MetaOK, Settled
<1>. QED  BY <1>1, <1>2, <1>3, <1>4, <1>5, <1>6, <1>7, <1>8 DEF Next

\* What prepares and runs leave to each other, however they are cut off: no row refers to
\* one that is not there, and the record of inputs is never ahead of the rows that it
\* stands for.
THEOREM PrepareInvariant == Spec => []PrepareInv
<1>. QED  BY PrepareInvInit, PrepareInvNext, PTL DEF Spec

\* The tables, rows and inputs are of the expected kind, and no row ever refers to a row
\* or lies in a table that is not there: the schema of apply.go as prepare and run use it.
THEOREM PrepareTypeCorrect == Spec => []TypeOK
<1>1. PrepareInv => TypeOK
  <2>. SUFFICES ASSUME PrepareInv PROVE TypeOK
    OBVIOUS
  <2>1. tables \subseteq {"fk_prepare_metadata"} \cup Range(GenericTables) \cup Range(BillingTables)
    <3>1. Range(GenericTables) = {"parent_basic", "child_basic", "child_rebind",
            "parent_cascade", "child_cascade", "parent_hot", "child_hot", "probe_summary"}
      BY DEF Range, GenericTables
    <3>2. Range(BillingTables) = {"customer", "folio", "journal", "posting", "bill",
            "payment", "foliobalance", "feelog", "statement", "withdrawal"}
      BY DEF Range, BillingTables
    <3>. QED  BY <3>1, <3>2 DEF PrepareInv, AllTables
  <2>2. \A row \in DOMAIN db : row[1] \in tables /\ db[row] \subseteq DOMAIN db
    BY DEF PrepareInv, Filed, Closed
  <2>3. \A in \in {meta, job.inputs, plan} :
          in = NoInputs \/ (in \in [n : Int, h : Int, known : {TRUE}])
    BY DEF PrepareInv, InputsOK, InputsType
  <2>4. job.at \in Nat
    <3>1. CASE job = NoJob
      BY <3>1 DEF NoJob
    <3>2. CASE job # NoJob
      <4>1. PICK count \in 0 .. 18 : job.at \in 1 .. 20 + count
        BY <3>2, CurrentIs DEF PrepareInv, AtStatement
      <4>. QED  BY <4>1
    <3>. QED  BY <3>1, <3>2
  <2>. QED  BY <2>1, <2>2, <2>3, <2>4 DEF PrepareInv, TypeOK, Failures
<1>. QED  BY <1>1, PrepareInvariant, PTL

\* ApplyAll never fails of itself: whatever prepares, complete or cut off, and runs before
\* it have left, and however often a statement is sent, its CREATEs find the tables they
\* refer to and its INSERTs the rows.
THEOREM PrepareAlwaysSucceeds == Spec => []PrepareSucceeds
<1>1. PrepareInv => PrepareSucceeds
  BY StatementSucceeds DEF PrepareInv, PrepareSucceeds
<1>. QED  BY <1>1, PrepareInvariant, PTL

-----------------------------------------------------------------------------
(* What a plan relies on, and what its slots share.                        *)

\* A row that a slot's statements refer to is one that they work on, or stable.
Relies(steps, n) ==
    \A k \in 1 .. Len(steps) : \A row \in steps[k].refs :
        Stable(row, n) \/ \E j \in 1 .. Len(steps) : steps[j].row = row

LEMMA SlotsRely ==
    ASSUME NEW n \in Int, NEW h \in Int, NEW s, NEW i, IsSlot(s, i, n, h)
    PROVE  Relies(StepsOf(s, n, h, i), n)
<1>. USE DEF Statement, Delete, Insert, Rebind, Update, SelectForUpdate
<1>0. s \in Registry /\ i \in Pool /\ HasSlots(s, n, h)
  BY DEF IsSlot
<1>1. ParentCount(n) >= 1 => Stable(Parent(1), n)
  BY DEF Stable, Owner, Parent, ParentCount
<1>2. ParentCount(n) >= 2 => Stable(Parent(1), n) /\ Stable(Parent(2), n)
  BY DEF Stable, Owner, Parent, ParentCount
<1>3. \A row \in Account(n, i) \cup {Folio(n, i), ExistingBill, ExistingJournal} : Stable(row, n)
  BY DEF Stable, Owner, Account, Customer, Folio, ExistingBill, ExistingJournal
<1>4. Stable(ConcurrentHotParentInsertSlot(n, h, i).parent, n)
  BY DEF Stable, Owner, ConcurrentHotParentInsertSlot
<1>5. Stable(FKBackfillSlot(i).journal, n)
  BY <1>0, PoolSizeAssumption DEF Stable, Owner, OwnerBy, FKBackfillSlot, Pool
<1>. HIDE DEF Stable
<1>6. CASE s = "generic_insert_existing_parent"
  BY <1>0, <1>1, <1>6
  DEF Relies, StepsOf, InsertExistingParent, Replace, InsertExistingParentSlot, HasSlots
<1>7. CASE s = "generic_insert_parent_then_child"
  BY <1>0, <1>7
  DEF Relies, StepsOf, InsertParentThenChild, InsertParentThenChildSlot
<1>8. CASE s = "generic_update_child_no_fk_change"
  BY <1>0, <1>1, <1>8
  DEF Relies, StepsOf, UpdateChildNoFKChange, Replace, UpdateChildNoFKChangeSlot, HasSlots
<1>9. CASE s = "generic_rebind_child_fk"
  BY <1>0, <1>2, <1>9
  DEF Relies, StepsOf, RebindChildFK, Replace, RebindChildSlot, HasSlots
<1>10. CASE s = "generic_insert_parent_then_update_child_fk"
  BY <1>0, <1>1, <1>10
  DEF Relies, StepsOf, InsertParentThenUpdateChildFK, Replace,
      InsertParentThenUpdateChildSlot, HasSlots
<1>11. CASE s = "generic_delete_parent_cascade"
  BY <1>0, <1>11
  DEF Relies, StepsOf, DeleteParentCascade, DeleteParentCascadeSlot
<1>12. CASE s = "generic_concurrent_hot_parent_insert"
  BY <1>0, <1>4, <1>12
  DEF Relies, StepsOf, ConcurrentHotParentInsert, Replace
<1>13. CASE s = "billing_journal_posting_bill"
  BY <1>0, <1>3, <1>13
  DEF Relies, StepsOf, JournalPostingBill
<1>14. CASE s = "billing_folio_balance_update"
  BY <1>0, <1>14
  DEF Relies, StepsOf, FolioBalanceUpdate
<1>15. CASE s = "billing_fk_backfill"
  BY <1>0, <1>3, <1>5, <1>15
  DEF Relies, StepsOf, FKBackfill
<1>16. CASE s = "billing_payment_mixed_references"
  BY <1>0, <1>3, <1>16
  DEF Relies, StepsOf, PaymentMixedReferences
<1>17. CASE s = "billing_cascade_path"
  BY <1>0, <1>3, <1>17
  DEF Relies, StepsOf, CascadePath
<1>18. CASE s = "payment_bill_update_probe"
  BY <1>0, <1>3, <1>18
  DEF Relies, StepsOf, PaymentBillUpdateProbe, Replace
<1>19. CASE s = "statement_folio_parent_update_probe"
  BY <1>0, <1>3, <1>19
  DEF Relies, StepsOf, StatementFolioParentUpdateProbe, Replace
<1>. QED  BY <1>0, <1>6, <1>7, <1>8, <1>9, <1>10, <1>11, <1>12,
             <1>13, <1>14, <1>15, <1>16, <1>17, <1>18, <1>19
          DEF Registry, SuccessScenarios, GenericScenarios, BillingScenarios, Probes

LEMMA RangeOfSteps ==
    ASSUME NEW n \in Int, NEW h \in Int, NEW s, NEW i, IsSlot(s, i, n, h),
           NEW st \in Range(StepsOf(s, n, h, i))
    PROVE  \E k \in 1 .. Len(StepsOf(s, n, h, i)) : st = StepsOf(s, n, h, i)[k]
<1>1. DOMAIN StepsOf(s, n, h, i) = 1 .. Len(StepsOf(s, n, h, i))
  BY EverySlotIsSound DEF IsSlot, Sound, WellFormed, StartsAtChild
<1>. QED  BY <1>1 DEF Range

LEMMA GroundsAreSettled ==
    ASSUME NEW in \in InputsType, NEW s, NEW i, IsSlot(s, i, in.n, in.h)
    PROVE  Grounds(s, in, i) \subseteq Settled(in)
<1>. DEFINE steps == StepsOf(s, in.n, in.h, i)
<1>. SUFFICES ASSUME NEW row \in Grounds(s, in, i) PROVE row \in Settled(in)
  OBVIOUS
<1>1. in.n \in Int /\ in.h \in Int
  BY DEF InputsType
<1>2. PICK st \in Range(steps) : row \in st.refs
  BY DEF Grounds
<1>3. DOMAIN steps = 1 .. Len(steps)
  BY <1>1, EverySlotIsSound DEF IsSlot, Sound, WellFormed, StartsAtChild
<1>4. \A j \in 1 .. Len(steps) : steps[j].row # row
  <2>1. \A j \in DOMAIN steps : steps[j] \in Range(steps)
    BY DEF Range
  <2>2. row \notin {q.row : q \in Range(steps)}
    BY DEF Grounds
  <2>. HIDE DEF steps
  <2>3. \A q \in Range(steps) : q.row # row
    BY <2>2
  <2>. QED  BY <1>3, <2>1, <2>3
<1>5. PICK k \in 1 .. Len(steps) : row \in steps[k].refs
  BY <1>1, <1>2, RangeOfSteps
<1>6. Stable(row, in.n)
  BY <1>1, <1>4, <1>5, SlotsRely DEF Relies
<1>7. Fixture(row, in.n, in.h)
  <2>1. Grounded(steps, k, in.n, in.h)
    BY <1>1, <1>5, EverySlotIsSound DEF IsSlot, Sound
  <2>2. ~Present(steps, k, row)
    <3>. HIDE DEF steps
    <3>. SUFFICES ASSUME Present(steps, k, row) PROVE FALSE
      OBVIOUS
    <3>1. PICK j \in 1 .. k - 1 : steps[j].row = row
      BY DEF Present
    <3>2. Len(steps) \in Nat
      BY <1>1, EverySlotIsSound DEF IsSlot, Sound, WellFormed, StartsAtChild, steps
    <3>3. j \in 1 .. Len(steps)
      BY <1>5, <3>2
    <3>. QED  BY <1>4, <3>1, <3>3
  <2>. QED  BY <1>5, <2>1, <2>2 DEF Grounded
<1>. QED  BY <1>6, <1>7 DEF Settled, Fixture

\* What run reads from the record can be executed, even when a later prepare with other
\* inputs was cut off: every row that a slot of the recorded plan relies on is there.
THEOREM PlanAlwaysGrounded == Spec => []PlanIsGrounded
<1>1. PrepareInv => PlanIsGrounded
  <2>. SUFFICES ASSUME PrepareInv, meta.known, NEW s \in RunScenarios, NEW i \in Pool,
                       HasSlots(s, meta.n, meta.h)
                PROVE  Grounds(s, meta, i) \subseteq DOMAIN db
    BY DEF PlanIsGrounded
  <2>1. meta \in InputsType /\ Settled(meta) \subseteq DOMAIN db
    BY DEF PrepareInv, InputsOK, MetaOK
  <2>2. IsSlot(s, i, meta.n, meta.h)
    BY PrepareAssumption DEF IsSlot
  <2>. QED  BY <2>1, <2>2, GroundsAreSettled
<1>. QED  BY <1>1, PrepareInvariant, PTL

\* What a slot writes is its own, and what it refers to its own or nobody's.
LEMMA SlotsAreApart ==
    ASSUME NEW in \in InputsType
    PROVE  SlotsApart(in)
<1>. SUFFICES ASSUME NEW s \in RunScenarios \cap SuccessScenarios,
                     NEW t \in RunScenarios \cap SuccessScenarios,
                     NEW i \in Pool, NEW j \in Pool,
                     <<s, i>> # <<t, j>>, HasSlots(s, in.n, in.h), HasSlots(t, in.n, in.h),
                     NEW row \in SlotWrites(s, in, i),
                     row \in SlotWrites(t, in, j) \cup SlotRefers(t, in, j)
              PROVE  FALSE
  BY DEF SlotsApart
<1>1. /\ IsSlot(s, i, in.n, in.h) /\ IsSlot(t, j, in.n, in.h)
      /\ in.n \in Int /\ in.h \in Int
  BY DEF IsSlot, Registry, InputsType
<1>2. ASSUME NEW u \in SuccessScenarios, NEW m \in Pool, IsSlot(u, m, in.n, in.h),
             row \in SlotWrites(u, in, m)
      PROVE  OwnRow(StepsOf(u, in.n, in.h, m), row)
  <2>1. PICK st \in Range(StepsOf(u, in.n, in.h, m)) : st.row = row
    BY <1>2 DEF SlotWrites
  <2>2. PICK k \in 1 .. Len(StepsOf(u, in.n, in.h, m)) : st = StepsOf(u, in.n, in.h, m)[k]
    BY <1>1, <1>2, RangeOfSteps
  <2>. QED  BY <1>1, <1>2, <2>1, <2>2, EverySlotIsSound DEF IsSlot, Sound
<1>3. ASSUME row \in SlotRefers(t, in, j)
      PROVE  \E child : Links(StepsOf(t, in.n, in.h, j), child, row)
  <2>1. PICK st \in Range(StepsOf(t, in.n, in.h, j)) : row \in st.refs
    BY <1>3 DEF SlotRefers
  <2>2. PICK k \in 1 .. Len(StepsOf(t, in.n, in.h, j)) : st = StepsOf(t, in.n, in.h, j)[k]
    BY <1>1, RangeOfSteps
  <2>. QED  BY <2>1, <2>2 DEF Links
<1>4. OwnRow(StepsOf(s, in.n, in.h, i), row)
  BY <1>1, <1>2
<1>5. \/ OwnRow(StepsOf(t, in.n, in.h, j), row)
      \/ \E child : Links(StepsOf(t, in.n, in.h, j), child, row)
  BY <1>1, <1>2, <1>3
<1>. QED  BY <1>1, <1>4, <1>5, SlotsShareNothing

\* The plan of every run keeps the slots of its scenarios apart, whatever inputs the
\* prepares before it were given.
THEOREM PlansKeepSlotsApart == Spec => []PlanSlotsApart
<1>1. PrepareInv => PlanSlotsApart
  BY SlotsAreApart DEF PrepareInv, InputsOK, PlanSlotsApart
<1>. QED  BY <1>1, PrepareInvariant, PTL

-----------------------------------------------------------------------------
(* An execution under the inputs on record.                                *)

\* The fixtures that no slot deletes lie in no table whose rows go with their parents.
LEMMA KeptAreNoLeaves ==
    ASSUME NEW n \in Int, NEW h \in Int, NEW row, Kept(row, n, h)
    PROVE  row[1] \notin Leaves
<1>. DEFINE fixtures == FixtureStatements(n, h)
<1>1. PICK k \in 1 .. Len(fixtures) : \E r \in fixtures[k] : r.row = row
  BY FixtureIsInserted DEF Kept
<1>2. row[1] = Tables[k]
  BY <1>1, FixturesOfTables DEF OfTable
<1>3. /\ fixtures[5] = GenericChildCascadeRows
      /\ ParentCount(n) # 0 => fixtures[18] = BillingWithdrawalRows
      /\ Len(fixtures) = IF ParentCount(n) = 0 THEN 8 ELSE 18
  BY FixtureStatementsAre
<1>. HIDE DEF fixtures
<1>4. k \in 1 .. 18 /\ (ParentCount(n) = 0 => k # 18)
  <2>1. PICK count \in {8, 18} : count = Len(fixtures) /\ (ParentCount(n) = 0 => count = 8)
    BY <1>3
  <2>2. k \in 1 .. count
    BY <2>1
  <2>3. CASE count = 8
    BY <2>2, <2>3
  <2>4. CASE count = 18
    BY <2>1, <2>2, <2>4
  <2>. QED  BY <2>3, <2>4
<1>5. SUFFICES ASSUME row[1] \in Leaves
               PROVE  \E s, i : IsSlot(s, i, n, h) /\ Deletes(StepsOf(s, n, h, i), row)
  BY DEF Kept
<1>6. k \in {5, 18}
  BY <1>2, <1>4, <1>5, TablesAre, SMTT(30) DEF Leaves
<1>7. CASE k = 5
  <2>. DEFINE s == "generic_delete_parent_cascade"
  <2>1. PICK i \in Pool : row = DeleteParentCascadeSlot(i).child
    BY <1>1, <1>3, <1>7 DEF GenericChildCascadeRows, Referring
  <2>2. IsSlot(s, i, n, h)
    BY DEF IsSlot, HasSlots, Registry, SuccessScenarios, GenericScenarios
  <2>3. Deletes(StepsOf(s, n, h, i), row)
    BY <2>1 DEF Deletes, StepsOf, DeleteParentCascade, Delete, Statement
  <2>. QED  BY <2>2, <2>3
<1>8. CASE k = 18
  <2>. DEFINE backfill == "billing_fk_backfill"
              cascade == "billing_cascade_path"
  <2>1. ParentCount(n) >= 1
    BY <1>4, <1>8 DEF ParentCount
  <2>2. PICK i \in Pool : row \in {FKBackfillSlot(i).withdrawal, CascadePathSlot(i).withdrawal}
    BY <1>1, <1>3, <1>4, <1>8 DEF BillingWithdrawalRows, Referring
  <2>3. IsSlot(backfill, i, n, h) /\ IsSlot(cascade, i, n, h)
    BY <2>1 DEF IsSlot, HasSlots, Registry, SuccessScenarios, BillingScenarios
  <2>4. row = FKBackfillSlot(i).withdrawal => Deletes(StepsOf(backfill, n, h, i), row)
    BY DEF Deletes, StepsOf, FKBackfill, Delete, Statement
  <2>5. row = CascadePathSlot(i).withdrawal => Deletes(StepsOf(cascade, n, h, i), row)
    BY DEF Deletes, StepsOf, CascadePath, Delete, Statement
  <2>. QED  BY <2>2, <2>3, <2>4, <2>5
<1>. QED  BY <1>6, <1>7, <1>8

\* Whoever refers to a row that the statements delete is linked to it by them.
OnlyOwnRefer(rows, steps) ==
    \A row \in DOMAIN rows : \A parent \in rows[row] :
        Deletes(steps, parent) => Links(steps, row, parent)

LEMMA OnlyOwnReferAfter ==
    ASSUME NEW rows, NEW steps, OnlyOwnRefer(rows, steps), NEW k \in 1 .. Len(steps)
    PROVE  OnlyOwnRefer(After(rows, steps[k]), steps)
<1>. DEFINE st == steps[k]
            all == After(rows, st)
<1>1. /\ DOMAIN all = WrittenRows(rows, st) \cup (DOMAIN rows \ Removed(rows, st))
      /\ \A row \in DOMAIN all :
           all[row] = IF row \in WrittenRows(rows, st) THEN st.refs ELSE rows[row]
  BY AfterDomain, AfterValue
<1>2. \A row \in WrittenRows(rows, st) : row = st.row
  BY DEF WrittenRows
<1>3. \A parent \in st.refs : Links(steps, st.row, parent)
  BY DEF Links
<1>. HIDE DEF st, all
<1>4. OnlyOwnRefer(all, steps)
  BY <1>1, <1>2, <1>3 DEF OnlyOwnRefer
<1>. QED  BY <1>4 DEF all, st

\* The rows are those that a run under the inputs on record can count on.
Expected(rows, n, h) == Filed(rows) /\ KeepsFixtures(rows, n, h)

\* A statement of a slot finds what it refers to and selects, and its own rows deleted.
LEMMA AnswerIs ==
    ASSUME NEW n \in Int, NEW h \in Int, NEW s, NEW i, IsSlot(s, i, n, h),
           NEW k \in 1 .. Len(StepsOf(s, n, h, i)),
           NEW rows, Expected(rows, n, h), Reached(rows, StepsOf(s, n, h, i), k)
    PROVE  LET steps == StepsOf(s, n, h, i)
           IN  \/ AnswerTo(rows, steps[k]) = "ok"
               \/ AnswerTo(rows, steps[k]) = "referenced" /\ ~OnlyOwnRefer(rows, steps)
<1>. DEFINE steps == StepsOf(s, n, h, i)
            st == steps[k]
<1>1. InOrder(steps, k)
  BY EverySlotIsSound DEF IsSlot, Sound, WellFormed
<1>2. st.refs \subseteq DOMAIN rows
  <2>. SUFFICES ASSUME NEW row \in st.refs PROVE row \in DOMAIN rows
    OBVIOUS
  <2>1. Present(steps, k, row) \/ Kept(row, n, h)
    BY RefersBack
  <2>. QED  BY <2>1 DEF Expected, KeepsFixtures, Reached
<1>3. st.op = "select" => st.row \in DOMAIN rows
  BY SelectsKept DEF Expected, KeepsFixtures
<1>. HIDE DEF steps
<1>4. st.op = "insert" => st.row \notin DOMAIN rows
  BY <1>1 DEF Reached, InOrder, steps
<1>5. ASSUME OnlyOwnRefer(rows, steps), st.op = "delete"
      PROVE  Children(rows, st.row) = Cascaded(rows, st.row)
  <2>. SUFFICES ASSUME NEW child \in Children(rows, st.row)
                PROVE  <<child[1], st.row[1]>> \in Cascading
    BY DEF Cascaded
  <2>1. Deletes(steps, st.row)
    BY <1>5 DEF Deletes, steps
  <2>2. child \in DOMAIN rows /\ st.row \in rows[child] /\ Links(steps, child, st.row)
    BY <1>5, <2>1 DEF OnlyOwnRefer, Children
  <2>3. ~Detached(steps, k, child, st.row)
    BY <2>2 DEF Reached, steps
  <2>. QED  BY <1>1, <1>5, <2>2, <2>3 DEF InOrder
<1>. HIDE DEF st
<1>6. \/ AnswerTo(rows, st) = "ok"
      \/ AnswerTo(rows, st) = "referenced" /\ ~OnlyOwnRefer(rows, steps)
  BY <1>2, <1>3, <1>4, <1>5 DEF AnswerTo
<1>. QED  BY <1>6 DEF st, steps

LEMMA StatementKeepsExpected ==
    ASSUME NEW n \in Int, NEW h \in Int, NEW s, NEW i, IsSlot(s, i, n, h),
           NEW k \in 1 .. Len(StepsOf(s, n, h, i)),
           NEW rows, Expected(rows, n, h), AllTables \subseteq tables,
           AnswerTo(rows, StepsOf(s, n, h, i)[k]) = "ok"
    PROVE  Expected(After(rows, StepsOf(s, n, h, i)[k]), n, h)
<1>. DEFINE steps == StepsOf(s, n, h, i)
            st == steps[k]
<1>1. Fits(steps)
  BY SlotsFit DEF IsSlot
<1>2. ASSUME NEW row, Kept(row, n, h)
      PROVE  row[1] \notin Leaves /\ ~Deletes(steps, row) /\ row \in DOMAIN rows
  BY <1>2, KeptAreNoLeaves DEF Kept, Expected, KeepsFixtures
<1>. HIDE DEF steps
<1>3. st.row[1] \in AllTables /\ \A ref \in st.refs : ref[1] \notin Leaves
  BY <1>1 DEF Fits, steps
<1>4. ASSUME st.op = "delete" PROVE Deletes(steps, st.row)
  BY <1>4 DEF Deletes, steps
<1>. HIDE DEF st
<1>5. /\ Filed(After(rows, st))
      /\ \A row \in DOMAIN rows :
           \/ row \in DOMAIN After(rows, st)
           \/ st.op = "delete" /\ (row = st.row \/ row[1] \in Leaves)
  BY <1>3, StatementKeepsFiled DEF Expected, st, steps
<1>6. Expected(After(rows, st), n, h)
  BY <1>2, <1>4, <1>5 DEF Expected, KeepsFixtures
<1>. QED  BY <1>6 DEF st, steps

\* The rows before statement k of a slot, and the answer to those before it.
Goes(done, steps, k, n, h) ==
    \E rows, answer :
        /\ done = [rows |-> rows, answer |-> answer]
        /\ Expected(rows, n, h)
        /\ OnlyOwnRefer(db, steps) => OnlyOwnRefer(rows, steps)
        /\ \/ answer = "ok" /\ Reached(rows, steps, k)
           \/ answer = "referenced" /\ ~OnlyOwnRefer(db, steps)

LEMMA ExecutionGoes ==
    ASSUME NEW n \in Int, NEW h \in Int, NEW s, NEW i, IsSlot(s, i, n, h),
           Expected(db, n, h), AllTables \subseteq tables
    PROVE  LET steps == StepsOf(s, n, h, i)
               done == Execute(steps)
           IN  /\ Expected(done.rows, n, h)
               /\ \/ done.answer = "ok"
                  \/ done.answer = "referenced" /\ ~OnlyOwnRefer(db, steps)
<1>. DEFINE steps == StepsOf(s, n, h, i)
            holds == [k \in 0 .. 10 |-> Goes(Execution(steps)[k], steps, k + 1, n, h)]
<1>1. Fits(steps) /\ Len(steps) \in Nat
  BY SlotsFit DEF IsSlot, Fits
<1>2. PICK last \in 0 .. 10 : last = Len(steps)
  BY <1>1 DEF Fits
<1>3. /\ Execution(steps)[0] = [rows |-> db, answer |-> "ok"]
      /\ \A k \in 1 .. last :
           Execution(steps)[k] = Executed(Execution(steps)[k - 1], steps[k])
  BY <1>2, ExecutionIs
<1>4. holds[0]
  <2>1. Reached(db, steps, 1)
    BY DEF Reached, Absent, Present, Detached
  <2>. QED  BY <1>3, <2>1 DEF Goes
<1>5. ASSUME NEW k \in 1 .. last, NEW done, Goes(done, steps, k, n, h)
      PROVE  Goes(Executed(done, steps[k]), steps, k + 1, n, h)
  <2>1. PICK rows, was : /\ done = [rows |-> rows, answer |-> was]
                         /\ Expected(rows, n, h)
                         /\ OnlyOwnRefer(db, steps) => OnlyOwnRefer(rows, steps)
                         /\ \/ was = "ok" /\ Reached(rows, steps, k)
                            \/ was = "referenced" /\ ~OnlyOwnRefer(db, steps)
    BY <1>5 DEF Goes
  <2>2. k \in 1 .. Len(steps)
    BY <1>2
  <2>. DEFINE st == steps[k]
  <2>3. CASE was # "ok"
    <3>. HIDE DEF steps
    <3>1. Executed(done, st) = done
      BY <2>1, <2>3 DEF Executed
    <3>. QED  BY <2>1, <2>3, <3>1 DEF Goes
  <2>4. CASE was = "ok" /\ AnswerTo(rows, st) # "ok"
    <3>1. AnswerTo(rows, st) = "referenced" /\ ~OnlyOwnRefer(rows, steps)
      BY <2>1, <2>2, <2>4, AnswerIs
    <3>. HIDE DEF steps, st
    <3>2. Executed(done, st) = [rows |-> rows, answer |-> "referenced"]
      BY <2>1, <2>4, <3>1 DEF Executed
    <3>3. Goes(Executed(done, st), steps, k + 1, n, h)
      BY <2>1, <3>1, <3>2 DEF Goes
    <3>. QED  BY <3>3 DEF st
  <2>5. CASE was = "ok" /\ AnswerTo(rows, st) = "ok"
    <3>1. Expected(After(rows, st), n, h)
      BY <2>1, <2>2, <2>5, StatementKeepsExpected
    <3>. HIDE DEF steps
    <3>2. Reached(After(rows, st), steps, k + 1)
      BY <1>1, <2>1, <2>2, <2>5, ReachedNext
    <3>3. OnlyOwnRefer(db, steps) => OnlyOwnRefer(After(rows, st), steps)
      BY <2>1, <2>2, OnlyOwnReferAfter
    <3>. HIDE DEF st
    <3>4. Executed(done, st) = [rows |-> After(rows, st), answer |-> "ok"]
      BY <2>1, <2>5 DEF Executed
    <3>5. Goes(Executed(done, st), steps, k + 1, n, h)
      BY <3>1, <3>2, <3>3, <3>4 DEF Goes
    <3>. QED  BY <3>5 DEF st
  <2>. QED  BY <2>3, <2>4, <2>5
<1>. HIDE DEF steps
<1>6. \A k \in 1 .. last : holds[k - 1] => holds[k]
  <2>. SUFFICES ASSUME NEW k \in 1 .. last, holds[k - 1] PROVE holds[k]
    OBVIOUS
  <2>1. k - 1 \in 0 .. 10 /\ k \in 0 .. 10 /\ (k - 1) + 1 = k
    OBVIOUS
  <2>2. Goes(Execution(steps)[k - 1], steps, k, n, h)
    BY <2>1
  <2>3. Goes(Executed(Execution(steps)[k - 1], steps[k]), steps, k + 1, n, h)
    BY <1>5, <2>2
  <2>4. Goes(Execution(steps)[k], steps, k + 1, n, h)
    BY <1>3, <2>3
  <2>. QED  BY <2>1, <2>4
<1>7. holds[last]
  <2>. HIDE DEF holds
  <2>. QED  BY <1>4, <1>6, UpToTheLast
<1>8. Goes(Execution(steps)[last], steps, last + 1, n, h)
  BY <1>7
<1>9. Execute(steps) = Execution(steps)[last]
  BY <1>2 DEF Execute
<1>. QED  BY <1>8, <1>9 DEF Goes, steps

\* What refers to a row of a slot and is not linked to it by the slot is so by no slot.
LEMMA OthersAreLeftovers ==
    ASSUME NEW in \in InputsType, NEW s, NEW i, IsSlot(s, i, in.n, in.h),
           ~OnlyOwnRefer(db, StepsOf(s, in.n, in.h, i))
    PROVE  Leftovers(in, s, i) # {}
<1>. DEFINE steps == StepsOf(s, in.n, in.h, i)
<1>1. in.n \in Int /\ in.h \in Int
  BY DEF InputsType
<1>2. PICK row, parent :
        /\ row \in DOMAIN db /\ parent \in db[row]
        /\ Deletes(steps, parent) /\ ~Links(steps, row, parent)
  BY DEF OnlyOwnRefer
<1>3. PICK k \in 1 .. Len(steps) : steps[k].row = parent /\ steps[k].op = "delete"
  BY <1>2 DEF Deletes
<1>4. DOMAIN steps = 1 .. Len(steps)
  BY <1>1, EverySlotIsSound DEF IsSlot, Sound, WellFormed, StartsAtChild
<1>5. steps[k] \in Range(steps)
  BY <1>4 DEF Range
<1>6. OwnRow(steps, parent)
  BY <1>3 DEF OwnRow
<1>7. ASSUME RefersUnder(in, row, parent) PROVE FALSE
  <2>1. PICK t \in Registry, j \in Pool :
          /\ HasSlots(t, in.n, in.h)
          /\ \E st \in Range(StepsOf(t, in.n, in.h, j)) : st.row = row /\ parent \in st.refs
    BY <1>7 DEF RefersUnder
  <2>2. IsSlot(t, j, in.n, in.h)
    BY <2>1 DEF IsSlot
  <2>3. PICK st \in Range(StepsOf(t, in.n, in.h, j)) : st.row = row /\ parent \in st.refs
    BY <2>1
  <2>4. \E m \in 1 .. Len(StepsOf(t, in.n, in.h, j)) : st = StepsOf(t, in.n, in.h, j)[m]
    BY <1>1, <2>2, RangeOfSteps
  <2>5. Links(StepsOf(t, in.n, in.h, j), row, parent)
    BY <2>3, <2>4 DEF Links
  <2>6. s = t /\ i = j
    BY <1>1, <1>6, <2>2, <2>5, SlotsShareNothing
  <2>. QED  BY <1>2, <2>5, <2>6
<1>. HIDE DEF steps
<1>8. \E st \in Range(steps) : st.op = "delete" /\ st.row \in db[row]
                              /\ ~RefersUnder(in, row, st.row)
  BY <1>2, <1>3, <1>5, <1>7
<1>. QED  BY <1>2, <1>8 DEF Leftovers, steps

-----------------------------------------------------------------------------
(* What can stop a run.                                                    *)

\* Rows that no slot deletes are there from the record on, if run reads from it what
\* prepare was given.
RunsInv == meta.known /\ RunInputs(meta) = meta => KeepsFixtures(db, meta.n, meta.h)

LEMMA RunsInvInit == Init => RunsInv
  BY DEF Init, RunsInv, NoInputs

\* A statement of prepare removes no row, and the record comes after all fixtures.
LEMMA EffectKeepsFixtures ==
    ASSUME PrepareInv, RunsInv, AtStatement, StatementTakesEffect
    PROVE  RunsInv'
<1>1. PICK in : in = job.inputs
  OBVIOUS
<1>. DEFINE fixtures == FixtureStatements(in.n, in.h)
<1>. HIDE DEF fixtures
<1>2. PICK count \in 0 .. 18 :
      /\ in.n \in Int /\ in.h \in Int
      /\ count = Len(fixtures) /\ job.at \in 1 .. 20 + count
      /\ Follows(Current, job.at, fixtures, count)
  BY <1>1, CurrentIs DEF fixtures, PrepareInv
<1>3. /\ db' = IF Current.kind = "upsert" THEN Upserted(db, Current.rows) ELSE db
      /\ meta' = IF Current.kind = "record" THEN in ELSE meta
      /\ DOMAIN db \subseteq DOMAIN db'
  BY <1>1, EffectKeeps DEF StatementTakesEffect
<1>4. ASSUME meta' = meta PROVE RunsInv'
  BY <1>3, <1>4 DEF RunsInv, KeepsFixtures
<1>5. CASE \/ Current = CreateTable("fk_prepare_metadata")
           \/ \E j \in 1 .. 18 : Current = CreateTable(Tables[j])
           \/ \E j \in 1 .. count : Current = Upsert(Tables[j], fixtures[j])
  <2>1. meta' = meta
    BY <1>3, <1>5 DEF CreateTable, Upsert
  <2>. QED  BY <1>4, <2>1
<1>6. CASE job.at = 20 + count /\ Current = RecordMetadata
  <2>1. db' = db /\ meta' = in
    BY <1>3, <1>6 DEF RecordMetadata
  <2>2. \A j \in 1 .. count : \A r \in fixtures[j] : r.row \in DOMAIN db
    <3>1. \A j \in 1 .. count : 19 + j < job.at
      BY <1>6
    <3>. QED  BY <1>2, <3>1 DEF Follows
  <2>3. ASSUME NEW row, Kept(row, in.n, in.h) PROVE row \in DOMAIN db
    <3>1. Fixture(row, in.n, in.h)
      BY <2>3 DEF Kept
    <3>2. PICK j \in 1 .. count : \E r \in fixtures[j] : r.row = row
      BY <1>2, <3>1, FixtureIsInserted DEF fixtures
    <3>. QED  BY <2>2, <3>2
  <2>4. KeepsFixtures(db, in.n, in.h)
    BY <2>3 DEF KeepsFixtures
  <2>. QED  BY <2>1, <2>4 DEF RunsInv, KeepsFixtures
<1>. QED  BY <1>2, <1>5, <1>6 DEF Follows

\* An execution of a run whose plan is the one on record.
LEMMA RecordedRun ==
    ASSUME PrepareInv, RunsInv, NEW s \in RunScenarios, NEW i \in Pool,
           ExecuteScenario(s, i), plan = meta
    PROVE  LET steps == StepsOf(s, plan.n, plan.h, i)
               done == Execute(steps)
           IN  /\ IsSlot(s, i, plan.n, plan.h)
               /\ KeepsFixtures(done.rows, plan.n, plan.h)
               /\ \/ done.answer = "ok"
                  \/ done.answer = "referenced" /\ ~OnlyOwnRefer(db, steps)
<1>1. plan.known /\ HasSlots(s, plan.n, plan.h)
  BY DEF ExecuteScenario
<1>2. /\ meta.known /\ plan = RunInputs(meta) /\ Filed(db) /\ AllTables \subseteq tables
      /\ plan.n \in Int /\ plan.h \in Int
  BY <1>1 DEF PrepareInv, MetaOK, InputsOK, InputsType
<1>3. Expected(db, plan.n, plan.h)
  BY <1>2 DEF RunsInv, Expected
<1>4. IsSlot(s, i, plan.n, plan.h)
  BY <1>1, PrepareAssumption DEF IsSlot
<1>. QED  BY <1>2, <1>3, <1>4, ExecutionGoes DEF Expected

LEMMA RunsInvNext == PrepareInv /\ RunsInv /\ [Next]_vars => RunsInv'
<1>. SUFFICES ASSUME PrepareInv, RunsInv, [Next]_vars PROVE RunsInv'
  OBVIOUS
<1>1. ASSUME db' = db, meta' = meta PROVE RunsInv'
  BY <1>1 DEF RunsInv, KeepsFixtures
<1>2. CASE \E n \in ParentRows, h \in HotKeys : StartPrepare(n, h)
  BY <1>1, <1>2 DEF StartPrepare
<1>3. CASE ApplyOk
  BY <1>3, EffectKeepsFixtures DEF ApplyOk
<1>4. CASE ApplyUnacknowledged
  BY <1>4, EffectKeepsFixtures DEF ApplyUnacknowledged
<1>5. CASE PrepareStops
  BY <1>1, <1>5 DEF PrepareStops
<1>6. CASE StartRun
  BY <1>1, <1>6 DEF StartRun
<1>7. CASE StopRun
  BY <1>1, <1>7 DEF StopRun
<1>8. ASSUME NEW s \in RunScenarios, NEW i \in Pool, ExecuteScenario(s, i)
      PROVE  RunsInv'
  <2>. DEFINE done == Execute(StepsOf(s, plan.n, plan.h, i))
  <2>1. /\ plan.known /\ meta' = meta
        /\ db' = IF done.answer = "ok" THEN done.rows ELSE db
    BY <1>8 DEF ExecuteScenario
  <2>2. plan = RunInputs(meta)
    BY <2>1 DEF PrepareInv
  <2>3. CASE plan = meta
    <3>1. KeepsFixtures(done.rows, meta.n, meta.h)
      BY <1>8, <2>3, RecordedRun
    <3>. HIDE DEF done
    <3>. QED  BY <2>1, <3>1 DEF RunsInv, KeepsFixtures
  <2>4. CASE plan # meta
    BY <2>1, <2>2, <2>4 DEF RunsInv
  <2>. QED  BY <2>3, <2>4
<1>9. CASE UNCHANGED vars
  BY <1>1, <1>9 DEF vars
<1>. QED  BY <1>2, <1>3, <1>4, <1>5, <1>6, <1>7, <1>8, <1>9 DEF Next

\* A run under the inputs on record is stopped by nothing but rows that runs of other
\* plans have left: whatever prepares and runs of whatever sizes came before and were cut
\* off, the statements of validated slots find the rows they refer to and those they
\* replace, and no two slots are in each other's way.
THEOREM RunsOnlyFailOnLeftovers == Spec => RunsFailOnLeftovers
<1>. DEFINE Stopped ==
       (plan = meta /\ failure = "none" /\ failure' # "none") =>
         \A s \in RunScenarios, i \in Pool : ExecuteScenario(s, i) =>
            failure' = "referenced" /\ Leftovers(plan, s, i) # {}
<1>1. ASSUME PrepareInv, RunsInv PROVE Stopped
  <2>. SUFFICES ASSUME plan = meta, failure = "none", failure' # "none",
                       NEW s \in RunScenarios, NEW i \in Pool, ExecuteScenario(s, i)
                PROVE  failure' = "referenced" /\ Leftovers(plan, s, i) # {}
    OBVIOUS
  <2>. DEFINE done == Execute(StepsOf(s, plan.n, plan.h, i))
  <2>1. failure' = IF failure = "none" /\ done.answer # "ok" THEN done.answer ELSE failure
    BY DEF ExecuteScenario
  <2>2. /\ IsSlot(s, i, plan.n, plan.h)
        /\ \/ done.answer = "ok"
           \/ /\ done.answer = "referenced"
              /\ ~OnlyOwnRefer(db, StepsOf(s, plan.n, plan.h, i))
    BY <1>1, RecordedRun
  <2>. HIDE DEF done
  <2>3. failure' = "referenced" /\ ~OnlyOwnRefer(db, StepsOf(s, plan.n, plan.h, i))
    BY <2>1, <2>2
  <2>4. plan \in InputsType
    BY <1>1 DEF PrepareInv, InputsOK
  <2>. QED  BY <2>2, <2>3, <2>4, OthersAreLeftovers
<1>2. Init => PrepareInv /\ RunsInv
  BY PrepareInvInit, RunsInvInit
<1>3. (PrepareInv /\ RunsInv) /\ [Next]_vars => (PrepareInv /\ RunsInv)'
  BY PrepareInvNext, RunsInvNext
<1>4. (PrepareInv /\ RunsInv) /\ [Next]_vars => [Stopped]_vars
  BY <1>1
<1>. HIDE DEF Stopped
<1>5. Spec => [][Stopped]_vars
  BY <1>2, <1>3, <1>4, PTL DEF Spec
<1>. QED  BY <1>5 DEF RunsFailOnLeftovers, Stopped
=============================================================================
