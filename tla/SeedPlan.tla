------------------------------ MODULE SeedPlan ------------------------------
(***************************************************************************)
(* The deterministic seed plan (src/internal/seed/generic.go, billing.go)  *)
(* as a function of the two inputs that prepare records: n, the seeded     *)
(* parent rows per table, and h, the hot parent keys.  prepare inserts the *)
(* rows of the plan; run rebuilds the same plan and takes its slots.       *)
(*                                                                         *)
(* A row is <<table, id>>, and what matters of its columns is the set of   *)
(* rows its foreign keys refer to.                                         *)
(***************************************************************************)
EXTENDS Integers, Sequences

CONSTANT
    PoolSize  \* genericFixturePoolSize and billingFixturePoolSize, 4 in the code

\* The first ids of the pools of one table are 100 apart or more.
ASSUME PoolSizeAssumption == PoolSize \in 1 .. 100

Pool == 0 .. PoolSize - 1

ParentCount(n) == IF n > 0 THEN n ELSE 0

HotCount(n, h) ==
    IF h < 0 THEN 0 ELSE IF h > ParentCount(n) THEN ParentCount(n) ELSE h

-----------------------------------------------------------------------------
(* Slots of the generic pools; i is the slot's index.                      *)

Parent(id) == <<"parent_basic", id>>

InsertExistingParentSlot(i) ==
    [child |-> <<"child_basic", 10001 + i>>, parent |-> Parent(1)]

UpdateChildNoFKChangeSlot(i) ==
    [child |-> <<"child_basic", 11001 + i>>, parent |-> Parent(1)]

\* Faulty variant: all slots of the pool insert the same parent.
InsertParentThenChildSlotShared(n, i) ==
    [child  |-> <<"child_basic", 20001 + i>>, parent |-> Parent(ParentCount(n) + 1)]

\* The parents of this pool come right after the seeded ones.
InsertParentThenChildSlot(n, i) ==
    [child  |-> <<"child_basic", 20001 + i>>,
     parent |-> Parent(ParentCount(n) + 1 + i)]

RebindChildSlot(i) ==
    [child |-> <<"child_rebind", 13001 + i>>, base |-> Parent(1), target |-> Parent(2)]

InsertParentThenUpdateChildSlot(n, i) ==
    [child  |-> <<"child_rebind", 12001 + i>>,
     base   |-> Parent(1),
     target |-> Parent(ParentCount(n) + 101 + i)]

DeleteParentCascadeSlot(i) ==
    [parent |-> <<"parent_cascade", 14001 + i>>, child |-> <<"child_cascade", 15001 + i>>]

\* hotParentIDs[i % len(hotParentIDs)]
ConcurrentHotParentInsertSlot(n, h, i) ==
    [parent |-> <<"parent_hot", 1 + (i % HotCount(n, h))>>,
     child  |-> <<"child_hot", 16001 + i>>]

-----------------------------------------------------------------------------
(* Slots of the billing pools: the customers and folios are dealt out in   *)
(* turn, and n is positive.                                                *)

Customer(n, i) == <<"customer", 1 + (i % n)>>
Folio(n, i)    == <<"folio", 1001 + (i % n)>>

ExistingJournal == <<"journal", 3001>>
ExistingBill    == <<"bill", 4001>>

Account(n, i) == {Customer(n, i), Folio(n, i)}

JournalPostingBillSlot(i) ==
    [journal |-> <<"journal", 10001 + i>>,
     posting |-> <<"posting", 11001 + i>>,
     bill    |-> <<"bill", 12001 + i>>]

FolioBalanceUpdateSlot(i) == [balance |-> <<"foliobalance", 13001 + i>>]

FKBackfillSlot(i) ==
    [journal    |-> <<"journal", 14001 + i>>,
     bill       |-> <<"bill", 15001 + i>>,
     feelog     |-> <<"feelog", 16001 + i>>,
     statement  |-> <<"statement", 17001 + i>>,
     withdrawal |-> <<"withdrawal", 18001 + i>>]

PaymentMixedReferenceSlot(i) ==
    [journal |-> <<"journal", 19001 + i>>, payment |-> <<"payment", 20001 + i>>]

CascadePathSlot(i) ==
    [statement |-> <<"statement", 21001 + i>>, withdrawal |-> <<"withdrawal", 22001 + i>>]

PaymentBillUpdateProbeSlot(i) == [payment |-> <<"payment", 18001 + i>>]

StatementFolioParentUpdateProbeSlot(i) == [statement |-> <<"statement", 23001 + i>>]

-----------------------------------------------------------------------------
(* The rows that prepare upserts, one set for each INSERT, in order.       *)

Referring(row, refs) == [row |-> row, refs |-> refs]
Plain(row) == Referring(row, {})

GenericParentBasicRows(n) == {Plain(Parent(p)) : p \in 1 .. ParentCount(n)}

GenericChildBasicRows(n) ==
    IF ParentCount(n) = 0 THEN {}
    ELSE {Referring(InsertExistingParentSlot(i).child, {Parent(1)}) : i \in Pool}
         \cup {Referring(UpdateChildNoFKChangeSlot(i).child, {Parent(1)}) : i \in Pool}

\* Both rebind pools are seeded at their base parent.
GenericChildRebindRows(n) ==
    (IF ParentCount(n) < 2 THEN {}
     ELSE {Referring(RebindChildSlot(i).child, {Parent(1)}) : i \in Pool})
    \cup
    (IF ParentCount(n) < 1 THEN {}
     ELSE {Referring(InsertParentThenUpdateChildSlot(n, i).child, {Parent(1)}) : i \in Pool})

GenericParentCascadeRows == {Plain(DeleteParentCascadeSlot(i).parent) : i \in Pool}

GenericChildCascadeRows ==
    {LET slot == DeleteParentCascadeSlot(i)
     IN  Referring(slot.child, {slot.parent}) : i \in Pool}

GenericParentHotRows(n, h) == {Plain(<<"parent_hot", p>>) : p \in 1 .. HotCount(n, h)}

GenericChildHotRows(n, h) ==
    IF HotCount(n, h) = 0 THEN {}
    ELSE {LET slot == ConcurrentHotParentInsertSlot(n, h, i)
          IN  Referring(slot.child, {slot.parent}) : i \in Pool}

GenericProbeSummaryRows == {Plain(<<"probe_summary", 1>>)}

\* The rows of the child pool of InsertParentThenChild are not seeded.
GenericFixtureStatements(n, h) ==
    << GenericParentBasicRows(n), GenericChildBasicRows(n), GenericChildRebindRows(n),
       GenericParentCascadeRows, GenericChildCascadeRows,
       GenericParentHotRows(n, h), GenericChildHotRows(n, h), GenericProbeSummaryRows >>

BillingCustomerRows(n) == {Plain(Customer(n, i)) : i \in 0 .. n - 1}

BillingFolioRows(n) == {Referring(Folio(n, i), {Customer(n, i)}) : i \in 0 .. n - 1}

\* The existing journal, and those of the three pools that write one.
BillingJournalRows(n) ==
    {Referring(ExistingJournal, Account(n, 0))}
    \cup {Referring(JournalPostingBillSlot(i).journal, Account(n, i)) : i \in Pool}
    \cup {Referring(FKBackfillSlot(i).journal, Account(n, i)) : i \in Pool}
    \cup {Referring(PaymentMixedReferenceSlot(i).journal, Account(n, i)) : i \in Pool}

BillingPostingRows ==
    {LET slot == JournalPostingBillSlot(i)
     IN  Referring(slot.posting, {slot.journal}) : i \in Pool}

BillingBillRows(n) ==
    LET BillOf(slot, i) == Referring(slot.bill, {slot.journal, Folio(n, i)})
    IN  {Referring(ExistingBill, {ExistingJournal, Folio(n, 0)})}
        \cup {BillOf(JournalPostingBillSlot(i), i) : i \in Pool}
        \cup {BillOf(FKBackfillSlot(i), i) : i \in Pool}

BillingPaymentRows ==
    {Referring(PaymentMixedReferenceSlot(i).payment,
               {ExistingBill, PaymentMixedReferenceSlot(i).journal}) : i \in Pool}
    \cup {Referring(PaymentBillUpdateProbeSlot(i).payment,
                    {ExistingBill, ExistingJournal}) : i \in Pool}

BillingFolioBalanceRows(n) ==
    {Referring(FolioBalanceUpdateSlot(i).balance, Account(n, i)) : i \in Pool}

BillingFeeLogRows ==
    {LET slot == FKBackfillSlot(i)
     IN  Referring(slot.feelog, {slot.journal, slot.bill}) : i \in Pool}

\* The statements of the folio probe are not seeded.
BillingStatementRows(n) ==
    {Referring(FKBackfillSlot(i).statement, Account(n, i)) : i \in Pool}
    \cup {Referring(CascadePathSlot(i).statement, Account(n, i)) : i \in Pool}

BillingWithdrawalRows ==
    {LET slot == FKBackfillSlot(i)
     IN  Referring(slot.withdrawal, {slot.journal, slot.statement}) : i \in Pool}
    \cup
    {LET slot == CascadePathSlot(i)
     IN  Referring(slot.withdrawal, {ExistingJournal, slot.statement}) : i \in Pool}

BillingFixtureStatements(n) ==
    IF ParentCount(n) = 0 THEN << >>
    ELSE << BillingCustomerRows(n), BillingFolioRows(n), BillingJournalRows(n),
            BillingPostingRows, BillingBillRows(n), BillingPaymentRows,
            BillingFolioBalanceRows(n), BillingFeeLogRows,
            BillingStatementRows(n), BillingWithdrawalRows >>

\* Every INSERT of prepare, those of no rows included.
FixtureStatements(n, h) == GenericFixtureStatements(n, h) \o BillingFixtureStatements(n)
=============================================================================
