----------------------------- MODULE Scenarios -----------------------------
(***************************************************************************)
(* The statements of every scenario (src/internal/scenario/generic.go,     *)
(* billing.go, failure_probe.go) and what a foreign-key database answers   *)
(* to them.  The program relies on that database and does not contain it:  *)
(* its part is taken from the statements, the schema and the errors the    *)
(* program expects.                                                        *)
(***************************************************************************)
EXTENDS SeedPlan, FiniteSets

-----------------------------------------------------------------------------
(* Statements.  A payload that no foreign key is made of is left out.      *)

Statement(op, row, refs) == [op |-> op, row |-> row, refs |-> refs]

Delete(row)       == Statement("delete", row, {})
Insert(row, refs) == Statement("insert", row, refs)
Rebind(row, refs) == Statement("rebind", row, refs)   \* UPDATE of a foreign key
Update(row)       == Statement("update", row, {})     \* UPDATE of other columns
SelectForUpdate(row) == Statement("select", row, {})

\* DELETE and INSERT of one row make a statement list repeatable.
Replace(row, refs) == << Delete(row), Insert(row, refs) >>

InsertExistingParent(i) ==
    LET slot == InsertExistingParentSlot(i) IN Replace(slot.child, {slot.parent})

\* Faulty variant: the parent is deleted before the child that refers to it.
InsertParentThenChildParentFirst(n, i) ==
    LET slot == InsertParentThenChildSlot(n, i)
    IN  << Delete(slot.parent), Delete(slot.child),
           Insert(slot.parent, {}), Insert(slot.child, {slot.parent}) >>

InsertParentThenChild(n, i) ==
    LET slot == InsertParentThenChildSlot(n, i)
    IN  << Delete(slot.child), Delete(slot.parent),
           Insert(slot.parent, {}), Insert(slot.child, {slot.parent}) >>

UpdateChildNoFKChange(i) ==
    LET slot == UpdateChildNoFKChangeSlot(i)
    IN  Replace(slot.child, {slot.parent}) \o << Update(slot.child) >>

RebindChildFK(i) ==
    LET slot == RebindChildSlot(i)
    IN  Replace(slot.child, {slot.base}) \o << Rebind(slot.child, {slot.target}) >>

InsertParentThenUpdateChildFK(n, i) ==
    LET slot == InsertParentThenUpdateChildSlot(n, i)
    IN  Replace(slot.child, {slot.base}) \o Replace(slot.target, {})
          \o << Rebind(slot.child, {slot.target}) >>

\* Faulty variant: the final DELETE of the parent is missing.
DeleteParentCascadeKept(i) ==
    LET slot == DeleteParentCascadeSlot(i)
    IN  << Delete(slot.child), Delete(slot.parent),
           Insert(slot.parent, {}), Insert(slot.child, {slot.parent}) >>

DeleteParentCascade(i) ==
    LET slot == DeleteParentCascadeSlot(i)
    IN  << Delete(slot.child), Delete(slot.parent),
           Insert(slot.parent, {}), Insert(slot.child, {slot.parent}),
           Delete(slot.parent) >>

ConcurrentHotParentInsert(n, h, i) ==
    LET slot == ConcurrentHotParentInsertSlot(n, h, i)
    IN  Replace(slot.child, {slot.parent})

JournalPostingBill(n, i) ==
    LET slot == JournalPostingBillSlot(i)
    IN  << Delete(slot.bill), Delete(slot.posting), Delete(slot.journal),
           Insert(slot.journal, Account(n, i)),
           Insert(slot.posting, {slot.journal}),
           Insert(slot.bill, {slot.journal, Folio(n, i)}) >>

FolioBalanceUpdate(i) ==
    LET slot == FolioBalanceUpdateSlot(i)
    IN  << SelectForUpdate(slot.balance), Update(slot.balance) >>

\* Faulty variant: the bill is deleted before the fee log that refers to it.
FKBackfillBillFirst(n, i) ==
    LET slot == FKBackfillSlot(i)
    IN  << Delete(slot.bill), Delete(slot.feelog),
           Insert(slot.bill, {slot.journal, Folio(n, i)}),
           Insert(slot.feelog, {slot.journal, slot.bill}) >>

\* fee_bill_id and statement_id are NULL until the rows they name exist.
FKBackfill(n, i) ==
    LET slot == FKBackfillSlot(i)
    IN  << Delete(slot.feelog), Delete(slot.withdrawal),
           Delete(slot.bill), Delete(slot.statement),
           Insert(slot.feelog, {slot.journal}),
           Insert(slot.withdrawal, {slot.journal}),
           Insert(slot.bill, {slot.journal, Folio(n, i)}),
           Rebind(slot.feelog, {slot.journal, slot.bill}),
           Insert(slot.statement, Account(n, i)),
           Rebind(slot.withdrawal, {slot.journal, slot.statement}) >>

PaymentMixedReferences(n, i) ==
    LET slot == PaymentMixedReferenceSlot(i)
    IN  << Delete(slot.payment), Delete(slot.journal),
           Insert(slot.journal, Account(n, i)),
           Insert(slot.payment, {ExistingBill, slot.journal}) >>

CascadePath(n, i) ==
    LET slot == CascadePathSlot(i)
    IN  << Delete(slot.withdrawal), Delete(slot.statement),
           Insert(slot.statement, Account(n, i)),
           Insert(slot.withdrawal, {ExistingJournal, slot.statement}),
           Delete(slot.statement) >>

\* Faulty variant: the bill is updated before the payment that refers to it.
PaymentBillUpdateProbeEarly(i) ==
    LET slot == PaymentBillUpdateProbeSlot(i)
    IN  << Update(ExistingBill) >>
        \o Replace(slot.payment, {ExistingBill, ExistingJournal})

PaymentBillUpdateProbe(i) ==
    LET slot == PaymentBillUpdateProbeSlot(i)
    IN  Replace(slot.payment, {ExistingBill, ExistingJournal})
          \o << Update(ExistingBill) >>

StatementFolioParentUpdateProbe(n, i) ==
    LET slot == StatementFolioParentUpdateProbeSlot(i)
    IN  Replace(slot.statement, Account(n, i)) \o << Update(Folio(n, i)) >>

-----------------------------------------------------------------------------
(* The registry.                                                           *)

GenericScenarios ==
    {"generic_insert_existing_parent", "generic_insert_parent_then_child",
     "generic_update_child_no_fk_change", "generic_rebind_child_fk",
     "generic_insert_parent_then_update_child_fk", "generic_delete_parent_cascade",
     "generic_concurrent_hot_parent_insert"}

BillingScenarios ==
    {"billing_journal_posting_bill", "billing_folio_balance_update",
     "billing_fk_backfill", "billing_payment_mixed_references", "billing_cascade_path"}

Probes == {"payment_bill_update_probe", "statement_folio_parent_update_probe"}

SuccessScenarios == GenericScenarios \cup BillingScenarios
Registry == SuccessScenarios \cup Probes

\* The pool a scenario takes its slots from is not empty.
HasSlots(s, n, h) ==
    CASE s = "generic_delete_parent_cascade"        -> TRUE
      [] s = "generic_concurrent_hot_parent_insert" -> HotCount(n, h) >= 1
      [] s = "generic_rebind_child_fk"              -> ParentCount(n) >= 2
      [] OTHER                                      -> ParentCount(n) >= 1

StepsOf(s, n, h, i) ==
    CASE s = "generic_insert_existing_parent"    -> InsertExistingParent(i)
      [] s = "generic_insert_parent_then_child"  -> InsertParentThenChild(n, i)
      [] s = "generic_update_child_no_fk_change" -> UpdateChildNoFKChange(i)
      [] s = "generic_rebind_child_fk"           -> RebindChildFK(i)
      [] s = "generic_insert_parent_then_update_child_fk"
                                           -> InsertParentThenUpdateChildFK(n, i)
      [] s = "generic_delete_parent_cascade"     -> DeleteParentCascade(i)
      [] s = "generic_concurrent_hot_parent_insert"
                                           -> ConcurrentHotParentInsert(n, h, i)
      [] s = "billing_journal_posting_bill"      -> JournalPostingBill(n, i)
      [] s = "billing_folio_balance_update"      -> FolioBalanceUpdate(i)
      [] s = "billing_fk_backfill"               -> FKBackfill(n, i)
      [] s = "billing_payment_mixed_references"  -> PaymentMixedReferences(n, i)
      [] s = "billing_cascade_path"              -> CascadePath(n, i)
      [] s = "payment_bill_update_probe"         -> PaymentBillUpdateProbe(i)
      [] s = "statement_folio_parent_update_probe"
                                           -> StatementFolioParentUpdateProbe(n, i)

=============================================================================
