----------------------------- MODULE PrepareMC -----------------------------
(* Small instances of Prepare for TLC.                                     *)
EXTENDS Prepare

\* Numbers of rows whose pools of new parents overlap.
MCSizes == {1, 2}
MCApart == {2, 5}

\* More hot keys than two rows have.
MCHot == {3}
MCSmallHot == {0, 1}

\* A scenario whose rows may be in the way of a run of another plan, and one that relies
\* on the accounts of its plan and has a cascade.
MCRuns == {"generic_insert_parent_then_child", "billing_cascade_path"}

MCFew == {"generic_insert_parent_then_child", "billing_payment_mixed_references"}
=============================================================================
