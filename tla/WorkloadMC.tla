----------------------------- MODULE WorkloadMC -----------------------------
(* Small instances of Workload for TLC.                                    *)
EXTENDS Workload

CONSTANTS w1, w2, w3

\* The fixtures are what the statements of prepare leave one after the other.
ASSUME PreparedInOrder ==
    Prepared(N, H) = FoldLeft(Upserted, Empty, FixtureStatements(N, H))

MCThree == {w1, w2, w3}
MCTwo == {w1, w2}

\* Two workers for every scenario, a third for the one with the most locks.
MCGeneric == [w \in MCThree |->
    IF w = w3 THEN {"generic_delete_parent_cascade"} ELSE GenericScenarios]

\* Two billing workers and one for the probes.
MCBilling == [w \in MCThree |-> IF w = w3 THEN Probes ELSE BillingScenarios]

\* The third worker is also given a scenario that one seeded row leaves no slots.
MCBillingAndRebind ==
    [MCBilling EXCEPT ![w3] = @ \cup {"generic_rebind_child_fk"}]

MCAllShared == {[w \in MCThree |-> TRUE]}

\* Shared locks on in every session, in none, or in the third worker's only.
MCMixed == {[w \in MCThree |-> TRUE], [w \in MCThree |-> FALSE],
            [w \in MCThree |-> w = w3]}

MCSymmetryTwo == Permutations(MCTwo)
=============================================================================
