CONSTANTS
    w1 = w1
    w2 = w2
    w3 = w3
    PoolSize = 1
    Workers <- MCThree
    Assigned <- MCBillingAndRebind
    N = 1
    H = 1
    SharedLocks <- MCMixed
SPECIFICATION Spec
SYMMETRY MCSymmetryTwo
INVARIANTS
    FixturesSuffice
    SuccessScenariosSucceed
    ProbesFail
