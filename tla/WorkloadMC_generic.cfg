CONSTANTS
    w1 = w1
    w2 = w2
    w3 = w3
    PoolSize = 1
    Workers <- MCThree
    Assigned <- MCGeneric
    N = 2
    H = 1
    SharedLocks <- MCAllShared
SPECIFICATION Spec
SYMMETRY MCSymmetryTwo
INVARIANTS
    TypeOK
    SuccessScenariosSucceed
PROPERTIES
    CascadeLeavesNothing
