CONSTANTS
    GenericWorkers = 1
    BillingWorkers = 0
    FailureProbeWorkers = 1
    ScenarioCount <- MCTwoGeneric
    RunDurations <- MCDurations
    ProgressIntervals <- MCNoProgress
    DbErrors <- MCFaults
    MaxExecuted = 2
SPECIFICATION Spec
INVARIANTS
    TypeOK
    Accounting
    TxScoped
    SuccessIsCommitted
    CommitsReported
    NoArtifactCounted
    RotationBalanced
