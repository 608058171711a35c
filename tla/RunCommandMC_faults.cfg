CONSTANTS
    GenericWorkers = 1
    BillingWorkers = 1
    FailureProbeWorkers = 0
    ScenarioCount <- MCOneEach
    RunDurations <- MCDurations
    ProgressIntervals <- MCProgress
    DbErrors <- MCFaults
    MaxExecuted = 1
    StageFaults <- MCStageFaults
SPECIFICATION CmdSpec
INVARIANTS
    SummariesAgree
    ExitZeroMeansChecked
    InterruptedRunChecked
PROPERTIES
    CommandTerminates
