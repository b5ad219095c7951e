SPECIFICATION FairSpec
CONSTANTS
    MaxCalls = 3
INVARIANTS LifecycleTypeOK NoCallOnClosedConnection HealthyMeansSetUp SetupUndisturbed
PROPERTIES ImplementsDaemon StopCompletes StartsUp
CHECK_DEADLOCK FALSE
