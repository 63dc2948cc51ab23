\* Agent runs on nested lanes, their registry, and the serial executor they implement.
CONSTANTS
    s1 = s1
    s2 = s2
    chat1 = chat1
    chat2 = chat2
    cron1 = cron1
    NoRun = NoRun
    Sessions <- MCSessions
    Runs <- MCRuns
    CronRuns <- MCCronRuns
    SessionOf <- MCSessionOf
    MaxGeneration = 1
CHECK_DEADLOCK FALSE
SPECIFICATION FairSpec
INVARIANTS
    OneRunPerSession
    RegistryIsExact
PROPERTIES
    ImplementsSerialExecutor
