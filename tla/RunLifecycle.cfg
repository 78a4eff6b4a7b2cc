SPECIFICATION FairSpec
CONSTANTS
    MaxTicks = 2
INVARIANTS
    RecordsAreBacked
    OrderlyExitFreesLock
PROPERTIES
    ImplementsRecordedRun
    TurnsUnlessRobbed
    OnlyTheRobbedRob
    InputsUnderLock
    ShutdownEnds
