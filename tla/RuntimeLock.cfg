SPECIFICATION FairSpec
CONSTANTS
    Proc = {p1, p2, p3}
    NoFile = NoFile
INVARIANTS
    ExclusionUnlessStolen
    TheftNeedsThree
PROPERTIES
    TurnsUnlessStolen
    AcquireEndsIfUnlinksWork
CHECK_DEADLOCK FALSE
