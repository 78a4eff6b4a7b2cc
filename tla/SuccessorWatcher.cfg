SPECIFICATION Spec
CONSTANTS
    s1 = s1
    s2 = s2
    s3 = s3
    Snapshots <- MCSnapshots
    Before = s1
    NoSnapshot = NoSnapshot
    Timeout = 4
    MaxPause = 2
SYMMETRY Later
CHECK_DEADLOCK FALSE
INVARIANTS
    SettledIsNews
    SettledIsRepeated
    TimeoutIsHonest
