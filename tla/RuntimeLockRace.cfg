SPECIFICATION Spec
CONSTANTS
    Proc = {p1, p2, p3}
    NoFile = NoFile
INVARIANT
    AtMostOneRuntime
CHECK_DEADLOCK FALSE
