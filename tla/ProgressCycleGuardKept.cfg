SPECIFICATION GuardSpec
CONSTANTS
    x1 = x1
    x2 = x2
    x3 = x3
    a1 = a1
    a2 = a2
    Pages <- MCPages
    Actions <- MCActions
    MaxTicks = 5
CHECK_DEADLOCK FALSE
PROPERTY KeptLoopStops
