SPECIFICATION Spec
CONSTANTS
    MaxTicks = 1
INVARIANTS
    RepeatedSignalsIgnored
