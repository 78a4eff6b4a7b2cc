SPECIFICATION Spec
CONSTANTS
    i1 = i1
    i2 = i2
    i3 = i3
    Invocations = {i1, i2, i3}
    Kinds <- AllKinds
    NumTransitions = 1
    Requests <- AllRequests
    CommandLines <- SomeCommands
    ProviderAnswers <- SomeAnswers
    MaxTears = 1
SYMMETRY Sym
INVARIANTS
    LossNeedsTear
    DuplicatesOverlap
    GenerateCompletes
    ApprovalsHold
    ProviderNeedsCleanBaseline
