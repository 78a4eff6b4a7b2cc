SPECIFICATION Spec
CONSTANTS
    Pages <- MCPages
    MaxMoves = 2
    MaxSends = 3
    MaxRestarts = 1
INVARIANTS
    LlmEvidenceIsTrue
    NoBlindRepeat
    PickedOnce
    LearnedOnce
