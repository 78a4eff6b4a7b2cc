SPECIFICATION FairSpec
CONSTANTS
    Statuses = {200, 401, 408, 503}
    Ids = {play, sk, gone}
    Advertised = {play, sk}
    Secretlike = {sk}
    Redacted = gone
    NoId = none
    Timeout = 2
INVARIANTS
    EveryCallIsOnRecord
    RetriesAreDueUnlessCutOff
    FailureUsedItsRetry
    AnswerIsTheDecision
PROPERTIES
    DecideEnds
CHECK_DEADLOCK FALSE
