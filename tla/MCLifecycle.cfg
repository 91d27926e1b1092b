\* Two calls, both supervisors, and errors enough for the longest backoff.
SPECIFICATION FairSpec
CONSTANTS
    Call = {c1, c2}
    MaxFailures = 7
INVARIANTS
    TypeOK
    ShutdownAnswersCalls
    OneOpenReader
    ClosedOnlyWhenCancelled
    BackoffFollowsFailures
PROPERTIES
    ConsumersComeBack
    StopEnds
CHECK_DEADLOCK FALSE
