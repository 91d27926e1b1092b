SPECIFICATION Spec
CONSTANTS
    create = create
    delete = delete
    recovery = recovery
    a = a
    b = b
    m = m
    w1 = w1
    w2 = w2
    None = None
    Event = {a, b, m}
    Topic = {create}
    Worker = {w1, w2}
    Commands <- SharedCommands
    Subscribes <- OneSubscribes
    Outcomes <- SharedOutcomes
    Malformed = {m}
    MaxAttempts = 2
    MaxLog = 6
    MaxStops = 2
INVARIANTS
    TypeOK
    HandledAtMostOnce
    ClaimsExclude
    PassedOnlyWithOutcome
    DeadLetteredAfterLastAttempt
CHECK_DEADLOCK FALSE
