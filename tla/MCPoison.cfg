SPECIFICATION FairSpec
CONSTANTS
    create = create
    delete = delete
    recovery = recovery
    a = a
    b = b
    m = m
    w1 = w1
    w2 = w2
    None = None
    Event = {a, b}
    Topic = {recovery}
    Worker = {w1}
    Commands <- TwoCommands
    Subscribes <- RecoverySubscribes
    Outcomes <- PoisonOutcomes
    Malformed = {}
    MaxAttempts = 2
    MaxLog = 2
    MaxStops = 0
PROPERTIES
    GoodCommandsAreApplied
CHECK_DEADLOCK FALSE
