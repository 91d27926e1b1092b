SPECIFICATION Spec
CONSTANTS
    create = create
    delete = delete
    recovery = recovery
    a = a
    b = b
    m = m
    w1 = w1
    w2 = w2
    None = None
    Event = {a, b}
    Topic = {create}
    Worker = {w1}
    Commands <- TwoCommands
    Subscribes <- OneSubscribes
    Outcomes <- OkOutcomes
    Malformed = {}
    MaxAttempts = 2
    MaxLog = 2
    MaxStops = 1
INVARIANTS
    NoCommandIsDropped
CHECK_DEADLOCK FALSE
