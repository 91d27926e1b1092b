SPECIFICATION FairSpec
CONSTANTS
    create = create
    delete = delete
    recovery = recovery
    a = a
    b = b
    m = m
    w1 = w1
    w2 = w2
    None = None
    Event = {a, b}
    Topic = {create, delete}
    Worker = {w1}
    Commands <- SagaCommands
    Subscribes <- SagaSubscribes
    Outcomes <- OkOutcomes
    Malformed = {}
    MaxAttempts = 2
    MaxLog = 2
    MaxStops = 0
PROPERTIES
    EveryTopicIsConsumed
CHECK_DEADLOCK FALSE
