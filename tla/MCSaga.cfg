SPECIFICATION SagaSpec
CONSTANTS
    create = create
    delete = delete
    recovery = recovery
    a = a
    b = b
    c = c
    d = d
    x = x
    y = y
    w1 = w1
    w2 = w2
    user = user
    None = None
    User = {user}
    Event = {a, b, c, d, x, y}
    Topic = {create, delete, recovery}
    Worker = {w1, w2}
    Commands <- CommandsOf
    Subscribes <- SubscribesTo
    Outcomes <- HandlerOutcomes
    UserOf <- AllAboutOne
    Operation <- Operations
    Payload <- Payloads
    RecoveryTopics = {recovery}
    Malformed = {}
    MaxAttempts = 2
    MaxLog = 3
    MaxStops = 1
INVARIANTS
    SuccessHasCode
    OneSuccessPerUser
    PassedOnlyAnswered
PROPERTIES
    ImplementsConsumer
CHECK_DEADLOCK FALSE
