SPECIFICATION FairSpec
CONSTANTS
    Msg = {m1, m2}
    Worker = {w1, w2}
    Configs <- SomeConfigs
    MaxRestarts = 1
INVARIANTS
    TypeOK
    AckedMeansHandled
    FetchAsksForSome
PROPERTIES
    ShutdownCompletes
CHECK_DEADLOCK FALSE
