\* Every operation, two users, two requests at once, under fairness.
SPECIFICATION FairSpec
CONSTANTS
    User = {u1, u2}
    Code = {c1}
    Token = {t1, t2}
    Req = {r1, r2}
    None = None
    MaxTime = 1
    CodeTTL = 1
    TokenTTL = 1
    Ops <- AllOps
INVARIANTS
    TypeOK
    DeliveredTokensWereStored
    NoOrphanRows
PROPERTIES
    VerificationSpendsOwnCode
    SessionsAreChains
    RequestsReturn
