\* Three requests at once on the tokens of one user.
SPECIFICATION GrpcSpec
CONSTANTS
    User = {u1}
    Code = {c1}
    Token = {t1, t2, t3}
    Req = {r1, r2, r3}
    None = None
    MaxTime = 2
    CodeTTL = 1
    TokenTTL = 2
    Ops <- SessionOps
SYMMETRY Symm
INVARIANTS
    OneLiveTokenPerSession
    SignedOutSessionStaysOut
    RefusalIsFinal
    SessionsAreKept
PROPERTIES
    RotationExtendsUnexpiredSession
    SessionsAreChains
CHECK_DEADLOCK FALSE
