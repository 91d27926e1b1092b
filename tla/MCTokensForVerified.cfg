SPECIFICATION Spec
CONSTANTS
    User = {u1}
    Code = {c1}
    Token = {t1, t2}
    Req = {r1, r2}
    None = None
    MaxTime = 1
    CodeTTL = 1
    TokenTTL = 2
    Ops <- AllOps
PROPERTIES
    TokensForVerifiedOnly
