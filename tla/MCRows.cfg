\* The rows of a user, locked one by one by three transactions, under fairness.
SPECIFICATION RowFairSpec
CONSTANTS
    User = {u1}
    Code = {c1}
    Token = {t1, t2}
    Req = {r1, r2, r3}
    None = None
    MaxTime = 1
    CodeTTL = 1
    TokenTTL = 1
    Ops <- LockingOps
INVARIANTS
    WaitsEnd
PROPERTIES
    StatementsAreAtomic
    TransactionsEnd
CHECK_DEADLOCK FALSE
