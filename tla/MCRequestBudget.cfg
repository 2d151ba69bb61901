SPECIFICATION FairSpec
CONSTANTS
    c1 = c1
    c2 = c2
    Caller = {c1, c2}
    Process = {"p"}
    ProcessOf <- OneProcess
    Key = {k1, k2}
    Limit = 2
    Reserved = 1
    MaxRetries = 1
    Threshold = 2
    PoolSize = 2
    MaxExternal = 1
    None = None
INVARIANTS
    TypeOK
    WithinBudget
    NoDoubleCharge
    NoNeedlessFetch
PROPERTY AnsweredUnlessDrained
CHECK_DEADLOCK FALSE
