SPECIFICATION Spec
CONSTANTS
    None = None
    k1 = k1
    sess = sess
    w1 = w1
    w2 = w2
    q1 = q1
    q2 = q2
    Setups <- PoolSetups
    Keys <- MCKeys
    SessionKey = sess
    MaxN = 2
    MaxClock = 2
    MaxOps = 2
    MaxCrash = 1
    MaxFault = 0
    Queries = {q1, q2}
    QueueMax = 2
    Worker = {w1, w2}
    BumpEvery = 1
    ExpireEvery = 2
    SaveEvery = 3
    ExpireRules <- TwoRules
PROPERTY
    KeepsSnapshots
