\* A server whose clients are joined to the channel when they register.
SPECIFICATION Spec
CONSTANTS
    A = A  B = B  a1 = a1  b1 = b1  n = n  mod = mod  m1 = m1  hi = hi
    None = None
    Server = {A, B}
    Peering <- Pair
    User = {a1, b1}
    Home <- HomeOf
    Flag = {n}
    Default = {n}
    Permanent = {}
    Mask = {}
    Text = {}
    Changes <- NoChanges
    Leavers = {}
    Kickers = {}
    Autojoin = {a1}
    MaxTime = 1
    MaxCmds = 1
    MaxLinks = 1
INVARIANTS AutojoinShown
CHECK_DEADLOCK FALSE
