\* Two linked servers, a client on each that joins and leaves.
SPECIFICATION Spec
CONSTANTS
    A = A  B = B  a1 = a1  b1 = b1  n = n  mod = mod  m1 = m1  hi = hi
    None = None
    Server = {A, B}
    Peering <- Pair
    User = {a1, b1}
    Home <- HomeOf
    Flag = {n}
    Default = {n}
    Permanent = {}
    Mask = {}
    Text = {}
    Changes <- NoChanges
    Leavers = {a1, b1}
    Kickers = {}
    Autojoin = {}
    MaxTime = 1
    MaxCmds = 4
    MaxLinks = 1
INVARIANTS ChurnConverges
CHECK_DEADLOCK FALSE
