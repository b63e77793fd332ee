\* Clients that join and leave, operators that add modes and bans, two links in turn.
SPECIFICATION Spec
CONSTANTS
    A = A  B = B  a1 = a1  b1 = b1  n = n  mod = mod  m1 = m1  hi = hi
    None = None
    Server = {A, B}
    Peering <- Pair
    User = {a1, b1}
    Home <- HomeOf
    Flag = {n, mod}
    Default = {n}
    Permanent = {}
    Mask = {m1}
    Text = {}
    Changes <- Additions
    Leavers = {a1, b1}
    Kickers = {}
    Autojoin = {}
    MaxTime = 1
    MaxCmds = 5
    MaxLinks = 2
INVARIANTS Converged NoEmptyChannel
CHECK_DEADLOCK FALSE
