\* Kicks, any mode change and topics on both servers, autojoin on one, two links in turn.
SPECIFICATION Spec
CONSTANTS
    A = A  B = B  a1 = a1  b1 = b1  n = n  mod = mod  m1 = m1  hi = hi
    None = None
    Server = {A, B}
    Peering <- Pair
    User = {a1, b1}
    Home <- HomeOf
    Flag = {n, mod}
    Default = {n}
    Permanent = {mod}
    Mask = {}
    Text = {hi}
    Changes <- Anything
    Leavers = {a1}
    Kickers = {b1}
    Autojoin = {b1}
    MaxTime = 1
    MaxCmds = 4
    MaxLinks = 2
INVARIANTS MembersHaveRecords NoMissingMember
PROPERTIES AgeNeverRises
CHECK_DEADLOCK FALSE
