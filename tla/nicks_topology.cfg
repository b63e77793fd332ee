\* Three servers in a row, a client at each end: what the hub relays.
SPECIFICATION Spec
CONSTANTS
    A = A  B = B  C = C  a1 = a1  b1 = b1  c1 = c1  x = x  y = y
    None = None
    Server = {A, B, C}
    User = {a1, c1}
    Name = {x, y}
    Killer = {}
    Peering <- Hub
    Home <- HomeEnds
    Person <- Strangers
    MaxTime = 0
    MaxCmds = 1
    MaxLinks = 2
    Straddle = FALSE
SYMMETRY NamesAlike
INVARIANTS TopologyComplete
CHECK_DEADLOCK FALSE
