\* Two servers, one client each, one netsplit, distinct people.
SPECIFICATION Spec
CONSTANTS
    A = A  B = B  C = C  a1 = a1  b1 = b1  c1 = c1  x = x  y = y
    None = None
    Server = {A, B}
    User = {a1, b1}
    Name = {x, y}
    Killer = {a1}
    Peering <- Pair
    Home <- HomePair
    Person <- Strangers
    MaxTime = 2
    MaxCmds = 2
    MaxLinks = 2
    Straddle = FALSE
SYMMETRY NamesAlike
INVARIANTS TypeOK NickTablesAgree NoRoutingGhost DirectoryConverges OneOwner NoStaleNick
CHECK_DEADLOCK FALSE
