\* Three servers in a row, a client at each end, two reads of the clock per handler.
SPECIFICATION FairSpec
CONSTANTS
    A = A  B = B  C = C  a1 = a1  b1 = b1  c1 = c1  x = x  y = y
    None = None
    Server = {A, B, C}
    User = {a1, c1}
    Name = {x}
    Killer = {}
    Peering <- Hub
    Home <- HomeEnds
    Person <- Strangers
    MaxTime = 1
    MaxCmds = 1
    MaxLinks = 2
    Straddle = TRUE
PROPERTIES Introduced
CHECK_DEADLOCK FALSE
