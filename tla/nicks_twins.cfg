\* The same person on both servers, links after the nicks were changed.
SPECIFICATION Spec
CONSTANTS
    A = A  B = B  C = C  a1 = a1  b1 = b1  c1 = c1  x = x  y = y
    None = None
    Server = {A, B}
    User = {a1, b1}
    Name = {x, y}
    Killer = {}
    Peering <- Pair
    Home <- HomePair
    Person <- Twins
    MaxTime = 2
    MaxCmds = 2
    MaxLinks = 1
    Straddle = FALSE
SYMMETRY NamesAlike
INVARIANTS OneOwner
CHECK_DEADLOCK FALSE
