\* Two servers that dial each other, with right and wrong configuration files.
SPECIFICATION FairSpec
CONSTANTS
    A = A  B = B  C = C  ipA = ipA  ipB = ipB  red = red  blue = blue
    None = None
    Server = {A, B}
    Name = {A, B, C}
    Attended = {A, B}
    Ip = {ipA, ipB}
    Secret = {red, blue}
    Address <- Addresses
    Configs <- Files
    MaxConns = 2
    MaxFaults = 2
INVARIANTS ServersFollowLinks SharedSecret
PROPERTIES HandshakeEnds HalfOpenHeals
CHECK_DEADLOCK FALSE
