\* A dials B at boot, nobody uses CONNECT, and one thing goes wrong.
SPECIFICATION FairSpec
CONSTANTS
    A = A  B = B  C = C  ipA = ipA  ipB = ipB  red = red  blue = blue
    None = None
    Server = {A, B}
    Name = {A, B, C}
    Attended = {}
    Ip = {ipA, ipB}
    Secret = {red, blue}
    Address <- Addresses
    Configs <- RightFiles
    MaxConns = 3
    MaxFaults = 1
PROPERTIES RelinksAfterSplit
CHECK_DEADLOCK FALSE
