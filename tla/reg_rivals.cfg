\* Two connections, one perhaps through a gateway, a full class and bans.
SPECIFICATION Spec
CONSTANTS
    c1 = c1  c2 = c2  n1 = n1  n2 = n2  home = home  gate = gate
    homeName = homeName  gateName = gateName
    None = None
    Conn = {c1, c2}
    Nick = {n1, n2}
    IP = {home, gate}
    Name = {homeName, gateName}
    NameOf <- Names
    From <- Origin
    ClassSeq <- MembersAndGuests
    ClassRequired = FALSE
    ConnectPolicies = {"none", "ban"}
    Gates <- NoGates
    Whitelisted = {}
    RandomNick = {n2}
    AntirandomLine = TRUE
    Gateway = {gate}
    Local = {gate}
    XLines <- Bans
    DnsblActions = {}
    ResolveHosts = TRUE
    UseIdent = FALSE
    RequireIdent = FALSE
    WaitPong = FALSE
    KillOnBadReply = TRUE
    RlineOnNickChange = FALSE
    HashIdent = FALSE
    Services = FALSE
    ChgIdents = TRUE
    MaxUnregistered = 1
    Floodwater = 1
    RegTimeout = 1
    FloodTimeout = 1
    PingAfter = 1
    PingTimeout = 0
    MaxDeferred = 1
    MaxLookups = 1
    MaxIdents = 1
    MaxCrypto = 1
    Commands <- Claims
    MaxLines = 3
    MaxOper = 1
INVARIANTS TablesExact ClassLimits BansHonoured
