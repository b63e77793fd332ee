\* A gateway names its client's address while the class password is checked.
SPECIFICATION Spec
CONSTANTS
    c1 = c1  c2 = c2  n1 = n1  n2 = n2  home = home  gate = gate
    homeName = homeName  gateName = gateName
    None = None
    Conn = {c1, c2}
    Nick = {n1, n2}
    IP = {home, gate}
    Name = {homeName, gateName}
    NameOf <- Names
    From <- Origin
    ClassSeq <- OnePerAddress
    ClassRequired = FALSE
    ConnectPolicies = {"none"}
    Gates <- NoGates
    Whitelisted = {}
    RandomNick = {}
    AntirandomLine = TRUE
    Gateway = {gate}
    Local = {gate}
    XLines <- Bans
    DnsblActions = {}
    ResolveHosts = FALSE
    UseIdent = FALSE
    RequireIdent = FALSE
    WaitPong = FALSE
    KillOnBadReply = TRUE
    RlineOnNickChange = FALSE
    HashIdent = FALSE
    Services = FALSE
    ChgIdents = FALSE
    MaxUnregistered = 0
    Floodwater = 0
    RegTimeout = 1
    FloodTimeout = 1
    PingAfter = 1
    PingTimeout = 0
    MaxDeferred = 1
    MaxLookups = 1
    MaxIdents = 1
    MaxCrypto = 1
    Commands <- Claims
    MaxLines = 4
    MaxOper = 0
INVARIANT ClassLimits
