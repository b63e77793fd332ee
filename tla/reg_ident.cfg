\* Whether a ban keeps its target out, when idents change.
SPECIFICATION Spec
CONSTANTS
    c1 = c1  c2 = c2  n1 = n1  n2 = n2  home = home  gate = gate
    homeName = homeName  gateName = gateName
    None = None
    Conn = {c1}
    Nick = {n1}
    IP = {home, gate}
    Name = {homeName, gateName}
    NameOf <- Names
    From <- Origin
    ClassSeq <- MembersOrNot
    ClassRequired = FALSE
    ConnectPolicies = {"none", "ban"}
    Gates <- NoGates
    Whitelisted = {}
    RandomNick = {}
    AntirandomLine = FALSE
    Gateway = {}
    Local = {gate}
    XLines <- IdentBans
    DnsblActions = {}
    ResolveHosts = TRUE
    UseIdent = TRUE
    RequireIdent = FALSE
    WaitPong = FALSE
    KillOnBadReply = TRUE
    RlineOnNickChange = FALSE
    HashIdent = FALSE
    Services = FALSE
    ChgIdents = TRUE
    MaxUnregistered = 0
    Floodwater = 0
    RegTimeout = 1
    FloodTimeout = 1
    PingAfter = 1
    PingTimeout = 0
    MaxDeferred = 1
    MaxLookups = 1
    MaxIdents = 1
    MaxCrypto = 1
    Commands <- Enters
    MaxLines = 3
    MaxOper = 3
INVARIANT BannedStayOut
