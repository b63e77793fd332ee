\* One connection that every hold applies to.
SPECIFICATION Spec
CONSTANTS
    c1 = c1  c2 = c2  n1 = n1  n2 = n2  home = home  gate = gate
    homeName = homeName  gateName = gateName
    None = None
    Conn = {c1}
    Nick = {n1}
    IP = {home, gate}
    Name = {homeName, gateName}
    NameOf <- Names
    From <- Origin
    ClassSeq <- Members
    ClassRequired = FALSE
    ConnectPolicies = {"none"}
    Gates <- OneGate
    Whitelisted = {}
    RandomNick = {}
    AntirandomLine = FALSE
    Gateway = {}
    Local = {}
    XLines <- LoginLines
    DnsblActions = {"zline"}
    ResolveHosts = TRUE
    UseIdent = TRUE
    RequireIdent = TRUE
    WaitPong = TRUE
    KillOnBadReply = TRUE
    RlineOnNickChange = FALSE
    HashIdent = FALSE
    Services = TRUE
    ChgIdents = TRUE
    MaxUnregistered = 0
    Floodwater = 0
    RegTimeout = 1
    FloodTimeout = 1
    PingAfter = 1
    PingTimeout = 0
    MaxDeferred = 1
    MaxLookups = 1
    MaxIdents = 1
    MaxCrypto = 1
    Commands <- Answers
    MaxLines = 4
    MaxOper = 1
INVARIANT NobodyForgotten
PROPERTIES WelcomeEarned SilentIsReaped
