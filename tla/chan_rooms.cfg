\* One server's channels: three users, three channels.
SPECIFICATION Spec
CONSTANTS
    None = None
    u1 = u1
    u2 = u2
    u3 = u3
    c1 = c1
    c2 = c2
    c3 = c3
    User = {u1, u2, u3}
    Chan = {c1, c2, c3}
    Secure = {u1, u2}
    E2E = {u1, u2}
    LoggedIn = {u1, u2}
    CanOper = {u3}
    CanOverride = {u3}
    Protected = {}
    RenameCap = {u1}
    HideMode = {}
    OperPrefix = TRUE
    RankToSet <- MCRanks
    RankToUnset <- MCRanks
    NoDepriv = {}
    Cban = {}
    BadChan = {c3}
    BadTo <- MCBadTo
    RestrictCreate = {}
    BadName = {}
    FullTo <- MCFullTo
    Limit = 1
    MaxBans = 1
    MaxInvites = 1
    MaxModes = 2
    MaxChans = 2
    MaxRedir = 1
    FloodLines = 1
    FloodBans = TRUE
    JoinCount = 1
    Setups <- MCSetups
INVARIANTS
    ClientsFollow
    LinksFollow
    SecureRooms
PROPERTY
    RankDiscipline
CHECK_DEADLOCK FALSE
