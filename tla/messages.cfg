\* Messages and presence on one server: three users, three nicks, two channels.
SPECIFICATION Spec
CONSTANTS
    None = None
    u1 = u1
    u2 = u2
    u3 = u3
    n1 = n1
    n2 = n2
    n3 = n3
    c1 = c1
    c2 = c2
    User = {u1, u2, u3}
    Nick = {n1, n2, n3}
    Chan = {c1, c2}
    Oper = {u1}
    LoggedIn = {u1}
    Secure = {u1}
    Echo = {u2}
    Playback = {u3}
    HistoryLimit = 2
    MaxAge = 2
    Replayed = 1
    MaxWatch = 2
    MaxAccept = 2
    MaxSilence = 1
    MaxLines = 2
    FloodMax = 1
    Window = 1
    Fakelag = FALSE
    SlowCount = 1
    FloodLines = 1
    Repeats = 1
    TargetDelay = 1
    TargetMax = 2
    FilterKills = TRUE
    MaxMsgs = 3
    MaxNow = 3
    MaxCount = 3
    MaxTimes = 3
    Setups <- MCSetups
INVARIANTS
    AcceptanceFollows
    WatchersKnow
    NoLateDisclosure
PROPERTY
    FlooderLeaves
CHECK_DEADLOCK FALSE
