\* A TLS client whose class has a softsendq.
SPECIFICATION Spec
CONSTANTS
    c1 = c1
    Conn = {c1}
    Reactor = Reactor
    Scripts <- TlsScripts
    Chunk = 2
    MaxReadPerTurn = 2
    ProxyMax = 2
    WsMax = 2
    Defaults <- Small
    ClassLimits <- AllTight
    SessionMax = 1
    CoreQueue = 1
    Rustls = TRUE
    NetMax = 3
    WireMax = 1
    MaxOut = 2
CHECK_DEADLOCK FALSE
PROPERTY NoLineStalls
