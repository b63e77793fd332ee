\* Services next to a, the servers a - b - c in a line, two clients.
SPECIFICATION Spec
CONSTANTS
    None = None
    s = s
    a = a
    b = b
    c = c
    u1 = u1
    u2 = u2
    k1 = k1
    r1 = r1
    e1 = e1
    h1 = h1
    f1 = f1
    Server = {s, a, b, c}
    Services = {s}
    Link <- MCLink
    User = {u1, u2}
    Home <- MCHome
    Ban = {k1, r1, e1}
    Rline = {r1}
    Eline = {e1}
    Matches <- MCMatches
    Hold = {h1}
    Filter = {f1}
    MaxTime = 2
    MaxWire = 2
    Setups <- MCSetups
INVARIANTS
    CopiesAgree
    RulesReach
CHECK_DEADLOCK FALSE
