\* b comes with two connections, of which one may close and leave the other its descriptor;
\* the server may die once.
SPECIFICATION Spec
CONSTANTS
    NumWorkers = 2
    f1 = f1
    f2 = f2
    f3 = f3
    Fds = {f1, f2, f3}
    NoFd = NoFd
    c1 = c1
    c2 = c2
    c3 = c3
    Conns = {c1, c2, c3}
    NoConn = NoConn
    FdsFor <- ReturnFd
    Closers = {c2}
    Msgs <- Message
    PipeCap = 1
    MaxCrashes = 1
    a = a
    b = b
    Users = {a, b}
    NoUser = NoUser
    p1 = p1
    p2 = p2
    Passwords = {p1, p2}
    NoPw = NoPw
    Registered <- Everyone
    Requests <- AskReturn
    MaxSent = 2
    Faults = {}
INVARIANTS AuthInv SessionOfHolder AddressedToHolder HandlerInv RowsLeadToSessions 
CHECK_DEADLOCK FALSE
