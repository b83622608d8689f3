\* The addressee logs in while the message is stored; nobody disconnects.
SPECIFICATION Spec
CONSTANTS
    NumWorkers = 2
    f1 = f1
    f2 = f2
    f3 = f3
    Fds = {f1, f2}
    NoFd = NoFd
    c1 = c1
    c2 = c2
    c3 = c3
    Conns = {c1, c2}
    NoConn = NoConn
    FdsFor <- OwnFd
    Closers = {}
    Msgs <- Message
    PipeCap = 4
    MaxCrashes = 0
    a = a
    b = b
    Users = {a, b}
    NoUser = NoUser
    p1 = p1
    p2 = p2
    Passwords = {p1, p2}
    NoPw = NoPw
    Registered <- Everyone
    Requests <- AskPrivate
    MaxSent = 3
    Faults = {}
INVARIANT AckedIsKept
CHECK_DEADLOCK FALSE
