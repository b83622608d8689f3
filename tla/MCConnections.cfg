\* Three connections share two descriptors: reuse, closes, one crash, and
\* socketpairs that hold two notifications.
SPECIFICATION FairLoopSpec
CONSTANTS
    NumWorkers = 2
    f1 = f1
    f2 = f2
    Fds = {f1, f2}
    NoFd = NoFd
    c1 = c1
    c2 = c2
    c3 = c3
    Conns = {c1, c2, c3}
    NoConn = NoConn
    FdsFor <- AnyFd
    Closers = {c1, c2, c3}
    Msgs = {m1}
    PipeCap = 2
    MaxCrashes = 1
INVARIANTS Ownership Routing ConnInv
PROPERTY AcceptedIsServed
CHECK_DEADLOCK FALSE
