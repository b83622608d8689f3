\* The server comes up, runs and is stopped by an accept error; anything may fail to
\* start, and a socketpair holds three announcements.
SPECIFICATION FairSpec
CONSTANTS
    NumWorkers = 2
    Fds <- MCFds
    Bodies <- MCBodies
    ReadSize = 5
    PipeBytes = 6
    MaxNotes = 1
    Faults = {"server", "socketpair", "event_base", "bufferevent"}
INVARIANTS
    LifecycleInv
    PipeInOrder
    StopsOnlyAsked
PROPERTIES
    StopReturns
    AnnouncedServed
CHECK_DEADLOCK FALSE
