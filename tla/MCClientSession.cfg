\* The server may close connections, be silent, or talk; connects may fail.
SPECIFICATION FairSpec
CONSTANTS
    MaxConnects = 3
    MaxPending = 2
    ServerCloses = TRUE
INVARIANTS ReadsOpenSocket ConnectedIsRead Released DiesOnlyOfPeer SessionInv
PROPERTIES LossNoticed DisconnectReturns
CHECK_DEADLOCK FALSE
