\* Three messages, cut into pieces in every way; the client's chunks have at most
\* eight bytes.
SPECIFICATION BothSpec
CONSTANTS
    HeaderSize = 4
    Base = 4
    Messages <- Bodies
    MaxMessages = 3
    BufferSize = 8
    Ends = {"server", "client"}
INVARIANTS NothingLeftBehind InStep NeverOverfull AbortsOnlyCut
PROPERTIES ServerImplementsChannel AllHandled
CHECK_DEADLOCK FALSE
