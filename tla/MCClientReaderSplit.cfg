\* The same, and the bytes of a header may be lost.
SPECIFICATION BothSpec
CONSTANTS
    HeaderSize = 4
    Base = 4
    Messages <- Bodies
    MaxMessages = 3
    BufferSize = 8
    Ends = {"client"}
PROPERTY ClientImplementsChannel
CHECK_DEADLOCK FALSE
