CONSTANTS
    FixedSize = 2
    Base = 4
    Letters <- MCLetters
    Messages <- MCMessages
    Payloads <- MCPayloads
    Codecs = {"icomm", "packet", "len", "line"}
    MaxMessages = 2
    MaxAccidents = 1
SPECIFICATION
    Spec
INVARIANTS
    AcceptedWasSent
    PrintedReadsBack
    LittleIsLost
PROPERTIES
    EveryReadEnds
CHECK_DEADLOCK FALSE
