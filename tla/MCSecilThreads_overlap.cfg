SPECIFICATION Spec
CONSTANTS
    short = short
    long = long
    huge = huge
    echo = echo
    ack = ack
    app = app
    probe = probe
    handshake = handshake
    NoMessage = NoMessage
    Message <- AllMessages
    Size <- AllSizes
    Limit = 2
    Room = 3
    Inbound <- AllFrames
    Answer <- Answers
    Senders <- MainOnly
    Serial = FALSE
    Lives = 1
    Calls = 2
INVARIANTS
    NoMixture
CHECK_DEADLOCK FALSE
