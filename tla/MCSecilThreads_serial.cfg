SPECIFICATION Spec
CONSTANTS
    short = short
    long = long
    huge = huge
    echo = echo
    ack = ack
    app = app
    probe = probe
    handshake = handshake
    NoMessage = NoMessage
    Message <- AllMessages
    Size <- AllSizes
    Limit = 2
    Room = 3
    Inbound <- AllFrames
    Answer <- Answers
    Senders <- BothThreads
    Serial = TRUE
    Lives = 2
    Calls = 3
PROPERTIES
    OutboxSpec
CHECK_DEADLOCK FALSE
