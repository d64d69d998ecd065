SPECIFICATION FrameSpec
CONSTANTS
    HEADER_SIZE = 4
    FOOTER_SIZE = 4
    HEADROOM = 8
    Own = "own"
    Firmware <- Peers
    Samples <- Values
    Plain <- Typical
    Lasting <- Outlasting
    Bytes <- SampleBytes
    Feeds = 3
    Longest = 268
INVARIANTS
    SentIsAccepted
    Understood
    NothingMadeUp
    ProbesFit
    IsRemainder
    TwoErrorsDetected
CHECK_DEADLOCK FALSE
