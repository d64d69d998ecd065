SPECIFICATION FrameSpec
CONSTANTS
    HEADER_SIZE = 4
    FOOTER_SIZE = 4
    HEADROOM = 8
    Own = "own"
    Firmware <- Peers
    Samples <- Values
    Plain <- Typical
    Lasting <- Outlasting
    Bytes <- SampleBytes
    Feeds = 0
    Longest = 0
INVARIANTS
    StringsFit
CHECK_DEADLOCK FALSE
