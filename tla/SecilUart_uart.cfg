SPECIFICATION FairSpec
CONSTANTS
    Readers = {"receiver", "menu"}
    Wants = {1, 3}
    Writes = {1, 2}
    Timeout = 2
    Hangups = TRUE
    Bytes = 4
    Calls = 3
INVARIANTS
    EachByteOnce
    Punctual
PROPERTIES
    Returns
CHECK_DEADLOCK FALSE
