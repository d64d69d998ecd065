SPECIFICATION FairSpec
CONSTANTS
    Readers = {"receiver"}
    Wants = {1, 3}
    Writes = {1, 2}
    Timeout = 2
    Hangups = TRUE
    Bytes = 4
    Calls = 3
PROPERTIES
    TimesOut
CHECK_DEADLOCK FALSE
