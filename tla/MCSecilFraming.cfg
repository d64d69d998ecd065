SPECIFICATION Spec
CONSTANTS
    MessageSize = 8
    Crc <- Crc16
    Bodies <- TwoBodies
    Hiss <- SomeHiss
    FalseHeaders <- SomeFalseHeaders
    Flips <- SomeBytes
    Sends = 3
    Hisses = 1
    Faults = 1
INVARIANTS
    NoiseHarmless
    LossBounded
    NothingInvented
CHECK_DEADLOCK FALSE
