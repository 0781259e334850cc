SPECIFICATION BoardsSpec
CONSTANTS
    AthData = {d1}
    MaxQueue = 2
    NoSkb = NoSkb
    Base = 2
    Mask = 4
    Prefix = 1
    Limit = 2
    MaxPiece = 6
    Variants = {"hc05", "echo", "test"}
    MaxBytes = 5
    PortRoom = 2
    Greeting = 1
    Word = 524288
    Readers = {r1, r2}
    Buses = {"spi", "i2c"}
    MaxConversions = 2
    Clients = {c1, c2, c3}
    At0x10 = {c1, c2}
    ProcUsers = {u1, u2}
    NoClient = NoClient
    Processes = {p1, p2}
    Chars = {a}
    BufferBytes = 2
    MaxCount = 3
    LedUsers = {l1, l2}
    LcdWriters = {w1}
    Insmod = insmod
    BusErrors = TRUE
    TopBit = 1
    Hello <- MCHello
    LcdBuffer = 1
    LcdOverlaps = 1
    LcdInputs <- MCLcdInputs
INVARIANTS
    NothingStranded
    StpTypeOK
    HandsPayload
    NoByteLost
    GoodReading
    ErrorsStayPut
    FileIsServed
    ReadsWhatWasWritten
PROPERTIES
    AthQueuedLeaves
    AthChannelSpec
    LedAsReported
    EdgeIsClean
CHECK_DEADLOCK FALSE
