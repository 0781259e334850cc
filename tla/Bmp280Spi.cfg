\* Two readers, one overlap, failing transfers; bursts and lists of commands
\* of different lengths.
CONSTANTS
    r1 = r1
    r2 = r2
    Readers = {r1, r2}
    TempBytes = 1
    TempDigits = 2
    PressureBytes = 2
    PressureDigits = 3
    BufferCells = 4
    SpiErrors = TRUE
    KeepsSelected = FALSE
    MaxOverlaps = 1
SPECIFICATION FairSpec
INVARIANTS
    TypeOK
    LoneReading
    LoneErrors
PROPERTY LoneCallReturns
\* A message that is cleared while it is sent locks the bus for good.
CHECK_DEADLOCK FALSE
