\* One reader, no errors, a controller that keeps the sensor selected after a
\* message whose last transfer has cs_change set.
CONSTANTS
    r1 = r1
    r2 = r2
    Readers = {r1}
    TempBytes = 1
    TempDigits = 2
    PressureBytes = 2
    PressureDigits = 3
    BufferCells = 4
    SpiErrors = FALSE
    KeepsSelected = TRUE
    MaxOverlaps = 0
SPECIFICATION Spec
INVARIANT LoneReading
CHECK_DEADLOCK FALSE
