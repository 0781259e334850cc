\* One writer of lcd_j.c.
CONSTANTS
    w1 = w1
    w2 = w2
    Writers = {w1}
    Loader = Loader
    Variants <- TurnedOff
    Texts <- SomeTexts
    BufferSize = 2
    Cells = 3
    CopyFaults = FALSE
    MaxOverlaps = 0
SPECIFICATION Spec
PROPERTY DisplayShowsWrite
