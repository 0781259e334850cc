\* Two writers on an eight-line bus, next to ModuleInit and ModuleExit.
CONSTANTS
    w1 = w1
    w2 = w2
    Writers = {w1, w2}
    Loader = Loader
    Variants <- EightLines
    Texts <- SomeTexts
    BufferSize = 2
    Cells = 3
    CopyFaults = TRUE
    MaxOverlaps = 1
SPECIFICATION Spec
INVARIANTS
    TypeOK
    EnableParksLow
PROPERTIES
    DisplayShowsWrite
    SetupOnlyLostByOverlap
    ExitClears
SYMMETRY Symmetry
