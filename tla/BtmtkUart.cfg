SPECIFICATION BtSpec
CONSTANTS
    Data = {d1}
    FrameLen = 2
    Room = 1
    MaxPieces = 0
    MaxAnswers = 1
    NoFrame = NoFrame
INVARIANTS
    BtTypeOK
    PowerBalanced
    LateWorkOnly
PROPERTIES
    ChannelSpec
    SetupIsAnswered
    NoFrameStranded
    QueuedIsSent
    PowerReturns
CHECK_DEADLOCK FALSE
