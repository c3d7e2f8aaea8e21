SPECIFICATION ConversionSpec
CONSTANTS
    KiroMarkers <- MCMarkers
    TextChunks <- MCChunks
    MaxText = 7
    Base = 16
    Checksum <- MCChecksum
    MaxFrameSize = 24
    Frames <- MCFrames
    MaxFrames = 2
    Bodies <- MCBodies
    MaxDepth = 8
    MaxNodes = 30
    MaxItems = 10
    Protocols = {"anthropic", "chat", "responses"}
    Tools <- MCTools
    Strays <- MCStrays
    MaxInputs = 5
    MaxCalls = 3
INVARIANTS
    FilterIsExact
    StreamIsDecoded
    AnswerIsDecoded
    RoundsAreWhole
    NothingIsLost
    CurrentRoundIsNative
PROPERTIES
    StoredIsKept
CHECK_DEADLOCK FALSE
