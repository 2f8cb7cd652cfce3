CONSTANTS
    ServerChunk = 2
    ClientChunk = 3
    Buffers <- MCBuffers
    Lines <- MCLines
    MaxLines = 2
    MaxOutput = 2
    OtherUpload <- MCOtherUpload
SPECIFICATION FairSpec
CHECK_DEADLOCK FALSE
INVARIANTS
    StuckOnlyByUploadOrFullRead
    UploadIntact
    NoAnswerToUpload
PROPERTIES
    EveryWaitEnds
