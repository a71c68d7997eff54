\* Two requests, the second may be cut inside its length.
CONSTANTS
    BufferSize = 18
    LengthBytes = 2
    NumRequests = 2
    FrameLen = 5
    ReplyLen = 3
    MaxPartial = 0
    StrayLens <- MCStrayLens
SPECIFICATION FairSpec
PROPERTY DecodeEnds
\* Everything sent and answered, or the client gone, leaves nothing to do.
CHECK_DEADLOCK FALSE
