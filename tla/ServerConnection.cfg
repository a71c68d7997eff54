\* Four requests, a buffer that holds three of them and grows for four replies;
\* the socket may once take a part of what is written.
CONSTANTS
    BufferSize = 18
    LengthBytes = 2
    NumRequests = 4
    FrameLen = 5
    ReplyLen = 5
    MaxPartial = 1
    StrayLens <- MCStrayLens
SPECIFICATION FairSpec
INVARIANTS TypeOK ExecutedInOrder NothingLeftBehind OutHoldsReplies
PROPERTY RequestAnswered
\* Everything sent and answered, or the client gone, leaves nothing to do.
CHECK_DEADLOCK FALSE
