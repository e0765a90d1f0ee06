SPECIFICATION PathFairSpec
CONSTANTS
    FeedPump = feed
    LatePump = late
    Pumps = {feed, late}
    Outputs <- MCOutputs
    Frames <- MCFrames
    MaxRequests = 2
INVARIANT PathTypeOK
INVARIANT NoSendAfterClose
INVARIANT NewestStreamServed
PROPERTY PictureExact
PROPERTY HandlersEnd
CHECK_DEADLOCK FALSE
