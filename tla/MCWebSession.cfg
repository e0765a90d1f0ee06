SPECIFICATION SessionFairSpec
CONSTANTS
    chA = chA
    chB = chB
    Channels <- MCChannels
    NoChannel = NoChannel
    Absent = Absent
    MaxFailures = 1
    MaxActs = 4
INVARIANT SessionTypeOK
INVARIANT KeysFollowSelector
INVARIANT KeysOnceInOrder
PROPERTY Reconnects
PROPERTY SessionEnds
CHECK_DEADLOCK FALSE
