SPECIFICATION VideoFairSpec
CONSTANTS
    Clients = {c1, c2}
    Channels = {chA}
    Handles = {h1}
    VideoChannels = {chA}
    Nil = Nil
    Absent = Absent
    NoHandle = NoHandle
    NoOne = NoOne
PROPERTIES
    OutageEnds
    OperationsComplete
