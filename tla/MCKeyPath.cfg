SPECIFICATION KeyFairSpec
CONSTANTS
    Clients = {c1, c2}
    Channels = {chA}
    Handles = {h1, h2}
    VideoChannels = {}
    Modifiers = {shift}
    PlainKeys = {}
    Nil = Nil
    Absent = Absent
    NoHandle = NoHandle
    NoOne = NoOne
    NoEdge = NoEdge
INVARIANTS
    KeyTypeOK
    MaskExact
PROPERTIES
    EdgesReported
