SPECIFICATION HeldSpec
CONSTANTS
    Clients = {c1, c2}
    Channels = {chA}
    Handles = {h1, h2}
    VideoChannels = {}
    Modifiers = {shift}
    PlainKeys = {k}
    Nil = Nil
    Absent = Absent
    NoHandle = NoHandle
    NoOne = NoOne
    NoEdge = NoEdge
INVARIANTS
    NoModifierBleed
