SPECIFICATION VideoSpec
CONSTANTS
    Clients = {c1, c2}
    Channels = {chA}
    Handles = {h1, h2}
    VideoChannels = {chA}
    Nil = Nil
    Absent = Absent
    NoHandle = NoHandle
    NoOne = NoOne
SYMMETRY Symmetry
INVARIANTS
    OneFeed
    OnlyMembersReached
