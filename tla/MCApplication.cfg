SPECIFICATION Spec
CONSTANTS
    Clients = {c1, c2}
    Channels = {chA, chB}
    Handles = {h1, h2}
    VideoChannels = {chA, chB}
    Nil = Nil
    Absent = Absent
    NoHandle = NoHandle
    NoOne = NoOne
SYMMETRY Symmetry
INVARIANTS
    TypeOK
    IndInv
    RefCounted
    FanoutConfined
    FanoutComplete
    SenderServed
    PumpIffUnattached
PROPERTIES
    NeverStoppedUnderWatcher
    ImplementsRegistry
