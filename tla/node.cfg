SPECIFICATION Spec
CONSTANTS
    a = a
    b = b
    watcher = watcher
    Procs = {a, b, watcher}
    NoProc = NoProc
    Nodes = {a, b}
    Observers = {watcher}
    Names = {"/t", "/registry"}
    RegistryName = "/registry"
    NameOf <- TopicName
    Blank = Blank
    Sweeps = 1
    Plans <- Scenarios
    WordMax = 255
    CacheLine = 4
    HeaderSize = 8
    RingSize = 8
    EntrySize = 2
    SlotSize = 2
    MaxSubscribers = 7
    MaxPool = 60
    MaxPayload = 63
    MaxBlob = 100
    MaxName = 20
CHECK_DEADLOCK FALSE
INVARIANT TypeOK
INVARIANT CallGetsItsRegion
INVARIANT JoinersMeet
INVARIANT SchemaIsWhole
INVARIANT WritersAreAlone
INVARIANT SnapshotIsCoherent
INVARIANT SlotIsMine
