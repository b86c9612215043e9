SPECIFICATION MonitorSpec
CONSTANTS
    Layers = {a}
    Tasks = {t1, t2, t3}
    Inodes = {i1, i2}
    NoLayer = NoLayer
    NoLabel = NoLabel
    NoInode = NoInode
    Empty = Empty
    Unused = Unused
    Backend = "directory"
    MaxVersion = 1
    Crashes = FALSE
SYMMETRY Symmetry
INVARIANTS TypeOK EmptyOnlyWhileCreating Linearizable
PROPERTY ImplementsLabelStore
