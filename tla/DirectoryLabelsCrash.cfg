SPECIFICATION FairSpec
CONSTANTS
    Layers = {a}
    Tasks = {t1, t2}
    Inodes = {i1, i2}
    NoLayer = NoLayer
    NoLabel = NoLabel
    NoInode = NoInode
    Empty = Empty
    Unused = Unused
    Backend = "directory"
    MaxVersion = 2
    Crashes = TRUE
INVARIANT ConfirmedSurvives
PROPERTIES ConfirmedVersionsIncrease LocksAreReleased CallsReturn
