CONSTANTS
    BlockSize = 3
    VBits = 1
    Universe <- MCUniverse
    MaxLayers = 3
    MaxChanges <- MCChanges
    MixedMaps = FALSE
SPECIFICATION Spec
INVARIANTS
    TypeOK
    NoPanic
    DictionariesReadBack
    IdsAreStable
    QueriesAgree
    ChangesReadBack
    LayersReadBack
CHECK_DEADLOCK FALSE
