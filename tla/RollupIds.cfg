CONSTANTS
    BlockSize = 3
    VBits = 1
    Universe <- MCUniverse
    MaxLayers = 3
    MaxChanges <- MCChanges
    MixedMaps = TRUE
SPECIFICATION Spec
INVARIANT LayersReadBack
CHECK_DEADLOCK FALSE
