SPECIFICATION Spec
CONSTANTS
    a = a
    b = b
    d = d
    Layers <- MCLayers
    Parent <- MCParent
    NoLayer = NoLayer
    NoLabel = NoLabel
    Backend = "memory"
    Clients = {c1, c2}
    Deletes = FALSE
    MaxVersion = 3
PROPERTIES NoLostUpdate OptimisticUpdate HeadMovesForward
