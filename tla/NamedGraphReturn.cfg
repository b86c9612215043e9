SPECIFICATION Spec
CONSTANTS
    a = a
    b = b
    d = d
    Layers <- MCLayers
    Parent <- MCParent
    NoLayer = NoLayer
    NoLabel = NoLabel
    Backend = "directory"
    Clients = {c1, c2}
    Deletes = FALSE
    MaxVersion = 2
PROPERTY TrueMeansUpdated
