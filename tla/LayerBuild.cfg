SPECIFICATION PackSpec
CONSTANTS
    c1 = c1
    c2 = c2
    c3 = c3
    c4 = c4
    Chain <- NoChain
    Names = {n1, n2, n3}
    Triples = {x}
    Tasks = {t1, t2}
    None = None
    Empty = Empty
    Ops = {"get", "base", "child", "squash", "rollup", "rollup_upto"}
    Crashes = TRUE
SYMMETRY Symmetry
INVARIANTS TypeOK LayersReadBack ContentInv PackedLayersReadBack PackInv
PROPERTIES CompleteLayersNeverChange ImportKeepsLayers
