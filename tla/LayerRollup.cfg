SPECIFICATION ChainSpec
CONSTANTS
    c1 = c1
    c2 = c2
    c3 = c3
    c4 = c4
    Chain <- Chain3
    Names = {c1, c2, c3, n1, n2}
    Triples = {x}
    Tasks = {t1, t2}
    None = None
    Empty = Empty
    Ops = {"rollup", "rollup_upto"}
    Crashes = TRUE
SYMMETRY Symmetry
INVARIANTS LayersReadBack RollupsAreEquivalent
