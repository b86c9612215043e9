SPECIFICATION ChainSpec
CONSTANTS
    c1 = c1
    c2 = c2
    c3 = c3
    c4 = c4
    Chain <- Chain4
    Names = {c1, c2, c3, c4, n1, n2}
    Triples = {x}
    Tasks = {t1}
    None = None
    Empty = Empty
    Ops = {"rollup", "rollup_upto"}
    Crashes = FALSE
INVARIANT RollupsAreEquivalent
CHECK_DEADLOCK FALSE
