SPECIFICATION FairChainSpec
CONSTANTS
    c1 = c1
    c2 = c2
    c3 = c3
    c4 = c4
    Chain <- Chain3
    Names = {c1, c2, c3, n1}
    Triples = {}
    Tasks = {t1, t2}
    None = None
    Empty = Empty
    Ops = {"get", "base", "child", "squash", "rollup", "rollup_upto", "imprecise_rollup_upto"}
    Crashes = TRUE
INVARIANT PathInv
PROPERTIES CallsReturn FailsOnlyOnEmptyRollup
