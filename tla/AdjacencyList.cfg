\* Three-bit words and two-bit numbers, so that numbers straddle words and the
\* lists span several superblocks.  A finished list is not changed any more.
SPECIFICATION Spec
CONSTANTS
    Word = 3
    SBlock = 2
    None = None
    Width = 2
    MaxLeft = 4
    MaxRight = 3
INVARIANTS
    TypeOK
    BuilderInv
    LogArrayReadsBack
    RankAndSelect
    ListReadsBack
    WaveletReadsBack
CHECK_DEADLOCK FALSE
