SPECIFICATION Spec
CONSTANTS
    Chunk = {c1, c2, c3, c4, c5}
    NULL = NULL
    Bin = Bin
    SizeBits = 5
    TreeBinShift = 2
    NTreeBins = 4
    Sizes = {12, 16, 22, 26, 31}
SYMMETRY Interchangeable
INVARIANTS
    LinksMatch
    TrieOrdered
    LookupsFindBestFit
PROPERTY RefinesFifoBins
