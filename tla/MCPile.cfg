CONSTANTS
    h1 = h1
    h2 = h2
    p1 = p1
    small = small
    large = large
    fixed = fixed
    Handles = {h1, h2, p1}
    Bounded = {p1}
    PileBlobs = {small, large}
    Fixed = {fixed}
    Large = {large}
    Size <- MCSize
    PileUses <- MCPileUses
SPECIFICATION PileSpec
INVARIANTS
    IndexIsReplay
    CompleteAppendsAreReadable
    InsertsStay
    CleanIsDurable
PROPERTIES
    AppliedBytesArePermanent
    FailuresAreReal
SYMMETRY MCSymmetry
