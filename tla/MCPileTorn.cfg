CONSTANTS
    h1 = h1
    h2 = h2
    p1 = p1
    small = small
    large = large
    fixed = fixed
    Handles = {h1, h2}
    Bounded = {}
    PileBlobs = {small, large}
    Fixed = {fixed}
    Large = {large}
    Size <- MCSize
    PileUses <- MCTornUses
SPECIFICATION PileSpec
INVARIANTS
    AckedIsReadable
