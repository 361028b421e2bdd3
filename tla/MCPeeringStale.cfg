CONSTANTS
    x = x
    y = y
    d = d
    Nodes = {x, y}
    Definitions = {d}
    Links = {1, 2}
    QueueLimit = 2
    Proofs <- MCProofs
    Uses <- MCUses
SPECIFICATION Spec
INVARIANT
    FlagsFollowAdmission
