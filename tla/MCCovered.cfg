CONSTANTS
    root = root
    writer = writer
    host = host
    c1 = c1
    d1 = d1
    a1 = a1
    pol = pol
    cap = cap
    write = write
    n1 = n1
    n2 = n2
    Keys <- MCKeys
    Principals <- MCKeys
    Collections = {c1, d1, a1}
    Definitions = {pol, cap}
    Actions = {write}
    WRITE = write
    Invokes <- MCInvokes
    Delegates <- MCDelegates
    Proofs <- MCProofs
    Policies <- MCPolicies
    Kinds <- MCKinds
    Records <- MCRecords
    Host = host
    Uses <- MCUses
    MaxSnapshots = 2
SPECIFICATION Spec
INVARIANTS
    ParkedIsExact
    ReadsAreExact
