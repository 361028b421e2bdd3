CONSTANTS
    r1 = r1
    r2 = r2
    a = a
    b = b
    weak = weak
    c1 = c1
    c2 = c2
    pol = pol
    full = full
    leaf = leaf
    read = read
    write = write
    WRITE = write
    Keys <- MCKeys
    Principals <- MCPrincipals
    Collections <- MCCollections
    Definitions <- MCDefinitions
    Actions <- MCActions
    Invokes <- MCInvokes
    Delegates <- MCDelegates
    Proofs <- MCProofs
    Policies <- MCPolicies
    Callers = {1, 2}
    MaxConns = 3
    Cap = 1
    Uses <- MCUses
    ReconcileUses <- MCReconcileUses
SPECIFICATION DemandSpec
INVARIANTS
    CurrentIsTheKept
    OpenIsClosed
    OneDialAtATime
    DecisionIsExact
    HintsAreExact
PROPERTIES
    DiallingSettles
    PlanIsSound
    AttemptsContinue
    AdmissionIsStable
CHECK_DEADLOCK FALSE
