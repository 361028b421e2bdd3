CONSTANTS
    nodeA = nodeA
    nodeB = nodeB
    nodeC = nodeC
    nodeD = nodeD
    nodeE = nodeE
    Signers = {s1}
    Locators = {l1}
    Nodes <- MCNodes
    Foundable <- MCFoundable
    Joins <- MCJoins
    Maps <- MCMaps
    Keys = {1, 2, 3}
    MaxRequests = 1
    MaxUnlanded = 2
    Headroom = 1
    Credit = 1
    Budget = 2
    Uses <- MCUses
    ExchangeUses <- MCExchangeUses
SPECIFICATION ReplicationSpec
INVARIANTS
    RowsAreDenotation
    BlockedIsExact
    FrontierIsExact
    NothingInjected
    ReceiptsAreKept
    PeersBehave
PROPERTIES
    RowsOnlyGrow
    WorklistDrains
    BothWaysEnd
    Replicates
CHECK_DEADLOCK FALSE
