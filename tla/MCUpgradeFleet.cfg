SPECIFICATION FairSpec
CONSTANTS
    n1 = n1
    n2 = n2
    n3 = n3
    k1 = k1
    k2 = k2
    None = None
    Budget <- MCBudget
    Nodes = {n1, n2, n3}
    Kernels = {k1}
    OneOffActivates = {TRUE}
    MaxUpgrades = 1
    QueueCap = 2
    FaultsInAll = 1
    OneOffs = 0
    Retries = 0
    FetchFailures = 1
    Breaks = 0
    AgentDeaths = 0
    CoreRestarts = 0
INVARIANTS
    DoneMeansRan
    FailureBlocks
PROPERTIES
    EventuallyDecided
CHECK_DEADLOCK FALSE
