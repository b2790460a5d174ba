SPECIFICATION Spec
CONSTANTS
    n1 = n1
    n2 = n2
    n3 = n3
    k1 = k1
    k2 = k2
    None = None
    Budget <- MCBudget
    Nodes = {n1, n2}
    Kernels = {k1}
    OneOffActivates = {FALSE}
    MaxUpgrades = 1
    QueueCap = 1
    FaultsInAll = 1
    OneOffs = 1
    Retries = 1
    FetchFailures = 0
    Breaks = 1
    AgentDeaths = 1
    CoreRestarts = 1
SYMMETRY MCSymmetry
INVARIANTS
    CanaryProvesFirst
PROPERTIES
    OneAlertPerBlock
CHECK_DEADLOCK FALSE
