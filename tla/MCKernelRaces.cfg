SPECIFICATION Spec
CONSTANTS
    k1 = k1
    k2 = k2
    c1 = c1
    c2 = c2
    Image = Image
    None = None
    NoConfig = NoConfig
    FaultBudget <- MCFaultBudget
    Kernels = {k1, k2}
    Configs = {c1, c2}
    NoStart = {}
    Dies = {k2}
    NoTraffic = {}
    Rejected = {c2}
    Crashes = {}
    FaultsInAll = 2
    Installs = 2
    Applies = 2
    Restarts = 1
    Breaks = 1
    AgentDeaths = 1
    KernelDeaths = 1
    StartFailures = 1
    NetFailures = 1
INVARIANTS
    NoOrphanKernel
    DeathIsNoticed
    RunningIsInstalled
    
CHECK_DEADLOCK FALSE
