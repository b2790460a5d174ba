SPECIFICATION FairSpec
CONSTANTS
    b1 = b1
    b2 = b2
    bad = bad
    s1 = s1
    s2 = s2
    NoBody = NoBody
    NoStream = NoStream
    Restored <- MCRestored
    FaultBudget <- MCFaultBudget
    Bodies = {b1, bad}
    PanelRejects = {}
    NodeRejects = {bad}
    Crashing = {}
    MaxVersions = 2
    HistoryDepth = 2
    Streams = {s1}
    QueueCap = 1
    Breaks = 1
    AgentDeaths = 1
    CoreRestarts = 1
    KernelDeaths = 0
    StartFailures = 0
    Restarts = 0
PROPERTIES
    EventuallyConverged
CHECK_DEADLOCK FALSE
