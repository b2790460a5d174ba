SPECIFICATION Spec
CONSTANTS
    b1 = b1
    b2 = b2
    bad = bad
    s1 = s1
    s2 = s2
    NoBody = NoBody
    NoStream = NoStream
    Restored <- MCRestored
    FaultBudget <- MCFaultBudget
    Bodies = {b1, bad}
    PanelRejects = {}
    NodeRejects = {bad}
    Crashing = {}
    MaxVersions = 2
    HistoryDepth = 1
    Streams = {s1}
    QueueCap = 2
    Breaks = 0
    AgentDeaths = 0
    CoreRestarts = 0
    KernelDeaths = 0
    StartFailures = 0
    Restarts = 0
PROPERTIES
    PruningNeverStrands
CHECK_DEADLOCK FALSE
