SPECIFICATION Spec
CONSTANTS
    b1 = b1
    b2 = b2
    bad = bad
    s1 = s1
    s2 = s2
    NoBody = NoBody
    NoStream = NoStream
    Restored <- MCRestored
    FaultBudget <- MCFaultBudget
    Bodies = {b1, b2, bad}
    PanelRejects = {b2}
    NodeRejects = {}
    Crashing = {bad}
    MaxVersions = 3
    HistoryDepth = 2
    Streams = {s1, s2}
    QueueCap = 2
    Breaks = 1
    AgentDeaths = 1
    CoreRestarts = 1
    KernelDeaths = 0
    StartFailures = 1
    Restarts = 1
SYMMETRY MCSymmetry
INVARIANTS
    
    OpenSessionIsRegistered
    NewestFailureIsReal
    AppliedSurvives
PROPERTIES
    VersionNeverRegresses
ACTION_CONSTRAINT Confined
CHECK_DEADLOCK FALSE
