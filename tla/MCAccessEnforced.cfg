SPECIFICATION FairSpec
CONSTANTS
    n1 = n1
    n2 = n2
    u1 = u1
    u2 = u2
    o1 = o1
    o2 = o2
    Holds <- MCHolds
    Budget <- MCBudget
    Users = {u1, u2}
    Nodes = {n1}
    Renewing = {}
    Operators = {o1}
    MaxInFlight = 1
    QueueCap = 8
    Regrants = FALSE
    Updates = 1
    Deploys = 1
    Expiries = 0
    Uses = 1
    ApplyFailures = 0
    Refusals = 1
    Breaks = 1
    AgentRestartsMax = 1
    KernelRestartsMax = 1
    CoreRestarts = 0

    
PROPERTIES
    EventuallyEnforced
CHECK_DEADLOCK FALSE
