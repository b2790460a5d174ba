SPECIFICATION Spec
CONSTANTS
    n1 = n1
    n2 = n2
    u1 = u1
    u2 = u2
    o1 = o1
    o2 = o2
    Holds <- MCHolds
    Budget <- MCBudget
    Users = {u1}
    Nodes = {n1}
    Renewing = {u1}
    Operators = {o1}
    MaxInFlight = 2
    QueueCap = 2
    Regrants = TRUE
    Updates = 1
    Deploys = 0
    Expiries = 1
    Uses = 0
    ApplyFailures = 1
    Refusals = 0
    Breaks = 1
    AgentRestartsMax = 1
    KernelRestartsMax = 0
    CoreRestarts = 1
INVARIANTS
    CurrentIsStored
CHECK_DEADLOCK FALSE
