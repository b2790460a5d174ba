SPECIFICATION FleetSpec
CONSTANTS
    Scenarios = {"access", "rules", "profiles", "profiles overlap", "relays", "relays overlap",
                 "egress", "egress overlap", "exits"}
    Users = {u1, u2}
    Groups = {g1, g2}
    Profiles = {p1}
    Objects = {o1}
    Nodes = {n1}
    Rulesets = {r1}
    Requests = {q1, q2}
    NoGroup = NoGroup
    NoRules = NoRules
    ReachOf <- MCReachOf
    BindOverDeny = FALSE
    Hosts = {h1, h2}
    Bound = {h1, h2}
    e1 = e1
    Holders = {u3}
    Rules = {e1, e2}
    Dests = {d1}
    Exits = {x1}
    Calls = {c1, c2}
    NoHost = NoHost
    RefusedEdits = FALSE
SYMMETRY MCSymmetry

    
    
    
    
PROPERTIES
    ImplementsEntitlement
CHECK_DEADLOCK FALSE
