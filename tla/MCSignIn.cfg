SPECIFICATION Spec
CONSTANTS
    Hosts = {h1, h2}
    Joining = {j1, j2}
    NoRow = NoRow
    Deleted = Deleted
    MaxJoinTokens = 3
    MaxOutages = 2
    PromptHello = TRUE
    a1 = a1
    a2 = a2
    e1 = e1
    q1 = q1
    q2 = q2
    u1 = u1
    u2 = u2
    None = None
    NoValue = NoValue
    NoHeader = NoHeader
    EnvToken = EnvToken
    Parts = {"login", "admin", "portal", "limiter", "keys", "enrol"}
    Admins = {a1}
    Emails = {e1}
    Requests = {q1, q2}
    Passwords = {1}
    Enrolments <- MCEnrolments
    MaxTokens = 2
    MaxSessions = 1
    MaxFactors = 1
    FirstRole = "operator"
    NewRoles = {"operator"}
    Managers = {EnvToken}
    MaxChallengeAttempts = 2
    RecoveryCodeCount = 1
    TOTPSkew = 1
    Subscribers = {u1, u2}
    Addresses = {"m"}
    Calls = {q1, q2}
    MaxPtoken = 2
    PortalMode = "open"
    InviteCode = TRUE
    Routes = {"login", "claim"}
    Peers = {"proxy", "p1"}
    Trusted = {"proxy"}
    Limit <- MCLimit
    Window <- MCWindow
    MaxBuckets = 2
    MaxClock = 4
    SealedCells = {"credential", "scalar"}
    PublicCells = {"public"}
    ScalarCells = {"scalar"}
    Ciphers = {k1, k2, k3}
    NoKey = NoKey
SYMMETRY MCSymmetry
INVARIANTS
    RowsHaveOwners
    SpentOnce
    SecondFactorBound
    
    
    OneKeyReadsAll

    
CHECK_DEADLOCK FALSE
