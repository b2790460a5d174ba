SPECIFICATION FlowSpec
CONSTANTS
    Scenarios = {"flow"}
    MaxEdits = 1
    px = px
    py = py
    l1 = l1
    l2 = l2
    l3 = l3
    hk = hk
    us = us
    n1 = n1
    v1 = v1
    Watched = {w1, w2}
    Targets = {t1}
    Debounce = 2
    MaxCrashes = 1
    Reporters = {w1, w2}
    Addresses = {a1}
    Ttl = 1
    RecordEvery = 1
    Keep = 3
    MaxStreams = 2
    Reports = {"heartbeat", "online"}
    Versions = {k1, k2}
    Chunks = 2
    SendCap = 1
    EventCap = 1
    NoVersion = NoVersion
    MaxDials = 1
    MaxInbound = 1
    Feeds = {f1}
    Offers <- MCOffers
    MaxRows = 3
    Readers = {u1}
    Carriers = {n1}
    Editors = {e1}
    Direct = Direct
    Sets = {s1, s2}
    Presets <- MCPresets
    Lists = {l1, l2, l3}
    BaseOf <- MCBaseOf
    NoList = NoList
    Policies = {"DIRECT"}
    Regions = {hk, us}
    Handlers = {h1}
    Overlap = FALSE
    Absent = Absent
    Missing = Missing
    Profiles = {p1, p2}
    Machines = {n1}
    Hops = {"hop"}
    EntryOf <- MCEntryOf
    Vars = {v1, v2}
    Keys = {"k"}
    PlainNames = {"k.private"}
    Private <- MCPrivate
    Public <- MCPublic
    Global = Global
    Gone = Gone
    MoveIsEdit = TRUE
    Builds = {k1, k2}
    Platforms = {"linux"}
    CorePlatform = "linux"
    Fetchers = {c1, c2}
    Solo = TRUE
PROPERTIES
    StreamRecovers
CHECK_DEADLOCK FALSE
