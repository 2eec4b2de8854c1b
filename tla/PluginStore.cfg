SPECIFICATION Spec
CONSTANTS
    p1 = p1
    p2 = p2
    t1 = t1
    t2 = t2
    t3 = t3
    None = None
    Plugins = {a}
    Revisions = {r1}
    Types = {ty}
    Keys = {k1, k2}
    Values = {v0, v1}
    Default = v0
    Threads = {t1, t2, t3}
    Processes = {p1, p2}
    ProcessOf <- MCProcessOf
    Broken <- MCBroken
    Offered <- MCOffered
    MaxCalls = 3
    MaxFaults = 1
    MaxCrashes = 1
INVARIANTS TypeOK PackagesWhole UnsavedNeverLive
PROPERTIES StoreSpec CallsReturn
CHECK_DEADLOCK FALSE
