SPECIFICATION FairSpec
CONSTANTS
    i1 = i1  a1 = a1  w1 = w1  w2 = w2  r1 = r1  r2 = r2
    Instances = {i1}
    AdminInstances = {}
    Addressed = {i1}
    Workers = {w1}
    Requests = {r1}
    OpenstackOpts <- CompletedOpts
    Settings <- FixedSettings
    FirstSetting <- OneDayGrace
    Extension = 2
    MaxTime = 3
    MaxExpiry = 5
PROPERTIES UnansweredIsDeleted ExpiredIsWarned
CHECK_DEADLOCK FALSE
