SPECIFICATION Spec
CONSTANTS
    i1 = i1  a1 = a1  w1 = w1  w2 = w2  r1 = r1  r2 = r2
    Instances = {i1, a1}
    AdminInstances = {a1}
    Addressed = {i1, a1}
    Workers = {w1, w2}
    Requests = {r1}
    OpenstackOpts <- CompletedOpts
    Settings <- GraceChanges
    FirstSetting <- OneDayGrace
    Extension = 2
    MaxTime = 2
    MaxExpiry = 3
SYMMETRY Symmetry
INVARIANTS TypeOK WarnedBeforeReaped ExtensionHonoured NoSecondWarning AdminExempt ClosedIsGone
PROPERTY RecordContract
CHECK_DEADLOCK FALSE
