SPECIFICATION FairSpec
CONSTANTS
    c1 = c1  c2 = c2  d1 = d1  d2 = d2  v1 = v1  n1 = n1  n2 = n2
    Creates = {c1, c2}
    Deletes = {d1, d2}
    Target <- Targets
    Name <- Names
    Volumed = {c2}
    DataVolumes = {v1}
    Ports = {"ssh", "web"}
    Forwards <- Additional
    Attempts = 2
    Scenarios <- CleanAndFaulty
INVARIANTS TypeOK OnlyLateRulesRemain ForwardsComplete RowsOnlyOvertaken
PROPERTIES AttachedNeverWiped VolumesGoWithServer ProvisioningEnds RemovalEnds
CHECK_DEADLOCK FALSE
