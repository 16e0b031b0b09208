SPECIFICATION Spec
CONSTANTS
    r1 = r1  r2 = r2  r3 = r3  ann = ann  bob = bob
    Requests = {r1, r2, r3}
    Names = {ann, bob}
    Name <- TwoForAnn
    Configured = TRUE
    Faults <- AllFaults
INVARIANTS TypeOK SuccessIsComplete FailureLeavesNothing SignupsExclude
CHECK_DEADLOCK FALSE
