SPECIFICATION FairSpec
CONSTANTS
    t1 = t1  t2 = t2  g1 = g1  g2 = g2  b1 = b1
    Threads = {t1, t2}
    Good = {g1, g2}
    Bad = {b1}
    None = None
    MaxClock = 2
INVARIANT StaleOnlyAfterOverlap
PROPERTIES LastGoodHolds TakesEffect
