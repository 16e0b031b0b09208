SPECIFICATION MCSpec
CONSTANTS
    home = home  other = other  s1 = s1  s2 = s2  v1 = v1  v2 = v2  v3 = v3
    x1 = x1  x2 = x2  x3 = x3  o1 = o1  o2 = o2  n1 = n1  n2 = n2
    web = web  lab = lab
    Projects = {home, other}
    Home = home
    Servers = {s1, s2}
    Volumes = {v1, v2, v3}
    Snapshots = {x1, x2, x3}
    Ports = {o1, o2}
    Networks = {n1, n2}
    Names = {web, lab}
    STEP = 2
INVARIANTS OwnProjectOnly AsAsked NamesResolved
CHECK_DEADLOCK FALSE
