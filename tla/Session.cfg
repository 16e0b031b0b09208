SPECIFICATION Spec
CONSTANTS
    q1 = q1  q2 = q2  home = home  lab = lab
    Calls = {q1, q2}
    Projects = {home}
    Expire = 4
    Renew = 1
    Flight = 1
    MaxTime = 6
INVARIANTS ShownIsReal KeptAlive
SYMMETRY Alike
CHECK_DEADLOCK FALSE
