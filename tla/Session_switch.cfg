SPECIFICATION Spec
CONSTANTS
    q1 = q1  q2 = q2  home = home  lab = lab
    Calls = {q1}
    Projects = {home, lab}
    Expire = 5
    Renew = 2
    Flight = 1
    MaxTime = 8
INVARIANTS SwitchTakes
CHECK_DEADLOCK FALSE
