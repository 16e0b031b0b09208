SPECIFICATION Spec
CONSTANTS
    own = own  shared = shared  lab = lab  guest = guest
    a1 = a1  a2 = a2  b1 = b1  x = x  y = y  old = old
    FloatingIPs = {own, shared}
    Owner <- MCOwner
    Visible <- MCVisible
    Ports = {1, 2}
    Servers = {a1, a2, b1}
    Project <- MCProject
    Net <- MCNet
    Limit = 2
    Requests = {1, 2, 3, 4, 5, 6, 7}
    Together <- MCTogether
    Asks <- MCAsks
    Initial <- MCInitial
    None = None
PROPERTIES LoneAddWithinLimit OthersRulesStay
CHECK_DEADLOCK FALSE
