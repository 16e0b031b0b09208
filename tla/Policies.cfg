SPECIFICATION RequestSpec
CONSTANTS
    Users <- MCUsers
    AdminRoles = {"admin", "system_admin"}
    EnforceNew = "True"
    Asked <- MCAsked
    Objects <- MCObjects
INVARIANTS
    ShownIsGranted
    GrantedIsShown
    OthersAreClosed
    WriterMayRead
    RolesOnlyAdd
CHECK_DEADLOCK FALSE
