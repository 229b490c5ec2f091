SPECIFICATION CommandsSpec
CONSTANTS
    Enrollments = {e1, e2}
    Players = {p1}
    PlayerIds = {u1}
    Modes = {assured}
    Keys = {k1, k2}
    None = None
    Admins = {a1, a2}
    Commands = {"create", "approve", "reject", "revoke", "confirm", "offboard"}
    Faults = {"interrupt", "crash", "expire"}
SYMMETRY Symmetry
INVARIANTS
    AdminTypeOK
    RevokedIsCutOff
    RejectedIsCancelled
    SessionsAreConfirmed
    OffboardLeavesNothing
CHECK_DEADLOCK FALSE
