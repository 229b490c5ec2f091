\* An approval under way while its player is offboarded.
SPECIFICATION AdminSpec
CONSTANTS
    Enrollments = {e1}
    Players = {p1}
    PlayerIds = {u1}
    Modes = {assured}
    Keys = {k1}
    None = None
    Admins = {a1, a2}
    Commands = {"create", "approve", "offboard"}
    Faults = {}
INVARIANT
    OffboardedHasNoCompanion
CHECK_DEADLOCK FALSE
