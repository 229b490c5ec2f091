\* An approval that stops and is repeated.
SPECIFICATION AdminSpec
CONSTANTS
    Enrollments = {e1}
    Players = {p1}
    PlayerIds = {u1}
    Modes = {assured}
    Keys = {k1}
    None = None
    Admins = {a1}
    Commands = {"create", "approve"}
    Faults = {}
INVARIANT
    PublicationResumes
CHECK_DEADLOCK FALSE
