\* What the administrator is told when a request is rejected.
SPECIFICATION Spec
CONSTANTS
    Enrollments = {e1}
    Players = {p1}
    PlayerIds = {u1}
    Modes = {assured}
    Keys = {k1}
    None = None
INVARIANT
    NothingWasSigned
