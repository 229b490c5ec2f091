\* One player, two security modes, two keys, two enrolments, and a second
\* player id under which a retired player can come back.
SPECIFICATION Spec
CONSTANTS
    Enrollments = {e1, e2}
    Players = {p1}
    PlayerIds = {u1, u2}
    Modes = {compatible, assured}
    Keys = {k1, k2}
    None = None
SYMMETRY Symmetry
INVARIANTS
    OneModePerPlayer
    KeyUsedOnce
    CertifiedKey
    StablePlayerId
    AcceptedOnlyWhileLive
    CollectedWasActivated
PROPERTIES
    ImplementsLifecycle
