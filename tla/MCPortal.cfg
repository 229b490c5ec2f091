\* Two invitations, three runs of the client, two versions of a response.
SPECIFICATION Spec
CONSTANTS
    Enrollments = {e1, e2}
    Keys = {k1, k2, k3}
    Versions = {v1, v2}
    None = None
SYMMETRY Symmetry
INVARIANTS
    AnsweredOnce
    ProfileFitsKey
    BundleFollowsState
PROPERTIES
    PublishedIsStable
CHECK_DEADLOCK FALSE
