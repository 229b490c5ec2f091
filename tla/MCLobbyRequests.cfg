\* Two instances, see MCLobbyRequests.
SPECIFICATION CrewSpec
CONSTANTS
    Players = {p1, p2, p3}
    LobbyIds = {l1, l2}
    Capacities = {2, 3}
    Settings = {s1, s2}
    Removable = {p1, p2, p3}
    MaxRequests = 2
    Deliveries = {TRUE, FALSE}
    MaxRevision = 100
    None = None
SYMMETRY Symmetry
VIEW UpToRevisions
INVARIANTS
    TypeOK
    MembershipConsistent
    EventsTellLobby
    ViewIsCurrent
PROPERTIES
    ReadyForSettings
    ImplementsRules
