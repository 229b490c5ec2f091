\* Two players, one place for a lobby: the number of a lobby that closed.
SPECIFICATION FairSpec
CONSTANTS
    Players = {p1, p2}
    LobbyIds = {l1}
    Capacities = {2}
    Settings = {s1}
    Removable = {}
    MaxRequests = 1
    Deliveries = {TRUE, FALSE}
    MaxRevision = 3
    None = None
PROPERTIES
    ChangesWhatWasSeen
