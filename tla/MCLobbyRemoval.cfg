\* A removed player, and another who keeps polling.
SPECIFICATION FairSpec
CONSTANTS
    Players = {p1, p2}
    LobbyIds = {l1}
    Capacities = {2}
    Settings = {s1}
    Removable = {p1}
    MaxRequests = 2
    Deliveries = {FALSE}
    MaxRevision = 3
    None = None
PROPERTIES
    AbandonedPlaceIsFreed
    RemovedPlayerLeaves
