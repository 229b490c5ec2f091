SPECIFICATION FairSpec
CONSTANTS
    p1 = p1
    p2 = p2
    l1 = l1
    None = None
    Players = {p1, p2}
    Lobbies = {l1}
    Watchers = {p1}
    Retention = 2
    Window = 1
    ListSize = 2
    Posts <- SomePosts
    MaxSent = 3
    MaxRestarts = 1
INVARIANTS TypeOK ShownOnceInOrder ChatComplete RoomComplete
PROPERTY CatchesUp
CHECK_DEADLOCK FALSE
