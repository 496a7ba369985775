\* A room is taken off the list after it was emptied: a client may be in it by then.
SPECIFICATION Spec

CONSTANTS
    Clients = {A, B}
    NoClient = NoClient
    Evictors = {}
    GameNames = {R}
    Lobby = Lobby
    Objects = {L, o1, o2, o3}
    NoObject = NoObject
    LobbyRoom = L
    Nicks = {A, B}
    Unknown = Unknown
    Fold <- SameNick
    Asks <- OwnNick
    Commands = {"JOIN_ROOM"}
    Rejoin = FALSE
    Serial = FALSE

SYMMETRY Symmetric
VIEW View

INVARIANTS
    AbsentMeansNoRoom
