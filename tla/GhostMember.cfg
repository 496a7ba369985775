\* An eviction clears CurrentRoom after its session has moved on.
SPECIFICATION Spec

CONSTANTS
    Clients = {A, B}
    NoClient = NoClient
    Evictors = {e}
    GameNames = {R}
    Lobby = Lobby
    Objects = {L, o1, o2, o3}
    NoObject = NoObject
    LobbyRoom = L
    Nicks = {A, B}
    Unknown = Unknown
    Fold <- SameNick
    Asks <- OwnNick
    Commands = {"JOIN_ROOM"}
    Rejoin = FALSE
    Serial = FALSE

SYMMETRY Symmetric
VIEW View

INVARIANTS
    ClosedIsNowhere
