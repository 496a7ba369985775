\* Three clients that move, get ready and start games, one game room.
SPECIFICATION Spec

CONSTANTS
    Clients = {A, B, C}
    NoClient = NoClient
    Evictors = {}
    GameNames = {R}
    Lobby = Lobby
    Objects = {L, o1, o2, o3}
    NoObject = NoObject
    LobbyRoom = L
    Nicks = {A, B, C}
    Unknown = Unknown
    Fold <- SameNick
    Asks <- OwnNick
    Commands = {"JOIN_ROOM", "READY", "START"}
    Rejoin = FALSE
    Serial = FALSE

SYMMETRY Symmetric
VIEW View

INVARIANTS
    MembershipAgrees
    CleanUpNeverThrows

PROPERTIES
    GameStopsOnDeparture
