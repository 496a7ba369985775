\* A client joins the room it is in; one handler at a time.
SPECIFICATION Spec

CONSTANTS
    Clients = {A, B}
    NoClient = NoClient
    Evictors = {}
    GameNames = {R}
    Lobby = Lobby
    Objects = {L, o1, o2, o3, o4}
    NoObject = NoObject
    LobbyRoom = L
    Nicks = {A, B}
    Unknown = Unknown
    Fold <- SameNick
    Asks <- OwnNick
    Commands = {"JOIN_ROOM"}
    Rejoin = TRUE
    Serial = TRUE

SYMMETRY Symmetric
VIEW View

INVARIANTS
    ShownRoomHasClient
