\* Three clients and one heartbeat eviction, two game rooms, one handler at a time.
SPECIFICATION Spec

CONSTANTS
    Clients = {A, B, C}
    NoClient = NoClient
    Evictors = {e}
    GameNames = {R, S}
    Lobby = Lobby
    Objects = {L, o1, o2, o3}
    NoObject = NoObject
    LobbyRoom = L
    Nicks = {A, B, C}
    Unknown = Unknown
    Fold <- SameNick
    Asks <- OwnNick
    Commands = {"JOIN_ROOM", "CHAT", "READY", "START", "MOVE", "QUIT"}
    Rejoin = FALSE
    Serial = TRUE

SYMMETRY Symmetric
VIEW View

INVARIANTS
    ListedIffOccupied
    MembersHoldSlots

PROPERTIES
    RoomsFollowContract
