\* Two clients that play, leave and come back; a 4 x 1 board.
SPECIFICATION ScreenSpec

CONSTANTS
    Clients = {A, B}
    NoClient = NoClient
    Evictors = {}
    GameNames = {R}
    Lobby = Lobby
    Objects = {L, o1, o2, o3}
    NoObject = NoObject
    LobbyRoom = L
    Nicks = {A, B}
    Unknown = Unknown
    Fold <- SameNick
    Asks <- OwnNick
    Commands = {"JOIN_ROOM", "READY", "START", "MOVE"}
    Rejoin = FALSE
    Serial = FALSE
    MaxX = 3
    MaxY = 0
    WireLimit = 1

SYMMETRY Symmetric
VIEW View

INVARIANTS
    ScreenTypeOK
    BoardsAgree

PROPERTIES
    TurnPassedByHolder
    OnlyLateStartThrows
    PiecesMoveInTurn
