\* Two clients that compete for three nicknames, two of which differ only in case; fair tasks.
SPECIFICATION FairDelivery

CONSTANTS
    Clients = {A, B}
    NoClient = NoClient
    Evictors = {}
    GameNames = {R}
    Lobby = Lobby
    Objects = {L, o1, o2}
    NoObject = NoObject
    LobbyRoom = L
    Nicks = {nAlice, nalice, nBob}
    Unknown = Unknown
    Fold <- FoldCase
    Asks <- Asked
    Commands = {"JOIN_ROOM", "CHAT", "READY", "START", "QUIT"}
    Rejoin = FALSE
    Serial = FALSE
    Unreading = {B}
    Upper = nAlice
    Lower = nalice

INVARIANTS
    NicksReturned

PROPERTIES
    RegistryContract
    CleanUpCompletes
