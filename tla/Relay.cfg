SPECIFICATION SocketSpec
CONSTANTS
    A = A
    B = B
    C = C
    Clients = {A, B, C}
    Nobody = Nobody
    Kinds = {"Chat"}
    Passes = 1
    First = A
    Second = B
    Beating = {}
    MaxSaid <- SaidBound
    MaxQuiet <- QuietBound
    UpLimit = 1
    SendLimit = 1
INVARIANTS SocketTypeOK RelayedInOrder NoneMissed
