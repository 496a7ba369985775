SPECIFICATION FairSocketSpec
CONSTANTS
    A = A
    B = B
    C = C
    Clients = {A, B}
    Nobody = Nobody
    Kinds = {"Chat", "Move", "Heartbeat", "Logout"}
    Passes = 1
    First = A
    Second = B
    Beating = {B}
    MaxSaid <- SaidBound
    MaxQuiet <- QuietBound
    UpLimit = 1
    SendLimit = 1
PROPERTY EverySessionLeaves
