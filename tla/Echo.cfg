SPECIFICATION FairNetSpec
CONSTANTS
    A = A
    B = B
    Clients = {A, B}
    Threaded = {A}
    Talker = B
    TalkerSays = 5
    OtherSays = 1
    Listener = Listener
    Nobody = Nobody
    LineSizes <- Lines
    MaxSent <- SentBound
    UpLimit = 2
    DownLimit = 1
    BufferSize = 2
    SetSize = 3
INVARIANTS NetTypeOK EchoIntact ListedIffOpen ReadyIsReadable
PROPERTIES EchoRefines EveryByteReturns GoneIsErased ClientWindsUp PlainGetsOn
