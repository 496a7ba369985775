SPECIFICATION Spec
CONSTANTS
    Ids = {1, 2}
    Amounts <- SomeAmounts
    Plans <- SomePlans
    Word = Word
    End = End
    Unset = Unset
    None = None
    Capacity = 2
    IntMax = 90
    Precision = 25
    MaxSlip = 1
    MaxRequests = 4
    Blocks = {1, 2, 3, 4, 5, 6}
    Null = Null
    Dangling = Dangling
    Texts = {1}
    MaxObjects = 2
    MaxLen = 3
    MaxWorkers = 2
    Numbers = {1, 2, 3}
    MAX_LEN = 4
    NoRule = NoRule
INVARIANTS TypesOK VersionsAgree OthersStayDefined SortedByRule
PROPERTIES OneOwner LedgersKept SecondNeverMoves SortKeepsNumbers
