SPECIFICATION MCSpec
CONSTANTS
    maxPacketSize = 3
    SeqNumbers = 3
    BufSize = 1
    MaxCached = 3
    MaxAllowed = 6
    CommandSizes = {0, 3, 4, 7}
    RowSizes = {1, 2, 3, 4, 6}
    MaxRows = 2
    MaxCommands = 2
    MaxPacket = 600
    MinLongData = 64
    Lengths <- MCLengths
    ArgumentLists <- MCArgumentLists
    Texts <- MCTexts
    RowsToRead <- MCRows
INVARIANTS
    SentAsProtocol ReceivedIntact RowIntact
    ArgumentsArrive LiteralsIntact 
CHECK_DEADLOCK FALSE
