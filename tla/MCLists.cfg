CONSTANTS
    Heads = {h1, h2}
    Nodes = {n1, n2, n3}
    TableNodes = {1, 2, 3, 4, 5}
    TableHeads = {11, 12}
    NameOf <- FiveNames
    HashOf <- TwoChains
    SNodes = {s1, s2, s3}
    SValues = {1, 2}
    NULL = NULL
    phead = phead
    Addr = {a1, a2, a3}
    address_list = address_list
    NameChars = {2}
    MaxBook = 3
    MaxEdits = 1
    Sizes = {1, 2, 3, 4, 5, 6, 7, 8, 9}
    Starts = {1, 2, 4, 7, 9, 10}
    Steps = {2, 3, 4, 7, 10}
SPECIFICATION MCSpec
CHECK_DEADLOCK FALSE
INVARIANTS
    Represents
    BookKept
PROPERTIES
    Separation
    FindInOrder
    FindReturns
    EndsWithSurvivor
    ImplementsSeq
