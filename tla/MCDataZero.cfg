CONSTANTS
    Addr = {a1, a2, a3, a4}
    Values = {1, 2}
    NULL = NULL
    Programs <- ZeroInBrackets
    n1 = n1
    n2 = n2
    n3 = n3
    n4 = n4
    n5 = n5
    Inputs <- ListInputs
    Arrays <- ArrayInputs
    Files <- AllFiles
    Keys = {1, 2, 3}
    MaxArray = 6
    MaxList = 5
    LEAF_NUM = 5
    CodeBits = 3
    ByteBits = 4
    MaxFile = 4
    MaxWeight = 3
SPECIFICATION MCSpec
CHECK_DEADLOCK FALSE
INVARIANTS
    ZeroReported
