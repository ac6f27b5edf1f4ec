SPECIFICATION Spec
CONSTANTS
    c1 = c1
    c2 = c2
    b1 = b1
    b2 = b2
    Calls <- MCCalls
    Bufs <- MCBufs
    NoBuf = NoBuf
    Nil = Nil
    Ops <- AllOps
    MaxRows = 2
    MaxCols = 2
    MaxOpen = 2
    Nesting = TRUE
    NoCall = NoCall
INVARIANTS
    TypeOK
    NilMeansComplete
    NoRowsMeansEmpty
    BufferHasOneUser
    SlotsPointToThisRow
    PoolIsClear
    ReleasedOnReturn
SYMMETRY Symmetric
