SPECIFICATION FairSpec
CONSTANTS
    A = A
    B = B
    C = C
    Types = {A, B, C}
    Root = A
    Scalar = Scalar
    NoType = NoType
    Nil = Nil
    Words <- MCWords
    Shapes <- MCShapes
    Size <- MCSize
    MaxRows = 2
INVARIANTS
    TypeOK
    GuardIsThePath
    PointersAreMarked
    PathWinsOverBareName
    MappedAsDeclared
    RowsAreKept
PROPERTY
    FlatteningEnds
