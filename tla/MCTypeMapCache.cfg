SPECIFICATION FairSpec
CONSTANTS
    p1 = p1
    p2 = p2
    p3 = p3
    user1 = user1
    user2 = user2
    untagged = untagged
    Procs <- MCProcs
    Types <- MCTypes
    TypeName <- MCTypeName
    Unmappable <- MCUnmappable
    NoMap = NoMap
    Panic = Panic
    NoProc = NoProc
INVARIANTS
    TypeOK
    MappedOnce
    AnswerIsTheCachedMap
PROPERTIES
    PublishedForGood
    ImplementsOnce
    EveryCallReturns
