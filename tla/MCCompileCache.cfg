SPECIFICATION Spec
CONSTANTS
    p1 = p1
    p2 = p2
    p3 = p3
    good = good
    bad = bad
    s1 = s1
    s2 = s2
    s3 = s3
    s4 = s4
    s5 = s5
    names = names
    Procs <- MCProcs
    Queries <- MCQueries
    BindTypes = {QUESTION, DOLLAR}
    Slices <- MCSlices
    NameLists = {names}
    Scribble = Scribble
    Compiled <- MCCompiled
    SyntaxError = SyntaxError
    NoEntry = NoEntry
    NoResult = NoResult
INVARIANTS
    TypeOK
    BoundAsCompiled
    ParamsAreTheOwners
SYMMETRY Symmetric
