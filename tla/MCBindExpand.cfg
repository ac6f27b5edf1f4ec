SPECIFICATION Spec
CONSTANTS
    Q = Q
    Open = Open
    Close = Close
    Other = Other
    Comma = Comma
    Scalar = Scalar
    Pointer = Pointer
    Failing = Failing
    Whole = Whole
    Lacking = Lacking
    NilPointer = NilPointer
    MaxLen = 6
    MaxArgs = 3
    MaxSlice = 3
INVARIANTS
    TypeOK
    InExpandsInPlace
    BindvarsMatchArgs
    GroupPerElement
    RefusedForCause
CHECK_DEADLOCK FALSE
