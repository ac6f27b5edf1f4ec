SPECIFICATION Spec
CONSTANTS
    p1 = p1
    p2 = p2
    User = User
    Order = Order
    snake = snake
    upper = upper
    idField = idField
    nameField = nameField
    Procs <- MCProcs
    Types <- MCTypes
    Mappers <- TwoMappers
    Cols <- MCCols
    Fields <- MCFields
    Names <- MCNames
    ColumnHash <- MCColumnHash
    NoEntry = NoEntry
    Missing = Missing
    Discard = Discard
    NoPlan = NoPlan
INVARIANTS
    DriftIsReported
