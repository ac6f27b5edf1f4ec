SPECIFICATION Spec
CONSTANTS
    Mappers <- MCMappers
    Default = "default"
    Configs <- MCConfigs
    StructTypes <- MCTypes
    BadTags <- MCBadTags
    Columns <- MCColumns
    ColumnLists <- MCColumnLists
    FieldFor <- MCFieldFor
    None = None
    MaxHandles = 4
    MaxChanges = 1
    Elements <- MCElements
    Binds <- MCBinds
    MaxSlice = 2
    MaxExecs = 1
INVARIANTS
    TypeOK
    
    FillsItsOwnStruct
    LeavesAPrefix
PROPERTIES
    TransactionDecides
CHECK_DEADLOCK FALSE
