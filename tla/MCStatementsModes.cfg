SPECIFICATION Spec
CONSTANTS
    Mappers <- MCMappers
    Default = "default"
    Configs <- MCModes
    StructTypes <- MCTypes
    BadTags <- MCBadTags
    Columns <- MCColumns
    ColumnLists <- MCResultSets
    FieldFor <- MCFieldFor
    None = None
    MaxHandles = 4
    MaxChanges = 1
    Elements <- MCElements
    Binds <- MCBinds
    MaxSlice = 2
    MaxExecs = 1
INVARIANTS
    ModesAreHonoured
CHECK_DEADLOCK FALSE
