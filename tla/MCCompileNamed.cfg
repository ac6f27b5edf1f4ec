SPECIFICATION Spec
CONSTANTS
    Alnum = Alnum
    Mark = Mark
    Colon = Colon
    Equals = Equals
    Other = Other
    MaxLen = 7
INVARIANTS
    TypeOK
    BindvarsMatchNames
    NamesAreWhole
    TextSurvives
CHECK_DEADLOCK FALSE
