\* Two tables, one change of the language.
SPECIFICATION TableSpec
CONSTANTS
    MaxTables = 2
    MaxVersion = 1
    MaxRenewals = 1
CHECK_DEADLOCK FALSE
PROPERTIES KeptUntilResolved
