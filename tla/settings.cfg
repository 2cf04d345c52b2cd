SPECIFICATION StoreSpec
CONSTANTS
    a = a
    b = b
    Names <- ValveNames
    Values <- Documents
    Config <- One
    Nothing = Nothing
    Torn = Torn
    Verify = TRUE
INVARIANTS RecordsFollow BootCloses
PROPERTIES IsRegister ReturnStores DamagedKept
