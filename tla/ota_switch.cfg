SPECIFICATION FairSpec
CONSTANTS
    m1 = m1
    m2 = m2
    r1 = r1
    r2 = r2
    Names <- TwoNames
    Shipped = {m1}
    Factory = Factory
    Versions = {r1, r2}
    Missing = Missing
    Torn = Torn
    Limit = 3
    MaxFaults = 4
    MaxInstalls = 3
INVARIANTS Recoverable WholeFirmware
PROPERTIES IsSwitch Settles UndoneNotRepeated
