SPECIFICATION FairSpec
CONSTANTS
    None = None
    z1 = z1
    z2 = z2
    i1 = i1
    i2 = i2
    b1 = b1
    b2 = b2
    Zones = {z1, z2}
    Boards = {b1, b2}
    Inputs = {i1, i2}
    Wirings <- Swapped
    Sites <- SlowOrFailing
    Needed = 2
    SaveFaults = FALSE
INVARIANTS ReadingsCurrent CaptureOwn
PROPERTIES Resampled
