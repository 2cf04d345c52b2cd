SPECIFICATION FairSpec
CONSTANTS
    Slots = {1, 2}
    Body = 3
    Idle = 2
    Head = 3
    Long = 4
    Restart = 2
INVARIANTS SinksHeld OneAnswer
PROPERTIES ConnectionsEnd Admits
