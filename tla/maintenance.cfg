SPECIFICATION FairSpec
CONSTANTS
    c1 = c1
    c2 = c2
    Clients <- TwoClients
    FlashFaults = TRUE
    MaxRequests = 4
INVARIANTS MaintenanceIsDry BusyOwned
PROPERTIES AutoInstallsChecked HoldReleased
