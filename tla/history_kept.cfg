SPECIFICATION HistorySpec
CONSTANTS
    Retention = 3
    PruneEvery = 2
    Horizon = 5
    MaxFaults = 2
INVARIANTS SavedKept
