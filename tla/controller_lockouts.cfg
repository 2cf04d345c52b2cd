SPECIFICATION Spec
CONSTANTS
    v1 = v1
    v2 = v2
    z1 = z1
    s1 = s1
    Valves = {v1, v2}
    Zones = {z1}
    Schedules = {s1}
    ZoneValves <- BothInZone
    Targets <- WaterV1
    Due <- DueEarly
    Requests <- NoRequests
    Interval <- Intervals
    RunLength = 1
    MaxOpen = 1
    Grace = 0
    StampHorizon = 5
    Soak = 1
    FreshFor = 1
    MaxCycles = 2
    QueueMax = 2
    Skews <- NoSkew
    Faulty = {}
    StorageFaults = TRUE
    MediaFaults = FALSE
    MaxSlice = 1
    MaxOutage = 1
    Horizon = 5
INVARIANTS CooldownCovers
PROPERTIES MoistureYields SoakBeforeRewatering
