SPECIFICATION Spec
CONSTANTS
    v1 = v1
    v2 = v2
    z1 = z1
    s1 = s1
    Valves = {v1, v2}
    Zones = {z1}
    Schedules = {s1}
    ZoneValves <- OneInZone
    Targets <- WaterV1
    Due <- DueEarly
    Requests <- LongV2
    Interval <- Intervals
    RunLength = 1
    MaxOpen = 2
    Grace = 0
    StampHorizon = 5
    Soak = 1
    FreshFor = 1
    MaxCycles = 2
    QueueMax = 2
    Skews <- NoSkew
    Faulty = {v2}
    StorageFaults = TRUE
    MediaFaults = TRUE
    MaxSlice = 1
    MaxOutage = 1
    Horizon = 3
INVARIANTS TypeOK OneAtATime IntentDurable InhibitedIsQuiet PausedIsQuiet CutoffRespected
PROPERTIES MarkedIsQueued
