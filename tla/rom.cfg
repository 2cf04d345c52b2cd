SPECIFICATION FairSpec
CONSTANTS
    old = old
    new = new
    large = large
    Images <- ThreeImages
    Oversized = {large}
    Chances = 2
    Nothing = Nothing
    Torn = Torn
    MediaFaults = TRUE
    MaxFaults = 4
    MaxInstalls = 3
INVARIANTS RunsFromRoot
PROPERTIES CommittedIntact Starts
