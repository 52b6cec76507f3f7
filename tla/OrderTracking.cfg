SPECIFICATION FairPageSpec
CONSTANTS
    Loads = {l1, l2}
    MaxStatus = 2
    MaxTokens = 2
    Nothing = Nothing
INVARIANTS
    TrackingInv
PROPERTIES
    PollingCatchesUp
