SPECIFICATION Spec
CONSTANTS
    Nodes = {n1, n2}
    Second = 3
    Half = 8
    AskedTimeouts = {0, 1, 2, 3, 6}
    ConfigSeconds = 3
    DefaultTimeout = 1
    MaxDeliveryTimeout = 4
    RiverJobTimeout = 5
    RescueAfter = 6
    HistoryTTL = 2
    PruneInterval = 1
    Retention = 4
    Grace = 1
    Lag = 1
INVARIANTS
    PrunedOnInterval
