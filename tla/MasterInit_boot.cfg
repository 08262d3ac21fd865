SPECIFICATION FairSpec
CONSTANTS
    Protos = {"dhcp", "static"}
    MaxDisturbances = 4
    MaxCount = 2
    Missing = Missing
    Truncated = Truncated
    Entry = Entry
INVARIANTS
    TypeOK
    BridgeHasPackages
    
    
    
PROPERTIES OfflineReboots OnlineLaunches
CHECK_DEADLOCK FALSE
