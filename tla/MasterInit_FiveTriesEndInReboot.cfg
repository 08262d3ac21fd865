SPECIFICATION Spec
CONSTANTS
    Protos = {"dhcp", "static"}
    MaxDisturbances = 4
    MaxCount = 2
    Missing = Missing
    Truncated = Truncated
    Entry = Entry
INVARIANTS FiveTriesEndInReboot
CHECK_DEADLOCK FALSE
