SPECIFICATION FairSpec
CONSTANTS
    States = {"stopped", "starting", "started", "stopping"}
    Stopped = "stopped"
    Garbled = "garbled"
    Nothing = "nothing"
    MaxChanges = 2
INVARIANTS NoFalseEnd
PROPERTIES Fresh EndIsSeen
CHECK_DEADLOCK FALSE
