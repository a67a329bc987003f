SPECIFICATION Spec
CONSTANTS
    States = {"stopped", "starting", "started", "stopping"}
    Stopped = "stopped"
    Garbled = "garbled"
    Nothing = "nothing"
    MaxChanges = 1
INVARIANT NoSendOnClosed
CHECK_DEADLOCK FALSE
