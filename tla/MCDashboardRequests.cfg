SPECIFICATION FairSpec
CONSTANTS
    s1 = s1
    s2 = s2
    NoStream = NoStream
    Streams = {s1}
    Cap = 1
    MaxCmds = 2
    MaxPresses = 3
    MaxEvents = 2
    Carried = {"tick"}
    Launcher = "binary"
    AutoConnect = FALSE
    CoreUp = {TRUE}
PROPERTY PendingEnds
CHECK_DEADLOCK FALSE
