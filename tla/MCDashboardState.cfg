SPECIFICATION FairSpec
CONSTANTS
    s1 = s1
    s2 = s2
    NoStream = NoStream
    Streams = {s1}
    Cap = 1
    MaxCmds = 2
    MaxPresses = 2
    MaxEvents = 1
    Carried = {"snapshot"}
    Launcher = "noBinary"
    AutoConnect = FALSE
    CoreUp = {TRUE}
PROPERTY ShowsCoreState
CHECK_DEADLOCK FALSE
