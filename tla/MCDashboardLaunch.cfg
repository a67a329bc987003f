SPECIFICATION Spec
CONSTANTS
    s1 = s1
    s2 = s2
    NoStream = NoStream
    Streams = {s1, s2}
    Cap = 1
    MaxCmds = 2
    MaxPresses = 2
    MaxEvents = 1
    Carried = {"snapshot"}
    Launcher = "binary"
    AutoConnect = FALSE
    CoreUp = {FALSE}
INVARIANTS CoreHasStream NeverDeaf ReadsLiveStream
CHECK_DEADLOCK FALSE
