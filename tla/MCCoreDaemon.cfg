SPECIFICATION FairDaemonSpec
CONSTANTS
    a1 = a1
    a2 = a2
    b1 = b1
    tui = tui
    run1 = run1
    None = None
    Foreign = Foreign
    Attempts <- MCAttempts
    Launchers <- MCLaunchers
    LauncherOf <- MCOf
    Runs <- MCRuns
    StartOf <- MCStartOf
    Overlaps = {}
INVARIANTS FailureLeavesNothing ExitLeavesNothing
PROPERTIES DisconnectsOwnCore LaunchIsAtomic StopTerminates CallsReturn DaemonEnds
CHECK_DEADLOCK FALSE
