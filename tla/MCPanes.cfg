SPECIFICATION Spec
CONSTANTS
    Ids = {i1, i2, i3}
    NoId = NoId
    MaxStored = 2
    MaxChoices = 1
    MaxCmds = 2
    Overlaps <- MCOverlaps
    Unread <- MCAll
    Windows <- MCWindows
    MaxGroups = 3
    Lengths = {3, 200}
    LogCounts = {0, 500}
    Breaks = {0, 2}
INVARIANTS FitsWindow HighlightIsTarget  CursorOnList ScreenIsCurrent NothingElseDeleted ClosedFormIsEmpty
PROPERTIES RequestsAreAtomic
SYMMETRY MCSymmetry
