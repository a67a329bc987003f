--------------------------------- MODULE Screen ---------------------------------
(***************************************************************************)
(* What the dashboard draws (View and render, internal/tui/dashboard.go):  *)
(* a status line, the three panes, a footer.  Drawing changes nothing, so  *)
(* this module has no step of its own: a picture is drawn from a view, the *)
(* part of the state of Panes that is drawn, in a window, with a log and a *)
(* grouping of the outbounds, and the properties range over these.         *)
(*                                                                         *)
(* A row is its width in runes, the lines of the lists it shows and those  *)
(* it highlights; a block is a sequence of rows of one width.  What a line *)
(* says is abstracted to its length, in runes one column wide (no tabs, no *)
(* wide runes), and to the line breaks truncate leaves in it: the names,   *)
(* tags, messages and errors come from profiles and from the core, which   *)
(* may break them.  What the breaks add to the rows is counted apart       *)
(* (ExtraRows).                                                            *)
(***************************************************************************)
EXTENDS Panes

CONSTANTS
    Windows,    \* windows, [width, height]: what WindowSizeMsg has last reported
    MaxGroups,  \* bound: groups of outbounds
    Lengths,    \* lengths of the lines
    Breaks,     \* numbers of line breaks in what is drawn of a line
    LogCounts   \* numbers of entries in m.logs

ASSUME ScreenAssumption ==
    /\ Windows \subseteq [width : Nat, height : Nat]
    /\ MaxGroups \in Nat
    /\ Lengths \subseteq Nat /\ Breaks \subseteq Nat
    /\ LogCounts \subseteq 0..500    \* maxLogLines

MinimumWidth     == 40
MinimumHeight    == 10
ComfortableWidth == 72
ComfortableArea  == 12

AtLeast(n, least) == IF n < least THEN least ELSE n
AtMost(n, most)   == IF n > most THEN most ELSE n

(***************************************************************************)
(* Lines                                                                   *)
(***************************************************************************)
Text(i)      == <<"text", i, 0>>
Profile(i)   == <<"profile", i, 0>>
Group(g)     == <<"group", g, 0>>
Choice(g, k) == <<"choice", g, k>>
Entry(i)     == <<"log", i, 0>>

\* What is drawn of the state.
View == [pane |-> pane, profiles |-> Len(shown), cursor |-> cursor,
         choices |-> choices, outCursor |-> outCursor]

ViewsWith(n) == [pane : {"profiles", "outbounds", "logs"}, profiles : {n},
                 cursor : 0..AtLeast(n - 1, 0), choices : 0..MaxChoices,
                 outCursor : 0..MaxChoices]
Views == UNION {ViewsWith(n) : n \in 0..(MaxStored + Cardinality(Ids))}

ProfileLines(v) == IF v.profiles = 0 THEN [i \in 1..4 |-> Text(i)]
                                     ELSE [i \in 1..v.profiles |-> Profile(i)]
ProfileAt(v)    == IF v.profiles = 0 THEN -1 ELSE v.cursor

\* outboundChoices: the row of items that moveCursor, activate and testOutbound
\* count in, of m.groups given as the number of items of each group.
ChoiceList(groups) == FlattenSeq([g \in DOMAIN groups |-> [k \in 1..groups[g] |-> Choice(g, k)]])

\* update brings the groups of the core; the cursor and the handlers know only
\* their items, in one row.
Groupings(v) == {groups \in UNION {[1..n -> 0..v.choices] : n \in 0..MaxGroups} :
                    Len(ChoiceList(groups)) = v.choices}

OutboundLines(groups) ==
    IF groups = <<>> THEN <<Text(1)>>
    ELSE FlattenSeq([g \in DOMAIN groups |->
             <<Group(g)>> \o [k \in 1..groups[g] |-> Choice(g, k)]])

\* (For a mutant of OutboundAt: the titles of the groups are not counted.)
OutboundAtIndex(v, groups) == IF v.outCursor < v.choices THEN v.outCursor ELSE -1

\* The line, from 0, of the item the cursor has reached; -1 beyond the last.
OutboundAt(v, groups) ==
    LET lines    == OutboundLines(groups)
        items(n) == {i \in 1..n : lines[i][1] = "choice"}
        hits     == {i \in items(Len(lines)) : Cardinality(items(i - 1)) = v.outCursor}
    IN  IF hits = {} THEN -1 ELSE (CHOOSE i \in hits : TRUE) - 1

\* The last half window of the log, whatever the pane has room for.
LogLines(logs, height) ==
    IF logs = 0 THEN <<Text(1)>>
    ELSE LET start == AtLeast(logs - height \div 2, 0)
         IN  [i \in 1..(logs - start) |-> Entry(start + i)]

(***************************************************************************)
(* Blocks                                                                  *)
(***************************************************************************)
\* The runes truncate leaves; the last one is a ~ if there were more.
Truncated(length, width) == AtMost(length, width)

Bare(width) == [width |-> width, lines |-> {}, lit |-> {}]

Inner(n) == AtLeast(n - 2, 1)

TitleLength == [profiles |-> 34, outbounds |-> 30, logs |-> 8]

\* The title between two spaces and two corners, filled with dashes.
TopLine(p, width) ==
    LET title == Truncated(TitleLength[p] + 2, Inner(width))
    IN  Bare(2 + title + AtLeast(Inner(width) - title, 0))

PaneBar(p, width) == <<TopLine(p, width)>>

\* (For a mutant of PaneRow: a long line is not cut.)
PaneRowUncut(width, lines, i, lit, length) ==
    IF i \in DOMAIN lines
       THEN [width |-> 2 + AtLeast(length, Inner(width)),
             lines |-> {lines[i]}, lit |-> IF lit THEN {lines[i]} ELSE {}]
       ELSE Bare(2 + Inner(width))

\* A line is cut to the inner width, then padded to it, its breaks counted as runes.
PaneRow(width, lines, i, lit, length) ==
    IF i \in DOMAIN lines
       THEN [width |-> 2 + AtLeast(Truncated(length, Inner(width)), Inner(width)),
             lines |-> {lines[i]}, lit |-> IF lit THEN {lines[i]} ELSE {}]
       ELSE Bare(2 + Inner(width))

\* renderPane: the lines from the first on, as many as there is room for.  It
\* does not scroll; at is the line, from 0, the focused pane highlights.
RenderPane(p, width, height, focused, lines, at, length) ==
    <<TopLine(p, width)>>
      \o [i \in 1..Inner(height) |-> PaneRow(width, lines, i, focused /\ i - 1 = at, length)]
      \o <<Bare(2 + Inner(width))>>

\* JoinHorizontal, of blocks of one height.
Beside(a, b) == [i \in DOMAIN a |-> [width |-> a[i].width + b[i].width,
                                     lines |-> a[i].lines \cup b[i].lines,
                                     lit   |-> a[i].lit \cup b[i].lit]]

(***************************************************************************)
(* Layouts.  A picture is what a window shows: its groups, its log, the    *)
(* length of its lines and the breaks in each of them.                     *)
(***************************************************************************)
Pictures(v) == [view : {v}, window : Windows, groups : Groupings(v), logs : LogCounts,
                length : Lengths, breaks : Breaks]

AllPictures == UNION {Pictures(v) : v \in Views}

Focused(pic, p) == pic.view.pane = p

ProfilesPane(pic, w, h) ==
    RenderPane("profiles", w, h, Focused(pic, "profiles"),
               ProfileLines(pic.view), ProfileAt(pic.view), pic.length)
OutboundsPane(pic, w, h) ==
    RenderPane("outbounds", w, h, Focused(pic, "outbounds"),
               OutboundLines(pic.groups), OutboundAt(pic.view, pic.groups), pic.length)
LogsPane(pic, w, h) ==
    RenderPane("logs", w, h, Focused(pic, "logs"),
               LogLines(pic.logs, pic.window.height), -1, pic.length)

\* Profiles and outbounds side by side, the log below.
GridLogs(area)      == AtMost(AtLeast((area * 2) \div 5, 4), area - 4)
GridProfiles(width) == AtMost(AtLeast((width * 2) \div 5, 24), width - 24)

RenderGrid(pic, width, area) ==
    Beside(ProfilesPane(pic, GridProfiles(width), area - GridLogs(area)),
           OutboundsPane(pic, width - GridProfiles(width) - 1, area - GridLogs(area)))
      \o LogsPane(pic, width, GridLogs(area))

\* The pane in focus between the bars of the others.
RenderStacked(pic, width, area) ==
    LET height == AtLeast(area - 2, 4)
    IN  (IF Focused(pic, "profiles") THEN ProfilesPane(pic, width, height) ELSE PaneBar("profiles", width))
     \o (IF Focused(pic, "outbounds") THEN OutboundsPane(pic, width, height) ELSE PaneBar("outbounds", width))
     \o (IF Focused(pic, "logs") THEN LogsPane(pic, width, height) ELSE PaneBar("logs", width))

\* A window smaller than the minimum is drawn as if it had it.
Width(pic)  == AtLeast(pic.window.width, MinimumWidth)
Height(pic) == AtLeast(pic.window.height, MinimumHeight)

HasRoom(width, area) == width >= ComfortableWidth /\ area >= ComfortableArea

\* The state of the connection, a message, an error, as the core worded them; the
\* line being typed without its breaks, or the keys.
StatusLine(pic, width) == <<Bare(Truncated(pic.length, width))>>
FooterLine(pic, width) == <<Bare(Truncated(pic.length, width))>>

\* (With neither a core nor a launcher the hint to install one is shown instead,
\* in no layout.)
Render(pic) ==
    LET width == Width(pic)
        area  == Height(pic) - 2
    IN  StatusLine(pic, width)
     \o (IF HasRoom(width, area) THEN RenderGrid(pic, width, area)
                                 ELSE RenderStacked(pic, width, area))
     \o FooterLine(pic, width)

\* The rows that line breaks add to a pane: truncate cuts a line to its width and
\* leaves the breaks where they are.
Spill(pic, lines, height) ==
    pic.breaks * Cardinality({i \in 1..Inner(height) : i \in DOMAIN lines /\ lines[i][1] # "text"})

SpillOf(pic, p, height) ==
    CASE p = "profiles"  -> Spill(pic, ProfileLines(pic.view), height)
      [] p = "outbounds" -> Spill(pic, OutboundLines(pic.groups), height)
      [] OTHER           -> Spill(pic, LogLines(pic.logs, pic.window.height), height)

\* JoinHorizontal makes the lower of two panes as high as the other.
ExtraRows(pic) ==
    LET width == Width(pic)
        area  == Height(pic) - 2
        upper == area - GridLogs(area)
    IN  pic.breaks
          + IF HasRoom(width, area)
            THEN AtLeast(SpillOf(pic, "profiles", upper), SpillOf(pic, "outbounds", upper))
                   + SpillOf(pic, "logs", GridLogs(area))
            ELSE SpillOf(pic, pic.view.pane, AtLeast(area - 2, 4))

(***************************************************************************)
(* Properties                                                              *)
(***************************************************************************)
LargeEnough(window) == window.width >= MinimumWidth /\ window.height >= MinimumHeight

RowsOf(pic)  == Len(Render(pic)) + ExtraRows(pic)

\* What is drawn is no wider than the window, and has its rows if no line is broken.
Fits(pic) ==
    LET rows == Render(pic)
    IN  LargeEnough(pic.window) =>
            /\ \A i \in DOMAIN rows : rows[i].width <= pic.window.width
            /\ pic.breaks = 0 => RowsOf(pic) = pic.window.height

\* The views with a picture that does not fit.
Misfits == {pic.view : pic \in {p \in AllPictures : ~ Fits(p)}}

\* In a window of at least 40x10 no row is wider than the window, and with no line
\* break in what is shown there are as many rows as the window has, in every layout,
\* pane and state of the lists ("TestDashboardFitsScreen", dashboard_test.go:248,
\* which looks at four sizes and one state).  A smaller window is drawn as 40x10.
FitsWindow == View \notin Misfits

\* What enter, d and t act on; OnProfile and OnChoice guard their handlers.
Target(pic) ==
    IF Focused(pic, "profiles") /\ pic.view.cursor < pic.view.profiles
    THEN {Profile(pic.view.cursor + 1)}
    ELSE IF Focused(pic, "outbounds") /\ pic.view.outCursor < pic.view.choices
    THEN {ChoiceList(pic.groups)[pic.view.outCursor + 1]}
    ELSE {}

Points(pic) ==
    LET rows == Render(pic)
    IN  \A i \in DOMAIN rows : rows[i].lit = rows[i].lines \cap Target(pic)

Misleading == {pic.view : pic \in {p \in AllPictures : ~ Points(p)}}

\* The line that is highlighted is the one a key would act on, and that one is
\* highlighted wherever it is drawn: the cursor counts profiles and items, the
\* screen counts lines, of several groups and their titles.
HighlightIsTarget == View \notin Misleading

\* "The pane is always exactly width x height" (dashboard.go:706-707), whatever its
\* lines say.  A broken line, or a broken error in the status line, adds rows.
ExactWhateverItSays ==
    \A pic \in Pictures(View) : LargeEnough(pic.window) => RowsOf(pic) = pic.window.height

\* "The cursor line is highlighted" (dashboard.go:706): what a key would act on is
\* on the screen.  A list longer than its pane does not scroll, so it need not be.
CursorShown ==
    \A pic \in Pictures(View) :
        LET rows == Render(pic)
        IN  Target(pic) \subseteq UNION {rows[i].lit : i \in DOMAIN rows}

\* The entry the log has received last is on the screen when its pane is in focus.
\* The pane may have room for less than the half window LogLines keeps.
NewestLogShown ==
    \A pic \in Pictures(View) :
        LET rows == Render(pic)
        IN  Focused(pic, "logs") /\ pic.logs # 0 =>
                Entry(pic.logs) \in UNION {rows[i].lines : i \in DOMAIN rows}
================================================================================
