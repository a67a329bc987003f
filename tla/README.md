# hiddify-tui: a verification project

TLA+ modules, TLC runs and TLAPS proofs for hiddify-tui, a terminal client that
controls a VPN core over gRPC. The core itself (`hiddify-core`, a separate
binary) is not in the repository: it is modelled as an environment, by how the
code in `internal/` uses it.

Paths below are relative to the repository; `dashboard.go` is
`internal/tui/dashboard.go`, `grpc.go` is `internal/client/grpc.go`,
`launcher.go` is `internal/core/launcher.go`, `profile.go` is
`internal/profile/profile.go`.

## 1. Inventory

| Component | State | Operations | What is hard |
|---|---|---|---|
| Profile store (`profile.go`) | the list, `ActiveID`, `AutoStart`, the file at `Path` and `Path.tmp` | `Open`, `Add`, `SetActive`, `Delete`, `Rename`, `Update`, `ToggleAutoStart`, `Save` | crash or error between the steps of `Save`; no lock, and one temporary name for all |
| Dashboard, connection control (`dashboard.go`) | core client, stream channel and its cancel function, last snapshot, outbounds, pending request and its deadline, prompt flag | keys c, r, s, enter, t, q; a handler per message; a goroutine per command; `streamUpdates` | messages of commands arrive in any order and after the state that started them has changed |
| Dashboard, panes and add mode | pane, two cursors, input line, profile list | key handlers, clipboard and fetch commands | cursors that outlive the list; a list copied while commands change its array |
| Launcher (`launcher.go`) | `l.cmd`, `l.done`, the process | `Start`, `Stop`, the waiter goroutine | two starts at once, a core that appears during a start, failures after the spawn, timeouts |
| gRPC client, streams (`grpc.go` `WatchStatus`) | `state`, `message`, `info`, channel `out` | two goroutines | a data race, a dropping send, a channel closed by one of two senders |
| Dashboard, rendering | none: drawn from the model, the window and the log | `View`, grid and stacked layout | arithmetic on sizes; cursors that count items on a screen of lines |
| gRPC client, unary calls | none | `Connect`, `Disconnect`, `Restart`, `Snapshot`, outbound calls | which answers count as success, with several clients on one core |
| Core daemon (`cmd/hiddify-core-daemon`) | none of its own | start, wait for a signal or the core's exit, stop | an address that is taken at start; signals at any moment |
| GUI migration (`internal/migrate`) | the plan, the result | `ReadPlan`, `Apply` | two saves in one import, rows that fail one by one |
| Command line (`internal/cli`, `cmd/hiddify-tui`) | none between commands | one `Open`, perhaps a core, one call or one mutation, one exit code | a core that goes in the middle, kills, several processes on one file |
| Subscriptions, clipboard, core download, Windows host, packaging | none | conversions and I/O | nothing concurrent |

How they interact:

* The **command line** opens the store, dials the address and either runs one
  command or the dashboard; with the default address it gives the dashboard a
  launcher, with a custom one it gives it `nil` (`cmd/hiddify-tui/main.go:32`).
* The **dashboard** starts a command - a goroutine - for every RPC, start, stop,
  store operation and stream read. A command ends in one message. The handler of
  a message changes the model and may start the next command. It shares the
  `*Store` and the `*Launcher` with its commands.
* `streamUpdates` is one goroutine per attachment: it merges the status channel
  of `WatchStatus`, the log stream and a ticker into one channel of 16.
* `WatchStatus` merges two streams of the core into a channel of 1.
* The **launcher** spawns the core, dials it, and stops the bootstrap profile
  through the unary calls. The daemon is a second program with a launcher of
  its own, on the same address.

What makes each correct:

* Store: what is on disk is always a whole store; what `Save` reported is there;
  the selection names a profile or nothing.
* Dashboard: it has a stream exactly when it has a core, it never stops
  listening to it, it does not act on or show a core that is gone, it ends up
  showing the state of the core, and a request does not stay pending.
* Panes: the cursor is on the list, an operation hits the profile under the
  cursor when the key was pressed, and the screen follows the store.
* Rendering: the screen is no larger than the window, and the line highlighted is
  the one a key acts on.
* Unary calls: no error means the core has done it, an error that it has not
  said so.
* Command line: an exit code says what became of the file, no document is added or
  refreshed that the core has not accepted, and every command ends.
* Migration: every row of the GUI's database is either imported and saved or has
  a warning, once per subscription, with the selection of the GUI.
* Launcher: it never touches a core that is not its own, a failed start leaves
  no process, `Stop` ends what was started, and every call returns.
* Daemon: it ends when it is told to or its core does, and leaves no core.
* Status stream: the last snapshot the caller gets is the state of the core; the
  channel ends when, and only when, the state stream does; nobody sends on a
  closed channel.

The hazards, each at its line, are in `PROJECT.json`.

## 2. Modules

| Module | Models | Uses |
|---|---|---|
| `ProfileStore` | the list as a value, its operations, what JSON keeps of it | |
| `ProfileStoreProofs` | lemmas about the list and its operations | `ProfileStore` |
| `AtomicStore` | what `Save` promises: an abstract specification with a one-step save | `ProfileStore` |
| `StoreFile` | memory and files, every step of `Open` and `Save`, errors, crashes, concurrent writers | `ProfileStore` |
| `StoreFileSole` | the same with one writer; the refinement of `AtomicStore` | `StoreFile`, `AtomicStore` |
| `StoreFileProofs` | theorems about the two | `StoreFileSole`, `ProfileStoreProofs` |
| `Dashboard` | keys, message handlers, commands, stream goroutines, and the core behind the address | |
| `DashboardProofs` | theorems about `Dashboard` | `Dashboard` |
| `AtomicPanes` | what the profiles pane promises: a request takes effect at one moment, once or not at all | |
| `Panes` | panes and cursors, the form, the commands on the shared store with the store's operations taken apart; the refinement of `AtomicPanes` | `AtomicPanes` |
| `Screen` | what is drawn of the panes, in any window | `Panes` |
| `PanesProofs` | theorems about `Panes` and `Screen` | `Screen` |
| `Migration` | `ReadPlan` and `Apply`, over the store | `ProfileStore` |
| `Commands` | one command after the other, each a process, and the core they find | `Migration` |
| `CommandsProofs` | theorems about `Commands` and its import | `Commands`, `ProfileStoreProofs` |
| `StatusStream` | one call of `WatchStatus`: both goroutines, the shared variables, the channel | |
| `StatusStreamProofs` | theorems about `StatusStream` | `StatusStream` |
| `AtomicLauncher` | what the launcher promises: a start leaves a core of its own, or none and an error | |
| `CoreLauncher` | any number of starts on any number of launchers on one address, with `Stop` and the waiter; the refinement of `AtomicLauncher` | `AtomicLauncher` |
| `CoreDaemon` | runs of the daemon among the users of the address, and the service manager | `CoreLauncher` |
| `CoreLauncherProofs` | theorems about the two | `CoreDaemon` |
| `Operations` | the unary calls of several clients on one core, request by request | |
| `OperationsProofs` | theorems about `Operations` | `Operations` |
| `MC...` | the instances TLC checks | |

### Store

`mem[p]` is the `*Store` of process `p`; `path` and `tmp` are the two files;
`pc[w]`, `data[w]` and `fd[w]` are where writer `w` is in `Save`, the bytes it has
marshalled and the file it has open. A file descriptor follows the inode: after
a rename a writer that still has the temporary file open writes to `Path`, and
`fd` says so. A write over longer content may leave a tail, so it yields the new
content or a torn file. `Open` fails on a file that does not decode; `Exit` is a
normal end and a kill alike. An operation of the list is one step on the memory,
followed by the steps of `Save`: marshal, open with truncation, write, rename,
each with its failure. `Persisted` is what the JSON keeps: everything except
`Content`.

### Dashboard

`core` and `updates` are `m.core` and `m.updates`; a stream is named, and
`stream[g]` holds its goroutine's position, its cancelled context, the update it
has taken and its channel. `cmds` holds the commands in flight, each as the step
it takes next; a command that has ended is a message waiting to be handled, and
messages are handled in any order, one at a time. A handler is one action and
includes what it calls: `stopStream` and `restartStream` are operators used by
them. A disconnect, connect or restart is two steps of a command, the effect on
the core and the return, so that snapshots come in between. `startCore` is
three: the guard, the boot of the core, and the rest of `Launcher.Start` with
auto-connect. `up`, `ours` and `engine` are the core: whether one answers, whether
this dashboard spawned it, and its connection state. Handlers that only change text (log
lines, the action line, profile lists) are left out. The updates carry the name
of their stream; no handler reads it, as in the code, and it is there for the
properties.

### Panes

`array`, `size` and `active` are the fields of the `*Store`: a Go slice is a length and
an array, and who ranges over one keeps the length and reads the array as it is by then.
`shown` and `marked` are what `m.profiles` has copied of them. A command holds the id it was given and the
point it has reached in the store's operation. `Delete` finds the profile, slices the
list around it, moves the profiles behind it up one by one (`append` within the array,
`profile.go:155`), cuts off the last and clears the selection. `SetActive` looks up and sets;
`Add` reads the slice and appends to it, in place or into a copy. Each is a step that
sees what the others have left. `List` runs in Update, which does nothing else
meanwhile, beside the commands: it allocates a slice (`OnResult`), ranges over
the list as it is then (`RangeList`), copies it line by line (`CopyLine`), and is shown
(`ShowList`). So a copy made beside a deletion may show a profile twice and miss another, and
beside an addition `List` may have no room for the last line. An index out
of range is `panicked`, which ends the program. `Overlaps` and `Unread` restrict what the user does:
which commands may run at the same time, and which may be started before the
result of another has been handled. Saving is `StoreFile`'s, the connection
`Dashboard`'s: their commands are the kind `other`.

Abstracted: a string, a slice header and an element of the array are read and written as a whole,
although in Go each is several words and a race may tear them; a profile is its id; and there is one array, where
`append` may move to a larger one (`Appended` lets any of the elements in front be those read or those of the array by
then).

`AtomicPanes` has the list, the selection, the profiles on the screen, and what
has been asked for and not yet taken effect. `Requests` has the commands that have not reached their point of no
return: the cut of a deletion, the assignment of an activation, the append of an
addition. `Profiles` is `list`, but while a deletion moves the profiles up the list as it was before;
`Selection` is `active`, but for the moment in which a deletion has cut the
profile out and has not cleared the selection yet. `Screened` is what `shown` has as a set: a torn copy shows
no list there ever was, and `AtomicPanes` promises of the screen only that its profiles exist or have existed.
`ScreenIsCurrent` says when it is the list again.

### Screen

`Render` is a function of a picture: a view of the state of `Panes`, a window, a
grouping of the outbounds, a log and a length of lines. `Panes` knows of
the outbounds how many items there are; `Groupings` are the ways to have them in
up to `MaxGroups` groups, empty ones included, with their titles. A row of the screen is its width, the
lines of lists it shows and those it highlights: `RenderPane` cuts and pads, the grid
puts two panes beside each other, the stacked layout puts one between the bars of
the others. `Truncated`, `Inner`, `GridLogs` and `GridProfiles` are the arithmetic of
the code. A line is its length and the line breaks in it: `truncate` cuts to a number of runes and leaves
breaks where they are, so a message, a tag or an error with breaks takes more rows than one (`StatusLine` and
`PaneRow` draw the first; `ExtraRows` counts the others, the panes of the grid filling up to the
higher one). The module adds no step: its properties range over the pictures of
every state that `Panes` reaches. They speak of windows of at least 40x10; a smaller one is
drawn as 40x10 and does not hold the screen.

### Commands and migration

A command is a process: `Run` opens the store, `at` is its next step, `code` its
exit code, and `Reap` ends it; `Kill` ends it at any step. `Dial`, `StartCore` are
`openCore`; `ReadDocument`, `Fetch`, `Parse` and `Keep` are the profile commands,
`Connect`, `Order` and `Query` the requests. `core` is absent, up or hung and changes
at any moment, also between two steps of a command. A save is one step here.
"unprinted" is exit code 4 too: the work is done, but the result could not be
written (`--json` only). `before`, `origin` and `sent` are there for the properties.
`Migration` has the steps of an import over the same variables; `readable` are
the local documents that can be read, and every download may fail. The actions
need no flag for `--address` or for a missing binary: both make `Dial` end the
command when no core answers.

### Status stream

The two goroutines take one step per statement that touches shared state:
receive, assign, emit. While one assigns `state` the other may read the old
value, the new one or a mixture, which is what a race on a string can give. A
snapshot is its connection state. A send into a full channel drops the snapshot;
a send on the closed channel panics and ends the program, as Go does.

### Launcher

A start is named, and names the process it spawns. `pc[a]` is where `Start` is:
guard, spawn, dial, bootstrap, disconnect, settle; each wait may end at its
deadline, each call may fail having reached the core or not. `proc[a]` takes a
process from booting to gone, through its exit and the two steps of the waiter
goroutine (forget `l.cmd`, close `done`). `Stop` reads `l.cmd`, interrupts, and
waits for `done` or for three seconds, when it kills. `owner` is who serves the
address: one of the processes, a foreign core, or nobody. Reading `l.cmd` and
using it are two steps, as the mutex is released in between.

`AtomicLauncher` has of a start only that it is running or has returned (`Status`), of
the processes who is alive (`Live`), and the launchers being stopped (`Stopped`); the
address and its core are the same. It has no `l.cmd`, no waiter, no bootstrap and no
deadline.

### Daemon

A run of the daemon is a launcher with one start. `at[d]` is where `main` is:
before and in `Start`, waiting after `ErrAddressInUse`, in the select, in `Stop`,
ended. The rest of its `Start`, the waiter and the other launchers take the
steps of `CoreLauncher`, which the module extends. `signalled` is the channel of one
signal, which may fill as soon as it is made; `service` is how the manager sees
the run, and `Launched` starts the next one after a failure
(`Restart=on-failure`). When both cases of the select are ready either is taken.

### Unary calls

`pc[c]` is the request client `c` waits for, `answer[c]` its answer; the core serves
a request, the answer is read, and both may be separated by what other clients
have the core do. `StartAnswered` goes on to a restart when the core was started
already; `Accepted` is `operationError`. `loaded` is whose document the core runs.
`did`, `lost` and `during` say for the properties what became of the requests.
The core may answer a start or a restart before or after the engine is up, may
refuse in the ways of `Refusals`, and may leave "starting" for "stopped".

## 3. Runs

| Run | Shows |
|---|---|
| `store_sole` | One writer, every failure and crash: the file is always whole (`PathDecodes`), what was reported saved is there (`SavedMeansOnDisk`), the selection does not dangle (`SelectionExists`), and the steps of `Save` implement `AtomicStore` (`SaveIsAtomic`). |
| `dashboard_launch` | A dashboard launched without a core, two streams, starts that overlap with cores that die: core and stream come and go together (`CoreHasStream`), the stream on screen is live (`ReadsLiveStream`) and has a reader or an update on its way (`NeverDeaf`). |
| `dashboard_attached` | A dashboard with a custom address, hence no launcher, that has found a core or none: at most one reader per channel (`OneReader`), no outbound selected or tested on a nil client, and no panic but that of `s`, which calls the launcher that is not there (`OnlyStartPanics`); no connection shown without a core (`DetachedShowsDisconnected`). |
| `dashboard_requests` | A pending request ends, by its result, the deadline or a detach (`PendingEnds`). The streams carry ticks only: an acknowledging snapshot would only end it sooner. |
| `dashboard_state` | A state the core stays in ends up on the screen (`ShowsCoreState`). |
| `panes` | Profiles are added, activated and deleted one at a time, while clipboard tools, calls of the core and the copying of the list run beside that and the outbound list changes under the user; any command may follow another before its result is handled. No index is out of range but in a copy of the list made while a profile was added (`OnlyAddsPanic`), the cursor is on the list (`CursorOnList`), with all results handled the screen is the store (`ScreenIsCurrent`), only what the user chose is deleted (`NothingElseDeleted`), every request takes effect at one moment or not at all, beside no other change of list and selection (`RequestsAreAtomic`), a late clipboard does not reach the next form (`ClosedFormIsEmpty`). In every state and window of at least 40x10 the screen is no wider than the window, has its rows if no line is broken (`FitsWindow`), and highlights what a key would act on (`HighlightIsTarget`). |
| `commands` | Commands with a core that goes, hangs and comes back, kills and failing saves: code 0 of activate, delete, rename, add and refresh means that the file holds the selection, ids and names asked for, and of connect and restart that the core was handed the profile that was meant - not its document - (`OkMeansDone`); codes 2, 3 and 4 mean that the file is as it was (`FailureChangesNothing`); no add and no refresh stores a document the core has not accepted (`OnlyValidated`; an import parses nothing); commands end (`CommandsEnd`). Imports account for every row (`EveryRowReported`), once per subscription (`NoUrlTwice`), are saved (`ImportedIsSaved`) and keep the selection (`GuiSelectionKept`). |
| `commands_content` | `profile add` and then `connect`: `SendsStoredDocument` is violated. |
| `status_stream` | The caller ends up with the state of the core in spite of drops, races and outdated snapshots (`Fresh`); the channel ends if (`EndIsSeen`) and only if (`NoFalseEnd`) the state stream does. |
| `status_cancel` | Ending both streams can make the info goroutine send on the closed channel: `NoSendOnClosed` is violated. |
| `core_daemon` | The launcher of a TUI and a run of the daemon on one address; starts do not overlap, no foreign core appears during one. A start disconnects its own core only (`DisconnectsOwnCore`), and to its callers is one of `AtomicLauncher`, which a successful one leaves with its own core at the address (`LaunchIsAtomic`); a failed one leaves no process (`FailureLeavesNothing`), `Stop` ends what was started (`StopTerminates`), and both return although a process may ignore the interrupt (`CallsReturn`). The daemon ends when it is told to, wherever it is, or when its core does (`DaemonEnds`), and leaves no core of its own for its next run to find (`ExitLeavesNothing`). |
| `operations` | Two clients call one core at once, again and again: a call without an error has had its effect (`OkMeansDone`), one with an error was refused or cut off (`ErrorIsReal`). |

Each property of a passing run has a mutant: an operator beside the original
that makes one plausible mistake, with which TLC finds the property violated.

### What the counterexamples say

1. **`commands_content`** - `profile.go:45`. The document is in the memory of the
   process that added or refreshed the profile, and nowhere else. `connect` is
   another process; the document it hands to `Start` is empty. (In the TUI it
   works until the program ends.)
2. **`status_cancel`** - `grpc.go:122`. `close(out)` is deferred in the state
   goroutine; the info goroutine may be between its `Recv` and its send. Both
   end together whenever the context is cancelled.

### Counterexamples without a run

The modules state ten more properties that the code does not have. Each is
refuted by putting the property in place of those of a configuration above, with
the constants said:

* `StoreFile!ContentKept`, an invariant, in `MCStoreFileSole.cfg`: `profile.go:36`
  says "Content is stored verbatim"; the tag `json:"-"` (line 45) keeps it out of
  the file.
* `Dashboard!PromptIsCurrent`, an invariant, in `MCDashboardAttached.cfg`:
  `confirmDisconnect` is cleared by keys that fall through to the end of the
  handler, not by a disconnection nor by keys that return early. The first `c` of
  the next connection then disconnects unprompted (`dashboard.go:155-161`), for
  `dashboard_test.go:112` "first c must only request confirmation".
* `Migration!OkMeansImported`, an invariant, in `MCCommands.cfg`: an import whose
  save fails reports it as a warning and exits with 0, for
  `docs/operations.md:55` "`0` success" (`gui.go:130-133`).
* `Dashboard!KeptUntilAcknowledged` in `MCDashboardAttached.cfg` with
  `Carried = {"snapshot"}` and `MaxEvents = 0`: a snapshot from before the request
  clears its marker, where `dashboard.go:506-507` says "once the core has
  acknowledged the action".
* `Dashboard!AutoConnects` in `MCDashboardRequests.cfg` with `AutoConnect = TRUE`,
  `MaxPresses = 0`, `MaxEvents = 0`: `profile.go:51` says `AutoStart` "means auto-connect on TUI launch"; only
  a start connects, an attach does not.
* `Dashboard!StartAttaches` in `MCDashboardRequests.cfg` with `CoreUp = {FALSE}`,
  `MaxPresses = 0`, `MaxEvents = 1`, `Streams = {s1, s2}`: a start refused because
  a core took the address leaves the dashboard detached, for `README.md:5`
  "attaching to an already-running core".
* `CoreDaemon!KeepsServing`, a temporal property, in `MCCoreDaemon.cfg`: a daemon that found the
  address in use waits for a signal only (`main.go:42`). When the other core goes, nobody serves
  the address, for `main.go:1` "keeps the standalone core's gRPC control service alive";
  the run has not failed, so the service manager does not start another one.
* `Screen!CursorShown`, an invariant, in `MCPanes.cfg` with `MaxChoices = 4`, `MaxCmds = 1`, `MaxGroups = 1`: a list longer
  than its pane does not scroll (`dashboard.go:726`), and the cursor goes on below the last
  row, for `dashboard.go:706` "The cursor line is highlighted". Enter and d then act on a line
  that is not on the screen.
* `Screen!NewestLogShown`, an invariant, in `MCPanes.cfg`: `logLines` keeps the last half window
  of entries (`dashboard.go:984`), the pane shows the first of them it has room for, which in
  the grid is fewer; the newest are not on the screen.
* `Screen!ExactWhateverItSays`, an invariant, in `MCPanes.cfg`: `truncate` (`dashboard.go:754`) keeps the line
  breaks of errors, messages, tags and log entries (only the line being typed loses them, line 997), and each adds a row, for
  `dashboard.go:706` "The pane is always exactly width x height".

Some properties of passing runs fail outside the restrictions of those runs:

* `OnlyStartPanics` in `MCDashboardLaunch.cfg` with `Carried = {"groups"}`: groups
  handled after `coreStopped` let enter and t call a nil client (`dashboard.go:405`).
* `DetachedShowsDisconnected` in `MCDashboardLaunch.cfg`: `s` stops the core and
  `coreStopped` is handled while an update of the stopped stream is already in a
  reader's hands. The snapshot is handled next and brings the connection back to
  the screen; nothing is left that would correct it (`dashboard.go:209`).
* `PathDecodes` in an instance of `StoreFile` (not of `StoreFileSole`, which assumes one writer) with one id,
  one process and two writers that belong to it: two commands of one TUI save at the same time and share `Path.tmp`. One
  truncates it after the other has filled it, and the other's rename installs an
  empty or half-written file, which the next `Open` refuses, for `profile.go:87` "Save persists
  the store atomically".
* `OkMeansDone` in `MCOperations.cfg` with `Refusals = {"answer"}`: a core that refuses with
  a message leaves the state of the answer at "stopped", and `operationError` takes that for
  success before it looks at the message (`grpc.go:223`). The core is not in the
  repository, so which of the two ways it refuses in is not known.
* `StopTerminates` in `MCCoreDaemon.cfg` with `Attempts <- MCTwo`,
  `Launchers <- MCTwoLaunchers`, `LauncherOf <- MCTwoOf`, `Runs <- MCNone`,
  `StartOf <- MCNoStarts`, `Overlaps = {"start"}`: `s` pressed twice before the first core listens. Both guards pass, the second spawn
  overwrites `l.cmd` (`launcher.go:141`), and its core exits because the port is
  taken. `Stop` finds nothing, and the core of the first start stays, for
  `launcher.go:231` "Stop terminates the launched core, if any". (`CallsReturn`
  holds with these constants as well.)
* `OnlyAddsPanic` and `NothingElseDeleted` in `MCPanes.cfg` with
  `Overlaps <- MCAll`: `d` pressed twice before the first
  deletion is done makes both find the same index, and the second one cuts the
  neighbour out of the list; when there is none it panics. An activation that has found the
  profile a deletion then removes selects nothing there is (`Panes!SelectionListed`). `CursorOnList` and `ScreenIsCurrent`
  hold with these constants as well.
* `DisconnectsOwnCore` with the constants of `StopTerminates` and `Overlaps = {"foreign"}`:
  a core that takes the address between guard and bind is dialled and disconnected
  (`launcher.go:159`, `192`), which the comment at line 101 means to exclude.

What else the models made plain, without a line of the repository against it: with a custom address `s`
calls `Start` on a nil launcher and panics (`dashboard.go:279`; the `dashboard_attached` run has it); a result handled
while an addition appends makes `List` panic (`profile.go:105-109`, 135; the `panes` run has it); one handled while a deletion of
the first of two profiles moves the second up can show that one twice, both lines marked if it is the selected one; a
wrong or unknown command that is not a profile command may start a core before its
usage is printed (`main.go:112`); a request to a core that has just died exits
with 4, not 3; `q` in the form quits the program (`dashboard.go:306`); a clipboard
read that is late replaces what has been typed into a later form.

## 4. Bounds, and why they are enough

* **Store**: two ids, one name, one config document, one process with one
  writer. Two ids are needed for a selection that names something else than
  what is deleted; the writer's steps do not look at the data. The proofs cover every size.
* **Dashboard**: `Cap = 1` stands for the channel of 16: a full, an
  empty and a non-empty channel all occur, and one more update is in the
  goroutine's and one in the reader's hands, so updates are outdated by up to three
  events. `MaxCmds = 2` is the reader and one more command; with overlapping
  starts both slots are commands. `MaxPresses` and `MaxEvents` count the keys
  pressed and the things that happen to the core (dies, is started by somebody else,
  changes state, loses a stream). An attached core is in any state at launch; `dashboard_attached` starts with a core and without one, so that `s` is among its keys. Two presses are needed to disconnect (prompt
  and confirmation) and for start and stop; `dashboard_requests` has three and two, so that a request
  can replace a pending one. `Carried` leaves out update kinds a run's properties do
  not read. A stream name is reused when nobody refers to it, so two names
  allow any number of attachments.
* **Status stream**: two state changes of the core, so that a snapshot can be
  outdated by two; all four states.
* **Launcher and daemon**: two starts on the launcher of the TUI and one of the daemon, so that a
  start follows a start of its own launcher and of another one, and the daemon finds the
  address free, taken and free again. One run of the daemon: the next one differs from it in what it finds.
* **Unary calls**: two clients, one of which is between two requests while the other
  changes the core; `Refusals = {"error"}`, as the core is expected to refuse by gRPC. Calls follow
  each other without end.
* **Panes**: three ids, two of which may be stored at launch, so that a profile
  can be added to a full list and the one deleted need not be the active one nor the last;
  two commands in flight, one of which writes the list at most (`MCOverlaps`: clipboard and core calls beside
  everything; `MCAll` for what may follow before a result is handled). One outbound choice, which may be gone
  when the cursor is moved; that the highlight is right with a cursor beyond a list that has shrunk and with more
  choices is `HighlightFollowsCursor`, proved for any number. Ids are not reused, as a draw of eight random bytes.
* **Screen**: up to three groups, so that one of them may be empty at any place beside one
  that is not; windows of no size, at the minimum, at the least size that gets a grid, wide
  but too low for one, and an ordinary one; lines of 3 and 200 runes, shorter and longer than any pane, with no
  line break and with two; an empty and a full log. That the screen fits and highlights the right line is proved for
  every window, length, log and number of groups.
* **Commands**: two remote ids and a local one, a document the core accepts and one it does
  not, two names, so that a rename may change one or not; four rows of which one is a duplicate of the active one that is not next to it, and
  one of an unknown type. A command that adds is not started when
  no id is left (`HasRoom`). Commands come one after the other without end.

`CHECK_DEADLOCK FALSE` is in the configurations where the system really stops: a
dashboard that has quit or panicked or has used up its keys; a status stream
whose caller has seen the end; launchers all of whose starts have been made.

## 5. Fairness

* `Dashboard`: commands, handlers and stream goroutines run when they can (the Go
  scheduler and Bubble Tea's loop). `select` picks among ready cases at random,
  so a snapshot or a tick that is ready again and again is picked at some point:
  strong fairness on `TakeSnapshot` and `TakeTick`. A starting or stopping core
  settles. The pending deadline passes. Nothing is assumed of the user, of failures, or of other
  clients.
* `StatusStream`: the goroutines run, the caller keeps reading, and the core
  sends its system information periodically. Streams need not end and the
  core need not change.
* `Commands`: a process takes its next step and ends: every call it makes has a
  deadline (`main.go:141`, `148`, `169`, `213`, `263`, the 15 seconds of
  `subscription.go:37`, the timeout of the dial and of the start), and `Step` then has a
  disjunct for the deadline. Commands that follow a stream end only with it and
  are left out of `CommandsEnd`. `profile add-stdin` reads standard input to its end, with no deadline
  (`io.ReadAll`, `main.go:296`): that it ends is assumed of the user. Nothing is assumed of the core or of kills.
* `CoreLauncher`: goroutines run, the timers of `Start` and of `Stop` fire, and a
  killed process exits. Nobody has to call `Start`, and a core need not serve.
* `CoreDaemon`: besides, `main` goes on when it can. Nobody has to start or to signal a daemon.

`EndIsSeen` counts a panic as an end of the stream: that it can happen is what
`status_cancel` shows.

## 6. Proofs

Checked with TLAPS, for every value of the constants that satisfies the modules'
assumptions.

| Theorem | States |
|---|---|
| `StoreFileProofs!AlwaysDecodes` | `PathDecodes` |
| `StoreFileProofs!Durable` | `SavedMeansOnDisk` |
| `StoreFileProofs!SelectionSound` | `SelectionExists` |
| `StoreFileProofs!Implements` | `SaveIsAtomic`: the refinement of `AtomicStore` |
| `DashboardProofs!CoreFollowed` | `CoreHasStream` |
| `DashboardProofs!AlwaysListening` | `NeverDeaf` |
| `DashboardProofs!LiveStreamOnScreen` | `ReadsLiveStream` |
| `DashboardProofs!UpdatesInOrder` | `OneReader`, if `Launcher # "binary"` |
| `DashboardProofs!NoNilClient` | `OnlyStartPanics`, if `Launcher # "binary"`: no nil client is called; a nil launcher is, by a start |
| `DashboardProofs!LossIsShown` | `DetachedShowsDisconnected`, if `Launcher # "binary"` |
| `CoreLauncherProofs!FailuresAreClean` | `FailureLeavesNothing`, if no start or `Stop` overlaps another start |
| `CoreLauncherProofs!ForeignCoresUntouched` | `DisconnectsOwnCore`, if `Overlaps = {}` |
| `CoreLauncherProofs!OwnCoreStarted` | `StartedIsOurs`, if `Overlaps = {}` |
| `CoreLauncherProofs!StopReachesTheCore` | `StopTerminates`, if `Overlaps = {}` |
| `CoreLauncherProofs!ImplementsAtomic` | `LaunchIsAtomic`: the refinement of `AtomicLauncher`, if `Overlaps = {}` |
| `CoreLauncherProofs!CallsRunOut` | a `Start` or a `Stop` has at most 15 or 7 steps, each of which leaves fewer (the safety half of `CallsReturn`) |
| `CoreLauncherProofs!LaunchersKept` | `DaemonSpec => Spec`: all of these hold with daemons as well |
| `CoreLauncherProofs!NothingLeft` | `ExitLeavesNothing` |
| `OperationsProofs!OkIsDone` | `OkMeansDone`, if `Refusals` has errors only |
| `OperationsProofs!ErrorsAreReal` | `ErrorIsReal` |
| `StatusStreamProofs!EndIsReal` | `NoFalseEnd` |
| `StatusStreamProofs!NoStateIsLost` | the last state reported is on its way or in `state` (the safety half of `Fresh`) |
| `PanesProofs!CursorStaysOnList` | `CursorOnList` |
| `PanesProofs!ScreenCatchesUp` | `ScreenIsCurrent` |
| `PanesProofs!FormsStartEmpty` | `ClosedFormIsEmpty` |
| `PanesProofs!OnlyAdditionsPanic` | `OnlyAddsPanic`, if `Separate` |
| `PanesProofs!OnlyChosenDeleted` | `NothingElseDeleted`, if `Separate` |
| `PanesProofs!SelectionNamesProfile` | `SelectionListed`, if `Separate` |
| `PanesProofs!ImplementsAtomic` | `RequestsAreAtomic`: the refinement of `AtomicPanes`, if `Separate` |
| `PanesProofs!EveryWindowFits` | `FitsWindow`, and the same of the lists as they are: windows of at least 40x10, the number of rows only if no line is broken |
| `PanesProofs!HighlightFollowsCursor` | `HighlightIsTarget`, and the same of the lists as they are |
| `CommandsProofs!ZeroMeansDone` | `OkMeansDone`: what `FileSaysSo` lists for the profile commands, and which profile was handed to the core |
| `CommandsProofs!FailuresKeepTheFile` | `FailureChangesNothing` |
| `CommandsProofs!StoredIsValid` | `OnlyValidated`: adds and refreshes, not imports |
| `CommandsProofs!ImportsAreSaved` | `ImportedIsSaved` |
| `CommandsProofs!ResultIsComplete` | `EveryRowReported` |
| `CommandsProofs!UrlsImportedOnce` | `NoUrlTwice` |
| `CommandsProofs!SelectionFollowsGui` | `GuiSelectionKept` |
| `CommandsProofs!CommandsAdvance` | a command has at most six steps more than the database has rows, each of which leaves fewer (the safety half of `CommandsEnd`) |

Each of the proof modules also has a theorem `Typed`, the type invariant of its
specification; the runs do not check types, as the proofs do for every instance.

**Store.** The type invariant needs `Running`: a writer inside `Save` belongs to
a running process, or its marshalling would read the memory of a dead one. The
safety theorems use `SoleInv`, which adds `SaveProgress`: between marshalling and
renaming, the writer's bytes are those of its memory, the file it has open is
the temporary one, and after the write the temporary file holds those bytes. Without it the
rename could install anything. `SaveProgress` is an invariant only because there
is one writer (`SoleWriter`): the counterexample with two shows that the assumption is
needed. The list operations enter through two lemmas of `ProfileStoreProofs`, that an accepted operation yields a store and
that it keeps the selection well formed. The refinement maps the temporary
file, the position inside `Save` and the open file to one flag; the rename is the `Commit` of
`AtomicStore`, each failure its `Fail`, every other step a stutter.

**Dashboard.** `ControlInv` is the conjunction of the three control invariants;
together with the types it is inductive, and no one of them is alone: a handler
re-arms its reader only if it finds a stream, which is safe because of
`CoreHasStream`; a start that succeeds replaces the stream on screen, which is
the only reason why the reader of the old one may vanish with it. There is a lemma for each
kind of step: what keeps the readers (`StillReads`, `SilentCommands`), what
detaches (`Detached`), and then keys, handlers, commands, stream goroutines and the
core. These theorems hold for any number of streams, commands, key presses and
events, for every launcher and every `Carried`.

The three theorems about an attached dashboard assume that it launches no core (a
default address without a binary, or a custom address, for which there is no launcher): the counterexamples above are what happens otherwise. `AttachedInv`
is their invariant: no command starts or stops a core; as long as there is a core
at most one command reads or holds an update, and with the core the last of
them goes, so that no update finds the screen without a core. `OneReader` and the absence of a
reader after the core need each other.

**Launcher.** `ForeignCoresUntouched`, `OwnCoreStarted`, `StopReachesTheCore` and `ImplementsAtomic`
assume that a start overlaps neither
another start or a `Stop` nor the start of a foreign core; the counterexamples
above show that each half is needed. `SafeInv` says why it is enough. One start is in
progress at a time (`Alone`). From its guard on, the address is its own or nobody's
and no other process is alive; a core that a finished start has left is the one that serves
(`Addressed`) - so the guard, which sees only the address, does see every process. A
live process is the one its launcher knows, and the one a `Stop` has
read (`Known`), so that a `Stop` which finds no process, or sees its target reaped, has
left none. A process exists only after its spawn (`Unborn`). TLC checked `SafeInv` on the `core_daemon` instance before it
was proved. The refinement adds `Serving`, that the owner of the address serves; there is a lemma for
the steps of a start, of a stop and of a process, each an action of `AtomicLauncher` or a stutter.

`FailuresAreClean` needs half of the assumption. A foreign core that takes the
address during a start may be dialled instead of ours, but a start that fails
stops the process it has spawned, wherever the address has gone; `OwnKnown`, the part of `Known` about
starts in progress, is all its invariant `CleanInv` keeps of `SafeInv`. `CallsRunOut` needs none: it
counts what is left of a call (`StartLeft`, `StopLeft`). A deadline, a kill
and the way of a process to its reaping only take away, and a `Stop` waits for a process that exists (`CallInv`).

**Daemon.** `LaunchersKept` is a step simulation: each step of `CoreDaemon` is one of `CoreLauncher`
or leaves its variables alone. `NothingLeft` does not assume `Overlaps = {}`: its launcher is
the daemon's own, so nobody overwrites `l.cmd`, and what happens on the address
cannot hide the process from it (`OwnCore`).

**Unary calls.** The invariant of a client relates the answer it holds to what the core has
done (`AnswerInv`) and to the request it has reached (`CallInv`); steps of other
clients move the core, and leave `did`, `lost` and the answer as they are, or
extend `during` (`Frame`). `ErrorsOnly` is the one part that needs `Refusals \subseteq {"error"}`.

**Status stream.** `StreamInv` adds to the types what the two goroutines have in
their hands, and that the state goroutine alone closes the channel, on its
way out. `NothingLost` follows the last entry from the stream through `entry` into `state`, from which
both goroutines assemble their snapshots: a full channel loses snapshots, never the state, and
once the state goroutine is idle a read of `state` is not torn.

**Panes.** `PanesInv` holds whatever overlaps and however a copy of the list is torn: the cursors are in range after
every handler, a late clipboard finds its form or none, and the screen is the store, or the copy in the making is,
line by line so far, unless a result is on its way (`CurrentInv`). A command posts its result
after its last change, so once no result is awaited nothing changes the list a copy is made of.
The safety of the list needs that commands which change it do not
run together (`Separate`: the code has no lock, the user has to wait; `List` and everything else may run beside them). Then `HoldInv` keeps what a
command has seen of the store (`Holds`): the index a deletion has found is
still that of the profile the user has chosen, and while it moves the others up the array is the list it
has seen with the profiles between the place and the index shifted by one (`Shifted`). `SafeInv` adds what follows of profiles and
selection, and that the list outgrows the room `List` has allocated only by an addition (`Grown`). `EveryWindowFits` is a theorem about the
layout: blocks of a height and a width, put above and beside each other, add up to the window,
for every size of it from 40x10; its lemmas are the arithmetic of `renderGrid` and
`renderStacked`, and that lines without breaks add no rows (`NothingSpills`). `HighlightFollowsCursor` carries through the same layouts which lines are highlighted, and
needs of the flattened list that item n of `outboundChoices`, which the keys use, is the item on the n-th line
that is not a title, which the screen uses, whatever groups come before it. That is an induction over
the groups: `FlattenUnfolds` is the recursion of `FlattenSeq`, and `SetInduction` the principle, which is stated of a set of
numbers instead of a predicate, and so needs no operator for a parameter.

The refinement of `AtomicPanes` maps the commands before their point of no return to requests. `ImplementsAtomic`
shows for each step of a command, each handler and each key which step of `AtomicPanes` it is; the cut of a deletion is its `Delete`,
selection included; the moves before it and the clearing that follows are stutters, as `Profiles` and `Selection` look
through them. A copy of the list is a `Refresh` to some set of known profiles, which is all that holds of a torn one.

**Commands.** `FileInv`: until its last step a
command has left the file as it found it; the import saves twice, and is at "select"
between its saves, where no exit code has been chosen yet. `ValidInv`: a command that is about to
store holds a document that `Parse` has accepted; nothing is assumed of the core between
the two steps, which is why the theorem covers a core that vanishes in between.
`ImportInv`: what an import has added is in memory while it adds, and on disk as
soon as it selects; adding and selecting drop nothing (`AddPresent`). It needs
`StoreInv`, that memory and file are stores throughout, which rests on the same list lemmas as the
proofs of `StoreFile`. `JobInv` ties the next step to the command, and says that no
change has been made before a document is kept or the store's own command runs; `FileSaysSo` then follows from what each
operation does to the list and from what the JSON keeps of it (`PersistedNames`). For the report of an import:
`Accounts` splits the rows into imported, warned of and left, `OnceInv` has no repeated URL
among the imported and one id per row, `ActiveInv` follows the row that was active in the GUI to the
id that is selected. `Rank` is the number of steps a command has left at most: an import counts the rows it has
left to do, everything else its place in the sequence.

Assumed of the environment: the guard of `Launcher.Start` sees a core that
serves; ids of profiles do not collide in a list; the answers of the core are
those modelled.

**Only model-checked**: liveness (`PendingEnds`, `ShowsCoreState`, `Fresh`,
`EndIsSeen`, `CallsReturn`, `CommandsEnd`, `DaemonEnds`), which under fairness is out of the prover's
reach. Of `Fresh`, `CallsReturn` and `CommandsEnd` the part that is about steps is proved: that
nothing is lost, and that the steps run out; that a step is enabled and taken is left to TLC.

## 7. Not modelled

* Wording, colours and spinners of the dashboard. In `Screen` a line is its length and its number of breaks;
  a rune is one column wide (no tabs, no wide runes), and what a break does to the columns of the rows
  beside it is left out.
* The parsing of subscriptions, headers and base64: sequential conversion of data that no state
  depends on; `Commands` and `Migration` have a download that yields a document or fails.
* Clipboard tools, core download, the Windows host, packaging: sequential I/O around
  external tools, with no state of their own. What the service unit makes of an exit code is in
  `CoreDaemon`.
* `src/gen`: generated from protocol definitions. `Operations` has the message types and
  the responses its calls read.
* The core: outside the repository. What the models let it do is listed in the
  comments of `Dashboard`, `CoreLauncher` and `Operations`.
* A core that does not answer an RPC of the dashboard: a call returns. The
  outbound polling of `streamUpdates` has no timeout of its own, so a hanging core
  stalls it, and with it ticks and deadlines.
* The logs of the dashboard as they grow; `Screen` has a log of any length.

## 8. Plan

The order put first what the program is for: not losing profiles, and controlling the
core from the dashboard. Done: the store and its refinement, the dashboard, the status stream,
the launcher and its refinement, the panes, their refinement and their screen, the import and the commands, the
daemon, the unary calls, each with its theorems: every invariant, action property and
refinement of the runs is proved. What would add most from here:

1. `Dashboard` composed with `CoreLauncher` (its start as an implementation of the abstract one of
   `Dashboard`) and with `StatusStream` (an abstract stream that eventually
   delivers the newest state, implemented by `WatchStatus`).
2. `StoreFile`: lost updates between two processes that have opened the file.
3. A core that never answers, as a step of the stream goroutine of its own.
4. The headers of subscriptions as operators over a small set of documents.
