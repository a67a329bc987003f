------------------------------- MODULE Dashboard -------------------------------
(***************************************************************************)
(* Connection control of the terminal dashboard, internal/tui/dashboard.go.*)
(*                                                                         *)
(* Bubble Tea calls Update with one message at a time; a handler changes   *)
(* the model and may return a command.  Each command runs in a goroutine   *)
(* of its own and ends in one message, delivered at any later moment and   *)
(* in any order relative to the others.  Commands in flight are the slots  *)
(* of cmds.                                                                *)
(*                                                                         *)
(* A stream is one call of streamUpdates: a goroutine that feeds a         *)
(* buffered channel of updates.  The dashboard reads it one message per    *)
(* command (waitForStream), so that there should always be one reader.     *)
(*                                                                         *)
(* The core is the process behind the control address.  It is not part of  *)
(* the repository: it is modelled by how it answers.  Profile lists,       *)
(* cursors, add mode and rendering are not in this module.                 *)
(***************************************************************************)
EXTENDS Naturals, Sequences

CONSTANTS
    Streams,     \* names for calls of streamUpdates
    NoStream,    \* m.updates is nil
    Cap,         \* capacity of an updates channel (16 in the code)
    MaxCmds,     \* bound: commands in flight
    MaxPresses,  \* bound: key presses in a behaviour
    MaxEvents,   \* bound: things that happen to the core in a behaviour
    Carried,     \* bound: what the streams carry, of {"snapshot", "groups", "tick"}
    Launcher,    \* m.launcher: "binary", "noBinary", or "nil" with a custom address
    AutoConnect, \* the store has AutoStart set and an active profile
    CoreUp       \* values, at launch, of: a core answers at the address

ASSUME DashboardAssumption ==
    /\ NoStream \notin Streams
    /\ Cap \in Nat \ {0}
    /\ MaxCmds \in Nat \ {0}
    /\ MaxPresses \in Nat
    /\ MaxEvents \in Nat
    /\ Carried \subseteq {"snapshot", "groups", "tick"}
    /\ Launcher \in {"binary", "noBinary", "nil"}
    /\ AutoConnect \in BOOLEAN
    /\ CoreUp \subseteq BOOLEAN

VARIABLES
    core,      \* m.core is not nil
    spawned,   \* m.spawned: this dashboard started the core
    snapshot,  \* m.snapshot.State, "" for the zero Snapshot
    groups,    \* m.groups lists some outbound
    confirm,   \* m.confirmDisconnect
    pending,   \* m.pending
    late,      \* pendingUntil has passed
    updates,   \* m.updates, the stream the dashboard reads
    cmds,      \* cmds[c]: the command in slot c
    stream,    \* stream[g]: the goroutine and the channel of stream g
    up,        \* a core answers at the control address
    ours,      \* ... and our launcher spawned it
    engine,    \* connection state of the core
    program,   \* "running", "quit" or "panicked"
    presses,   \* key presses so far
    events     \* unsolicited events of the core so far

ui   == <<core, spawned, snapshot, groups, confirm, pending, late, updates>>
env  == <<up, ours, engine>>
vars == <<ui, cmds, stream, env, program, presses, events>>

States == {"stopped", "starting", "started", "stopping"}
Ops    == {"connect", "disconnect", "restart"}
Slots  == 1 .. MaxCmds

(***************************************************************************)
(* Messages.  The updates carry the stream they came from, which the code  *)
(* does not know: no handler looks at it.                                  *)
(***************************************************************************)
Updates == [t : {"snapshot"}, from : Streams, state : States]
             \cup [t : {"groups", "tick", "err"}, from : Streams]
Messages == Updates
              \cup [t : {"result"}, op : Ops \cup {"outbound"}, ok : BOOLEAN]
              \cup [t : {"coreStarted"}, ok : BOOLEAN]
              \cup [t : {"coreStopped"}]

Snap(g, s) == [t |-> "snapshot", from |-> g, state |-> s]
Upd(g, t)  == [t |-> t, from |-> g]

NoItem == [t |-> "none"]

(***************************************************************************)
(* Commands in flight, by the step they take next.                         *)
(***************************************************************************)
Idle == [k |-> "idle"]

Commands ==
    {Idle}
      \cup [k : {"wait"}, on : Streams]           \* waitForStream: blocked on <-updates
      \cup [k : {"guard", "boot", "settle"}]      \* startCore, inside Launcher.Start
      \cup [k : {"stop"}]                         \* stopCore
      \cup [k : {"call", "called"}, op : Ops]     \* an RPC on the way there, and back
      \cup [k : {"outbound"}, core : BOOLEAN]     \* select or test, on m.core as it was
      \cup [k : {"deliver"}, msg : Messages]      \* ended, its message not yet handled

Wait(g)       == [k |-> "wait", on |-> g]
Deliver(m)    == [k |-> "deliver", msg |-> m]
Result(op, b) == [t |-> "result", op |-> op, ok |-> b]

\* The slot a new command takes: slots are interchangeable.
Free(c) == cmds[c] = Idle /\ \A d \in Slots : d < c => cmds[d] # Idle

Become(c, x) == cmds' = [cmds EXCEPT ![c] = x]

Handling(c, t) == cmds[c].k = "deliver" /\ cmds[c].msg.t = t

(***************************************************************************)
(* Streams: what the goroutine does, its context, the update it has taken  *)
(* from its select and not yet sent, and the channel.                      *)
(***************************************************************************)
Empty(at) == [at |-> at, cancelled |-> FALSE, item |-> NoItem, chan |-> <<>>]
NoChannel == Empty("off")
Opened    == Empty("open")

\* A stream nobody refers to any more can stand for the next one.
Unused(g) == /\ stream[g].at \in {"off", "done"}
             /\ updates # g
             /\ \A c \in Slots : cmds[c] # Wait(g)

Cancel(g) == [stream EXCEPT ![g].cancelled = TRUE]

\* stopStream: cancel the context and forget the channel.
StopStreamKeeps == /\ stream' = IF updates = NoStream THEN stream ELSE Cancel(updates)
                   /\ UNCHANGED updates
StopStream == /\ stream' = IF updates = NoStream THEN stream ELSE Cancel(updates)
              /\ updates' = NoStream

\* waitForStream(m.updates): no command when the channel is nil.
RearmForgotten(c) == Become(c, Idle)
Rearm(c) == Become(c, IF updates = NoStream THEN Idle ELSE Wait(updates))

\* The handler returns no command.
NoCommandReads(c) == Rearm(c)
NoCommand(c) == Become(c, Idle)

\* restartStream: the old context is cancelled, the new stream gets a reader.
RestartStream(c) ==
    \E g \in Streams :
        /\ Unused(g)
        /\ stream'  = [(IF updates = NoStream THEN stream ELSE Cancel(updates))
                          EXCEPT ![g] = Opened]
        /\ updates' = g
        /\ Become(c, Wait(g))

(***************************************************************************)
(* Launch: RunWithOptions and Dashboard.Init.  The caller has dialled the  *)
(* address; if nothing answered and there is a binary, a start is issued.  *)
(***************************************************************************)
Init ==
    /\ up \in CoreUp /\ ours = FALSE
    /\ engine \in IF up THEN States ELSE {"stopped"}
    /\ core = up /\ spawned = FALSE
    /\ snapshot = "" /\ groups = FALSE
    /\ confirm = FALSE /\ pending = "" /\ late = FALSE
    /\ IF up
       THEN \E g \in Streams :
              /\ updates = g
              /\ stream = [h \in Streams |-> IF h = g THEN Opened ELSE NoChannel]
              /\ cmds = [c \in Slots |-> IF c = 1 THEN Wait(g) ELSE Idle]
       ELSE /\ updates = NoStream
            /\ stream = [h \in Streams |-> NoChannel]
            /\ cmds = [c \in Slots |-> IF c = 1 /\ Launcher = "binary" THEN [k |-> "guard"] ELSE Idle]
    /\ program = "running"
    /\ presses = 0
    /\ events = 0

(***************************************************************************)
(* Update: keys                                                            *)
(***************************************************************************)
Press == /\ program = "running"
         /\ presses < MaxPresses
         /\ presses' = presses + 1
         /\ UNCHANGED events

\* request: the marker, and a deadline 15 seconds away.
Request(op) == pending' = op /\ late' = FALSE

\* connect, disconnect and restart: without a core, or without an active profile
\* where one is needed, the command is an error message; otherwise it is an RPC.
Issue(c, op) ==
    \/ /\ ~ core \/ op # "disconnect"
       /\ Become(c, Deliver(Result(op, FALSE)))
    \/ /\ core
       /\ Become(c, [k |-> "call", op |-> op])

\* "press c again to disconnect"
AskConfirmation ==
    /\ Press
    /\ snapshot = "started" /\ ~ confirm
    /\ confirm' = TRUE
    /\ UNCHANGED <<core, spawned, snapshot, groups, pending, late, updates, cmds, stream, env, program>>

PressDisconnect(c) ==
    /\ Press /\ Free(c)
    /\ snapshot = "started" /\ confirm
    /\ confirm' = FALSE
    /\ Request("disconnect") /\ Issue(c, "disconnect")
    /\ UNCHANGED <<core, spawned, snapshot, groups, updates, stream, env, program>>

PressConnect(c) ==
    /\ Press /\ Free(c)
    /\ snapshot # "started"
    /\ Request("connect") /\ Issue(c, "connect")
    /\ UNCHANGED <<core, spawned, snapshot, groups, confirm, updates, stream, env, program>>

PressRestart(c) ==
    /\ Press /\ Free(c)
    /\ Request("restart") /\ Issue(c, "restart")
    /\ UNCHANGED <<core, spawned, snapshot, groups, confirm, updates, stream, env, program>>

PressStart(c) ==
    /\ Press /\ Free(c)
    /\ ~ core
    /\ Become(c, [k |-> "guard"])
    /\ UNCHANGED <<ui, stream, env, program>>

PressStop(c) ==
    /\ Press /\ Free(c)
    /\ core /\ spawned
    /\ Become(c, [k |-> "stop"])
    /\ UNCHANGED <<ui, stream, env, program>>

\* enter or t on an outbound.
PressOutbound(c) ==
    /\ Press /\ Free(c)
    /\ groups
    /\ Become(c, [k |-> "outbound", core |-> core])
    /\ UNCHANGED <<ui, stream, env, program>>

\* Keys that reach the end of the key switch - moves between panes, and s when
\* "core is external; start/stop it there" - drop the confirmation.
PressOther ==
    /\ Press
    /\ confirm
    /\ confirm' = FALSE
    /\ UNCHANGED <<core, spawned, snapshot, groups, pending, late, updates, cmds, stream, env, program>>

\* q, or a command that panics: the program ends and the core is left alone.
Terminate(how) ==
    /\ program' = how
    /\ cmds' = [c \in Slots |-> Idle]
    /\ stream' = [g \in Streams |-> NoChannel]
    /\ updates' = NoStream
    /\ core' = FALSE /\ spawned' = FALSE /\ snapshot' = "" /\ groups' = FALSE
    /\ confirm' = FALSE /\ pending' = "" /\ late' = FALSE
    /\ UNCHANGED env

PressQuit == Press /\ Terminate("quit")

(***************************************************************************)
(* Update: messages                                                        *)
(***************************************************************************)
\* A tick drops a request that has waited for longer than pendingTimeout.
NeverTimesOut == UNCHANGED <<pending, late>>
TimeOutPending == /\ pending' = IF late THEN "" ELSE pending
                  /\ late' = FALSE

OnTick(c) ==
    /\ Handling(c, "tick")
    /\ TimeOutPending
    /\ Rearm(c)
    /\ UNCHANGED <<core, spawned, snapshot, groups, confirm, updates, stream, env, program, presses, events>>

\* Nothing of the core that is gone stays on the screen.
ClearKeepsSnapshot == UNCHANGED snapshot /\ groups' = FALSE
ClearKeepsGroups   == snapshot' = "" /\ UNCHANGED groups
ClearScreen        == snapshot' = "" /\ groups' = FALSE

\* The stream failed ("core stopped (press s to start)"), or stopCore returned.
Detach(c) ==
    /\ Handling(c, "err") \/ Handling(c, "coreStopped")
    /\ StopStream
    /\ core' = FALSE /\ spawned' = FALSE
    /\ pending' = "" /\ late' = FALSE
    /\ ClearScreen
    /\ NoCommand(c)
    /\ UNCHANGED <<confirm, env, program, presses, events>>

\* clearPending: the core has moved to a state that matches the request.
Acknowledges(s, op) ==
    \/ op \in {"connect", "restart"} /\ s \in {"starting", "started"}
    \/ op = "disconnect"             /\ s \in {"stopping", "stopped"}

OnSnapshot(c) ==
    /\ Handling(c, "snapshot")
    /\ snapshot' = cmds[c].msg.state
    /\ pending' = IF Acknowledges(cmds[c].msg.state, pending) THEN "" ELSE pending
    /\ late' = (late /\ pending' # "")
    /\ Rearm(c)
    /\ UNCHANGED <<core, spawned, groups, confirm, updates, stream, env, program, presses, events>>

OnGroups(c) ==
    /\ Handling(c, "groups")
    /\ groups' \in BOOLEAN
    /\ Rearm(c)
    /\ UNCHANGED <<core, spawned, snapshot, confirm, pending, late, updates, stream, env, program, presses, events>>

\* A failed connection action clears the marker; a successful one keeps it until
\* the state stream confirms the new state.
OnResult(c) ==
    /\ Handling(c, "result")
    /\ LET failed == cmds[c].msg.op \in Ops /\ ~ cmds[c].msg.ok IN
         /\ pending' = IF failed THEN "" ELSE pending
         /\ late' = (late /\ ~ failed)
    /\ NoCommand(c)
    /\ UNCHANGED <<core, spawned, snapshot, groups, confirm, updates, stream, env, program, presses, events>>

OnCoreStarted(c) ==
    /\ Handling(c, "coreStarted")
    /\ IF cmds[c].msg.ok
       THEN core' = TRUE /\ spawned' = TRUE /\ RestartStream(c)
       ELSE NoCommand(c) /\ UNCHANGED <<core, spawned, updates, stream>>
    /\ UNCHANGED <<snapshot, groups, confirm, pending, late, env, program, presses, events>>

Handle(c) ==
    \/ OnTick(c)
    \/ Detach(c)
    \/ OnSnapshot(c)
    \/ OnGroups(c)
    \/ OnResult(c)
    \/ OnCoreStarted(c)

(***************************************************************************)
(* The core                                                                *)
(***************************************************************************)
Event == events < MaxEvents /\ events' = events + 1

\* The core process is gone: every status stream it served ends.
CoreGone ==
    /\ up' = FALSE /\ ours' = FALSE /\ engine' = "stopped"
    /\ stream' = [g \in Streams |-> IF stream[g].at = "run"
                                    THEN [stream[g] EXCEPT !.at = "lost"] ELSE stream[g]]

CoreDies ==
    /\ Event
    /\ up
    /\ CoreGone
    /\ UNCHANGED <<ui, cmds, program, presses>>

\* A service, the GUI or the user starts a core.
OtherStarts ==
    /\ Event
    /\ ~ up
    /\ up' = TRUE /\ ours' = FALSE /\ engine' = "stopped"
    /\ UNCHANGED <<ui, cmds, stream, program, presses>>

\* The core finishes what it was asked to do, or fails to connect.
EngineSettles ==
    /\ up
    /\ \/ engine = "starting" /\ engine' \in {"started", "stopped"}
       \/ engine = "stopping" /\ engine' = "stopped"
    /\ UNCHANGED <<ui, cmds, stream, up, ours, program, presses, events>>

\* The connection drops, or another client of the same core acts on it.
EngineMoves ==
    /\ Event
    /\ up
    /\ \/ engine = "started" /\ engine' \in {"stopping", "stopped"}
       \/ engine = "stopped" /\ engine' = "starting"
    /\ UNCHANGED <<ui, cmds, stream, up, ours, program, presses>>

(***************************************************************************)
(* Commands                                                                *)
(***************************************************************************)
Started(ok) == Deliver([t |-> "coreStarted", ok |-> ok])

\* startCore calls Launcher.Start: no launcher is a nil dereference; no binary,
\* an address in use or a failed spawn is an error; otherwise the process runs.
StartGuard(c) ==
    /\ cmds[c].k = "guard"
    /\ IF Launcher = "nil"
       THEN Terminate("panicked") /\ UNCHANGED <<presses, events>>
       ELSE /\ \/ Become(c, Started(FALSE))
               \/ Launcher = "binary" /\ ~ up /\ Become(c, [k |-> "boot"])
            /\ UNCHANGED <<ui, stream, env, program, presses, events>>

\* A core becomes reachable - ours, with its bootstrap profile, unless another
\* one took the address meanwhile - or Start gives up.
StartBoot(c) ==
    /\ cmds[c].k = "boot"
    /\ \/ /\ Become(c, [k |-> "settle"])
          /\ up' = TRUE
          /\ ours' = (ours \/ ~ up)
          /\ engine' = IF up THEN engine ELSE "starting"
       \/ /\ Become(c, Started(FALSE))
          /\ UNCHANGED env
    /\ UNCHANGED <<ui, stream, program, presses, events>>

\* stopBootstrap disconnects the bootstrap profile; with AutoStart and an active
\* profile startCore then connects, and ignores the outcome.
StartSettles(c) ==
    /\ cmds[c].k = "settle"
    /\ up /\ engine = "started"
    /\ engine' \in {"stopped"} \cup (IF AutoConnect THEN {"starting"} ELSE {})
    /\ Become(c, Started(TRUE))
    /\ UNCHANGED <<ui, stream, up, ours, program, presses, events>>

\* Start gives up on the bootstrap and stops the process it launched.
StartFails(c) ==
    /\ cmds[c].k = "settle"
    /\ Become(c, Started(FALSE))
    /\ IF ours THEN CoreGone ELSE UNCHANGED <<env, stream>>
    /\ UNCHANGED <<ui, program, presses, events>>

\* stopCore: Launcher.Stop ends the process this launcher spawned, if it lives.
Stop(c) ==
    /\ cmds[c].k = "stop"
    /\ Become(c, Deliver([t |-> "coreStopped"]))
    /\ IF ours THEN CoreGone ELSE UNCHANGED <<env, stream>>
    /\ UNCHANGED <<ui, program, presses, events>>

\* A connection RPC reaches the core, ...
CallApplies(c) ==
    /\ cmds[c].k = "call"
    /\ up
    /\ engine' = CASE cmds[c].op \in {"connect", "restart"} -> "starting"
                   [] engine \in {"starting", "started"}     -> "stopping"
                   [] OTHER                                  -> engine
    /\ Become(c, [cmds[c] EXCEPT !.k = "called"])
    /\ UNCHANGED <<ui, stream, up, ours, program, presses, events>>

\* ... returns, or fails on the way: rejected, unreachable or out of time.
CallReturns(c) ==
    /\ \/ cmds[c].k = "called" /\ \E ok \in BOOLEAN : Become(c, Deliver(Result(cmds[c].op, ok)))
       \/ cmds[c].k = "call" /\ Become(c, Deliver(Result(cmds[c].op, FALSE)))
    /\ UNCHANGED <<ui, stream, env, program, presses, events>>

\* SelectOutbound or TestOutbound on the client of the keypress, which may be nil.
CallOutbound(c) ==
    /\ cmds[c].k = "outbound"
    /\ IF cmds[c].core
       THEN /\ \E ok \in BOOLEAN : Become(c, Deliver(Result("outbound", ok)))
            /\ UNCHANGED <<ui, stream, env, program>>
       ELSE Terminate("panicked")
    /\ UNCHANGED <<presses, events>>

\* waitForStream: the next update of the channel, or its end.
Receive(c) ==
    /\ cmds[c].k = "wait"
    /\ LET g == cmds[c].on IN
         \/ /\ stream[g].chan # <<>>
            /\ Become(c, Deliver(Head(stream[g].chan)))
            /\ stream' = [stream EXCEPT ![g].chan = Tail(@)]
         \/ /\ stream[g].chan = <<>> /\ stream[g].at = "done"
            /\ Become(c, Deliver(Upd(g, "err")))
            /\ UNCHANGED stream
    /\ UNCHANGED <<ui, env, program, presses, events>>

Command(c) ==
    \/ StartGuard(c)
    \/ StartBoot(c)
    \/ StartSettles(c)
    \/ StartFails(c)
    \/ Stop(c)
    \/ CallApplies(c)
    \/ CallReturns(c)
    \/ CallOutbound(c)
    \/ Receive(c)

(***************************************************************************)
(* The stream goroutine: subscribe, then select an event and send it.      *)
(***************************************************************************)
StreamIs(g, x) == /\ stream' = [stream EXCEPT ![g] = x]
                  /\ UNCHANGED <<ui, cmds, env, program, presses>>

StreamStep(g, x) == StreamIs(g, x) /\ UNCHANGED events

\* WatchStatus fails without a core or with a cancelled context.  It may report
\* its initial "stopped" before the core has said anything.
Subscribe(g) ==
    /\ stream[g].at = "open"
    /\ IF up /\ ~ stream[g].cancelled
       THEN \E i \in {NoItem} \cup (IF "snapshot" \in Carried THEN {Snap(g, "stopped")} ELSE {}) :
              StreamStep(g, [stream[g] EXCEPT !.at = "run", !.item = i])
       ELSE StreamStep(g, [stream[g] EXCEPT !.at = "lost"])

Selecting(g) == stream[g].at = "run" /\ stream[g].item = NoItem

TakeSnapshot(g) ==
    /\ Selecting(g) /\ "snapshot" \in Carried
    /\ StreamStep(g, [stream[g] EXCEPT !.item = Snap(g, engine)])

TakeTick(g) ==
    /\ Selecting(g) /\ "tick" \in Carried
    /\ StreamStep(g, [stream[g] EXCEPT !.item = Upd(g, "tick")])

TakeGroups(g) ==
    /\ Selecting(g) /\ "groups" \in Carried
    /\ StreamStep(g, [stream[g] EXCEPT !.item = Upd(g, "groups")])

\* A call that outlives the core process, or breaks while the core lives on.
StreamBreaks(g) ==
    /\ Event
    /\ stream[g].at = "run"
    /\ StreamIs(g, [stream[g] EXCEPT !.at = "lost"])

\* "core status stream ended": also what a cancelled context looks like when the
\* select picks the status channel first.
TakeError(g) ==
    /\ stream[g].at = "lost" \/ (stream[g].at = "run" /\ stream[g].cancelled)
    /\ stream[g].item = NoItem
    /\ StreamStep(g, [stream[g] EXCEPT !.item = Upd(g, "err"), !.at = "ending"])

\* <-ctx.Done()
TakeDone(g) ==
    /\ Selecting(g) /\ stream[g].cancelled
    /\ StreamStep(g, [stream[g] EXCEPT !.at = "done"])

\* updates <- item: blocks on a full channel, whatever has become of the context.
Send(g) ==
    /\ stream[g].item # NoItem
    /\ Len(stream[g].chan) < Cap
    /\ StreamStep(g, [stream[g] EXCEPT !.chan = Append(@, stream[g].item),
                                       !.item = NoItem,
                                       !.at = IF @ = "ending" THEN "done" ELSE @])

Stream(g) ==
    \/ Subscribe(g)
    \/ TakeSnapshot(g)
    \/ TakeTick(g)
    \/ TakeGroups(g)
    \/ TakeError(g)
    \/ TakeDone(g)
    \/ Send(g)

\* The deadline of the pending request passes.
PendingExpires ==
    /\ pending # "" /\ ~ late
    /\ late' = TRUE
    /\ UNCHANGED <<core, spawned, snapshot, groups, confirm, pending, updates,
                   cmds, stream, env, program, presses, events>>

Keys ==
    \/ AskConfirmation
    \/ PressOther
    \/ PressQuit
    \/ \E c \in Slots :
          \/ PressDisconnect(c)
          \/ PressConnect(c)
          \/ PressRestart(c)
          \/ PressStart(c)
          \/ PressStop(c)
          \/ PressOutbound(c)

Next ==
    \/ Keys
    \/ \E c \in Slots : Handle(c) \/ Command(c)
    \/ \E g \in Streams : Stream(g) \/ StreamBreaks(g)
    \/ CoreDies \/ OtherStarts \/ EngineSettles \/ EngineMoves
    \/ PendingExpires

Spec == Init /\ [][Next]_vars
(***************************************************************************)
(* Fairness.  The Go scheduler runs every goroutine that can run and a     *)
(* select picks among its ready cases at random; a started core settles.   *)
(* Keys, failures and other clients owe nothing.                           *)
(***************************************************************************)
Fairness ==
    /\ \A c \in Slots : WF_vars(Handle(c)) /\ WF_vars(Command(c))
    /\ \A g \in Streams : /\ WF_vars(Stream(g))
                          /\ SF_vars(TakeSnapshot(g))
                          /\ SF_vars(TakeTick(g))
    /\ WF_vars(EngineSettles)
    /\ WF_vars(PendingExpires)

FairSpec == Spec /\ Fairness

(***************************************************************************)
(* Properties                                                              *)
(***************************************************************************)
Channels == [at        : {"off", "open", "run", "lost", "ending", "done"},
             cancelled : BOOLEAN,
             item      : Updates \cup {NoItem},
             chan      : Seq(Updates)]

TypeOK ==
    /\ core \in BOOLEAN /\ spawned \in BOOLEAN /\ groups \in BOOLEAN
    /\ confirm \in BOOLEAN /\ late \in BOOLEAN
    /\ snapshot \in States \cup {""}
    /\ pending \in Ops \cup {""}
    /\ updates \in Streams \cup {NoStream}
    /\ cmds \in [Slots -> Commands]
    /\ stream \in [Streams -> Channels]
    /\ up \in BOOLEAN /\ ours \in BOOLEAN /\ engine \in States
    /\ program \in {"running", "quit", "panicked"}
    /\ presses \in 0 .. MaxPresses /\ events \in 0 .. MaxEvents

\* A stream without a core, or a core without a stream, would leave the screen
\* frozen: every handler keeps both or drops both (dashboard.go:198-256).
CoreHasStream == core <=> updates # NoStream

IsUpdate(m) == m.t \in {"snapshot", "groups", "tick", "err"}

\* The dashboard never goes deaf: as long as it has a stream there is a command
\* reading it, or an update on its way whose handler reads on or tears down.
NeverDeaf ==
    updates # NoStream =>
        \E c \in Slots : \/ cmds[c] = Wait(updates)
                         \/ cmds[c].k = "deliver" /\ IsUpdate(cmds[c].msg)

\* ... and never two of them, which could handle updates in the wrong order.
Reading(c) == \/ cmds[c].k = "wait"
              \/ cmds[c].k = "deliver" /\ IsUpdate(cmds[c].msg)

OneReader == \A c, d \in Slots : Reading(c) /\ Reading(d) => c = d

\* The stream on screen is never one whose context was cancelled.
ReadsLiveStream == updates # NoStream => ~ stream[updates].cancelled

\* The "requested" marker never stays: the core confirms it, the result of the
\* call drops it, or the 15 second deadline does (dashboard.go:480-523).
PendingEnds == (pending # "") ~> (pending = "")

\* Once the core stays in one state the screen shows it, through any number of
\* stale updates (dashboard.go:209-223, 593-651).
ShowsCoreState ==
    \A s \in States :
        <>[](core /\ up /\ engine = s) => <>[](snapshot = s)

\* No command selects or tests an outbound on a nil client (dashboard.go:405), and
\* so nothing panics but a start by a dashboard that was given no launcher, with a
\* custom address: there s calls Start on nil (dashboard.go:279).
OnlyStartPanics ==
    /\ \A c \in Slots : cmds[c].k = "outbound" => cmds[c].core
    /\ program = "panicked" => Launcher = "nil"

\* Without a core the screen says "disconnected" (dashboard_test.go:221-229), or
\* that a request is under way.
DetachedShowsDisconnected == ~ core => snapshot \in {"", "stopped"}

\* "first c must only request confirmation" (dashboard_test.go:112): a c that
\* disconnects without a prompt follows the prompt for this very connection.
PromptIsCurrent == confirm => snapshot = "started"

\* clearPending "drops the "requested" marker once the core has acknowledged the
\* action by moving to a matching state" (dashboard.go:506-507): not while the
\* call has not even reached the core.
KeptUntilAcknowledged ==
    [][\A c \in Slots : OnSnapshot(c) /\ pending # "" /\ pending' = ""
          => \A d \in Slots : cmds[d] # [k |-> "call", op |-> pending]]_vars

\* AutoStart "means auto-connect on TUI launch" (profile.go:50-51): whether the
\* dashboard launches the core or finds one, that core is asked to connect.
AutoConnects ==
    AutoConnect /\ up => <>(engine # "stopped" \/ ~ up \/ program # "running")

\* The dashboard is for "attaching to an already-running core or spawning a
\* headless one on demand" (README.md:5): a start ends with a core attached,
\* unless there is none.
StartAttaches ==
    (\E c \in Slots : cmds[c].k = "guard") ~> (core \/ ~ up \/ program # "running")
================================================================================
