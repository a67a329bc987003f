---------------------------- MODULE DashboardProofs ----------------------------
(***************************************************************************)
(* What holds of the dashboard for any number of streams, commands, keys   *)
(* and events, any channel capacity and any way it is launched.            *)
(***************************************************************************)
EXTENDS Dashboard, TLAPS

(***************************************************************************)
(* Commands and messages                                                   *)
(***************************************************************************)
\* Every command the handlers and goroutines issue is one of Commands.
LEMMA CommandsMade ==
    /\ Idle \in Commands
    /\ \A g \in Streams : Wait(g) \in Commands
    /\ \A m \in Messages : Deliver(m) \in Commands
    /\ \A n \in {"guard", "boot", "settle", "stop"} : [k |-> n] \in Commands
    /\ \A op \in Ops : [k |-> "call", op |-> op] \in Commands
    /\ \A b \in BOOLEAN : [k |-> "outbound", core |-> b] \in Commands
BY DEF Commands, Idle, Wait, Deliver

\* Every message a command ends in is one of Messages.
LEMMA MessagesMade ==
    /\ \A op \in Ops \cup {"outbound"}, b \in BOOLEAN : Result(op, b) \in Messages
    /\ \A b \in BOOLEAN : [t |-> "coreStarted", ok |-> b] \in Messages
    /\ [t |-> "coreStopped"] \in Messages
    /\ Updates \subseteq Messages
BY DEF Messages, Result

\* Every item a stream goroutine takes from its select is one of Updates.
LEMMA UpdatesMade ==
    ASSUME NEW g \in Streams
    PROVE  /\ \A s \in States : Snap(g, s) \in Updates
           /\ \A t \in {"groups", "tick", "err"} : Upd(g, t) \in Updates
BY DEF Updates, Snap, Upd

\* The tag of a command says which record it is.
LEMMA CommandFields ==
    ASSUME NEW x \in Commands
    PROVE  /\ x.k = "wait"    => x.on \in Streams
           /\ x.k = "deliver" => x.msg \in Messages
           /\ x.k \in {"call", "called"} => x.op \in Ops
           /\ x.k = "call"    => [x EXCEPT !.k = "called"] \in Commands
<1>1. CASE x = Idle
  BY <1>1 DEF Idle
<1>2. CASE x \in [k : {"wait"}, on : Streams]
  BY <1>2
<1>3. CASE x \in [k : {"guard", "boot", "settle"}] \cup [k : {"stop"}]
  BY <1>3
<1>4. CASE x \in [k : {"call", "called"}, op : Ops]
  <2>1. [x EXCEPT !.k = "called"] \in [k : {"call", "called"}, op : Ops]
    BY <1>4
  <2> QED BY <1>4, <2>1 DEF Commands
<1>5. CASE x \in [k : {"outbound"}, core : BOOLEAN]
  BY <1>5
<1>6. CASE x \in [k : {"deliver"}, msg : Messages]
  BY <1>6
<1> QED BY <1>1, <1>2, <1>3, <1>4, <1>5, <1>6 DEF Commands

\* A snapshot carries a connection state.
LEMMA SnapshotState ==
    ASSUME NEW m \in Messages, m.t = "snapshot"
    PROVE  m.state \in States
BY DEF Messages, Updates

\* What the channel of a stream holds next is an update, and so is the rest.
LEMMA NextUpdate ==
    ASSUME NEW q \in Seq(Updates), q # <<>>
    PROVE  Head(q) \in Updates /\ Tail(q) \in Seq(Updates)
OBVIOUS

\* Cancelling a context, opening a stream or advancing one leaves every stream a
\* record of Channels.
LEMMA StreamsMade ==
    ASSUME stream \in [Streams -> Channels]
    PROVE  /\ NoChannel \in Channels /\ Opened \in Channels
           /\ \A g \in Streams : Cancel(g) \in [Streams -> Channels]
<1>1. NoChannel \in Channels /\ Opened \in Channels
  BY DEF NoChannel, Opened, Empty, Channels
<1>2. ASSUME NEW g \in Streams PROVE Cancel(g) \in [Streams -> Channels]
  <2>1. [stream[g] EXCEPT !.cancelled = TRUE] \in Channels
    BY DEF Channels
  <2> QED BY <2>1 DEF Cancel
<1> QED BY <1>1, <1>2

(***************************************************************************)
(* Type correctness                                                        *)
(***************************************************************************)
\* A new command, or the next step of one, keeps the slots typed.
LEMMA BecomeTyped ==
    ASSUME cmds \in [Slots -> Commands], NEW c \in Slots, NEW x \in Commands, Become(c, x)
    PROVE  cmds' \in [Slots -> Commands]
BY DEF Become

\* A program that ends leaves nothing of its own behind (q, or a panic).
LEMMA TerminateTyped ==
    ASSUME TypeOK, NEW how \in {"quit", "panicked"}, Terminate(how),
           presses' \in 0 .. MaxPresses, events' \in 0 .. MaxEvents
    PROVE  TypeOK'
BY CommandsMade, StreamsMade DEF TypeOK, Terminate, env

\* A key press keeps the types (dashboard.go:119-179).
LEMMA KeysTyped ==
    ASSUME TypeOK, Keys
    PROVE  TypeOK'
<1> USE DashboardAssumption DEF ui, env, Press
<1>0. Press => presses' \in 0 .. MaxPresses /\ events' \in 0 .. MaxEvents
  <2>1. presses \in 0 .. MaxPresses /\ events \in 0 .. MaxEvents
    BY DEF TypeOK
  <2> QED BY <2>1
<1>1. CASE AskConfirmation
  BY <1>1, <1>0 DEF AskConfirmation, TypeOK
<1>2. CASE PressOther
  BY <1>2, <1>0 DEF PressOther, TypeOK
<1>3. CASE PressQuit
  BY <1>3, <1>0, TerminateTyped DEF PressQuit
<1>4. ASSUME NEW c \in Slots, NEW op \in Ops, Issue(c, op) PROVE cmds' \in [Slots -> Commands]
  BY <1>4, CommandsMade, MessagesMade, BecomeTyped DEF Issue, TypeOK
<1>5. ASSUME NEW c \in Slots, PressDisconnect(c) PROVE TypeOK'
  BY <1>5, <1>0, <1>4 DEF PressDisconnect, Request, TypeOK, Ops
<1>6. ASSUME NEW c \in Slots, PressConnect(c) PROVE TypeOK'
  BY <1>6, <1>0, <1>4 DEF PressConnect, Request, TypeOK, Ops
<1>7. ASSUME NEW c \in Slots, PressRestart(c) PROVE TypeOK'
  BY <1>7, <1>0, <1>4 DEF PressRestart, Request, TypeOK, Ops
<1>8. ASSUME NEW c \in Slots, PressStart(c) \/ PressStop(c) \/ PressOutbound(c) PROVE TypeOK'
  <2>1. cmds' \in [Slots -> Commands]
    BY <1>8, CommandsMade, BecomeTyped DEF PressStart, PressStop, PressOutbound, TypeOK
  <2> QED BY <1>8, <1>0, <2>1 DEF PressStart, PressStop, PressOutbound, TypeOK
<1> QED BY <1>1, <1>2, <1>3, <1>5, <1>6, <1>7, <1>8 DEF Keys

\* stopStream keeps the types, with or without a stream to cancel.
LEMMA StopStreamTyped ==
    ASSUME TypeOK, StopStream
    PROVE  stream' \in [Streams -> Channels] /\ updates' \in Streams \cup {NoStream}
BY StreamsMade DEF TypeOK, StopStream

\* restartStream keeps the types.
LEMMA RestartStreamTyped ==
    ASSUME TypeOK, NEW c \in Slots, RestartStream(c)
    PROVE  /\ stream' \in [Streams -> Channels] /\ updates' \in Streams
           /\ cmds' \in [Slots -> Commands]
<1>1. PICK g \in Streams :
        /\ stream' = [(IF updates = NoStream THEN stream ELSE Cancel(updates)) EXCEPT ![g] = Opened]
        /\ updates' = g
        /\ Become(c, Wait(g))
  BY DEF RestartStream
<1>2. stream' \in [Streams -> Channels]
  BY <1>1, StreamsMade DEF TypeOK
<1>3. cmds' \in [Slots -> Commands]
  BY <1>1, CommandsMade, BecomeTyped DEF TypeOK
<1> QED BY <1>1, <1>2, <1>3

\* Waiting again for the stream, or ending without a command, keeps the types.
LEMMA RearmTyped ==
    ASSUME TypeOK, NEW c \in Slots, Rearm(c) \/ NoCommand(c)
    PROVE  cmds' \in [Slots -> Commands]
BY CommandsMade, BecomeTyped DEF TypeOK, Rearm, NoCommand

\* Handling a message keeps the types (dashboard.go:190-256).
LEMMA HandleTyped ==
    ASSUME TypeOK, NEW c \in Slots, Handle(c)
    PROVE  TypeOK'
<1> USE DEF env
<1>1. CASE OnTick(c)
  BY <1>1, RearmTyped DEF OnTick, TimeOutPending, TypeOK
<1>2. CASE Detach(c)
  BY <1>2, RearmTyped, StopStreamTyped DEF Detach, ClearScreen, TypeOK
<1>3. CASE OnSnapshot(c)
  <2>1. cmds[c].msg \in Messages /\ cmds[c].msg.t = "snapshot"
    BY <1>3, CommandFields DEF OnSnapshot, Handling, TypeOK
  <2>2. cmds[c].msg.state \in States
    BY <2>1, SnapshotState
  <2>3. late' \in BOOLEAN
    BY <1>3 DEF OnSnapshot
  <2> QED BY <1>3, <2>2, <2>3, RearmTyped DEF OnSnapshot, TypeOK
<1>4. CASE OnGroups(c)
  BY <1>4, RearmTyped DEF OnGroups, TypeOK
<1>5. CASE OnResult(c)
  <2>1. late' \in BOOLEAN
    BY <1>5 DEF OnResult
  <2> QED BY <1>5, <2>1, RearmTyped DEF OnResult, TypeOK
<1>6. CASE OnCoreStarted(c)
  BY <1>6, RearmTyped, RestartStreamTyped DEF OnCoreStarted, TypeOK
<1> QED BY <1>1, <1>2, <1>3, <1>4, <1>5, <1>6 DEF Handle

\* A stream whose goroutine or core is gone is still a record of Channels.
LEMMA CoreGoneTyped ==
    ASSUME TypeOK, CoreGone
    PROVE  /\ stream' \in [Streams -> Channels]
           /\ up' \in BOOLEAN /\ ours' \in BOOLEAN /\ engine' \in States
<1>1. ASSUME NEW g \in Streams PROVE [stream[g] EXCEPT !.at = "lost"] \in Channels
  BY DEF TypeOK, Channels
<1> QED BY <1>1 DEF CoreGone, TypeOK, States

\* An event of the core is counted up to the bound.
LEMMA EventTyped ==
    ASSUME TypeOK, Event
    PROVE  events' \in 0 .. MaxEvents
<1>1. events \in 0 .. MaxEvents
  BY DEF TypeOK
<1> QED BY <1>1, DashboardAssumption DEF Event

\* What happens to the core keeps the types.
LEMMA CoreTyped ==
    ASSUME TypeOK, CoreDies \/ OtherStarts \/ EngineSettles \/ EngineMoves
    PROVE  TypeOK'
<1> USE DEF ui
<1>0. Event => events' \in 0 .. MaxEvents
  BY EventTyped
<1>1. CASE CoreDies
  BY <1>1, <1>0, CoreGoneTyped DEF CoreDies, TypeOK
<1>2. CASE OtherStarts
  BY <1>2, <1>0 DEF OtherStarts, TypeOK, States
<1>3. CASE EngineSettles
  <2>1. engine' \in States
    BY <1>3 DEF EngineSettles, States
  <2> QED BY <1>3, <2>1 DEF EngineSettles, TypeOK
<1>4. CASE EngineMoves
  <2>1. engine' \in States
    BY <1>4 DEF EngineMoves, States
  <2> QED BY <1>4, <1>0, <2>1 DEF EngineMoves, TypeOK
<1> QED BY <1>1, <1>2, <1>3, <1>4

\* A step of a command keeps the types (dashboard.go:277-295, 388-478, 640-650).
LEMMA CommandTyped ==
    ASSUME TypeOK, NEW c \in Slots, Command(c)
    PROVE  TypeOK'
<1> USE DEF ui, env
<1>0. \A b \in BOOLEAN : Started(b) \in Commands
  BY CommandsMade, MessagesMade DEF Started
<1>1. CASE StartGuard(c)
  <2>1. CASE Launcher = "nil"
    BY <1>1, <2>1, TerminateTyped DEF StartGuard, TypeOK
  <2>2. CASE Launcher # "nil"
    <3>1. cmds' \in [Slots -> Commands]
      BY <1>1, <2>2, <1>0, CommandsMade, BecomeTyped DEF StartGuard, TypeOK
    <3> QED BY <1>1, <2>2, <3>1 DEF StartGuard, TypeOK
  <2> QED BY <2>1, <2>2
<1>2. CASE StartBoot(c)
  <2>1. cmds' \in [Slots -> Commands]
    BY <1>2, <1>0, CommandsMade, BecomeTyped DEF StartBoot, TypeOK
  <2>2. up' \in BOOLEAN /\ ours' \in BOOLEAN /\ engine' \in States
    BY <1>2 DEF StartBoot, TypeOK, States
  <2> QED BY <1>2, <2>1, <2>2 DEF StartBoot, TypeOK
<1>3. CASE StartSettles(c)
  <2>1. cmds' \in [Slots -> Commands]
    BY <1>3, <1>0, BecomeTyped DEF StartSettles, TypeOK
  <2>2. engine' \in States
    BY <1>3 DEF StartSettles, States
  <2> QED BY <1>3, <2>1, <2>2 DEF StartSettles, TypeOK
<1>4. CASE StartFails(c)
  <2>1. cmds' \in [Slots -> Commands]
    BY <1>4, <1>0, BecomeTyped DEF StartFails, TypeOK
  <2> QED BY <1>4, <2>1, CoreGoneTyped DEF StartFails, TypeOK
<1>5. CASE Stop(c)
  <2>1. cmds' \in [Slots -> Commands]
    BY <1>5, CommandsMade, MessagesMade, BecomeTyped DEF Stop, TypeOK
  <2> QED BY <1>5, <2>1, CoreGoneTyped DEF Stop, TypeOK
<1>6. CASE CallApplies(c)
  <2>1. cmds' \in [Slots -> Commands]
    BY <1>6, CommandFields, BecomeTyped DEF CallApplies, TypeOK
  <2>2. engine' \in States
    BY <1>6 DEF CallApplies, TypeOK, States
  <2> QED BY <1>6, <2>1, <2>2 DEF CallApplies, TypeOK
<1>7. CASE CallReturns(c)
  <2>1. cmds[c].op \in Ops
    BY <1>7, CommandFields DEF CallReturns, TypeOK
  <2>2. \A b \in BOOLEAN : Deliver(Result(cmds[c].op, b)) \in Commands
    BY <2>1, CommandsMade, MessagesMade
  <2>3. cmds' \in [Slots -> Commands]
    BY <1>7, <2>2, BecomeTyped DEF CallReturns, TypeOK
  <2> QED BY <1>7, <2>3 DEF CallReturns, TypeOK
<1>8. CASE CallOutbound(c)
  <2>1. CASE cmds[c].core
    <3>1. cmds' \in [Slots -> Commands]
      BY <1>8, <2>1, CommandsMade, MessagesMade, BecomeTyped DEF CallOutbound, TypeOK
    <3> QED BY <1>8, <2>1, <3>1 DEF CallOutbound, TypeOK
  <2>2. CASE ~ cmds[c].core
    BY <1>8, <2>2, TerminateTyped DEF CallOutbound, TypeOK
  <2> QED BY <2>1, <2>2
<1>9. CASE Receive(c)
  <2> DEFINE g == cmds[c].on
  <2>0. UNCHANGED <<ui, env, program, presses, events>>
    BY <1>9 DEF Receive
  <2>1. g \in Streams /\ stream[g] \in Channels
    BY <1>9, CommandFields DEF Receive, TypeOK
  <2>2. CASE stream[g].chan # <<>> /\ Become(c, Deliver(Head(stream[g].chan)))
             /\ stream' = [stream EXCEPT ![g].chan = Tail(@)]
    <3>1. stream[g].chan \in Seq(Updates)
      BY <2>1 DEF Channels
    <3>2. Head(stream[g].chan) \in Messages /\ Tail(stream[g].chan) \in Seq(Updates)
      BY <3>1, <2>2, NextUpdate, MessagesMade
    <3>3. cmds' \in [Slots -> Commands]
      BY <2>2, <3>2, CommandsMade, BecomeTyped DEF TypeOK
    <3>4. [stream[g] EXCEPT !.chan = Tail(@)] \in Channels
      BY <2>1, <3>2 DEF Channels
    <3>5. stream' \in [Streams -> Channels]
      BY <2>1, <2>2, <3>4 DEF TypeOK
    <3> QED BY <2>0, <3>3, <3>5 DEF TypeOK
  <2>3. CASE Become(c, Deliver(Upd(g, "err"))) /\ UNCHANGED stream
    <3>1. cmds' \in [Slots -> Commands]
      BY <2>1, <2>3, UpdatesMade, MessagesMade, CommandsMade, BecomeTyped DEF TypeOK
    <3> QED BY <2>0, <2>3, <3>1 DEF TypeOK
  <2> QED BY <1>9, <2>2, <2>3 DEF Receive
<1> QED BY <1>1, <1>2, <1>3, <1>4, <1>5, <1>6, <1>7, <1>8, <1>9 DEF Command

\* A step of a stream goroutine keeps the types (dashboard.go:593-637).
LEMMA StreamTyped ==
    ASSUME TypeOK, NEW g \in Streams, Stream(g) \/ StreamBreaks(g)
    PROVE  TypeOK'
<1>1. ASSUME NEW x \in Channels, StreamIs(g, x), events' \in 0 .. MaxEvents PROVE TypeOK'
  BY <1>1 DEF StreamIs, TypeOK, ui, env
<1>2. events' \in 0 .. MaxEvents
  <2>1. CASE StreamBreaks(g)
    BY <2>1, EventTyped DEF StreamBreaks
  <2>2. CASE Stream(g)
    <3>1. UNCHANGED events
      BY <2>2 DEF Stream, Subscribe, TakeSnapshot, TakeTick, TakeGroups, TakeError, TakeDone,
         Send, StreamStep
    <3> QED BY <3>1 DEF TypeOK
  <2> QED BY <2>1, <2>2
<1>3. stream[g] \in Channels /\ engine \in States
  BY DEF TypeOK
<1>4. CASE Subscribe(g)
  <2>1. \A i \in {NoItem, Snap(g, "stopped")} :
           [stream[g] EXCEPT !.at = "run", !.item = i] \in Channels
    BY <1>3, UpdatesMade DEF Channels, States
  <2>2. [stream[g] EXCEPT !.at = "lost"] \in Channels
    BY <1>3 DEF Channels
  <2> QED BY <1>4, <1>1, <1>2, <2>1, <2>2 DEF Subscribe, StreamStep
<1>5. CASE TakeSnapshot(g) \/ TakeTick(g) \/ TakeGroups(g)
  <2>1. \A i \in Updates : [stream[g] EXCEPT !.item = i] \in Channels
    BY <1>3 DEF Channels
  <2> QED BY <1>5, <1>1, <1>2, <1>3, <2>1, UpdatesMade
          DEF TakeSnapshot, TakeTick, TakeGroups, StreamStep
<1>6. CASE TakeError(g)
  <2>1. [stream[g] EXCEPT !.item = Upd(g, "err"), !.at = "ending"] \in Channels
    BY <1>3, UpdatesMade DEF Channels
  <2> QED BY <1>6, <1>1, <1>2, <2>1 DEF TakeError, StreamStep
<1>7. CASE TakeDone(g)
  <2>1. [stream[g] EXCEPT !.at = "done"] \in Channels
    BY <1>3 DEF Channels
  <2> QED BY <1>7, <1>1, <1>2, <2>1 DEF TakeDone, StreamStep
<1>8. CASE Send(g)
  <2>1. stream[g].item \in Updates /\ stream[g].chan \in Seq(Updates)
    BY <1>8, <1>3 DEF Send, Channels
  <2>2. Append(stream[g].chan, stream[g].item) \in Seq(Updates)
    BY <2>1
  <2>3. [stream[g] EXCEPT !.chan = Append(@, stream[g].item), !.item = NoItem,
                          !.at = IF @ = "ending" THEN "done" ELSE @] \in Channels
    BY <1>3, <2>2 DEF Channels
  <2> QED BY <1>8, <1>1, <1>2, <2>3 DEF Send, StreamStep
<1>9. CASE StreamBreaks(g)
  <2>1. [stream[g] EXCEPT !.at = "lost"] \in Channels
    BY <1>3 DEF Channels
  <2> QED BY <1>9, <1>1, <1>2, <2>1 DEF StreamBreaks
<1> QED BY <1>4, <1>5, <1>6, <1>7, <1>8, <1>9 DEF Stream

\* The program is launched with typed variables (dashboard.go:109-115, 568-578).
LEMMA InitTyped == Init => TypeOK
<1> SUFFICES ASSUME Init PROVE TypeOK
  OBVIOUS
<1>1. up \in BOOLEAN /\ cmds \in [Slots -> Commands]
  BY DashboardAssumption, CommandsMade DEF Init
<1>2. stream \in [Streams -> Channels] /\ updates \in Streams \cup {NoStream}
  <2>1. NoChannel \in Channels /\ Opened \in Channels
    BY DEF NoChannel, Opened, Empty, Channels
  <2> QED BY <2>1 DEF Init
<1>3. presses \in 0 .. MaxPresses /\ events \in 0 .. MaxEvents
  <2>1. presses = 0 /\ events = 0
    BY DEF Init
  <2> QED BY <2>1, DashboardAssumption
<1>4. /\ core \in BOOLEAN /\ spawned \in BOOLEAN /\ groups \in BOOLEAN
      /\ confirm \in BOOLEAN /\ late \in BOOLEAN /\ ours \in BOOLEAN
      /\ snapshot = "" /\ pending = "" /\ engine \in States /\ program = "running"
  BY <1>1 DEF Init, States
<1> QED BY <1>1, <1>2, <1>3, <1>4 DEF TypeOK, States

\* Every step keeps the types.
LEMMA TypeInductive == TypeOK /\ [Next]_vars => TypeOK'
<1> SUFFICES ASSUME TypeOK, [Next]_vars PROVE TypeOK'
  OBVIOUS
<1>1. CASE PendingExpires
  BY <1>1 DEF PendingExpires, TypeOK, env
<1>2. CASE UNCHANGED vars
  BY <1>2 DEF vars, ui, env, TypeOK
<1> QED BY <1>1, <1>2, KeysTyped, HandleTyped, CommandTyped, StreamTyped, CoreTyped DEF Next

\* Every variable of the dashboard, its streams and its commands keeps its type.
THEOREM Typed == Spec => []TypeOK
BY InitTyped, TypeInductive, PTL DEF Spec

(***************************************************************************)
(* Who reads the stream.  What a command does for the dashboard's ear: it  *)
(* blocks on the stream on screen, or carries an update to its handler.    *)
(***************************************************************************)
Reads(x) == x = Wait(updates) \/ (x.k = "deliver" /\ IsUpdate(x.msg))

ControlInv == CoreHasStream /\ NeverDeaf /\ ReadsLiveStream

\* A step that leaves the stream on screen alone and turns no reader of it into
\* something else keeps the dashboard listening.
LEMMA StillReads ==
    ASSUME TypeOK, ControlInv, NEW c \in Slots, NEW x, Become(c, x), Reads(cmds[c]) => Reads(x),
           UNCHANGED <<core, updates>>,
           \A g \in Streams : stream'[g].cancelled = stream[g].cancelled
    PROVE  ControlInv'
<1>1. CoreHasStream' /\ ReadsLiveStream'
  BY DEF ControlInv, CoreHasStream, ReadsLiveStream, TypeOK
<1>2. ASSUME updates' # NoStream
      PROVE  \E d \in Slots : \/ cmds'[d] = Wait(updates')
                              \/ cmds'[d].k = "deliver" /\ IsUpdate(cmds'[d].msg)
  <2>1. PICK d \in Slots : Reads(cmds[d])
    BY <1>2 DEF ControlInv, NeverDeaf, Reads
  <2>2. Reads(cmds'[d])
    BY <2>1 DEF Become, TypeOK
  <2> QED BY <2>2 DEF Reads
<1> QED BY <1>1, <1>2 DEF ControlInv, NeverDeaf

\* A step that leaves the commands and the stream on screen alone.
LEMMA StillThere ==
    ASSUME TypeOK, ControlInv, UNCHANGED <<core, updates, cmds>>,
           \A g \in Streams : stream'[g].cancelled = stream[g].cancelled
    PROVE  ControlInv'
BY DEF ControlInv, CoreHasStream, NeverDeaf, ReadsLiveStream, TypeOK

\* A slot that is free, or a command of another kind, reads nothing.
LEMMA SilentCommands ==
    ASSUME NEW c \in Slots,
           cmds[c] = Idle \/ cmds[c].k \in {"guard", "boot", "settle", "stop", "call", "called", "outbound"}
    PROVE  ~ Reads(cmds[c])
BY DEF Reads, Idle, Wait

\* Reading on, and a message that is no update.
LEMMA ReadersMade ==
    /\ Reads(Wait(updates))
    /\ \A m \in Updates : Reads(Deliver(m))
BY DEF Reads, Wait, Deliver, IsUpdate, Updates

\* Without a stream on screen there is nothing to be deaf to.
LEMMA Detached ==
    ASSUME ~ core', updates' = NoStream
    PROVE  ControlInv'
BY DEF ControlInv, CoreHasStream, NeverDeaf, ReadsLiveStream

\* A program that ends has neither a core nor a stream.
LEMMA TerminateControl ==
    ASSUME NEW how, Terminate(how)
    PROVE  ControlInv'
BY Detached DEF Terminate

\* Keys start commands in free slots and leave the stream alone.
LEMMA KeysControl ==
    ASSUME TypeOK, ControlInv, Keys
    PROVE  ControlInv'
<1>1. CASE AskConfirmation \/ PressOther
  BY <1>1, StillThere DEF AskConfirmation, PressOther
<1>2. CASE PressQuit
  BY <1>2, TerminateControl DEF PressQuit
<1>3. ASSUME NEW c \in Slots,
             \/ PressDisconnect(c) \/ PressConnect(c) \/ PressRestart(c)
             \/ PressStart(c) \/ PressStop(c) \/ PressOutbound(c)
      PROVE  ControlInv'
  <2>1. cmds[c] = Idle /\ UNCHANGED <<core, updates, stream>>
    BY <1>3 DEF PressDisconnect, PressConnect, PressRestart, PressStart, PressStop,
       PressOutbound, Free, ui
  <2>2. \E x : Become(c, x)
    BY <1>3 DEF PressDisconnect, PressConnect, PressRestart, PressStart, PressStop,
       PressOutbound, Issue
  <2> QED BY <2>1, <2>2, SilentCommands, StillReads
<1> QED BY <1>1, <1>2, <1>3 DEF Keys

\* A handler of an update reads on or tears the stream down; the others run in a
\* slot that was not reading (dashboard.go:190-256).
LEMMA HandleControl ==
    ASSUME TypeOK, ControlInv, NEW c \in Slots, Handle(c)
    PROVE  ControlInv'
<1>1. CASE OnTick(c) \/ OnSnapshot(c) \/ OnGroups(c)
  <2>1. Rearm(c) /\ UNCHANGED <<core, updates, stream>>
    BY <1>1 DEF OnTick, OnSnapshot, OnGroups
  <2>2. CASE updates = NoStream
    <3>1. ~ core' /\ updates' = NoStream
      BY <2>1, <2>2 DEF ControlInv, CoreHasStream
    <3> QED BY <3>1, Detached
  <2>3. CASE updates # NoStream
    <3>1. Become(c, Wait(updates))
      BY <2>1, <2>3 DEF Rearm
    <3> QED BY <2>1, <3>1, ReadersMade, StillReads
  <2> QED BY <2>2, <2>3
<1>2. CASE Detach(c)
  BY <1>2, Detached DEF Detach, StopStream
<1>3. ASSUME Handling(c, "result") \/ Handling(c, "coreStarted") PROVE ~ Reads(cmds[c])
  BY <1>3 DEF Handling, Reads, Wait, IsUpdate
<1>4. CASE OnResult(c)
  BY <1>3, <1>4, StillReads DEF OnResult, NoCommand
<1>5. CASE OnCoreStarted(c)
  <2>1. CASE cmds[c].msg.ok
    <3>1. core' /\ RestartStream(c)
      BY <1>5, <2>1 DEF OnCoreStarted
    <3>2. PICK g \in Streams :
            /\ Unused(g)
            /\ stream' = [(IF updates = NoStream THEN stream ELSE Cancel(updates)) EXCEPT ![g] = Opened]
            /\ updates' = g
            /\ Become(c, Wait(g))
      BY <3>1 DEF RestartStream
    <3>3. CoreHasStream' /\ updates' = g
      BY <3>1, <3>2, DashboardAssumption DEF CoreHasStream
    <3>4. ~ stream'[g].cancelled
      <4>1. stream'[g] = Opened
        BY <3>2 DEF TypeOK, Cancel
      <4> QED BY <4>1 DEF Opened, Empty
    <3>5. cmds'[c] = Wait(g)
      BY <3>2 DEF Become, TypeOK
    <3> QED BY <3>3, <3>4, <3>5 DEF ControlInv, NeverDeaf, ReadsLiveStream
  <2>2. CASE ~ cmds[c].msg.ok
    BY <1>3, <1>5, <2>2, StillReads DEF OnCoreStarted, NoCommand
  <2> QED BY <2>1, <2>2
<1> QED BY <1>1, <1>2, <1>4, <1>5 DEF Handle

\* The end of a core cancels no context.
LEMMA CoreGoneCancelsNothing ==
    ASSUME TypeOK, CoreGone
    PROVE  \A g \in Streams : stream'[g].cancelled = stream[g].cancelled
<1>1. ASSUME NEW g \in Streams
      PROVE  [stream[g] EXCEPT !.at = "lost"].cancelled = stream[g].cancelled
  BY DEF TypeOK, Channels
<1> QED BY <1>1 DEF CoreGone

\* A command that receives an update carries it; the others were not reading.
LEMMA CommandControl ==
    ASSUME TypeOK, ControlInv, NEW c \in Slots, Command(c)
    PROVE  ControlInv'
<1> USE DEF ui
<1>1. CASE StartGuard(c)
  <2>1. CASE Launcher = "nil"
    BY <1>1, <2>1, TerminateControl DEF StartGuard
  <2>2. CASE Launcher # "nil"
    BY <1>1, <2>2, SilentCommands, StillReads DEF StartGuard
  <2> QED BY <2>1, <2>2
<1>2. CASE StartBoot(c) \/ StartSettles(c) \/ CallApplies(c)
  BY <1>2, SilentCommands, StillReads DEF StartBoot, StartSettles, CallApplies
<1>3. CASE StartFails(c) \/ Stop(c)
  <2>1. \A g \in Streams : stream'[g].cancelled = stream[g].cancelled
    BY <1>3, CoreGoneCancelsNothing DEF StartFails, Stop
  <2> QED BY <1>3, <2>1, SilentCommands, StillReads DEF StartFails, Stop
<1>4. CASE CallReturns(c)
  BY <1>4, SilentCommands, StillReads DEF CallReturns
<1>5. CASE CallOutbound(c)
  <2>1. CASE cmds[c].core
    BY <1>5, <2>1, SilentCommands, StillReads DEF CallOutbound
  <2>2. CASE ~ cmds[c].core
    BY <1>5, <2>2, TerminateControl DEF CallOutbound
  <2> QED BY <2>1, <2>2
<1>6. CASE Receive(c)
  <2> DEFINE g == cmds[c].on
  <2>0. UNCHANGED <<core, updates>>
    BY <1>6 DEF Receive
  <2>1. g \in Streams /\ stream[g] \in Channels
    BY <1>6, CommandFields DEF Receive, TypeOK
  <2>2. CASE /\ stream[g].chan # <<>> /\ Become(c, Deliver(Head(stream[g].chan)))
             /\ stream' = [stream EXCEPT ![g].chan = Tail(@)]
    <3>1. Reads(Deliver(Head(stream[g].chan)))
      BY <2>1, <2>2, NextUpdate, ReadersMade DEF Channels
    <3>2. \A h \in Streams : stream'[h].cancelled = stream[h].cancelled
      BY <2>1, <2>2 DEF TypeOK, Channels
    <3> QED BY <2>0, <2>2, <3>1, <3>2, StillReads
  <2>3. CASE Become(c, Deliver(Upd(g, "err"))) /\ UNCHANGED stream
    <3>1. Reads(Deliver(Upd(g, "err")))
      BY <2>1, UpdatesMade, ReadersMade
    <3> QED BY <2>0, <2>3, <3>1, StillReads
  <2> QED BY <1>6, <2>2, <2>3 DEF Receive
<1> QED BY <1>1, <1>2, <1>3, <1>4, <1>5, <1>6 DEF Command

\* A step of a stream goroutine cancels no context.
LEMMA StreamControl ==
    ASSUME TypeOK, ControlInv, NEW g \in Streams, Stream(g) \/ StreamBreaks(g)
    PROVE  ControlInv'
<1>1. ASSUME NEW x, StreamIs(g, x), x.cancelled = stream[g].cancelled PROVE ControlInv'
  <2>1. UNCHANGED <<core, updates, cmds>> /\ stream' = [stream EXCEPT ![g] = x]
    BY <1>1 DEF StreamIs, ui
  <2> QED BY <1>1, <2>1, StillThere DEF TypeOK
<1>2. stream[g] \in Channels
  BY DEF TypeOK
<1>3. \A i \in Updates \cup {NoItem} :
         /\ [stream[g] EXCEPT !.at = "run", !.item = i].cancelled = stream[g].cancelled
         /\ [stream[g] EXCEPT !.item = i].cancelled = stream[g].cancelled
         /\ [stream[g] EXCEPT !.item = i, !.at = "ending"].cancelled = stream[g].cancelled
  BY <1>2 DEF Channels
<1>4. \A s \in {"lost", "done"} : [stream[g] EXCEPT !.at = s].cancelled = stream[g].cancelled
  BY <1>2 DEF Channels
<1>5. CASE Subscribe(g)
  <2>1. Snap(g, "stopped") \in Updates
    BY UpdatesMade DEF States
  <2> QED BY <1>5, <1>1, <1>3, <1>4, <2>1 DEF Subscribe, StreamStep
<1>6. CASE TakeSnapshot(g) \/ TakeTick(g) \/ TakeGroups(g) \/ TakeError(g)
  <2>1. engine \in States
    BY DEF TypeOK
  <2> QED BY <1>6, <1>1, <1>3, <2>1, UpdatesMade
          DEF TakeSnapshot, TakeTick, TakeGroups, TakeError, StreamStep
<1>7. CASE TakeDone(g) \/ StreamBreaks(g)
  BY <1>7, <1>1, <1>4 DEF TakeDone, StreamBreaks, StreamStep
<1>8. CASE Send(g)
  <2>1. [stream[g] EXCEPT !.chan = Append(@, stream[g].item), !.item = NoItem,
                          !.at = IF @ = "ending" THEN "done" ELSE @].cancelled
          = stream[g].cancelled
    BY <1>2 DEF Channels
  <2> QED BY <1>8, <1>1, <2>1 DEF Send, StreamStep
<1> QED BY <1>5, <1>6, <1>7, <1>8 DEF Stream

\* What happens to the core touches neither commands nor contexts.
LEMMA CoreControl ==
    ASSUME TypeOK, ControlInv, CoreDies \/ OtherStarts \/ EngineSettles \/ EngineMoves
    PROVE  ControlInv'
<1>1. UNCHANGED <<core, updates, cmds>>
  BY DEF CoreDies, OtherStarts, EngineSettles, EngineMoves, ui
<1>2. \A g \in Streams : stream'[g].cancelled = stream[g].cancelled
  BY CoreGoneCancelsNothing DEF CoreDies, OtherStarts, EngineSettles, EngineMoves
<1> QED BY <1>1, <1>2, StillThere

\* At launch the dashboard has a core and reads its stream, or has neither.
LEMMA InitControl == Init => ControlInv
<1> SUFFICES ASSUME Init PROVE ControlInv
  OBVIOUS
<1>1. CASE up
  <2>1. PICK g \in Streams :
          /\ updates = g
          /\ stream = [h \in Streams |-> IF h = g THEN Opened ELSE NoChannel]
          /\ cmds = [c \in Slots |-> IF c = 1 THEN Wait(g) ELSE Idle]
    BY <1>1 DEF Init
  <2>2. 1 \in Slots
    BY DashboardAssumption DEF Slots
  <2>3. cmds[1] = Wait(updates) /\ ~ stream[g].cancelled
    BY <2>1, <2>2 DEF Opened, Empty
  <2>4. core /\ updates # NoStream
    BY <1>1, <2>1, DashboardAssumption DEF Init
  <2> QED BY <2>1, <2>2, <2>3, <2>4 DEF ControlInv, CoreHasStream, NeverDeaf, ReadsLiveStream
<1>2. CASE ~ up
  BY <1>2 DEF Init, ControlInv, CoreHasStream, NeverDeaf, ReadsLiveStream
<1> QED BY <1>1, <1>2

\* Every step keeps the core and its stream together, read, and not cancelled.
LEMMA ControlInductive == TypeOK /\ ControlInv /\ [Next]_vars => ControlInv'
<1> SUFFICES ASSUME TypeOK, ControlInv, [Next]_vars PROVE ControlInv'
  OBVIOUS
<1>1. CASE PendingExpires
  BY <1>1, StillThere DEF PendingExpires
<1>2. CASE UNCHANGED vars
  BY <1>2, StillThere DEF vars, ui
<1> QED BY <1>1, <1>2, KeysControl, HandleControl, CommandControl, StreamControl, CoreControl
        DEF Next

\* The three facts about the stream on screen, in every reachable state.
LEMMA Control == Spec => []ControlInv
BY InitTyped, TypeInductive, InitControl, ControlInductive, PTL DEF Spec

\* The dashboard has a core exactly when it has a stream to follow it with.
THEOREM CoreFollowed == Spec => []CoreHasStream
<1>1. ControlInv => CoreHasStream
  BY DEF ControlInv
<1> QED BY <1>1, Control, PTL

\* The dashboard never stops listening to the stream on screen, however its
\* messages and commands interleave.
THEOREM AlwaysListening == Spec => []NeverDeaf
<1>1. ControlInv => NeverDeaf
  BY DEF ControlInv
<1> QED BY <1>1, Control, PTL

\* The stream on screen is never one the dashboard has cancelled.
THEOREM LiveStreamOnScreen == Spec => []ReadsLiveStream
<1>1. ControlInv => ReadsLiveStream
  BY DEF ControlInv
<1> QED BY <1>1, Control, PTL
(***************************************************************************)
(* A dashboard that launches no core, having no binary or no launcher: the *)
(* one it is attached to is there when it starts, and losing it is for     *)
(* good.  Then there is one reader as long as there is a core and none     *)
(* after it, so no update finds the dashboard without a core.              *)
(***************************************************************************)
AnyUpdate(x) == x.k = "wait" \/ (x.k = "deliver" /\ IsUpdate(x.msg))

Attachment(x) ==
    /\ x.k \notin {"boot", "settle", "stop"}
    /\ x.k = "deliver" => x.msg.t # "coreStopped" /\ (x.msg.t = "coreStarted" => ~ x.msg.ok)
    /\ x.k = "outbound" => x.core

AttachedInv ==
    /\ ~ spawned
    /\ OnlyStartPanics
    /\ OneReader
    /\ \A c \in Slots : Attachment(cmds[c])
    /\ ~ core => snapshot = "" /\ ~ groups /\ \A c \in Slots : ~ Reading(c)

\* Who reads is said by the command.
LEMMA ReadingIs == \A c \in Slots : Reading(c) <=> AnyUpdate(cmds[c])
BY DEF Reading, AnyUpdate

\* A command that makes no reader of one that was none, and a change of the screen
\* only while there is a core.
LEMMA StaysAttached ==
    ASSUME TypeOK, AttachedInv, NEW c \in Slots, NEW x, Become(c, x), Attachment(x),
           AnyUpdate(x) => Reading(c),
           UNCHANGED <<core, spawned, program>>,
           core \/ UNCHANGED <<snapshot, groups>>
    PROVE  AttachedInv'
<1>1. cmds' = [cmds EXCEPT ![c] = x] /\ cmds \in [Slots -> Commands]
  BY DEF Become, TypeOK
<1>2. \A d \in Slots : Reading(d)' => Reading(d)
  BY <1>1 DEF Reading, AnyUpdate
<1>3. \A d \in Slots : Attachment(cmds'[d])
  BY <1>1 DEF AttachedInv
<1>4. OneReader'
  BY <1>2 DEF AttachedInv, OneReader
<1>5. ~ core' => snapshot' = "" /\ ~ groups' /\ \A d \in Slots : ~ Reading(d)'
  BY <1>2 DEF AttachedInv
<1>6. OnlyStartPanics'
  BY <1>3 DEF AttachedInv, OnlyStartPanics, Attachment
<1> QED BY <1>3, <1>4, <1>5, <1>6 DEF AttachedInv

\* Nothing the dashboard or its commands see changes.
LEMMA StaysPut ==
    ASSUME AttachedInv, UNCHANGED <<core, spawned, snapshot, groups, program, cmds>>
    PROVE  AttachedInv'
BY DEF AttachedInv, OnlyStartPanics, OneReader, Reading

\* A program that has ended is no longer attached.
LEMMA EndAttached ==
    ASSUME NEW how, Terminate(how), how = "panicked" => Launcher = "nil"
    PROVE  AttachedInv'
<1>1. \A c \in Slots : cmds'[c] = Idle
  BY DEF Terminate
<1>2. Idle.k = "idle"
  BY DEF Idle
<1>3. \A c \in Slots : ~ Reading(c)' /\ Attachment(cmds'[c])
  BY <1>1, <1>2 DEF Reading, Attachment
<1> QED BY <1>1, <1>2, <1>3 DEF Terminate, AttachedInv, OnlyStartPanics, OneReader

\* Results, and the commands keys start, read nothing.
LEMMA QuietCommands ==
    /\ \A op \in Ops \cup {"outbound"}, b \in BOOLEAN :
          Attachment(Deliver(Result(op, b))) /\ ~ AnyUpdate(Deliver(Result(op, b)))
    /\ Attachment(Started(FALSE)) /\ ~ AnyUpdate(Started(FALSE))
    /\ Attachment(Idle) /\ ~ AnyUpdate(Idle)
    /\ \A op \in Ops : /\ Attachment([k |-> "call", op |-> op])
                       /\ ~ AnyUpdate([k |-> "call", op |-> op])
    /\ Attachment([k |-> "guard"]) /\ ~ AnyUpdate([k |-> "guard"])
    /\ Attachment([k |-> "outbound", core |-> TRUE])
    /\ ~ AnyUpdate([k |-> "outbound", core |-> TRUE])
BY DEF Attachment, AnyUpdate, Deliver, Result, Started, Idle, IsUpdate

\* Waiting for the stream again.
LEMMA WaitAttached == \A g : Attachment(Wait(g))
BY DEF Attachment, Wait

\* Keys: a stop needs a core this dashboard spawned, an outbound one of a list, and
\* so a core (dashboard.go:119-179, 525-566).
LEMMA KeysAttached ==
    ASSUME TypeOK, AttachedInv, Keys
    PROVE  AttachedInv'
<1> USE DEF ui
<1>1. CASE AskConfirmation \/ PressOther
  BY <1>1, StaysPut DEF AskConfirmation, PressOther
<1>2. CASE PressQuit
  BY <1>2, EndAttached DEF PressQuit
<1>3. ASSUME NEW c \in Slots, NEW op \in Ops, Issue(c, op),
             UNCHANGED <<core, spawned, snapshot, groups, program>>
      PROVE  AttachedInv'
  <2>1. PICK x \in {Deliver(Result(op, FALSE)), [k |-> "call", op |-> op]} : Become(c, x)
    BY <1>3 DEF Issue
  <2>2. Attachment(x) /\ ~ AnyUpdate(x)
    BY <2>1, QuietCommands
  <2> QED BY <1>3, <2>1, <2>2, StaysAttached
<1>4. ASSUME NEW c \in Slots, PressDisconnect(c) \/ PressConnect(c) \/ PressRestart(c)
      PROVE  AttachedInv'
  BY <1>3, <1>4 DEF PressDisconnect, PressConnect, PressRestart, Ops
<1>5. ASSUME NEW c \in Slots, PressStart(c) PROVE AttachedInv'
  BY <1>5, QuietCommands, StaysAttached DEF PressStart
<1>6. ASSUME NEW c \in Slots, PressStop(c) PROVE AttachedInv'
  BY <1>6 DEF PressStop, AttachedInv
<1>7. ASSUME NEW c \in Slots, PressOutbound(c) PROVE AttachedInv'
  <2>1. core = TRUE
    BY <1>7 DEF PressOutbound, AttachedInv, TypeOK
  <2> QED BY <1>7, <2>1, QuietCommands, StaysAttached DEF PressOutbound
<1> QED BY <1>1, <1>2, <1>4, <1>5, <1>6, <1>7 DEF Keys

\* The handler of an update is the one reader: it reads on, or no one does
\* (dashboard.go:190-256).
LEMMA HandleAttached ==
    ASSUME TypeOK, AttachedInv, NEW c \in Slots, Handle(c)
    PROVE  AttachedInv'
<1>1. CASE OnTick(c) \/ OnSnapshot(c) \/ OnGroups(c)
  <2>1. Reading(c) /\ core
    BY <1>1 DEF OnTick, OnSnapshot, OnGroups, Handling, Reading, IsUpdate, AttachedInv
  <2>2. PICK x \in {Idle, Wait(updates)} : Become(c, x)
    BY <1>1 DEF OnTick, OnSnapshot, OnGroups, Rearm
  <2>3. Attachment(x)
    BY <2>2, QuietCommands, WaitAttached
  <2>4. UNCHANGED <<core, spawned, program>>
    BY <1>1 DEF OnTick, OnSnapshot, OnGroups
  <2> QED BY <2>1, <2>2, <2>3, <2>4, StaysAttached
<1>2. CASE Detach(c)
  <2>1. Handling(c, "err")
    BY <1>2 DEF Detach, Handling, AttachedInv, Attachment
  <2>2. Reading(c) /\ \A d \in Slots : Reading(d) => d = c
    BY <2>1 DEF Handling, Reading, IsUpdate, AttachedInv, OneReader
  <2>3. cmds' = [cmds EXCEPT ![c] = Idle] /\ cmds \in [Slots -> Commands]
    BY <1>2 DEF Detach, NoCommand, Become, TypeOK
  <2>4. \A d \in Slots : ~ Reading(d)'
    BY <2>2, <2>3, QuietCommands DEF Reading, AnyUpdate
  <2>5. \A d \in Slots : Attachment(cmds'[d])
    BY <2>3, QuietCommands DEF AttachedInv
  <2>6. ~ core' /\ ~ spawned' /\ snapshot' = "" /\ ~ groups' /\ program' = program
    BY <1>2 DEF Detach, ClearScreen
  <2> QED BY <2>4, <2>5, <2>6 DEF AttachedInv, OnlyStartPanics, OneReader, Attachment
<1>3. CASE OnResult(c)
  BY <1>3, QuietCommands, StaysAttached DEF OnResult, NoCommand
<1>4. CASE OnCoreStarted(c)
  <2>1. ~ cmds[c].msg.ok
    BY <1>4 DEF OnCoreStarted, Handling, AttachedInv, Attachment
  <2> QED BY <1>4, <2>1, QuietCommands, StaysAttached DEF OnCoreStarted, NoCommand
<1> QED BY <1>1, <1>2, <1>3, <1>4 DEF Handle

\* Commands: a start fails for want of a binary or panics for want of a launcher,
\* and the client of an outbound command is the one the dashboard is attached to.
LEMMA CommandAttached ==
    ASSUME Launcher # "binary", TypeOK, AttachedInv, NEW c \in Slots, Command(c)
    PROVE  AttachedInv'
<1> USE DEF ui
<1>0. Attachment(cmds[c])
  BY DEF AttachedInv
<1>1. CASE StartGuard(c)
  <2>1. CASE Launcher = "nil"
    BY <1>1, <2>1, EndAttached DEF StartGuard
  <2>2. CASE Launcher # "nil"
    BY <1>1, <2>2, QuietCommands, StaysAttached DEF StartGuard
  <2> QED BY <2>1, <2>2
<1>2. CASE StartBoot(c) \/ StartSettles(c) \/ StartFails(c) \/ Stop(c)
  BY <1>0, <1>2 DEF StartBoot, StartSettles, StartFails, Stop, Attachment
<1>3. CASE CallApplies(c)
  <2>1. cmds[c] \in Commands /\ cmds[c].k = "call"
    BY <1>3 DEF CallApplies, TypeOK
  <2>2. cmds[c] \in [k : {"call", "called"}, op : Ops]
    BY <2>1 DEF Commands, Idle
  <2>3. [cmds[c] EXCEPT !.k = "called"].k = "called"
    BY <2>2
  <2>4. Attachment([cmds[c] EXCEPT !.k = "called"]) /\ ~ AnyUpdate([cmds[c] EXCEPT !.k = "called"])
    BY <2>3 DEF Attachment, AnyUpdate
  <2> QED BY <1>3, <2>4, StaysAttached DEF CallApplies
<1>4. CASE CallReturns(c)
  <2>1. cmds[c].op \in Ops
    BY <1>4, CommandFields DEF CallReturns, TypeOK
  <2>2. PICK b \in BOOLEAN : Become(c, Deliver(Result(cmds[c].op, b)))
    BY <1>4 DEF CallReturns
  <2>3. UNCHANGED <<core, spawned, program, snapshot, groups>>
    BY <1>4 DEF CallReturns
  <2>4. /\ Attachment(Deliver(Result(cmds[c].op, b)))
        /\ ~ AnyUpdate(Deliver(Result(cmds[c].op, b)))
    BY <2>1, QuietCommands
  <2> QED BY <2>2, <2>3, <2>4, StaysAttached
<1>5. CASE CallOutbound(c)
  <2>1. cmds[c].core
    BY <1>0, <1>5 DEF CallOutbound, Attachment
  <2>2. PICK b \in BOOLEAN : Become(c, Deliver(Result("outbound", b)))
    BY <1>5, <2>1 DEF CallOutbound
  <2>3. UNCHANGED <<core, spawned, program, snapshot, groups>>
    BY <1>5, <2>1 DEF CallOutbound
  <2> QED BY <2>2, <2>3, QuietCommands, StaysAttached
<1>6. CASE Receive(c)
  <2> DEFINE g == cmds[c].on
  <2>1. g \in Streams /\ stream[g] \in Channels /\ Reading(c)
    BY <1>6, CommandFields DEF Receive, TypeOK, Reading
  <2>2. PICK m \in Updates : Become(c, Deliver(m))
    <3>1. CASE stream[g].chan # <<>> /\ Become(c, Deliver(Head(stream[g].chan)))
      <4>1. Head(stream[g].chan) \in Updates
        BY <2>1, <3>1, NextUpdate DEF Channels
      <4> QED BY <3>1, <4>1
    <3>2. CASE Become(c, Deliver(Upd(g, "err")))
      BY <2>1, <3>2, UpdatesMade
    <3> QED BY <1>6, <3>1, <3>2 DEF Receive
  <2>3. m.t \in {"snapshot", "groups", "tick", "err"}
    BY DEF Updates
  <2>4. Attachment(Deliver(m))
    BY <2>3 DEF Attachment, Deliver
  <2> QED BY <1>6, <2>1, <2>2, <2>4, StaysAttached DEF Receive
<1> QED BY <1>1, <1>2, <1>3, <1>4, <1>5, <1>6 DEF Command

\* A dashboard with nothing to launch starts with a core and its reader, or
\* with neither.
LEMMA InitAttached ==
    ASSUME Launcher # "binary", Init
    PROVE  AttachedInv
<1>0. Idle.k = "idle" /\ \A g : Wait(g).k = "wait"
  BY DEF Idle, Wait
<1>1. CASE up
  <2>1. PICK g \in Streams : cmds = [c \in Slots |-> IF c = 1 THEN Wait(g) ELSE Idle]
    BY <1>1 DEF Init
  <2>2. \A c \in Slots : Attachment(cmds[c]) /\ (Reading(c) => c = 1)
    BY <1>0, <2>1 DEF Attachment, Reading
  <2> QED BY <1>1, <2>2 DEF Init, AttachedInv, OnlyStartPanics, OneReader, Attachment
<1>2. CASE ~ up
  <2>1. \A c \in Slots : cmds[c] = Idle
    BY <1>2 DEF Init
  <2>2. \A c \in Slots : Attachment(cmds[c]) /\ ~ Reading(c)
    BY <1>0, <2>1 DEF Attachment, Reading
  <2> QED BY <1>2, <2>2 DEF Init, AttachedInv, OnlyStartPanics, OneReader, Attachment
<1> QED BY <1>1, <1>2

\* Every step of such a dashboard keeps it that way.
LEMMA AttachedInductive ==
    ASSUME Launcher # "binary", TypeOK, AttachedInv, [Next]_vars
    PROVE  AttachedInv'
<1>1. ASSUME NEW g \in Streams, Stream(g) \/ StreamBreaks(g) PROVE AttachedInv'
  <2>1. UNCHANGED <<core, spawned, snapshot, groups, program, cmds>>
    BY <1>1 DEF Stream, Subscribe, TakeSnapshot, TakeTick, TakeGroups, TakeError, TakeDone,
       Send, StreamBreaks, StreamStep, StreamIs, ui
  <2> QED BY <2>1, StaysPut
<1>2. CASE CoreDies \/ OtherStarts \/ EngineSettles \/ EngineMoves
  BY <1>2, StaysPut DEF CoreDies, OtherStarts, EngineSettles, EngineMoves, ui
<1>3. CASE PendingExpires
  BY <1>3, StaysPut DEF PendingExpires
<1>4. CASE UNCHANGED vars
  BY <1>4, StaysPut DEF vars, ui
<1> QED BY <1>1, <1>2, <1>3, <1>4, KeysAttached, HandleAttached, CommandAttached DEF Next

\* The invariant in every reachable state.
LEMMA Attached ==
    ASSUME Launcher # "binary"
    PROVE  Spec => []AttachedInv
<1>1. Init => AttachedInv
  BY InitAttached
<1>2. TypeOK /\ AttachedInv /\ [Next]_vars => AttachedInv'
  BY AttachedInductive
<1> QED BY <1>1, <1>2, InitTyped, TypeInductive, PTL DEF Spec

\* Updates are handled one at a time, in the order the stream sent them, for any
\* number of commands in flight (dashboard.go:593-651).
THEOREM UpdatesInOrder ==
    ASSUME Launcher # "binary"
    PROVE  Spec => []OneReader
<1>1. AttachedInv => OneReader
  BY DEF AttachedInv
<1> QED BY <1>1, Attached, PTL

\* A dashboard that launches no core never calls a nil client, however its messages
\* and commands interleave: the list of outbounds a key needs goes with the core
\* (dashboard.go:240-256, 525-566).  If it was given no launcher, with a custom address,
\* a start does panic on that (dashboard.go:279), and nothing else does.
THEOREM NoNilClient ==
    ASSUME Launcher # "binary"
    PROVE  Spec => []OnlyStartPanics
<1>1. AttachedInv => OnlyStartPanics
  BY DEF AttachedInv
<1> QED BY <1>1, Attached, PTL

\* Once the core is lost the screen says so, and no late update takes it back
\* (dashboard.go:240-256).
THEOREM LossIsShown ==
    ASSUME Launcher # "binary"
    PROVE  Spec => []DetachedShowsDisconnected
<1>1. AttachedInv => DetachedShowsDisconnected
  BY DEF AttachedInv, DetachedShowsDisconnected
<1> QED BY <1>1, Attached, PTL
================================================================================
