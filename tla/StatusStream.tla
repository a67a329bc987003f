------------------------------ MODULE StatusStream ------------------------------
(***************************************************************************)
(* GRPCClient.WatchStatus, internal/client/grpc.go: two goroutines, one    *)
(* per stream of the core, share the variables state, message and info     *)
(* without a lock and send snapshots into one channel of capacity 1.  A    *)
(* send never blocks: a snapshot that finds the channel full is dropped.   *)
(* The goroutine of the state stream closes the channel when that stream   *)
(* ends; the one of the info stream does not know.                         *)
(*                                                                         *)
(* A snapshot is its connection state: message and traffic counters travel *)
(* with it and no property tells them apart.  The assignment of a string   *)
(* is not atomic, and reading it at the same time is a data race: the      *)
(* reader may get the old value, the new one, or a mixture.                *)
(***************************************************************************)
EXTENDS Naturals, Sequences

CONSTANTS
    States,     \* the connection states
    Garbled,    \* a string put together from two of them
    Nothing,    \* no snapshot
    Stopped,    \* StateStopped, the value state starts with
    MaxChanges  \* bound: state changes of the core in a behaviour

ASSUME StatusAssumption ==
    /\ Stopped \in States
    /\ Garbled \notin States
    /\ Nothing \notin States \cup {Garbled}
    /\ MaxChanges \in Nat

VARIABLES
    engine,    \* state of the core
    changes,   \* how often it has changed
    sent,      \* entries of CoreInfoListener on their way
    stateUp,   \* the CoreInfoListener stream is open
    infoUp,    \* the GetSystemInfoStream stream is open
    state,     \* the shared variable state
    entry,     \* the entry the state goroutine is handling
    pcState,   \* the next step of the state goroutine
    snapshot,  \* the snapshot the info goroutine has assembled
    pcInfo,    \* the next step of the info goroutine
    out,       \* what the channel holds
    closed,    \* ... and whether it is closed
    seen,      \* the last snapshot the caller received
    ended,     \* the caller has found the channel closed
    panicked   \* a goroutine sent on the closed channel

core   == <<engine, changes, sent, stateUp, infoUp>>
ours   == <<state, entry, pcState, snapshot, pcInfo, out, closed, panicked>>
caller == <<seen, ended>>
vars   == <<core, ours, caller>>

Snapshots == States \cup {Garbled}

TypeOK ==
    /\ engine \in States /\ changes \in 0 .. MaxChanges
    /\ sent \in Seq(States)
    /\ stateUp \in BOOLEAN /\ infoUp \in BOOLEAN
    /\ state \in States
    /\ entry \in States \cup {Nothing}
    /\ pcState \in {"recv", "assign", "emit", "ended"}
    /\ snapshot \in Snapshots \cup {Nothing}
    /\ pcInfo \in {"recv", "emit", "ended"}
    /\ out \in Seq(Snapshots) /\ Len(out) <= 1
    /\ closed \in BOOLEAN /\ ended \in BOOLEAN /\ panicked \in BOOLEAN
    /\ seen \in Snapshots \cup {Nothing}

\* Both streams have been opened; the core first reports the state it is in.
Init ==
    /\ engine \in States /\ changes = 0 /\ sent = <<engine>>
    /\ stateUp = TRUE /\ infoUp = TRUE
    /\ state = Stopped /\ entry = Nothing /\ pcState = "recv"
    /\ snapshot = Nothing /\ pcInfo = "recv"
    /\ out = <<>> /\ closed = FALSE /\ panicked = FALSE
    /\ seen = Nothing /\ ended = FALSE

(***************************************************************************)
(* The core                                                                *)
(***************************************************************************)
CoreChanges ==
    /\ changes < MaxChanges /\ changes' = changes + 1
    /\ engine' \in States \ {engine}
    /\ sent' = IF stateUp THEN Append(sent, engine') ELSE sent
    /\ UNCHANGED <<stateUp, infoUp, ours, caller>>

\* The context is cancelled, the connection breaks, or the core is gone: one
\* stream notices before the other.
StateStreamEnds ==
    /\ stateUp
    /\ stateUp' = FALSE
    /\ UNCHANGED <<engine, changes, sent, infoUp, ours, caller>>

InfoStreamEnds ==
    /\ infoUp
    /\ infoUp' = FALSE
    /\ UNCHANGED <<engine, changes, sent, stateUp, ours, caller>>

(***************************************************************************)
(* emit: a send that gives up when the channel is full                     *)
(***************************************************************************)
TrySend(s) == out' = IF out = <<>> THEN <<s>> ELSE out

(***************************************************************************)
(* The goroutine of the state stream                                       *)
(***************************************************************************)
StateReceived ==
    /\ pcState = "recv" /\ sent # <<>>
    /\ entry' = Head(sent) /\ sent' = Tail(sent)
    /\ pcState' = "assign"
    /\ UNCHANGED <<engine, changes, stateUp, infoUp, state, snapshot, pcInfo, out, closed, panicked, caller>>

StateAssigned ==
    /\ pcState = "assign"
    /\ state' = entry
    /\ pcState' = "emit"
    /\ UNCHANGED <<core, entry, snapshot, pcInfo, out, closed, panicked, caller>>

StateEmitted ==
    /\ pcState = "emit"
    /\ TrySend(state)
    /\ entry' = Nothing
    /\ pcState' = "recv"
    /\ UNCHANGED <<core, state, snapshot, pcInfo, closed, panicked, caller>>

\* (For a mutant of StateEnded: it returns without closing the channel.)
StateLeft ==
    /\ pcState = "recv" /\ ~ stateUp
    /\ pcState' = "ended"
    /\ UNCHANGED <<core, state, entry, snapshot, pcInfo, out, closed, panicked, caller>>

\* Recv fails, whether or not entries are left behind, and the channel is closed.
StateEnded ==
    /\ pcState = "recv" /\ ~ stateUp
    /\ pcState' = "ended"
    /\ closed' = TRUE
    /\ UNCHANGED <<core, state, entry, snapshot, pcInfo, out, panicked, caller>>

(***************************************************************************)
(* The goroutine of the info stream                                        *)
(***************************************************************************)
\* What a read of state yields while the other goroutine may be writing it.
Readable == IF pcState = "assign" THEN {state, entry, Garbled} ELSE {state}

InfoReceived ==
    /\ pcInfo = "recv" /\ infoUp
    /\ snapshot' \in Readable
    /\ pcInfo' = "emit"
    /\ UNCHANGED <<core, state, entry, pcState, out, closed, panicked, caller>>

\* (For a mutant of InfoEmitted: it updates info and sends no snapshot.)
InfoKept ==
    /\ pcInfo = "emit"
    /\ pcInfo' = "recv" /\ snapshot' = Nothing
    /\ UNCHANGED <<core, state, entry, pcState, out, closed, panicked, caller>>

\* A send on a closed channel panics, default case or not.
InfoEmitted ==
    /\ pcInfo = "emit"
    /\ IF closed
       THEN panicked' = TRUE /\ pcInfo' = "ended" /\ UNCHANGED out
       ELSE TrySend(snapshot) /\ pcInfo' = "recv" /\ UNCHANGED panicked
    /\ snapshot' = Nothing
    /\ UNCHANGED <<core, state, entry, pcState, closed, caller>>

\* (For a mutant of InfoEnded: it closes the channel, too.)
InfoClosed ==
    /\ pcInfo = "recv" /\ ~ infoUp
    /\ pcInfo' = "ended"
    /\ closed' = TRUE
    /\ UNCHANGED <<core, state, entry, pcState, snapshot, out, panicked, caller>>

InfoEnded ==
    /\ pcInfo = "recv" /\ ~ infoUp
    /\ pcInfo' = "ended"
    /\ UNCHANGED <<core, state, entry, pcState, snapshot, out, closed, panicked, caller>>

(***************************************************************************)
(* The caller: the select of streamUpdates, or the range of status --watch *)
(***************************************************************************)
CallerReceives ==
    /\ out # <<>> /\ ~ ended
    /\ seen' = Head(out) /\ out' = Tail(out)
    /\ UNCHANGED <<core, state, entry, pcState, snapshot, pcInfo, closed, panicked, ended>>

CallerSeesEnd ==
    /\ out = <<>> /\ closed /\ ~ ended
    /\ ended' = TRUE
    /\ UNCHANGED <<core, ours, seen>>

StateGoroutine == StateReceived \/ StateAssigned \/ StateEmitted \/ StateEnded
InfoGoroutine  == InfoReceived \/ InfoEmitted \/ InfoEnded
Caller         == CallerReceives \/ CallerSeesEnd

\* A panic in any goroutine ends the program.
Next ==
    /\ ~ panicked
    /\ \/ CoreChanges \/ StateStreamEnds \/ InfoStreamEnds
       \/ StateGoroutine \/ InfoGoroutine \/ Caller

Spec == Init /\ [][Next]_vars

\* Goroutines that can run do, the caller keeps reading, and the core sends its
\* system info periodically; streams need not end and the core need not change.
Fairness ==
    /\ WF_vars(~ panicked /\ StateGoroutine)
    /\ WF_vars(~ panicked /\ InfoGoroutine)
    /\ WF_vars(~ panicked /\ Caller)

FairSpec == Spec /\ Fairness

(***************************************************************************)
(* Properties                                                              *)
(***************************************************************************)
\* The caller ends up with the state the core is in: a dropped or torn or
\* outdated snapshot is made good by the next one (grpc.go:115-118, 138-139), as
\* long as both streams are open.
Fresh ==
    \A s \in States :
        <>[](engine = s /\ stateUp /\ infoUp) => <>[](seen = s)

\* The caller learns that the core is gone (grpc.go:122-127): the dashboard would
\* otherwise show it connected for ever.
EndIsSeen == (~ stateUp) ~> (ended \/ panicked)

\* ... and only then: the info stream alone may break (grpc.go:135-137).
NoFalseEnd == ended => ~ stateUp

\* "The caller cancels via ctx" (grpc.go:87), at any moment: no goroutine is
\* caught by the end of the streams with a snapshot in its hands.
NoSendOnClosed == ~ panicked
=================================================================================
