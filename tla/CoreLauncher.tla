------------------------------ MODULE CoreLauncher ------------------------------
(***************************************************************************)
(* Core supervision, internal/core/launcher.go: Launcher.Start spawns a    *)
(* headless core, waits for its control service, and stops the bootstrap   *)
(* profile it had to be launched with; Launcher.Stop ends the process.     *)
(*                                                                         *)
(* An attempt is one call of Start, and names the process it spawns.  A    *)
(* launcher belongs to one program - the TUI, the daemon - and keeps the   *)
(* last process it spawned.  One control address serves the whole machine: *)
(* a core started by anybody else is foreign.                              *)
(*                                                                         *)
(* Every wait of Start ends at its deadline, which can strike at any time: *)
(* the deadline is one of the outcomes of each step that waits.  An        *)
(* interrupt lets a process exit, which it can do at any moment anyway, so *)
(* only a kill is in the state.                                            *)
(***************************************************************************)
EXTENDS Naturals

CONSTANTS
    Attempts,   \* calls of Start
    Launchers,  \* the launchers they are made on
    LauncherOf, \* the launcher of each attempt
    None,
    Foreign,    \* owner of the address: a core no launcher spawned
    Overlaps    \* what may happen while a Start is in progress: "foreign", a
                \* foreign core starts; "start", another Start, or a Stop

ASSUME LauncherAssumption ==
    /\ LauncherOf \in [Attempts -> Launchers]
    /\ Attempts \cap Launchers = {}
    /\ None \notin Attempts /\ Foreign \notin Attempts /\ None # Foreign
    /\ Overlaps \subseteq {"foreign", "start"}

Callers == Attempts \cup Launchers  \* who can be inside Launcher.Stop

VARIABLES
    pc,      \* pc[a]:     where Start is
    proc,    \* proc[a]:   the process, up to the waiter having closed done
    killed,  \* killed[a]: it was sent SIGKILL
    cmd,     \* cmd[l]:    l.cmd, the last process spawned and not yet reaped
    stop,    \* stop[x]:   where x is inside Launcher.Stop, and the process it read
    owner,   \* who serves the control address
    engine   \* connection state of that core

vars == <<pc, proc, killed, cmd, stop, owner, engine>>

Engines == {"stopped", "starting", "started", "stopping"}

TypeOK ==
    /\ pc     \in [Attempts -> {"idle", "guard", "spawn", "dial", "bootstrap", "disconnect",
                                "settle", "failing", "ok", "err"}]
    /\ proc   \in [Attempts -> {"none", "booting", "serving", "exited", "reaped", "gone"}]
    /\ killed \in [Attempts -> BOOLEAN]
    /\ cmd    \in [Launchers -> Attempts \cup {None}]
    /\ stop   \in [Callers -> [at : {"no", "read"}, target : {None}]
                                \cup [at : {"wait"}, target : Attempts]]
    /\ owner  \in Attempts \cup {None, Foreign}
    /\ engine \in Engines

Outside == [at |-> "no", target |-> None]

Init ==
    /\ pc     = [a \in Attempts |-> "idle"]
    /\ proc   = [a \in Attempts |-> "none"]
    /\ killed = [a \in Attempts |-> FALSE]
    /\ cmd    = [l \in Launchers |-> None]
    /\ stop   = [x \in Callers |-> Outside]
    /\ owner \in {None, Foreign}
    /\ engine = "stopped"

Alive(a)  == proc[a] \in {"booting", "serving"}
Closed(a) == proc[a] = "gone"  \* the done channel of a is closed

InProgress(a) == pc[a] \notin {"idle", "ok", "err"}
Starting == \E a \in Attempts : InProgress(a)
Stopping == \E l \in Launchers : stop[l].at # "no"

(***************************************************************************)
(* Processes and the control address                                       *)
(***************************************************************************)
Moves(a, from, to) == proc[a] = from /\ proc' = [proc EXCEPT ![a] = to]

\* The spawned core takes the address; one that finds it taken never serves.
Serves(a) ==
    /\ Moves(a, "booting", "serving")
    /\ owner = None
    /\ owner' = a /\ engine' = "starting"
    /\ UNCHANGED <<pc, killed, cmd, stop>>

\* It exits: by itself, or because it was told to.
Exits(a) ==
    /\ Alive(a)
    /\ proc' = [proc EXCEPT ![a] = "exited"]
    /\ IF owner = a THEN owner' = None /\ engine' = "stopped" ELSE UNCHANGED <<owner, engine>>
    /\ UNCHANGED <<pc, killed, cmd, stop>>

ForeignStarts ==
    /\ owner = None
    /\ "foreign" \in Overlaps \/ ~ Starting
    /\ owner' = Foreign /\ engine' = "stopped"
    /\ UNCHANGED <<pc, proc, killed, cmd, stop>>

ForeignExits ==
    /\ owner = Foreign
    /\ owner' = None /\ engine' = "stopped"
    /\ UNCHANGED <<pc, proc, killed, cmd, stop>>

\* A client connects, and the core goes from one state to the next; a start can fail.
EngineMoves ==
    /\ owner # None
    /\ \/ engine = "stopped"  /\ owner = Foreign /\ engine' = "starting"
       \/ engine = "starting" /\ engine' \in {"started", "stopped"}
       \/ engine = "stopping" /\ engine' = "stopped"
    /\ UNCHANGED <<pc, proc, killed, cmd, stop, owner>>

\* The waiter goroutine: cmd.Wait returns, and l.cmd is forgotten if it is still
\* this process; then done is closed.
Reaped(a) ==
    /\ Moves(a, "exited", "reaped")
    /\ cmd' = [l \in Launchers |-> IF cmd[l] = a THEN None ELSE cmd[l]]
    /\ UNCHANGED <<pc, killed, stop, owner, engine>>

DoneClosed(a) ==
    /\ Moves(a, "reaped", "gone")
    /\ UNCHANGED <<pc, killed, cmd, stop, owner, engine>>

(***************************************************************************)
(* Start                                                                   *)
(***************************************************************************)
Goes(a, from, to) == pc[a] = from /\ pc' = [pc EXCEPT ![a] = to]

Called(a) ==
    /\ Goes(a, "idle", "guard")
    /\ "start" \in Overlaps \/ ~ (Starting \/ Stopping)
    /\ UNCHANGED <<proc, killed, cmd, stop, owner, engine>>

\* (For a mutant of Guard: it launches beside whatever is there.)
Unguarded(a) ==
    /\ Goes(a, "guard", "spawn")
    /\ UNCHANGED <<proc, killed, cmd, stop, owner, engine>>

\* "Never launch beside an existing GUI, service, or user-started core."
Guard(a) ==
    /\ \/ Goes(a, "guard", "err")
       \/ owner = None /\ Goes(a, "guard", "spawn")
    /\ UNCHANGED <<proc, killed, cmd, stop, owner, engine>>

\* The state directory, the config file or the process can fail.
Spawn(a) ==
    \/ /\ Goes(a, "spawn", "dial")
       /\ proc' = [proc EXCEPT ![a] = "booting"]
       /\ cmd'  = [cmd EXCEPT ![LauncherOf[a]] = a]
       /\ UNCHANGED <<killed, stop, owner, engine>>
    \/ /\ Goes(a, "spawn", "err")
       /\ UNCHANGED <<proc, killed, cmd, stop, owner, engine>>

\* Whoever serves the address answers; the exit of the process is noticed
\* between two attempts to dial.
Dial(a) ==
    /\ \/ owner # None /\ Goes(a, "dial", "bootstrap")
       \/ Closed(a)    /\ Goes(a, "dial", "err")
       \/ Goes(a, "dial", "failing")
    /\ UNCHANGED <<proc, killed, cmd, stop, owner, engine>>

\* stopBootstrap: wait for the bootstrap profile to be started, ...
Bootstrap(a) ==
    /\ \/ owner # None /\ engine = "started" /\ Goes(a, "bootstrap", "disconnect")
       \/ Goes(a, "bootstrap", "failing")
    /\ UNCHANGED <<proc, killed, cmd, stop, owner, engine>>

\* (For a mutant of Disconnect: Start returns the error of the call at once.)
DisconnectLeaves(a) ==
    /\ \/ /\ owner # None
          /\ engine' = IF engine \in {"starting", "started"} THEN "stopping" ELSE engine
          /\ Goes(a, "disconnect", "settle")
       \/ Goes(a, "disconnect", "err") /\ UNCHANGED engine
    /\ UNCHANGED <<proc, killed, cmd, stop, owner>>

\* ... disconnect it - the call can fail, having reached the core or not -, ...
Disconnect(a) ==
    /\ \/ /\ owner # None
          /\ engine' = IF engine \in {"starting", "started"} THEN "stopping" ELSE engine
          /\ Goes(a, "disconnect", "settle") \/ Goes(a, "disconnect", "failing")
       \/ Goes(a, "disconnect", "failing") /\ UNCHANGED engine
    /\ UNCHANGED <<proc, killed, cmd, stop, owner>>

\* ... and wait for it to be stopped: also what Snapshot says of a core that does
\* not open its state stream.
Settle(a) ==
    /\ \/ owner # None /\ Goes(a, "settle", "ok")
       \/ Goes(a, "settle", "failing")
    /\ UNCHANGED <<proc, killed, cmd, stop, owner, engine>>

(***************************************************************************)
(* Stop, called by the program, or by a Start that gives up                *)
(***************************************************************************)
At(x, s)  == stop[x].at = s
To(x, s)  == stop' = [stop EXCEPT ![x] = s]

\* The dashboard stops a core it has started, the daemon the one it runs for.
StopCalled(l) ==
    /\ \E a \in Attempts : LauncherOf[a] = l /\ pc[a] = "ok"
    /\ "start" \in Overlaps \/ ~ Starting
    /\ At(l, "no") /\ To(l, [at |-> "read", target |-> None])
    /\ UNCHANGED <<pc, proc, killed, cmd, owner, engine>>

StartGivesUp(a) ==
    /\ pc[a] = "failing"
    /\ At(a, "no") /\ To(a, [at |-> "read", target |-> None])
    /\ UNCHANGED <<pc, proc, killed, cmd, owner, engine>>

Of(x) == IF x \in Attempts THEN LauncherOf[x] ELSE x

\* Stop returns; so does the Start that called it, with its error.
StopReturns(x) ==
    /\ To(x, Outside)
    /\ pc' = IF x \in Attempts THEN [pc EXCEPT ![x] = "err"] ELSE pc

\* Without a process there is nothing to do; the other one is interrupted.
StopReads(x) ==
    /\ At(x, "read")
    /\ IF cmd[Of(x)] = None
       THEN StopReturns(x)
       ELSE To(x, [at |-> "wait", target |-> cmd[Of(x)]]) /\ UNCHANGED pc
    /\ UNCHANGED <<proc, killed, cmd, owner, engine>>

\* (For a mutant of StopKills: it waits for ever.)
StopWaits(x) == At(x, "wait") /\ UNCHANGED vars

\* After three seconds it is killed.
StopKills(x) ==
    /\ At(x, "wait")
    /\ killed' = [killed EXCEPT ![stop[x].target] = TRUE]
    /\ UNCHANGED <<pc, proc, cmd, stop, owner, engine>>

\* (For a mutant of StopSees: it does not wait for the process.)
StopHurries(x) ==
    /\ At(x, "wait")
    /\ StopReturns(x)
    /\ UNCHANGED <<proc, killed, cmd, owner, engine>>

StopSees(x) ==
    /\ At(x, "wait")
    /\ Closed(stop[x].target)
    /\ StopReturns(x)
    /\ UNCHANGED <<proc, killed, cmd, owner, engine>>

Start(a) == Guard(a) \/ Spawn(a) \/ Dial(a) \/ Bootstrap(a) \/ Disconnect(a) \/ Settle(a)
              \/ StartGivesUp(a)
Stop(x)  == StopReads(x) \/ StopSees(x)
Wait(a)  == Reaped(a) \/ DoneClosed(a)

Next ==
    \/ \E a \in Attempts : Called(a) \/ Start(a) \/ Serves(a) \/ Exits(a) \/ Wait(a)
    \/ \E x \in Callers : Stop(x) \/ StopKills(x)
    \/ \E l \in Launchers : StopCalled(l)
    \/ ForeignStarts \/ ForeignExits \/ EngineMoves

Spec == Init /\ [][Next]_vars

\* Goroutines that can run do, a timer fires, and a killed process exits.  Nobody
\* has to call Start, and a core owes nothing, not even to serve.
Fairness ==
    /\ \A a \in Attempts : /\ WF_vars(Start(a))
                           /\ WF_vars(Wait(a))
                           /\ WF_vars(killed[a] /\ Exits(a))
    /\ \A x \in Callers : WF_vars(Stop(x) \/ StopKills(x))

FairSpec == Spec /\ Fairness

(***************************************************************************)
(* Properties                                                              *)
(***************************************************************************)
\* No Start issues "lifecycle commands to the process that already owns the
\* address" (launcher.go:101-103): what it disconnects is its own core.
DisconnectsOwnCore ==
    [][\A a \in Attempts : Disconnect(a) => owner \in {None, a}]_vars

\* A Start that returned a client has left its own core at the address.
StartedIsOurs ==
    [][\A a \in Attempts : pc[a] # "ok" /\ pc'[a] = "ok" => owner = a]_vars

\* A Start that returned an error has left no process behind, whichever of its
\* steps failed (launcher.go:137-180).
FailureLeavesNothing == \A a \in Attempts : pc[a] = "err" => ~ Alive(a)

\* "Stop terminates the launched core, if any" (launcher.go:231): when it returns
\* no core is left that a successful Start of this launcher has spawned.
StopTerminates ==
    [][\A l \in Launchers : stop[l].at # "no" /\ stop'[l].at = "no" =>
          \A a \in Attempts : LauncherOf[a] = l /\ pc[a] = "ok" => ~ Alive(a)]_vars

\* The promise: a Start that has not returned, the processes alive, the launchers
\* being stopped.
Status   == [a \in Attempts |-> IF InProgress(a) THEN "busy" ELSE pc[a]]
Live     == {a \in Attempts : Alive(a)}
Stopped  == {l \in Launchers : stop[l].at # "no"}

Promise == INSTANCE AtomicLauncher WITH status <- Status, live <- Live, stopping <- Stopped

\* To the programs a Start, with its waits, failures and clean-up, launches one core
\* of its own beside no other, disconnects no other, and fails without a trace; and
\* Stop is the end of that core (launcher.go:90-248).
LaunchIsAtomic == Promise!Spec

\* Start and Stop return, whatever the core does (launcher.go:158, 242-247).
CallsReturn ==
    /\ \A a \in Attempts : InProgress(a) ~> ~ InProgress(a)
    /\ \A l \in Launchers : (stop[l].at # "no") ~> (stop[l].at = "no")
=================================================================================
