----------------------------- MODULE AtomicLauncher -----------------------------
(***************************************************************************)
(* What core.Launcher promises the programs that use it                    *)
(* (internal/core/launcher.go): Start leaves the caller with a core of its *)
(* own at the address, or with none and an error; it tells no other core   *)
(* to do anything; when Stop returns, no core of the launcher is left.     *)
(*                                                                         *)
(* How it is done - the guard, the dial loop, the bootstrap profile, the   *)
(* waiter, l.cmd - is CoreLauncher's.  Here a Start is running or has      *)
(* returned, and a process is alive or not.                                *)
(***************************************************************************)
CONSTANTS Attempts, Launchers, LauncherOf, None, Foreign

VARIABLES
    status,   \* status[a]: "idle", "busy", or what the call of Start returned
    live,     \* the attempts whose process is alive
    stopping, \* the launchers a program is stopping
    owner,    \* who serves the control address
    engine    \* connection state of that core

vars == <<status, live, stopping, owner, engine>>

Init ==
    /\ status   = [a \in Attempts |-> "idle"]
    /\ live     = {}
    /\ stopping = {}
    /\ owner    \in {None, Foreign}
    /\ engine   = "stopped"

Busy(a)  == status[a] = "busy"
AllQuiet == \A a \in Attempts : ~ Busy(a)

Becomes(a, from, to) == status[a] = from /\ status' = [status EXCEPT ![a] = to]

\* Nothing else is in progress when Start is called.
Begin(a) ==
    /\ Becomes(a, "idle", "busy")
    /\ AllQuiet /\ stopping = {}
    /\ UNCHANGED <<live, stopping, owner, engine>>

\* "Never launch beside an existing GUI, service, or user-started core", nor
\* beside a core of a launcher.
Launch(a) ==
    /\ Busy(a)
    /\ live = {} /\ live' = {a}
    /\ owner = None
    /\ UNCHANGED <<status, stopping, owner, engine>>

Serve(a) ==
    /\ a \in live
    /\ owner = None /\ owner' = a
    /\ engine' = "starting"
    /\ UNCHANGED <<status, live, stopping>>

\* The one thing a Start tells a core, and it tells its own.
Disconnect(a) ==
    /\ Busy(a) /\ owner = a
    /\ engine \in {"starting", "started"} /\ engine' = "stopping"
    /\ UNCHANGED <<status, live, stopping, owner>>

Succeed(a) ==
    /\ Becomes(a, "busy", "ok")
    /\ owner = a
    /\ UNCHANGED <<live, stopping, owner, engine>>

Fail(a) ==
    /\ Becomes(a, "busy", "err")
    /\ a \notin live
    /\ UNCHANGED <<live, stopping, owner, engine>>

Die(a) ==
    /\ a \in live /\ live' = live \ {a}
    /\ IF owner = a THEN owner' = None /\ engine' = "stopped" ELSE UNCHANGED <<owner, engine>>
    /\ UNCHANGED <<status, stopping>>

StopBegin(l) ==
    /\ AllQuiet
    /\ l \notin stopping /\ stopping' = stopping \cup {l}
    /\ UNCHANGED <<status, live, owner, engine>>

StopEnd(l) ==
    /\ l \in stopping /\ stopping' = stopping \ {l}
    /\ \A a \in live : LauncherOf[a] # l
    /\ UNCHANGED <<status, live, owner, engine>>

\* Cores of others come and go, but not in the middle of a Start.
ForeignComes ==
    /\ AllQuiet
    /\ owner = None /\ owner' = Foreign
    /\ engine' = "stopped"
    /\ UNCHANGED <<status, live, stopping>>

ForeignGoes ==
    /\ owner = Foreign /\ owner' = None
    /\ engine' = "stopped"
    /\ UNCHANGED <<status, live, stopping>>

\* What a core does by itself, or because a client of its own asks for it.
EngineMoves ==
    /\ owner # None
    /\ engine' \in {"stopped", "starting", "started"} \ {engine}
    /\ UNCHANGED <<status, live, stopping, owner>>

Next ==
    \/ \E a \in Attempts :
          Begin(a) \/ Launch(a) \/ Serve(a) \/ Disconnect(a) \/ Succeed(a) \/ Fail(a) \/ Die(a)
    \/ \E l \in Launchers : StopBegin(l) \/ StopEnd(l)
    \/ ForeignComes \/ ForeignGoes \/ EngineMoves

Spec == Init /\ [][Next]_vars
=================================================================================
