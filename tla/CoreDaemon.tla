------------------------------- MODULE CoreDaemon -------------------------------
(***************************************************************************)
(* The service wrapper, cmd/hiddify-core-daemon/main.go, beside the other  *)
(* users of the control address: each run of the program has a launcher of *)
(* its own, makes one call of Start, and then waits for a signal or for    *)
(* the core to exit.  Its exit code tells the service manager whether to   *)
(* run it again (Restart=on-failure).                                      *)
(*                                                                         *)
(* The launcher's steps are those of CoreLauncher.                         *)
(***************************************************************************)
EXTENDS CoreLauncher

CONSTANTS
    Runs,    \* runs of the daemon, each of which is a launcher ...
    StartOf  \* ... with one call of Start

ASSUME DaemonAssumption ==
    /\ Runs \subseteq Launchers
    /\ StartOf \in [Runs -> Attempts]
    /\ \A a \in Attempts, d \in Runs : LauncherOf[a] = d <=> a = StartOf[d]

VARIABLES
    at,        \* at[d]:        where main is
    signalled, \* signalled[d]: an interrupt or SIGTERM waits in the channel
    service    \* what the service manager makes of the last run

daemonVars == <<at, signalled, service>>
allVars == <<vars, daemonVars>>

DaemonTypeOK ==
    /\ at \in [Runs -> {"off", "starting", "refused", "running", "stopping", "ended"}]
    /\ signalled \in [Runs -> BOOLEAN]
    /\ service \in {"enabled", "active", "failed", "inactive"}

DaemonInit ==
    /\ Init
    /\ at = [d \in Runs |-> "off"]
    /\ signalled = [d \in Runs |-> FALSE]
    /\ service = "enabled"

MovesOn(d, from, to) == at[d] = from /\ at' = [at EXCEPT ![d] = to]

\* main ends, with code 1 if the service counts as failed, with 0 otherwise.
Ends(d, from, as) == MovesOn(d, from, "ended") /\ service' = as

(***************************************************************************)
(* The service manager                                                     *)
(***************************************************************************)
\* It starts the daemon, and again after a run that has failed.
Launched(d) ==
    /\ service \in {"enabled", "failed"} /\ service' = "active"
    /\ MovesOn(d, "off", "starting")
    /\ Called(StartOf[d])
    /\ UNCHANGED signalled

\* A second signal finds the channel full, or nobody to read it.
Signalled(d) ==
    /\ at[d] \in {"starting", "refused", "running"}
    /\ ~ signalled[d] /\ signalled' = [signalled EXCEPT ![d] = TRUE]
    /\ UNCHANGED <<vars, at, service>>

(***************************************************************************)
(* main                                                                    *)
(***************************************************************************)
\* ErrAddressInUse, the only error of the guard at the default address, is told
\* from the others.
GuardReturns(d) ==
    /\ Guard(StartOf[d])
    /\ at' = IF pc'[StartOf[d]] = "err" THEN [at EXCEPT ![d] = "refused"] ELSE at
    /\ UNCHANGED <<signalled, service>>

\* Any other error is exit code 1.
StartReturns(d) ==
    /\ \/ pc[StartOf[d]] = "ok"  /\ MovesOn(d, "starting", "running") /\ UNCHANGED service
       \/ pc[StartOf[d]] = "err" /\ Ends(d, "starting", "failed")
    /\ UNCHANGED <<vars, signalled>>

\* "Leaving the existing core untouched": it waits for a signal and for nothing else.
RefusedLeaves(d) ==
    /\ Ends(d, "refused", "inactive") /\ signalled[d]
    /\ UNCHANGED <<vars, signalled>>

\* (For a mutant of SignalStops: the signal ends the program as it is.)
SignalEnds(d) ==
    /\ Ends(d, "running", "inactive") /\ signalled[d]
    /\ UNCHANGED <<vars, signalled>>

\* The select: a signal, ...
SignalStops(d) ==
    /\ MovesOn(d, "running", "stopping") /\ signalled[d]
    /\ StopCalled(d)
    /\ UNCHANGED <<signalled, service>>

StopDone(d) ==
    /\ Ends(d, "stopping", "inactive") /\ stop[d].at = "no"
    /\ UNCHANGED <<vars, signalled>>

\* (For a mutant of CoreExits: only a signal ends the wait.)
CoreExitsUnseen(d) == FALSE /\ UNCHANGED allVars

\* ... or the exit of the core, with code 1.
CoreExits(d) ==
    /\ Ends(d, "running", "failed") /\ Closed(StartOf[d])
    /\ UNCHANGED <<vars, signalled>>

Main(d) ==
    \/ StartReturns(d) \/ RefusedLeaves(d) \/ SignalStops(d) \/ StopDone(d) \/ CoreExits(d)

(***************************************************************************)
(* The launchers' steps that are not the daemon's to take                  *)
(***************************************************************************)
DaemonStarts == {StartOf[d] : d \in Runs}

\* The rest of a Start the daemon has called, as in CoreLauncher.
Continue(a) ==
    \/ Spawn(a) \/ Dial(a) \/ Bootstrap(a) \/ Disconnect(a) \/ Settle(a) \/ StartGivesUp(a)

LauncherStep ==
    /\ \/ \E a \in Attempts \ DaemonStarts : Called(a) \/ Start(a)
       \/ \E a \in DaemonStarts : Continue(a)
       \/ \E a \in Attempts : Serves(a) \/ Exits(a) \/ Wait(a)
       \/ \E x \in Callers : Stop(x) \/ StopKills(x)
       \/ \E l \in Launchers \ Runs : StopCalled(l)
       \/ ForeignStarts \/ ForeignExits \/ EngineMoves
    /\ UNCHANGED daemonVars

DaemonNext ==
    \/ LauncherStep
    \/ \E d \in Runs : Launched(d) \/ Signalled(d) \/ GuardReturns(d) \/ Main(d)

DaemonSpec == DaemonInit /\ [][DaemonNext]_allVars

\* The daemon runs when it can; nobody has to start or to signal it.
FairDaemonSpec ==
    /\ DaemonSpec /\ Fairness
    /\ \A d \in Runs : WF_allVars(Main(d))

(***************************************************************************)
(* Properties                                                              *)
(***************************************************************************)
\* A daemon that has ended, for whatever reason, has left no core of its own
\* behind (main.go:48-57): the next run would find the address in use and wait.
ExitLeavesNothing == \A d \in Runs : at[d] = "ended" => ~ Alive(StartOf[d])

\* "The daemon follows the core's process lifetime" (main.go:2-3): it ends when its
\* core does; and, wherever it was, when it is told to.
DaemonEnds ==
    \A d \in Runs :
        signalled[d] \/ (at[d] = "running" /\ ~ Alive(StartOf[d])) ~> at[d] = "ended"

\* A daemon "keeps the standalone core's gRPC control service alive" (main.go:1): it
\* does not wait for ever, while nobody serves the address.  It does (see README).
KeepsServing == \A d \in Runs : ~ <>[](at[d] = "refused" /\ owner = None)
=================================================================================
