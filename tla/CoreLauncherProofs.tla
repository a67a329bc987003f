--------------------------- MODULE CoreLauncherProofs ---------------------------
(***************************************************************************)
(* What holds of core supervision for any number of starts, launchers and  *)
(* processes: the types always, the safety properties as long as a start   *)
(* overlaps neither another one, nor a Stop, nor the start of a foreign    *)
(* core.                                                                   *)
(*                                                                         *)
(* And of the service wrapper, for any number of its runs, beside any      *)
(* other starts and whatever overlaps: its steps are steps of the          *)
(* launchers, and no run ends while a core of its own is alive.            *)
(***************************************************************************)
EXTENDS CoreDaemon, TLAPS

(***************************************************************************)
(* Types                                                                   *)
(***************************************************************************)
\* What stop[x] is outside Stop, before l.cmd is read, and after.
LEMMA StopValues ==
    /\ Outside \in [at : {"no", "read"}, target : {None}]
    /\ [at |-> "read", target |-> None] \in [at : {"no", "read"}, target : {None}]
    /\ \A a \in Attempts : [at |-> "wait", target |-> a] \in [at : {"wait"}, target : Attempts]
BY DEF Outside

\* A process, the waiter goroutine and the environment keep the types.
LEMMA ProcessTyped ==
    ASSUME TypeOK, NEW a \in Attempts, Serves(a) \/ Exits(a) \/ Wait(a)
    PROVE  TypeOK'
<1>1. CASE Serves(a)
  BY <1>1 DEF Serves, Moves, TypeOK, Engines
<1>2. CASE Exits(a)
  BY <1>2 DEF Exits, TypeOK, Engines
<1>3. CASE Reaped(a)
  BY <1>3 DEF Reaped, Moves, TypeOK
<1>4. CASE DoneClosed(a)
  BY <1>4 DEF DoneClosed, Moves, TypeOK
<1> QED BY <1>1, <1>2, <1>3, <1>4 DEF Wait

\* So do foreign cores and the core's own changes of state.
LEMMA EnvironmentTyped ==
    ASSUME TypeOK, ForeignStarts \/ ForeignExits \/ EngineMoves
    PROVE  TypeOK'
<1>1. CASE ForeignStarts
  BY <1>1 DEF ForeignStarts, TypeOK, Engines
<1>2. CASE ForeignExits
  BY <1>2 DEF ForeignExits, TypeOK, Engines
<1>3. CASE EngineMoves
  BY <1>3 DEF EngineMoves, TypeOK, Engines
<1> QED BY <1>1, <1>2, <1>3

\* Every step of Start keeps the types (launcher.go:91-181).
LEMMA StartTyped ==
    ASSUME TypeOK, NEW a \in Attempts, Called(a) \/ Start(a)
    PROVE  TypeOK'
<1> USE DEF Goes, TypeOK
<1>1. CASE Called(a)
  BY <1>1 DEF Called
<1>2. CASE Guard(a)
  BY <1>2 DEF Guard
<1>3. CASE Spawn(a)
  BY <1>3, LauncherAssumption DEF Spawn
<1>4. CASE Dial(a)
  BY <1>4 DEF Dial
<1>5. CASE Bootstrap(a)
  BY <1>5 DEF Bootstrap
<1>6. CASE Disconnect(a)
  <2>1. engine' \in Engines
    BY <1>6 DEF Disconnect, Engines
  <2>2. pc' \in [Attempts -> {"idle", "guard", "spawn", "dial", "bootstrap", "disconnect",
                               "settle", "failing", "ok", "err"}]
    BY <1>6 DEF Disconnect
  <2> QED BY <1>6, <2>1, <2>2 DEF Disconnect
<1>7. CASE Settle(a)
  BY <1>7 DEF Settle
<1>8. CASE StartGivesUp(a)
  BY <1>8, StopValues DEF StartGivesUp, At, To, Callers
<1> QED BY <1>1, <1>2, <1>3, <1>4, <1>5, <1>6, <1>7, <1>8 DEF Start

\* So does every step of Stop (launcher.go:232-248).
LEMMA StopTyped ==
    ASSUME TypeOK, NEW x \in Callers, Stop(x) \/ StopKills(x) \/ (x \in Launchers /\ StopCalled(x))
    PROVE  TypeOK'
<1> USE DEF TypeOK
<1>1. ASSUME StopReturns(x), UNCHANGED <<proc, killed, cmd, owner, engine>> PROVE TypeOK'
  BY <1>1, StopValues DEF StopReturns, To
<1>2. CASE StopReads(x)
  <2>1. CASE cmd[Of(x)] = None
    BY <1>1, <1>2, <2>1 DEF StopReads
  <2>2. CASE cmd[Of(x)] # None
    <3>1. Of(x) \in Launchers
      BY LauncherAssumption DEF Of, Callers
    <3>2. cmd[Of(x)] \in Attempts
      BY <2>2, <3>1
    <3> QED BY <1>2, <2>2, <3>2, StopValues DEF StopReads, To
  <2> QED BY <2>1, <2>2
<1>3. CASE StopSees(x)
  BY <1>1, <1>3 DEF StopSees
<1>4. CASE StopKills(x)
  BY <1>4 DEF StopKills
<1>5. CASE x \in Launchers /\ StopCalled(x)
  BY <1>5, StopValues DEF StopCalled, To
<1> QED BY <1>2, <1>3, <1>4, <1>5 DEF Stop

\* Every step keeps the types.
LEMMA TypeInductive == TypeOK /\ [Next]_vars => TypeOK'
<1> SUFFICES ASSUME TypeOK, [Next]_vars PROVE TypeOK'
  OBVIOUS
<1>1. CASE UNCHANGED vars
  BY <1>1 DEF vars, TypeOK
<1>2. ASSUME NEW l \in Launchers, StopCalled(l) PROVE TypeOK'
  BY <1>2, StopTyped DEF Callers
<1> QED BY <1>1, <1>2, ProcessTyped, EnvironmentTyped, StartTyped, StopTyped DEF Next

\* Before the first start the types hold.
LEMMA InitTyped == Init => TypeOK
BY StopValues DEF Init, TypeOK, Engines

\* Every variable of the launchers, their processes and the address keeps its
\* type, whatever overlaps.
THEOREM Typed == Spec => []TypeOK
BY InitTyped, TypeInductive, PTL DEF Spec

(***************************************************************************)
(* Safety without overlaps.  While a Start is past its guard the address   *)
(* is its own or nobody's and no other process is alive; a process that is *)
(* alive is the one its launcher knows and the one a Stop waits for.       *)
(***************************************************************************)
PastGuard == {"spawn", "dial", "bootstrap", "disconnect", "settle", "failing"}
Waiting(x) == stop[x].at = "wait"

\* One Start at a time, and no Stop of the program's own meanwhile.
Alone ==
    /\ \A a, b \in Attempts : InProgress(a) /\ InProgress(b) => a = b
    /\ \A a \in Attempts, l \in Launchers : InProgress(a) => At(l, "no")
    /\ \A a \in Attempts : ~ At(a, "no") => pc[a] = "failing"

\* A Start that has not spawned yet has no process.
Unborn == \A a \in Attempts : pc[a] \in {"idle", "guard", "spawn"} => proc[a] = "none"

\* The address and the processes: who is past the guard is alone, and a core that
\* a successful Start has left is the one that serves.
Addressed ==
    /\ \A a \in Attempts : pc[a] \in PastGuard =>
          owner \in {None, a} /\ \A b \in Attempts : Alive(b) => b = a
    /\ \A a \in Attempts : pc[a] = "ok" /\ Alive(a) => owner = a

\* l.cmd is the live process of its launcher, and what a Stop has read of it.
Known == \A a \in Attempts : Alive(a) =>
             /\ cmd[LauncherOf[a]] = a
             /\ \A x \in Callers : Waiting(x) /\ Of(x) = LauncherOf[a] => stop[x].target = a

SafeInv == TypeOK /\ Alone /\ Unborn /\ Addressed /\ Known /\ FailureLeavesNothing

\* Before the first start there is no process and nobody stops one.
LEMMA SafeInit == Init => SafeInv
<1> SUFFICES ASSUME Init PROVE SafeInv
  OBVIOUS
<1>1. /\ \A a \in Attempts : pc[a] = "idle" /\ proc[a] = "none"
      /\ \A x \in Callers : At(x, "no")
  BY DEF Init, At, Outside
<1>2. Alone
  BY <1>1 DEF Alone, InProgress, Callers
<1>3. Unborn /\ Addressed /\ Known /\ FailureLeavesNothing
  BY <1>1 DEF Unborn, Addressed, Known, FailureLeavesNothing, PastGuard, Alive
<1> QED BY <1>2, <1>3, InitTyped DEF SafeInv

\* A process that serves, exits or is reaped was the only one that could be in
\* the way (launcher.go:143-154).
LEMMA SafeProcess ==
    ASSUME SafeInv, TypeOK', NEW a \in Attempts, Serves(a) \/ Exits(a) \/ Wait(a)
    PROVE  SafeInv'
<1> USE DEF SafeInv, TypeOK
<1>1. pc' = pc /\ stop' = stop
  BY DEF Serves, Exits, Wait, Reaped, DoneClosed
<1>2. proc' = [proc EXCEPT ![a] = proc'[a]]
  BY DEF Serves, Exits, Wait, Reaped, DoneClosed, Moves
<1>3. \A b \in Attempts : (Alive(b)' => Alive(b)) /\ (proc[b] = "none" => proc'[b] = "none")
  BY <1>2 DEF Serves, Exits, Wait, Reaped, DoneClosed, Moves, Alive
<1>4. Alone'
  BY <1>1 DEF Alone, InProgress, At
<1>5. Unborn' /\ FailureLeavesNothing'
  BY <1>1, <1>3 DEF Unborn, FailureLeavesNothing
<1>6. Addressed'
  <2>1. CASE Serves(a)
    <3>1. Alive(a) /\ owner = None /\ owner' = a
      BY <2>1 DEF Serves, Moves, Alive
    <3>2. \A b \in Attempts : pc[b] \in PastGuard => b = a
      BY <3>1 DEF Addressed
    <3>3. \A b \in Attempts : ~ (pc[b] = "ok" /\ Alive(b))
      BY <3>1, LauncherAssumption DEF Addressed
    <3> QED BY <1>1, <1>3, <3>1, <3>2, <3>3 DEF Addressed
  <2>2. CASE Exits(a)
    <3>1. owner' = (IF owner = a THEN None ELSE owner) /\ ~ Alive(a)'
      BY <2>2 DEF Exits, Alive
    <3> QED BY <1>1, <1>3, <3>1 DEF Addressed
  <2>3. CASE Wait(a)
    <3>1. owner' = owner
      BY <2>3 DEF Wait, Reaped, DoneClosed
    <3> QED BY <1>1, <1>3, <3>1 DEF Addressed
  <2> QED BY <2>1, <2>2, <2>3
<1>7. Known'
  <2>1. CASE cmd' = cmd
    BY <1>1, <1>3, <2>1 DEF Known, Waiting
  <2>2. CASE Reaped(a)
    <3>1. ~ Alive(a) /\ cmd' = [l \in Launchers |-> IF cmd[l] = a THEN None ELSE cmd[l]]
      BY <2>2 DEF Reaped, Moves, Alive
    <3> QED BY <1>1, <1>3, <3>1, LauncherAssumption DEF Known, Waiting
  <2> QED BY <2>1, <2>2 DEF Serves, Exits, Wait, DoneClosed
<1> QED BY <1>4, <1>5, <1>6, <1>7

\* A foreign core takes the address only when no Start is past its guard and
\* nobody serves it.
LEMMA SafeEnvironment ==
    ASSUME SafeInv, TypeOK', "foreign" \notin Overlaps, ForeignStarts \/ ForeignExits \/ EngineMoves
    PROVE  SafeInv'
<1>1. UNCHANGED <<pc, proc, cmd, stop>>
  BY DEF ForeignStarts, ForeignExits, EngineMoves
<1>2. Alone' /\ Unborn' /\ Known' /\ FailureLeavesNothing'
  BY <1>1 DEF SafeInv, Alone, Unborn, Known, FailureLeavesNothing, InProgress, Alive, At, Waiting
<1>3. Addressed'
  <2>1. CASE ForeignStarts
    <3>1. owner = None /\ \A a \in Attempts : pc[a] \notin PastGuard
      BY <2>1 DEF ForeignStarts, Starting, InProgress, PastGuard
    <3>2. \A a \in Attempts : ~ (pc[a] = "ok" /\ Alive(a))
      BY <3>1, LauncherAssumption DEF SafeInv, Addressed
    <3> QED BY <1>1, <3>1, <3>2 DEF Addressed, Alive
  <2>2. CASE ForeignExits
    <3>1. owner = Foreign /\ owner' = None
      BY <2>2 DEF ForeignExits
    <3> QED BY <1>1, <3>1, LauncherAssumption DEF SafeInv, Addressed, Alive
  <2>3. CASE EngineMoves
    BY <1>1, <2>3 DEF EngineMoves, SafeInv, Addressed, Alive
  <2> QED BY <2>1, <2>2, <2>3
<1> QED BY <1>2, <1>3 DEF SafeInv

\* A Start that takes a step touches no other Start, and spawns its process when
\* no other is alive.
LEMMA SafeStart ==
    ASSUME SafeInv, TypeOK', "start" \notin Overlaps, NEW a \in Attempts, Called(a) \/ Start(a)
    PROVE  SafeInv'
<1> USE DEF SafeInv, TypeOK
<1>1. pc' = [pc EXCEPT ![a] = pc'[a]] /\ \A b \in Attempts : b # a => pc'[b] = pc[b]
  BY DEF Called, Start, Guard, Spawn, Dial, Bootstrap, Disconnect, Settle, StartGivesUp, Goes
<1>2. \A b \in Attempts : b # a /\ InProgress(a) => ~ InProgress(b)
  BY DEF Alone
<1>3. CASE Called(a)
  <2>1. UNCHANGED <<proc, cmd, stop, owner>> /\ pc'[a] = "guard" /\ pc[a] = "idle"
    BY <1>3 DEF Called, Goes
  <2>2. ~ Starting /\ ~ Stopping
    BY <1>3 DEF Called
  <2>3. Alone'
    BY <1>1, <2>1, <2>2 DEF Alone, Starting, Stopping, InProgress, At
  <2>4. Unborn' /\ Addressed' /\ Known' /\ FailureLeavesNothing'
    BY <1>1, <2>1 DEF Unborn, Addressed, Known, FailureLeavesNothing, Alive, Waiting, PastGuard
  <2> QED BY <2>3, <2>4
<1>4. CASE Start(a)
  <2>1. InProgress(a)
    BY <1>4 DEF Start, Guard, Spawn, Dial, Bootstrap, Disconnect, Settle, StartGivesUp, Goes, InProgress
  <2>2. CASE Guard(a)
    <3>1. UNCHANGED <<proc, cmd, stop, owner>> /\ pc[a] = "guard"
      BY <2>2 DEF Guard, Goes
    <3>2. pc'[a] = "err" \/ (pc'[a] = "spawn" /\ owner = None)
      BY <2>2 DEF Guard, Goes
    <3>3. proc[a] = "none" /\ At(a, "no")
      BY <3>1 DEF Unborn, Alone
    <3>4. Alone' /\ Unborn' /\ Known' /\ FailureLeavesNothing'
      BY <1>1, <2>1, <3>1, <3>2, <3>3
         DEF Alone, Unborn, Known, FailureLeavesNothing, InProgress, Alive, At, Waiting
    <3>5. ASSUME owner = None, NEW b \in Attempts PROVE ~ Alive(b)
      <4>1. CASE b = a
        BY <3>3, <4>1 DEF Alive
      <4>2. CASE b # a
        <5>1. pc[b] \in {"idle", "ok", "err"}
          BY <1>2, <2>1, <4>2 DEF InProgress
        <5> QED BY <3>5, <5>1, LauncherAssumption DEF Unborn, Addressed, FailureLeavesNothing, Alive
      <4> QED BY <4>1, <4>2
    <3>6. Addressed'
      BY <1>1, <3>1, <3>2, <3>5 DEF Addressed, PastGuard, Alive
    <3> QED BY <3>4, <3>6
  <2>3. CASE Spawn(a)
    <3>1. UNCHANGED <<stop, owner>> /\ pc[a] = "spawn" /\ At(a, "no") /\ proc[a] = "none"
      BY <2>3 DEF Spawn, Goes, Unborn, Alone
    <3>2. owner \in {None, a} /\ \A b \in Attempts : ~ Alive(b)
      BY <3>1 DEF Addressed, PastGuard, Alive
    <3>3. CASE pc'[a] = "err"
      <4>1. proc' = proc /\ cmd' = cmd
        BY <2>3, <3>3 DEF Spawn, Goes
      <4>2. Alone' /\ Unborn' /\ Known' /\ FailureLeavesNothing'
        BY <1>1, <3>1, <3>3, <4>1
           DEF Alone, Unborn, Known, FailureLeavesNothing, InProgress, Alive, At, Waiting
      <4>3. Addressed'
        BY <1>1, <3>1, <3>2, <3>3, <4>1 DEF Addressed, PastGuard, Alive
      <4> QED BY <4>2, <4>3
    <3>4. CASE pc'[a] # "err"
      <4>1. /\ pc'[a] = "dial"
            /\ proc' = [proc EXCEPT ![a] = "booting"]
            /\ cmd'  = [cmd EXCEPT ![LauncherOf[a]] = a]
        BY <2>3, <3>4 DEF Spawn, Goes
      <4>2. \A b \in Attempts : Alive(b)' => b = a
        BY <3>2, <4>1 DEF Alive
      <4>3. Alone' /\ Unborn'
        BY <1>1, <2>1, <3>1, <4>1 DEF Alone, Unborn, InProgress, At
      <4>4. Addressed' /\ FailureLeavesNothing'
        BY <1>1, <1>2, <2>1, <3>1, <3>2, <4>1, <4>2
           DEF Addressed, FailureLeavesNothing, PastGuard, InProgress
      <4>5. \A x \in Callers : ~ Waiting(x)
        BY <1>2, <2>1, <3>1 DEF Alone, Callers, Waiting, At, InProgress
      <4>6. Known'
        BY <3>1, <4>1, <4>2, <4>5, LauncherAssumption DEF Known, Waiting
      <4> QED BY <4>3, <4>4, <4>6
    <3> QED BY <3>3, <3>4
  <2>4. CASE Dial(a) \/ Bootstrap(a) \/ Disconnect(a) \/ Settle(a)
    <3>1. UNCHANGED <<proc, cmd, stop, owner>> /\ pc[a] \in PastGuard \ {"spawn", "failing"}
      BY <2>4 DEF Dial, Bootstrap, Disconnect, Settle, Goes, PastGuard
    <3>2. \/ pc'[a] \in PastGuard \ {"spawn"}
          \/ pc'[a] = "ok" /\ owner # None
          \/ pc'[a] = "err" /\ Closed(a)
      BY <2>4 DEF Dial, Bootstrap, Disconnect, Settle, Goes, PastGuard
    <3>3. owner \in {None, a} /\ At(a, "no")
      BY <3>1 DEF Addressed, PastGuard, Alone
    <3>4. Alone' /\ Unborn'
      BY <1>1, <1>2, <2>1, <3>1, <3>2, <3>3 DEF Alone, Unborn, InProgress, At, PastGuard
    <3>5. Addressed'
      BY <1>1, <1>2, <2>1, <3>1, <3>2, <3>3 DEF Addressed, InProgress, PastGuard, Alive
    <3>6. Known' /\ FailureLeavesNothing'
      BY <1>1, <3>1, <3>2 DEF Known, FailureLeavesNothing, Waiting, Alive, Closed, PastGuard
    <3> QED BY <3>4, <3>5, <3>6
  <2>5. CASE StartGivesUp(a)
    <3>1. UNCHANGED <<pc, proc, cmd, owner>> /\ pc[a] = "failing"
      BY <2>5 DEF StartGivesUp
    <3>2. stop' = [stop EXCEPT ![a] = [at |-> "read", target |-> None]]
      BY <2>5 DEF StartGivesUp, To
    <3>3. a \in Callers /\ a \notin Launchers
      BY LauncherAssumption DEF Callers
    <3>4. Alone' /\ Unborn' /\ Addressed' /\ FailureLeavesNothing'
      BY <3>1, <3>2, <3>3 DEF Alone, Unborn, Addressed, FailureLeavesNothing, InProgress, Alive, At, Callers
    <3>5. Known'
      BY <3>1, <3>2, <3>3 DEF Known, Waiting, Alive
    <3> QED BY <3>4, <3>5
  <2> QED BY <1>4, <2>2, <2>3, <2>4, <2>5 DEF Start
<1> QED BY <1>3, <1>4

\* A Stop reads the process of its launcher, waits for no other, and returns
\* when that one is gone (launcher.go:232-248).
LEMMA SafeStop ==
    ASSUME SafeInv, TypeOK', "start" \notin Overlaps, NEW x \in Callers,
           Stop(x) \/ StopKills(x) \/ (x \in Launchers /\ StopCalled(x))
    PROVE  SafeInv'
<1> USE DEF SafeInv, TypeOK
<1>1. UNCHANGED <<proc, cmd, owner>>
  BY DEF Stop, StopReads, StopSees, StopKills, StopCalled
<1>2. ASSUME StopReturns(x), ~ At(x, "no"),
             \A a \in Attempts : Alive(a) => Of(x) # LauncherOf[a]
      PROVE  SafeInv'
  <2>1. stop' = [stop EXCEPT ![x] = Outside]
    BY <1>2 DEF StopReturns, To
  <2>2. \A y \in Callers : ~ At(y, "no")' => stop'[y] = stop[y] /\ y # x
    BY <2>1 DEF At, Outside
  <2>3. CASE x \in Attempts
    <3>1. pc' = [pc EXCEPT ![x] = "err"] /\ pc[x] = "failing" /\ ~ Alive(x)
      BY <1>2, <2>3 DEF StopReturns, Alone, Of
    <3>2. \A l \in Launchers : stop'[l] = stop[l]
      BY <2>1, <2>3, LauncherAssumption
    <3>3. Alone'
      BY <2>2, <2>3, <3>1, <3>2 DEF Alone, InProgress, At, Callers
    <3>4. Unborn' /\ Addressed' /\ FailureLeavesNothing'
      BY <1>1, <2>3, <3>1 DEF Unborn, Addressed, FailureLeavesNothing, PastGuard, Alive
    <3>5. Known'
      BY <1>1, <2>1 DEF Known, Waiting, Alive, Outside
    <3> QED BY <3>3, <3>4, <3>5
  <2>4. CASE x \notin Attempts
    <3>1. pc' = pc
      BY <1>2, <2>4 DEF StopReturns
    <3>2. Alone' /\ Unborn' /\ Addressed' /\ FailureLeavesNothing'
      BY <1>1, <2>1, <2>2, <3>1
         DEF Alone, Unborn, Addressed, FailureLeavesNothing, InProgress, Alive, At, Callers, Outside
    <3>3. Known'
      BY <1>1, <2>1 DEF Known, Waiting, Alive, Outside
    <3> QED BY <3>2, <3>3
  <2> QED BY <2>3, <2>4
<1>3. CASE StopReads(x)
  <2>1. CASE cmd[Of(x)] = None
    BY <1>2, <1>3, <2>1, LauncherAssumption DEF StopReads, At, Known
  <2>2. CASE cmd[Of(x)] # None
    <3>1. /\ pc' = pc
          /\ stop' = [stop EXCEPT ![x] = [at |-> "wait", target |-> cmd[Of(x)]]]
          /\ At(x, "read")
      BY <1>3, <2>2 DEF StopReads, To
    <3>2. Alone'
      BY <3>1 DEF Alone, InProgress, At, Callers
    <3>3. Unborn' /\ Addressed' /\ FailureLeavesNothing'
      BY <1>1, <3>1 DEF Unborn, Addressed, FailureLeavesNothing, Alive
    <3>4. Known'
      BY <1>1, <3>1 DEF Known, Waiting, Alive
    <3> QED BY <3>2, <3>3, <3>4
  <2> QED BY <2>1, <2>2
<1>4. CASE StopSees(x)
  <2>1. \A a \in Attempts : Alive(a) => Of(x) # LauncherOf[a]
    BY <1>4 DEF StopSees, At, Known, Waiting, Closed, Alive
  <2> QED BY <1>2, <1>4, <2>1 DEF StopSees, At
<1>5. CASE StopKills(x)
  BY <1>5 DEF StopKills, Alone, Unborn, Addressed, Known, FailureLeavesNothing, InProgress,
              Alive, At, Waiting
<1>6. CASE x \in Launchers /\ StopCalled(x)
  <2>1. /\ pc' = pc /\ x \notin Attempts
        /\ stop' = [stop EXCEPT ![x] = [at |-> "read", target |-> None]]
        /\ \A a \in Attempts : ~ InProgress(a)
    BY <1>6, LauncherAssumption DEF StopCalled, To, Starting
  <2>2. Alone' /\ Unborn' /\ Addressed' /\ FailureLeavesNothing'
    BY <1>1, <2>1 DEF Alone, Unborn, Addressed, FailureLeavesNothing, InProgress, Alive, At, Callers
  <2>3. Known'
    BY <1>1, <2>1 DEF Known, Waiting, Alive
  <2> QED BY <2>2, <2>3
<1> QED BY <1>3, <1>4, <1>5, <1>6 DEF Stop

\* Every step keeps the safety invariant.
LEMMA SafeInductive ==
    ASSUME Overlaps = {}
    PROVE  SafeInv /\ [Next]_vars => SafeInv'
<1> SUFFICES ASSUME SafeInv, [Next]_vars PROVE SafeInv'
  OBVIOUS
<1>1. TypeOK'
  BY TypeInductive DEF SafeInv
<1>2. CASE UNCHANGED vars
  BY <1>2 DEF vars, SafeInv, TypeOK, Alone, Unborn, Addressed, Known, FailureLeavesNothing,
              InProgress, Alive, At, Waiting
<1>3. ASSUME NEW l \in Launchers, StopCalled(l) PROVE SafeInv'
  BY <1>1, <1>3, SafeStop DEF Callers
<1> QED BY <1>1, <1>2, <1>3, SafeProcess, SafeEnvironment, SafeStart, SafeStop DEF Next

\* Without overlaps the safety invariant holds in every reachable state.
LEMMA Safe == ASSUME Overlaps = {} PROVE Spec => []SafeInv
BY SafeInit, SafeInductive, PTL DEF Spec

(***************************************************************************)
(* A foreign core may take the address in the middle of a Start: what the  *)
(* Start left behind is then not what serves, but what its Stop ends is    *)
(* its own process.                                                        *)
(***************************************************************************)
\* l.cmd is the live process of the Start in progress, and its Stop waits for it.
OwnKnown == \A a \in Attempts : InProgress(a) /\ Alive(a) =>
                /\ cmd[LauncherOf[a]] = a
                /\ Waiting(a) => stop[a].target = a

CleanInv == TypeOK /\ Alone /\ Unborn /\ OwnKnown /\ FailureLeavesNothing

\* Before the first start there is no process.
LEMMA CleanInit == Init => CleanInv
BY SafeInit DEF SafeInv, CleanInv, Known, OwnKnown, Callers, Of

\* Processes and cores of others: whoever serves, only ends are seen by a Stop.
LEMMA CleanOthers ==
    ASSUME CleanInv, TypeOK',
           \/ \E a \in Attempts : Serves(a) \/ Exits(a) \/ Wait(a)
           \/ ForeignStarts \/ ForeignExits \/ EngineMoves
    PROVE  CleanInv'
<1> USE DEF CleanInv, TypeOK
<1>1. pc' = pc /\ stop' = stop
  BY DEF Serves, Exits, Wait, Reaped, DoneClosed, ForeignStarts, ForeignExits, EngineMoves
<1>2. \A b \in Attempts : (Alive(b)' => Alive(b)) /\ (proc[b] = "none" => proc'[b] = "none")
  BY DEF Serves, Exits, Wait, Reaped, DoneClosed, Moves, Alive, ForeignStarts, ForeignExits,
         EngineMoves
<1>3. Alone'
  BY <1>1 DEF Alone, InProgress, At
<1>4. Unborn' /\ FailureLeavesNothing'
  BY <1>1, <1>2 DEF Unborn, FailureLeavesNothing
<1>5. OwnKnown'
  <2>1. CASE cmd' = cmd
    BY <1>1, <1>2, <2>1 DEF OwnKnown, Waiting, InProgress
  <2>2. ASSUME NEW a \in Attempts, Reaped(a) PROVE OwnKnown'
    <3>1. ~ Alive(a) /\ cmd' = [l \in Launchers |-> IF cmd[l] = a THEN None ELSE cmd[l]]
      BY <2>2 DEF Reaped, Moves, Alive
    <3> QED BY <1>1, <1>2, <3>1, LauncherAssumption DEF OwnKnown, Waiting, InProgress
  <2> QED BY <2>1, <2>2 DEF Serves, Exits, Wait, DoneClosed, ForeignStarts, ForeignExits,
                            EngineMoves
<1> QED BY <1>3, <1>4, <1>5

\* A Start that takes a step is the only one in progress.
LEMMA CleanStart ==
    ASSUME CleanInv, TypeOK', "start" \notin Overlaps, NEW a \in Attempts, Called(a) \/ Start(a)
    PROVE  CleanInv'
<1> USE DEF CleanInv, TypeOK
<1>1. \A b \in Attempts : b # a => pc'[b] = pc[b]
  BY DEF Called, Start, Guard, Spawn, Dial, Bootstrap, Disconnect, Settle, StartGivesUp, Goes
<1>2. CASE Called(a)
  <2>1. UNCHANGED <<proc, cmd, stop>> /\ pc'[a] = "guard" /\ pc[a] = "idle" /\ proc[a] = "none"
    BY <1>2 DEF Called, Goes, Unborn
  <2>2. ~ Starting /\ ~ Stopping
    BY <1>2 DEF Called
  <2>3. Alone'
    BY <1>1, <2>1, <2>2 DEF Alone, Starting, Stopping, InProgress, At
  <2>4. Unborn' /\ OwnKnown' /\ FailureLeavesNothing'
    BY <1>1, <2>1 DEF Unborn, OwnKnown, FailureLeavesNothing, Alive, Waiting, InProgress
  <2> QED BY <2>3, <2>4
<1>3. CASE Start(a)
  <2>1. InProgress(a) /\ \A b \in Attempts : InProgress(b) => b = a
    <3>1. InProgress(a)
      BY <1>3 DEF Start, Guard, Spawn, Dial, Bootstrap, Disconnect, Settle, StartGivesUp, Goes,
                  InProgress
    <3> QED BY <3>1 DEF Alone
  <2>2. CASE StartGivesUp(a)
    <3>1. UNCHANGED <<pc, proc, cmd>> /\ pc[a] = "failing"
          /\ stop' = [stop EXCEPT ![a] = [at |-> "read", target |-> None]]
      BY <2>2 DEF StartGivesUp, To
    <3>2. a \in Callers /\ a \notin Launchers
      BY LauncherAssumption DEF Callers
    <3>3. Alone' /\ Unborn' /\ FailureLeavesNothing'
      BY <3>1, <3>2 DEF Alone, Unborn, FailureLeavesNothing, InProgress, Alive, At, Callers
    <3>4. OwnKnown'
      BY <2>1, <3>1, <3>2 DEF OwnKnown, Waiting, Alive, InProgress
    <3> QED BY <3>3, <3>4
  <2>3. CASE ~ StartGivesUp(a)
    <3>1. stop' = stop /\ At(a, "no") /\ pc[a] # "failing"
      BY <1>3, <2>3 DEF Start, Guard, Spawn, Dial, Bootstrap, Disconnect, Settle, Goes, Alone
    <3>2. CASE Spawn(a) /\ pc'[a] = "dial"
      <4>1. /\ proc' = [proc EXCEPT ![a] = "booting"]
            /\ cmd'  = [cmd EXCEPT ![LauncherOf[a]] = a]
        BY <3>2 DEF Spawn, Goes
      <4>2. Alone' /\ Unborn'
        BY <1>1, <2>1, <3>1, <3>2, <4>1 DEF Alone, Unborn, InProgress, At
      <4>3. FailureLeavesNothing'
        BY <1>1, <3>2, <4>1 DEF FailureLeavesNothing, Alive
      <4>4. OwnKnown'
        BY <1>1, <2>1, <3>1, <4>1, LauncherAssumption DEF OwnKnown, Waiting, At, InProgress
      <4> QED BY <4>2, <4>3, <4>4
    <3>3. CASE ~ (Spawn(a) /\ pc'[a] = "dial")
      <4>1. UNCHANGED <<proc, cmd>> /\ pc'[a] # "idle"
        BY <1>3, <2>3, <3>3 DEF Start, Guard, Spawn, Dial, Bootstrap, Disconnect, Settle, Goes
      <4>2. pc'[a] \in {"guard", "spawn"} => pc[a] \in {"guard", "spawn"}
        BY <1>3, <2>3, <3>3 DEF Start, Guard, Spawn, Dial, Bootstrap, Disconnect, Settle, Goes
      <4>3. pc'[a] = "err" => ~ Alive(a)
        BY <1>3, <2>3, <3>3
           DEF Start, Guard, Spawn, Dial, Bootstrap, Disconnect, Settle, Goes, Unborn, Alive, Closed
      <4>4. Alone'
        BY <1>1, <2>1, <3>1 DEF Alone, InProgress, At
      <4>5. Unborn' /\ FailureLeavesNothing'
        BY <1>1, <4>1, <4>2, <4>3 DEF Unborn, FailureLeavesNothing, Alive
      <4>6. OwnKnown'
        BY <1>1, <2>1, <3>1, <4>1 DEF OwnKnown, Waiting, Alive, InProgress
      <4> QED BY <4>4, <4>5, <4>6
    <3> QED BY <3>2, <3>3
  <2> QED BY <2>2, <2>3
<1> QED BY <1>2, <1>3

\* The Stop of a Start that gives up returns when the process it spawned is gone.
LEMMA CleanStop ==
    ASSUME CleanInv, TypeOK', "start" \notin Overlaps, NEW x \in Callers,
           Stop(x) \/ StopKills(x) \/ (x \in Launchers /\ StopCalled(x))
    PROVE  CleanInv'
<1> USE DEF CleanInv, TypeOK
<1>1. UNCHANGED <<proc, cmd>>
  BY DEF Stop, StopReads, StopSees, StopKills, StopCalled
<1>2. ASSUME StopReturns(x), ~ At(x, "no"), x \in Attempts => ~ Alive(x)
      PROVE  CleanInv'
  <2>1. stop' = [stop EXCEPT ![x] = Outside]
    BY <1>2 DEF StopReturns, To
  <2>2. \A y \in Callers : ~ At(y, "no")' => stop'[y] = stop[y] /\ y # x
    BY <2>1 DEF At, Outside
  <2>3. CASE x \in Attempts
    <3>1. pc' = [pc EXCEPT ![x] = "err"] /\ pc[x] = "failing" /\ ~ Alive(x)
      BY <1>2, <2>3 DEF StopReturns, Alone
    <3>2. \A l \in Launchers : stop'[l] = stop[l]
      BY <2>1, <2>3, LauncherAssumption
    <3>3. Alone'
      BY <2>2, <2>3, <3>1, <3>2 DEF Alone, InProgress, At, Callers
    <3>4. Unborn' /\ FailureLeavesNothing'
      BY <1>1, <2>3, <3>1 DEF Unborn, FailureLeavesNothing, Alive
    <3>5. OwnKnown'
      BY <1>1, <2>1, <3>1 DEF OwnKnown, Waiting, Alive, Outside, InProgress, Callers
    <3> QED BY <3>3, <3>4, <3>5
  <2>4. CASE x \notin Attempts
    <3>1. pc' = pc
      BY <1>2, <2>4 DEF StopReturns
    <3>2. Alone' /\ Unborn' /\ FailureLeavesNothing'
      BY <1>1, <2>1, <2>2, <3>1
         DEF Alone, Unborn, FailureLeavesNothing, InProgress, Alive, At, Callers, Outside
    <3>3. OwnKnown'
      BY <1>1, <2>1, <2>4, <3>1 DEF OwnKnown, Waiting, Alive, Outside, InProgress, Callers
    <3> QED BY <3>2, <3>3
  <2> QED BY <2>3, <2>4
<1>3. \A a \in Attempts : ~ At(a, "no") => InProgress(a)
  BY DEF Alone, InProgress
<1>4. CASE StopReads(x)
  <2>1. CASE cmd[Of(x)] = None
    <3>1. x \in Attempts => ~ Alive(x)
      BY <1>3, <1>4, <2>1, LauncherAssumption DEF StopReads, At, OwnKnown, Of
    <3> QED BY <1>2, <1>4, <2>1, <3>1 DEF StopReads, At
  <2>2. CASE cmd[Of(x)] # None
    <3>1. /\ pc' = pc
          /\ stop' = [stop EXCEPT ![x] = [at |-> "wait", target |-> cmd[Of(x)]]]
          /\ At(x, "read")
      BY <1>4, <2>2 DEF StopReads, To
    <3>2. Alone'
      BY <3>1 DEF Alone, InProgress, At, Callers
    <3>3. Unborn' /\ FailureLeavesNothing'
      BY <1>1, <3>1 DEF Unborn, FailureLeavesNothing, Alive
    <3>4. OwnKnown'
      BY <1>1, <3>1 DEF OwnKnown, Waiting, Alive, Of, InProgress, Callers
    <3> QED BY <3>2, <3>3, <3>4
  <2> QED BY <2>1, <2>2
<1>5. CASE StopSees(x)
  <2>1. x \in Attempts => ~ Alive(x)
    BY <1>3, <1>5 DEF StopSees, At, OwnKnown, Waiting, Closed, Alive
  <2> QED BY <1>2, <1>5, <2>1 DEF StopSees, At
<1>6. CASE StopKills(x)
  BY <1>6 DEF StopKills, Alone, Unborn, OwnKnown, FailureLeavesNothing, InProgress,
              Alive, At, Waiting
<1>7. CASE x \in Launchers /\ StopCalled(x)
  <2>1. /\ pc' = pc /\ x \notin Attempts
        /\ stop' = [stop EXCEPT ![x] = [at |-> "read", target |-> None]]
        /\ \A a \in Attempts : ~ InProgress(a)
    BY <1>7, LauncherAssumption DEF StopCalled, To, Starting
  <2>2. Alone' /\ Unborn' /\ FailureLeavesNothing'
    BY <1>1, <2>1 DEF Alone, Unborn, FailureLeavesNothing, InProgress, Alive, At, Callers
  <2>3. OwnKnown'
    BY <1>1, <2>1 DEF OwnKnown, InProgress
  <2> QED BY <2>2, <2>3
<1> QED BY <1>4, <1>5, <1>6, <1>7 DEF Stop

\* Every step keeps it.
LEMMA CleanInductive ==
    ASSUME "start" \notin Overlaps
    PROVE  CleanInv /\ [Next]_vars => CleanInv'
<1> SUFFICES ASSUME CleanInv, [Next]_vars PROVE CleanInv'
  OBVIOUS
<1>1. TypeOK'
  BY TypeInductive DEF CleanInv
<1>2. CASE UNCHANGED vars
  BY <1>2 DEF vars, CleanInv, TypeOK, Alone, Unborn, OwnKnown, FailureLeavesNothing,
              InProgress, Alive, At, Waiting
<1>3. ASSUME NEW l \in Launchers, StopCalled(l) PROVE CleanInv'
  BY <1>1, <1>3, CleanStop DEF Callers
<1> QED BY <1>1, <1>2, <1>3, CleanOthers, CleanStart, CleanStop DEF Next

\* As long as no other Start or Stop runs meanwhile, a Start that returned an error has
\* left no process behind, whichever of its steps failed, and also if a foreign core
\* came in between (launcher.go:137-180).
THEOREM FailuresAreClean ==
    ASSUME "start" \notin Overlaps
    PROVE  Spec => []FailureLeavesNothing
<1>1. CleanInv => FailureLeavesNothing
  BY DEF CleanInv
<1> QED BY <1>1, CleanInit, CleanInductive, PTL DEF Spec

\* Without overlaps a Start disconnects no core but its own (launcher.go:191-197).
THEOREM ForeignCoresUntouched ==
    ASSUME Overlaps = {}
    PROVE  Spec => DisconnectsOwnCore
<1>1. SafeInv => \A a \in Attempts : Disconnect(a) => owner \in {None, a}
  BY DEF SafeInv, Addressed, Disconnect, Goes, PastGuard
<1>2. SafeInv => [\A a \in Attempts : Disconnect(a) => owner \in {None, a}]_vars
  BY <1>1
<1> QED BY <1>2, Safe, PTL DEF DisconnectsOwnCore

\* Without overlaps a Start that returns a client has its own core at the address.
THEOREM OwnCoreStarted ==
    ASSUME Overlaps = {}
    PROVE  Spec => StartedIsOurs
<1>1. ASSUME SafeInv, [Next]_vars, NEW a \in Attempts, pc[a] # "ok", pc'[a] = "ok"
      PROVE  owner = a
  <2>1. ASSUME NEW b \in Attempts, Start(b) PROVE owner = a
    <3>1. b = a /\ Settle(a)
      BY <1>1, <2>1 DEF Start, Guard, Spawn, Dial, Bootstrap, Disconnect, Settle, StartGivesUp,
                        Goes, SafeInv, TypeOK
    <3>2. pc[a] = "settle" /\ owner # None
      BY <1>1, <3>1 DEF Settle, Goes, SafeInv, TypeOK
    <3> QED BY <1>1, <3>2 DEF SafeInv, Addressed, PastGuard
  <2>2. ASSUME NEW b \in Attempts, Called(b) PROVE FALSE
    BY <1>1, <2>2 DEF Called, Goes, SafeInv, TypeOK
  <2>3. ASSUME NEW x \in Callers, Stop(x) PROVE FALSE
    BY <1>1, <2>3 DEF Stop, StopReads, StopSees, StopReturns, SafeInv, TypeOK
  <2>4. ASSUME pc' = pc PROVE FALSE
    BY <1>1, <2>4
  <2> QED BY <1>1, <2>1, <2>2, <2>3, <2>4
          DEF Next, vars, Serves, Exits, Wait, Reaped, DoneClosed, StopKills, StopCalled,
              ForeignStarts, ForeignExits, EngineMoves
<1>2. SafeInv /\ [Next]_vars =>
        [\A a \in Attempts : pc[a] # "ok" /\ pc'[a] = "ok" => owner = a]_vars
  BY <1>1
<1> QED BY <1>2, Safe, PTL DEF Spec, StartedIsOurs

\* Without overlaps Stop leaves no core alive that a successful Start of its
\* launcher has spawned (launcher.go:231-248).
THEOREM StopReachesTheCore ==
    ASSUME Overlaps = {}
    PROVE  Spec => StopTerminates
<1>1. ASSUME SafeInv, [Next]_vars, NEW l \in Launchers, ~ At(l, "no"), At(l, "no")',
             NEW a \in Attempts, LauncherOf[a] = l, Alive(a)
      PROVE  FALSE
  <2>1. l \in Callers /\ l \notin Attempts /\ Of(l) = l
    BY LauncherAssumption DEF Callers, Of
  <2>2. ASSUME NEW x \in Callers, StopReads(x) PROVE FALSE
    <3>1. x = l /\ cmd[l] = None
      BY <1>1, <2>1, <2>2 DEF StopReads, StopReturns, To, At, SafeInv, TypeOK
    <3> QED BY <1>1, <3>1, LauncherAssumption DEF SafeInv, Known
  <2>3. ASSUME NEW x \in Callers, StopSees(x) PROVE FALSE
    <3>1. x = l /\ Waiting(l) /\ Closed(stop[l].target)
      BY <1>1, <2>1, <2>3 DEF StopSees, StopReturns, To, At, Waiting, SafeInv, TypeOK
    <3> QED BY <1>1, <2>1, <3>1 DEF SafeInv, Known, Closed, Alive
  <2>4. ASSUME NEW k \in Launchers, StopCalled(k) PROVE FALSE
    BY <1>1, <2>1, <2>4 DEF StopCalled, To, At, Callers, SafeInv, TypeOK
  <2>5. ASSUME NEW b \in Attempts, StartGivesUp(b) PROVE FALSE
    BY <1>1, <2>1, <2>5 DEF StartGivesUp, To, At, Callers, SafeInv, TypeOK
  <2>6. ASSUME stop' = stop PROVE FALSE
    BY <1>1, <2>6 DEF At
  <2> QED BY <1>1, <2>2, <2>3, <2>4, <2>5, <2>6
          DEF Next, vars, Serves, Exits, Wait, Reaped, DoneClosed, Stop, StopKills, Called, Start,
              Guard, Spawn, Dial, Bootstrap, Disconnect, Settle, ForeignStarts, ForeignExits, EngineMoves
<1>2. SafeInv /\ [Next]_vars =>
        [\A l \in Launchers : stop[l].at # "no" /\ stop'[l].at = "no" =>
            \A a \in Attempts : LauncherOf[a] = l /\ pc[a] = "ok" => ~ Alive(a)]_vars
  BY <1>1 DEF At
<1> QED BY <1>2, Safe, PTL DEF Spec, StopTerminates

(***************************************************************************)
(* The steps of a call run out, which is the safety half of CallsReturn:   *)
(* whatever overlaps, nothing sets back a Start, a Stop or the process a   *)
(* Stop waits for, and a Stop waits for a process that was spawned.        *)
(***************************************************************************)
ProcLeft == [none |-> 6, booting |-> 5, serving |-> 4, exited |-> 3, reaped |-> 2, gone |-> 1]

\* The steps of Stop, and of the process it waits for.
StopLeft(x) ==
    CASE stop[x].at = "no"   -> 0
      [] stop[x].at = "read" -> 7
      [] stop[x].at = "wait" -> ProcLeft[proc[stop[x].target]]
                                  + IF killed[stop[x].target] THEN 0 ELSE 1

PcLeft == [idle |-> 0, guard |-> 15, spawn |-> 14, dial |-> 13, bootstrap |-> 12,
           disconnect |-> 11, settle |-> 10, failing |-> 9, ok |-> 0, err |-> 0]

\* The steps of Start; one that has failed ends with a Stop.
StartLeft(a) == IF pc[a] = "failing" /\ stop[a].at # "no" THEN 1 + StopLeft(a) ELSE PcLeft[pc[a]]

StartAdvances(a) ==
    /\ InProgress(a) => StartLeft(a)' <= StartLeft(a)
    /\ Start(a) => StartLeft(a)' < StartLeft(a)

\* A step of Stop, the kill included, or of the process on its way out.
Unwinds(x) ==
    LET t == stop[x].target
    IN  \/ Stop(x)
        \/ Waiting(x) /\ (Exits(t) \/ Wait(t))
        \/ Waiting(x) /\ StopKills(x) /\ ~ killed[t]

StopAdvances(x) ==
    /\ stop[x].at # "no" => StopLeft(x)' <= StopLeft(x)
    /\ Unwinds(x) => StopLeft(x)' < StopLeft(x)

CallsAdvance == [][/\ \A a \in Attempts : StartAdvances(a)
                   /\ \A x \in Callers : StopAdvances(x)]_vars

CallInv ==
    /\ TypeOK /\ Unborn
    /\ \A l \in Launchers : cmd[l] # None => proc[cmd[l]] # "none"
    /\ \A x \in Callers : Waiting(x) => proc[stop[x].target] # "none"
    /\ \A a \in Attempts : stop[a].at # "no" => pc[a] = "failing"

\* Before the first call.
LEMMA CallInit == Init => CallInv
<1> SUFFICES ASSUME Init PROVE CallInv
  OBVIOUS
<1>1. TypeOK
  BY InitTyped
<1> QED BY <1>1 DEF Init, CallInv, Unborn, Waiting, Outside, Callers

\* What a step does to the processes: they go one way, and a kill is final.
LEMMA ProcessesAdvance ==
    ASSUME TypeOK, Unborn, [Next]_vars
    PROVE  \A b \in Attempts : /\ ProcLeft[proc'[b]] <= ProcLeft[proc[b]]
                               /\ proc[b] # "none" => proc'[b] # "none"
                               /\ killed[b] => killed'[b]
<1> SUFFICES ASSUME NEW b \in Attempts
             PROVE  /\ ProcLeft[proc'[b]] <= ProcLeft[proc[b]]
                    /\ proc[b] # "none" => proc'[b] # "none"
                    /\ killed[b] => killed'[b]
  OBVIOUS
<1> USE DEF TypeOK, ProcLeft
<1>1. CASE proc' = proc /\ killed' = killed
  BY <1>1
<1>2. ASSUME NEW a \in Attempts, Serves(a) \/ Exits(a) \/ Wait(a)
      PROVE  /\ ProcLeft[proc'[b]] <= ProcLeft[proc[b]]
             /\ proc[b] # "none" => proc'[b] # "none"
             /\ killed[b] => killed'[b]
  BY <1>2 DEF Serves, Exits, Wait, Reaped, DoneClosed, Moves, Alive
<1>3. ASSUME NEW a \in Attempts, Spawn(a)
      PROVE  /\ ProcLeft[proc'[b]] <= ProcLeft[proc[b]]
             /\ proc[b] # "none" => proc'[b] # "none"
             /\ killed[b] => killed'[b]
  BY <1>3 DEF Spawn, Goes, Unborn
<1>4. ASSUME NEW x \in Callers, StopKills(x)
      PROVE  /\ ProcLeft[proc'[b]] <= ProcLeft[proc[b]]
             /\ proc[b] # "none" => proc'[b] # "none"
             /\ killed[b] => killed'[b]
  BY <1>4 DEF StopKills
<1> QED BY <1>1, <1>2, <1>3, <1>4
        DEF Next, vars, Called, Start, Guard, Dial, Bootstrap, Disconnect, Settle, StartGivesUp,
            Stop, StopReads, StopSees, StopCalled, ForeignStarts, ForeignExits, EngineMoves

\* What a step does to a Stop: it begins, or is that Stop's own.
LEMMA OwnStopMoves ==
    ASSUME TypeOK, [Next]_vars, NEW x \in Callers, stop'[x] # stop[x]
    PROVE  \/ stop[x].at = "no" /\ stop'[x].at = "read" /\ pc' = pc
                /\ (x \in Attempts => pc[x] = "failing")
           \/ Stop(x)
<1> USE DEF TypeOK, To, At
<1>1. ASSUME NEW a \in Attempts, StartGivesUp(a)
      PROVE  stop[x].at = "no" /\ stop'[x].at = "read" /\ pc' = pc
                /\ (x \in Attempts => pc[x] = "failing")
  BY <1>1 DEF StartGivesUp, Callers
<1>2. ASSUME NEW l \in Launchers, StopCalled(l)
      PROVE  stop[x].at = "no" /\ stop'[x].at = "read" /\ pc' = pc
                /\ (x \in Attempts => pc[x] = "failing")
  BY <1>2, LauncherAssumption DEF StopCalled, Callers
<1>3. ASSUME NEW y \in Callers, Stop(y) PROVE Stop(x)
  BY <1>3 DEF Stop, StopReads, StopSees, StopReturns
<1> QED BY <1>1, <1>2, <1>3
        DEF Next, vars, Serves, Exits, Wait, Reaped, DoneClosed, StopKills, Called, Start, Guard,
            Spawn, Dial, Bootstrap, Disconnect, Settle, ForeignStarts, ForeignExits, EngineMoves

\* What a step does to a Start: it begins, or is that Start's own.
LEMMA OwnStartMoves ==
    ASSUME TypeOK, [Next]_vars, NEW a \in Attempts, pc'[a] # pc[a]
    PROVE  Called(a) \/ Start(a) \/ StopReads(a) \/ StopSees(a)
<1> USE DEF TypeOK, Goes
<1>1. ASSUME NEW b \in Attempts, Called(b) PROVE Called(a)
  BY <1>1 DEF Called
<1>2. ASSUME NEW b \in Attempts, Start(b) PROVE Start(a)
  BY <1>2 DEF Start, Guard, Spawn, Dial, Bootstrap, Disconnect, Settle, StartGivesUp
<1>3. ASSUME NEW y \in Callers, Stop(y) PROVE StopReads(a) \/ StopSees(a)
  BY <1>3 DEF Stop, StopReads, StopSees, StopReturns
<1> QED BY <1>1, <1>2, <1>3
        DEF Next, vars, Serves, Exits, Wait, Reaped, DoneClosed, StopKills, StopCalled,
            ForeignStarts, ForeignExits, EngineMoves

\* A Stop that goes on has read a process that was spawned (launcher.go:232-241).
LEMMA StopGoesOn ==
    ASSUME CallInv, NEW x \in Callers, Stop(x)
    PROVE  /\ proc' = proc /\ killed' = killed /\ stop[x].at # "no"
           /\ \/ stop'[x] = Outside /\ (x \in Attempts => pc'[x] = "err")
              \/ /\ stop[x].at = "read" /\ pc' = pc
                 /\ stop'[x].at = "wait" /\ stop'[x].target \in Attempts
                 /\ proc[stop'[x].target] # "none"
<1> USE DEF CallInv, TypeOK, At, To, StopReturns, Outside
<1>1. Of(x) \in Launchers
  BY LauncherAssumption DEF Of, Callers
<1>2. CASE StopReads(x) /\ cmd[Of(x)] = None
  BY <1>2 DEF StopReads
<1>3. CASE StopReads(x) /\ cmd[Of(x)] # None
  <2>1. cmd[Of(x)] \in Attempts /\ proc[cmd[Of(x)]] # "none"
    BY <1>1, <1>3
  <2> QED BY <1>3, <2>1 DEF StopReads
<1>4. CASE StopSees(x)
  BY <1>4 DEF StopSees
<1> QED BY <1>2, <1>3, <1>4 DEF Stop

\* Every step keeps it.
LEMMA CallInductive == CallInv /\ [Next]_vars => CallInv'
<1> SUFFICES ASSUME CallInv, [Next]_vars PROVE CallInv'
  OBVIOUS
<1> USE DEF CallInv
<1>1. TypeOK'
  BY TypeInductive
<1>2. \A b \in Attempts : proc[b] # "none" => proc'[b] # "none"
  BY ProcessesAdvance
<1>3. Unborn'
  <2> SUFFICES ASSUME NEW b \in Attempts, pc'[b] \in {"idle", "guard", "spawn"},
                      proc'[b] # "none"
               PROVE  FALSE
    BY DEF Unborn
  <2>1. ASSUME pc'[b] = pc[b] PROVE FALSE
    <3>1. proc[b] = "none" /\ proc'[b] # proc[b]
      BY <2>1 DEF Unborn
    <3>2. ASSUME NEW a \in Attempts, Spawn(a) PROVE FALSE
      BY <2>1, <3>1, <3>2 DEF Spawn, Goes, TypeOK
    <3>3. ASSUME NEW a \in Attempts, Serves(a) \/ Exits(a) \/ Wait(a) PROVE FALSE
      BY <3>1, <3>3 DEF Serves, Exits, Wait, Reaped, DoneClosed, Moves, Alive, TypeOK
    <3> QED BY <3>1, <3>2, <3>3
            DEF Next, vars, Called, Start, Guard, Dial, Bootstrap, Disconnect, Settle,
                StartGivesUp, Stop, StopReads, StopSees, StopKills, StopCalled, ForeignStarts,
                ForeignExits, EngineMoves
  <2>2. ASSUME pc'[b] # pc[b] PROVE FALSE
    <3>1. CASE Called(b)
      BY <2>2, <3>1 DEF Called, Goes, Unborn, TypeOK
    <3>2. CASE Start(b)
      BY <2>2, <3>2 DEF Start, Guard, Spawn, Dial, Bootstrap, Disconnect, Settle, StartGivesUp,
                        Goes, Unborn, TypeOK
    <3>3. CASE StopReads(b) \/ StopSees(b)
      BY <2>2, <3>3 DEF StopReads, StopSees, StopReturns, TypeOK
    <3> QED BY <2>2, <3>1, <3>2, <3>3, OwnStartMoves
  <2> QED BY <2>1, <2>2
<1>4. \A l \in Launchers : cmd'[l] # None => proc'[cmd'[l]] # "none"
  <2> SUFFICES ASSUME NEW l \in Launchers, cmd'[l] # None PROVE proc'[cmd'[l]] # "none"
    OBVIOUS
  <2>1. ASSUME cmd'[l] = cmd[l] PROVE proc'[cmd'[l]] # "none"
    BY <1>2, <2>1 DEF TypeOK
  <2>2. ASSUME NEW a \in Attempts, Spawn(a) PROVE proc'[cmd'[l]] # "none"
    BY <1>2, <2>2 DEF Spawn, TypeOK
  <2>3. ASSUME NEW a \in Attempts, Reaped(a) PROVE proc'[cmd'[l]] # "none"
    BY <1>2, <2>3 DEF Reaped, TypeOK
  <2> QED BY <2>1, <2>2, <2>3
          DEF Next, vars, Serves, Exits, Wait, DoneClosed, Called, Start, Guard, Dial, Bootstrap,
              Disconnect, Settle, StartGivesUp, Stop, StopReads, StopSees, StopKills, StopCalled,
              ForeignStarts, ForeignExits, EngineMoves
<1>5. \A x \in Callers : Waiting(x)' => proc'[stop'[x].target] # "none"
  <2> SUFFICES ASSUME NEW x \in Callers, stop'[x].at = "wait"
               PROVE  proc'[stop'[x].target] # "none"
    BY DEF Waiting
  <2>1. CASE stop'[x] = stop[x]
    BY <1>2, <2>1 DEF Waiting, TypeOK
  <2>2. CASE stop'[x] # stop[x]
    <3>1. Stop(x)
      BY <2>2, OwnStopMoves
    <3> QED BY <1>2, <3>1, StopGoesOn DEF Outside
  <2> QED BY <2>1, <2>2
<1>6. \A a \in Attempts : stop'[a].at # "no" => pc'[a] = "failing"
  <2> SUFFICES ASSUME NEW a \in Attempts, stop'[a].at # "no" PROVE pc'[a] = "failing"
    OBVIOUS
  <2>1. a \in Callers
    BY DEF Callers
  <2>2. CASE stop'[a] # stop[a]
    <3>1. CASE Stop(a)
      BY <2>1, <2>2, <3>1, StopGoesOn DEF Outside
    <3> QED BY <2>1, <2>2, <3>1, OwnStopMoves
  <2>3. CASE stop'[a] = stop[a]
    <3>1. pc[a] = "failing"
      BY <2>3
    <3>2. ~ Called(a) /\ (Start(a) => FALSE)
      BY <2>1, <2>3, <3>1 DEF Called, Start, Guard, Spawn, Dial, Bootstrap, Disconnect, Settle,
                              StartGivesUp, Goes, At
    <3>3. ~ Stop(a)
      BY <2>1, <2>3, StopGoesOn DEF Outside
    <3> QED BY <3>1, <3>2, <3>3, OwnStartMoves DEF Stop
  <2> QED BY <2>2, <2>3
<1> QED BY <1>1, <1>3, <1>4, <1>5, <1>6

\* What is left of a Stop is a number.
LEMMA StopLeftBounded == CallInv => \A x \in Callers : StopLeft(x) \in 0 .. 7
BY DEF CallInv, TypeOK, StopLeft, ProcLeft, Waiting

\* After the step, too.
LEMMA StopLeftStays == (CallInv => \A x \in Callers : StopLeft(x) \in 0 .. 7)'
BY StopLeftBounded, PTL

\* Steps of others do not set back a Stop, and its own bring it to its end.
LEMMA StopsAdvance ==
    ASSUME CallInv, CallInv', [Next]_vars, NEW x \in Callers
    PROVE  StopAdvances(x)
<1>1. \A b \in Attempts : /\ ProcLeft[proc'[b]] <= ProcLeft[proc[b]]
                          /\ killed[b] => killed'[b]
  BY ProcessesAdvance DEF CallInv
<1>2. \A b \in Attempts : ProcLeft[proc[b]] \in 1 .. 6 /\ ProcLeft[proc'[b]] \in 1 .. 6
  BY DEF CallInv, TypeOK, ProcLeft
<1>3. ASSUME Stop(x) PROVE StopLeft(x)' < StopLeft(x)
  <2>1. CASE stop'[x] = Outside
    <3>1. StopLeft(x)' = 0
      BY <2>1 DEF StopLeft, Outside
    <3>2. StopLeft(x) >= 1
      BY <1>3, StopGoesOn, <1>2 DEF StopLeft, CallInv, TypeOK
    <3> QED BY <3>1, <3>2, StopLeftBounded
  <2>2. CASE stop'[x] # Outside
    BY <1>2, <1>3, <2>2, StopGoesOn DEF StopLeft, CallInv, TypeOK, ProcLeft
  <2> QED BY <2>1, <2>2
<1>4. ASSUME stop'[x] = stop[x] PROVE StopLeft(x)' <= StopLeft(x)
  BY <1>1, <1>2, <1>4 DEF StopLeft, CallInv, TypeOK
<1>5. stop[x].at # "no" => StopLeft(x)' <= StopLeft(x)
  <2> SUFFICES ASSUME stop[x].at # "no", stop'[x] # stop[x] PROVE StopLeft(x)' <= StopLeft(x)
    BY <1>4
  <2>1. Stop(x)
    BY OwnStopMoves DEF CallInv
  <2>2. StopLeft(x)' < StopLeft(x)
    BY <1>3, <2>1
  <2>3. StopLeft(x) \in Nat /\ StopLeft(x)' \in Nat
    BY StopLeftStays, StopLeftBounded
  <2> QED BY <2>2, <2>3
<1>6. ASSUME Waiting(x), NEW t, t = stop[x].target, Exits(t) \/ Wait(t)
      PROVE  StopLeft(x)' < StopLeft(x)
  <2>1. t \in Attempts /\ stop' = stop /\ killed' = killed
    BY <1>6 DEF CallInv, TypeOK, Waiting, Exits, Wait, Reaped, DoneClosed
  <2>2. ProcLeft[proc'[t]] < ProcLeft[proc[t]]
    BY <1>6, <2>1 DEF CallInv, TypeOK, ProcLeft, Exits, Alive, Wait, Reaped, DoneClosed, Moves
  <2> QED BY <1>2, <1>6, <2>1, <2>2 DEF StopLeft, Waiting
<1>7. ASSUME Waiting(x), StopKills(x), ~ killed[stop[x].target]
      PROVE  StopLeft(x)' < StopLeft(x)
  <2>1. stop[x].target \in Attempts /\ stop' = stop /\ proc' = proc /\ killed'[stop[x].target]
    BY <1>7 DEF CallInv, TypeOK, Waiting, StopKills
  <2> QED BY <1>2, <1>7, <2>1 DEF StopLeft, Waiting
<1> QED BY <1>3, <1>5, <1>6, <1>7 DEF StopAdvances, Unwinds

\* Steps of others do not set back a Start, and its own bring it to its end.
LEMMA StartsAdvance ==
    ASSUME CallInv, CallInv', [Next]_vars, NEW a \in Attempts
    PROVE  StartAdvances(a)
<1>1. a \in Callers
  BY DEF Callers
<1>2. StopAdvances(a)
  BY <1>1, StopsAdvance
<1>3. StopLeft(a) \in 0 .. 7 /\ StopLeft(a)' \in 0 .. 7
  BY <1>1, StopLeftStays, StopLeftBounded
<1>4. PcLeft[pc[a]] \in 0 .. 15 /\ PcLeft[pc'[a]] \in 0 .. 15
  BY DEF CallInv, TypeOK, PcLeft
<1>5. ASSUME Start(a) PROVE StartLeft(a)' < StartLeft(a)
  <2>1. CASE StartGivesUp(a)
    <3>1. pc[a] = "failing" /\ pc'[a] = "failing" /\ stop[a].at = "no" /\ stop'[a].at = "read"
      BY <1>1, <2>1 DEF StartGivesUp, At, To, CallInv, TypeOK
    <3>2. StartLeft(a) = 9 /\ StartLeft(a)' = 1 + StopLeft(a)'
      BY <3>1 DEF StartLeft, PcLeft
    <3> QED BY <1>3, <3>2
  <2>2. CASE ~ StartGivesUp(a)
    <3>1. pc[a] # "failing" /\ stop' = stop /\ PcLeft[pc'[a]] < PcLeft[pc[a]]
      BY <1>5, <2>2 DEF Start, Guard, Spawn, Dial, Bootstrap, Disconnect, Settle, Goes, PcLeft,
                        CallInv, TypeOK
    <3>2. stop'[a].at = "no"
      BY <3>1 DEF CallInv
    <3> QED BY <3>1, <3>2 DEF StartLeft
  <2> QED BY <2>1, <2>2
<1>6. ASSUME InProgress(a) PROVE StartLeft(a)' <= StartLeft(a)
  <2>1. CASE pc'[a] # pc[a]
    <3>1. ~ Called(a)
      BY <1>6 DEF Called, Goes, InProgress
    <3>2. ASSUME Stop(a) PROVE StartLeft(a)' = 0
      BY <1>1, <2>1, <3>2, StopGoesOn DEF StartLeft, PcLeft
    <3>3. StartLeft(a) \in Nat /\ StartLeft(a)' \in Nat
      BY <1>3, <1>4 DEF StartLeft
    <3> QED BY <1>5, <2>1, <3>1, <3>2, <3>3, OwnStartMoves DEF Stop, CallInv
  <2>2. CASE pc'[a] = pc[a] /\ pc[a] # "failing"
    BY <1>4, <2>2 DEF StartLeft
  <2>3. CASE pc'[a] = pc[a] /\ pc[a] = "failing" /\ stop[a].at = "no"
    <3>1. StartLeft(a) = 9
      BY <2>3 DEF StartLeft, PcLeft
    <3>2. StartLeft(a)' = 9 \/ StartLeft(a)' = 1 + StopLeft(a)'
      BY <2>3 DEF StartLeft, PcLeft
    <3> QED BY <1>3, <3>1, <3>2
  <2>4. CASE pc'[a] = pc[a] /\ pc[a] = "failing" /\ stop[a].at # "no"
    <3>1. stop'[a].at # "no"
      BY <1>1, <2>4, OwnStopMoves, StopGoesOn DEF CallInv
    <3>2. StartLeft(a) = 1 + StopLeft(a) /\ StartLeft(a)' = 1 + StopLeft(a)'
      BY <2>4, <3>1 DEF StartLeft
    <3> QED BY <1>2, <1>3, <2>4, <3>2 DEF StopAdvances
  <2> QED BY <2>1, <2>2, <2>3, <2>4
<1> QED BY <1>5, <1>6 DEF StartAdvances

\* However many calls overlap and whatever the cores do, a Start takes at most 15
\* steps and a Stop, with the process it waits for, at most seven: every step takes
\* one off, and no step of anyone else adds one.  A Stop never waits for a process
\* that was not spawned (launcher.go:91-248).
THEOREM CallsRunOut ==
    Spec => /\ CallsAdvance
            /\ [](/\ \A a \in Attempts : StartLeft(a) \in 0 .. 15
                  /\ \A x \in Callers : StopLeft(x) \in 0 .. 7
                  /\ \A x \in Callers : Waiting(x) => proc[stop[x].target] # "none")
<1>1. ASSUME CallInv, CallInv', [Next]_vars
      PROVE  [/\ \A a \in Attempts : StartAdvances(a)
              /\ \A x \in Callers : StopAdvances(x)]_vars
  BY <1>1, StartsAdvance, StopsAdvance
<1>2. CallInv => /\ \A a \in Attempts : StartLeft(a) \in 0 .. 15
                 /\ \A x \in Callers : StopLeft(x) \in 0 .. 7
                 /\ \A x \in Callers : Waiting(x) => proc[stop[x].target] # "none"
  <2> SUFFICES ASSUME CallInv, NEW a \in Attempts PROVE StartLeft(a) \in 0 .. 15
    BY StopLeftBounded DEF CallInv
  <2>1. StopLeft(a) \in 0 .. 7 /\ PcLeft[pc[a]] \in 0 .. 15
    BY StopLeftBounded DEF CallInv, TypeOK, PcLeft, Callers
  <2> QED BY <2>1 DEF StartLeft
<1> QED BY <1>1, <1>2, CallInit, CallInductive, PTL DEF Spec, CallsAdvance

(***************************************************************************)
(* Without overlaps the launchers keep their promise: every step is one of *)
(* AtomicLauncher, or invisible to it.                                     *)
(***************************************************************************)
\* A core a launcher spawned has the address as long as it serves.
Serving == owner \in Attempts => proc[owner] = "serving"

PromiseInv == SafeInv /\ Serving

\* A step takes the address from a core of a launcher only with its process.
LEMMA PromiseInductive ==
    ASSUME Overlaps = {}
    PROVE  PromiseInv /\ [Next]_vars => PromiseInv'
<1> SUFFICES ASSUME PromiseInv, [Next]_vars PROVE Serving'
  BY SafeInductive DEF PromiseInv
<1> USE DEF PromiseInv, Serving, SafeInv, TypeOK
<1>1. CASE UNCHANGED vars
  BY <1>1 DEF vars
<1>2. ASSUME NEW a \in Attempts, Serves(a) \/ Exits(a) \/ Wait(a) PROVE Serving'
  BY <1>2, LauncherAssumption DEF Serves, Exits, Wait, Reaped, DoneClosed, Moves
<1>3. ASSUME NEW a \in Attempts, Spawn(a) PROVE Serving'
  BY <1>3 DEF Spawn, Goes, Unborn
<1>4. ASSUME NEW a \in Attempts, Called(a) \/ (Start(a) /\ ~ Spawn(a)) PROVE Serving'
  BY <1>4 DEF Called, Start, Guard, Dial, Bootstrap, Disconnect, Settle, StartGivesUp
<1>5. ASSUME NEW x \in Callers, Stop(x) \/ StopKills(x) \/ StopCalled(x) PROVE Serving'
  BY <1>5 DEF Stop, StopReads, StopSees, StopKills, StopCalled
<1>6. CASE ForeignStarts \/ ForeignExits \/ EngineMoves
  BY <1>6, LauncherAssumption DEF ForeignStarts, ForeignExits, EngineMoves
<1> QED BY <1>1, <1>2, <1>3, <1>4, <1>5, <1>6 DEF Next, Callers

\* Before the first start nobody's core has the address.
LEMMA PromiseInit == Init => PromiseInv /\ Promise!Init
<1> SUFFICES ASSUME Init PROVE PromiseInv /\ Promise!Init
  OBVIOUS
<1>1. SafeInv /\ Serving
  BY SafeInit, LauncherAssumption DEF Init, Serving
<1>2. Status = [a \in Attempts |-> "idle"] /\ Live = {} /\ Stopped = {}
  BY DEF Init, Status, InProgress, Live, Alive, Stopped, Callers, Outside
<1> QED BY <1>1, <1>2 DEF PromiseInv, Promise!Init, Init

\* What one Start does is seen of that Start only.
LEMMA OneStatus ==
    ASSUME TypeOK, NEW a \in Attempts, NEW s, pc' = [pc EXCEPT ![a] = s]
    PROVE  /\ Status \in [Attempts -> {"idle", "busy", "ok", "err"}]
           /\ Status' = [Status EXCEPT ![a] = IF s \in {"idle", "ok", "err"} THEN s ELSE "busy"]
BY DEF TypeOK, Status, InProgress

\* A launcher that calls nobody is not seen to stop anything else.
LEMMA SameStopped ==
    ASSUME TypeOK, NEW x \in Attempts, NEW s, stop' = [stop EXCEPT ![x] = s]
    PROVE  Stopped' = Stopped
BY LauncherAssumption DEF TypeOK, Stopped, Callers

\* Each step of a Start is one the promise knows of, or changes nothing it shows.
LEMMA StartKeepsPromise ==
    ASSUME PromiseInv, Overlaps = {}, NEW a \in Attempts, Called(a) \/ Start(a)
    PROVE  [Promise!Next]_Promise!vars
<1> USE DEF PromiseInv, SafeInv
<1>0. TypeOK /\ \A b \in Attempts : Status[b] = IF InProgress(b) THEN "busy" ELSE pc[b]
  BY DEF Status
<1>1. CASE Called(a)
  <2>1. ~ Starting /\ ~ Stopping /\ pc[a] = "idle" /\ pc' = [pc EXCEPT ![a] = "guard"]
    BY <1>1 DEF Called, Goes
  <2>2. Status[a] = "idle" /\ Status' = [Status EXCEPT ![a] = "busy"]
    BY <1>0, <2>1, OneStatus DEF InProgress
  <2>3. Promise!AllQuiet /\ Stopped = {}
    BY <1>0, <2>1 DEF Promise!AllQuiet, Promise!Busy, Starting, Stopping, Stopped, InProgress, TypeOK
  <2>4. Live' = Live /\ Stopped' = Stopped
    BY <1>1 DEF Called, Live, Alive, Stopped
  <2>5. Promise!Begin(a)
    BY <1>1, <2>2, <2>3, <2>4 DEF Promise!Begin, Promise!Becomes, Called
  <2> QED BY <2>5 DEF Promise!Next
<1>2. ASSUME Start(a) PROVE InProgress(a) /\ Promise!Busy(a)
  BY <1>0, <1>2 DEF Start, Guard, Spawn, Dial, Bootstrap, Disconnect, Settle, StartGivesUp, Goes,
                    InProgress, Promise!Busy
\* A Start that returns an error without a process.
<1>3. ASSUME Start(a), ~ Alive(a), pc' = [pc EXCEPT ![a] = "err"], UNCHANGED <<proc, stop, owner, engine>>
      PROVE  Promise!Next
  <2>1. Status' = [Status EXCEPT ![a] = "err"]
    BY <1>0, <1>3, OneStatus
  <2>2. a \notin Live /\ Live' = Live /\ Stopped' = Stopped
    BY <1>3 DEF Live, Alive, Stopped
  <2>3. Promise!Fail(a)
    BY <1>2, <1>3, <2>1, <2>2 DEF Promise!Fail, Promise!Becomes, Promise!Busy
  <2> QED BY <2>3 DEF Promise!Next
\* A step inside a Start.
<1>4. ASSUME Start(a), NEW s, s \notin {"idle", "ok", "err"}, pc' = [pc EXCEPT ![a] = s]
      PROVE  Status' = Status
  <2>1. Status' = [Status EXCEPT ![a] = "busy"] /\ Status \in [Attempts -> {"idle", "busy", "ok", "err"}]
    BY <1>0, <1>4, OneStatus
  <2> QED BY <1>2, <1>4, <2>1 DEF Promise!Busy
<1>5. CASE Guard(a)
  <2>1. UNCHANGED <<proc, stop, owner, engine>> /\ ~ Alive(a)
    BY <1>5 DEF Guard, Goes, Unborn, Alive
  <2>2. pc' = [pc EXCEPT ![a] = "err"] \/ pc' = [pc EXCEPT ![a] = "spawn"]
    BY <1>5 DEF Guard, Goes
  <2>3. Live' = Live /\ Stopped' = Stopped
    BY <2>1 DEF Live, Alive, Stopped
  <2> QED BY <1>3, <1>4, <1>5, <2>1, <2>2, <2>3 DEF Start, Promise!vars
<1>6. CASE Spawn(a)
  <2>1. pc[a] = "spawn" /\ proc[a] = "none" /\ UNCHANGED <<stop, owner, engine>>
    BY <1>6 DEF Spawn, Goes, Unborn
  <2>2. CASE pc' = [pc EXCEPT ![a] = "err"] /\ UNCHANGED proc
    BY <1>3, <1>6, <2>1, <2>2 DEF Start, Alive
  <2>3. CASE pc' = [pc EXCEPT ![a] = "dial"] /\ proc' = [proc EXCEPT ![a] = "booting"]
    <3>1. owner = None
      BY <2>1, LauncherAssumption DEF Addressed, PastGuard, Serving
    <3>2. Live = {} /\ Live' = {a}
      BY <2>1, <2>3 DEF Addressed, PastGuard, Live, Alive, TypeOK
    <3>3. Promise!Launch(a)
      BY <1>2, <1>4, <1>6, <2>1, <2>3, <3>1, <3>2 DEF Promise!Launch, Start, Stopped
    <3> QED BY <3>3 DEF Promise!Next
  <2> QED BY <1>6, <2>2, <2>3 DEF Spawn, Goes
<1>7. CASE Dial(a) \/ Bootstrap(a)
  <2>1. UNCHANGED <<proc, stop, owner, engine>>
    BY <1>7 DEF Dial, Bootstrap
  <2>2. CASE pc' = [pc EXCEPT ![a] = "err"] /\ Closed(a)
    BY <1>3, <1>7, <2>1, <2>2 DEF Start, Closed, Alive
  <2>3. ASSUME NEW s \in {"bootstrap", "disconnect", "failing"}, pc' = [pc EXCEPT ![a] = s]
        PROVE  UNCHANGED Promise!vars
    BY <1>4, <1>7, <2>1, <2>3 DEF Start, Promise!vars, Live, Alive, Stopped
  <2> QED BY <1>7, <2>2, <2>3 DEF Dial, Bootstrap, Goes
<1>8. CASE Disconnect(a)
  <2>1. UNCHANGED <<proc, stop, owner>> /\ pc[a] = "disconnect"
    BY <1>8 DEF Disconnect, Goes
  <2>2. pc' = [pc EXCEPT ![a] = "settle"] \/ pc' = [pc EXCEPT ![a] = "failing"]
    BY <1>8 DEF Disconnect, Goes
  <2>3. Status' = Status /\ Live' = Live /\ Stopped' = Stopped
    BY <1>4, <1>8, <2>1, <2>2 DEF Start, Live, Alive, Stopped
  <2>4. CASE engine' = engine
    BY <2>1, <2>3, <2>4 DEF Promise!vars
  <2>5. CASE engine' # engine
    <3>1. owner = a /\ engine \in {"starting", "started"} /\ engine' = "stopping"
      BY <1>8, <2>1, <2>5 DEF Disconnect, Addressed, PastGuard
    <3>2. Promise!Disconnect(a)
      BY <1>2, <1>8, <2>1, <2>3, <3>1 DEF Promise!Disconnect, Start
    <3> QED BY <3>2 DEF Promise!Next
  <2> QED BY <2>4, <2>5
<1>9. CASE Settle(a)
  <2>1. UNCHANGED <<proc, stop, owner, engine>> /\ pc[a] = "settle"
    BY <1>9 DEF Settle, Goes
  <2>2. Live' = Live /\ Stopped' = Stopped
    BY <2>1 DEF Live, Alive, Stopped
  <2>3. CASE pc' = [pc EXCEPT ![a] = "failing"]
    BY <1>4, <1>9, <2>1, <2>2, <2>3 DEF Start, Promise!vars
  <2>4. CASE pc' = [pc EXCEPT ![a] = "ok"] /\ owner # None
    <3>1. owner = a
      BY <2>1, <2>4 DEF Addressed, PastGuard
    <3>2. Status' = [Status EXCEPT ![a] = "ok"]
      BY <1>0, <2>4, OneStatus
    <3>3. Promise!Succeed(a)
      BY <1>2, <1>9, <2>1, <2>2, <3>1, <3>2 DEF Promise!Succeed, Promise!Becomes, Promise!Busy, Start
    <3> QED BY <3>3 DEF Promise!Next
  <2> QED BY <1>9, <2>3, <2>4 DEF Settle, Goes
<1>10. CASE StartGivesUp(a)
  BY <1>0, <1>10, SameStopped DEF StartGivesUp, To, Promise!vars, Status, InProgress, Live, Alive
<1> QED BY <1>1, <1>5, <1>6, <1>7, <1>8, <1>9, <1>10 DEF Start

\* So is each step of a Stop, of a program or of a Start that gives up.
LEMMA StopKeepsPromise ==
    ASSUME PromiseInv, Overlaps = {}, NEW x \in Callers,
           Stop(x) \/ StopKills(x) \/ (x \in Launchers /\ StopCalled(x))
    PROVE  [Promise!Next]_Promise!vars
<1> USE DEF PromiseInv, SafeInv
<1>1. UNCHANGED <<proc, owner, engine>> /\ Live' = Live
  BY DEF Stop, StopReads, StopSees, StopKills, StopCalled, Live, Alive
<1>2. ASSUME StopReturns(x), ~ At(x, "no"),
             \A a \in Attempts : Alive(a) => Of(x) # LauncherOf[a]
      PROVE  Promise!Next
  <2>1. stop' = [stop EXCEPT ![x] = Outside]
    BY <1>2 DEF StopReturns, To
  <2>2. CASE x \in Attempts
    <3>1. pc[x] = "failing" /\ pc' = [pc EXCEPT ![x] = "err"] /\ ~ Alive(x)
      BY <1>2, <2>2 DEF StopReturns, Alone, Of
    <3>2. Status[x] = "busy" /\ Status' = [Status EXCEPT ![x] = "err"]
      BY <2>2, <3>1, OneStatus DEF Status, InProgress
    <3>3. Promise!Fail(x)
      BY <1>1, <2>1, <2>2, <3>1, <3>2, SameStopped DEF Promise!Fail, Promise!Becomes, Live
    <3> QED BY <2>2, <3>3 DEF Promise!Next
  <2>3. CASE x \notin Attempts
    <3>1. x \in Launchers /\ Of(x) = x /\ pc' = pc
      BY <1>2, <2>3 DEF Callers, Of, StopReturns
    <3>2. x \in Stopped /\ Stopped' = Stopped \ {x}
      BY <1>2, <2>1, <3>1 DEF Stopped, At, Outside, TypeOK, Callers
    <3>3. Promise!StopEnd(x)
      BY <1>1, <1>2, <3>1, <3>2 DEF Promise!StopEnd, Live, Status, InProgress
    <3> QED BY <3>1, <3>3 DEF Promise!Next
  <2> QED BY <2>2, <2>3
<1>3. CASE StopReads(x)
  <2>1. CASE cmd[Of(x)] = None
    BY <1>2, <1>3, <2>1, LauncherAssumption DEF StopReads, At, Known
  <2>2. CASE cmd[Of(x)] # None
    <3>1. /\ pc' = pc /\ At(x, "read")
          /\ stop' = [stop EXCEPT ![x] = [at |-> "wait", target |-> cmd[Of(x)]]]
      BY <1>3, <2>2 DEF StopReads, To
    <3>2. Stopped' = Stopped /\ Status' = Status
      BY <3>1 DEF Stopped, Status, InProgress, At, TypeOK, Callers
    <3> QED BY <1>1, <3>2 DEF Promise!vars
  <2> QED BY <2>1, <2>2
<1>4. CASE StopSees(x)
  <2>1. \A a \in Attempts : Alive(a) => Of(x) # LauncherOf[a]
    BY <1>4 DEF StopSees, At, Known, Waiting, Closed, Alive
  <2> QED BY <1>2, <1>4, <2>1 DEF StopSees, At
<1>5. CASE StopKills(x)
  BY <1>1, <1>5 DEF StopKills, Promise!vars, Stopped, Status, InProgress
<1>6. CASE x \in Launchers /\ StopCalled(x)
  <2>1. /\ pc' = pc /\ At(x, "no") /\ ~ Starting
        /\ stop' = [stop EXCEPT ![x] = [at |-> "read", target |-> None]]
    BY <1>6 DEF StopCalled, To
  <2>2. x \notin Stopped /\ Stopped' = Stopped \cup {x} /\ Status' = Status
    BY <1>6, <2>1 DEF Stopped, At, Status, InProgress, TypeOK, Callers
  <2>3. Promise!AllQuiet
    BY <2>1 DEF Promise!AllQuiet, Promise!Busy, Status, Starting, InProgress, TypeOK
  <2>4. Promise!StopBegin(x)
    BY <1>1, <2>2, <2>3 DEF Promise!StopBegin
  <2> QED BY <1>6, <2>4 DEF Promise!Next
<1> QED BY <1>3, <1>4, <1>5, <1>6 DEF Stop

\* And what processes, the waiter goroutine and foreign cores do.
LEMMA ProcessKeepsPromise ==
    ASSUME PromiseInv, Overlaps = {},
           \/ \E a \in Attempts : Serves(a) \/ Exits(a) \/ Wait(a)
           \/ ForeignStarts \/ ForeignExits \/ EngineMoves
    PROVE  [Promise!Next]_Promise!vars
<1> USE DEF PromiseInv, SafeInv, TypeOK
<1>1. UNCHANGED <<pc, stop>> /\ Status' = Status /\ Stopped' = Stopped
  BY DEF Serves, Exits, Wait, Reaped, DoneClosed, ForeignStarts, ForeignExits, EngineMoves,
         Status, InProgress, Stopped
<1>2. ASSUME NEW a \in Attempts, Serves(a) PROVE Promise!Next
  <2>1. a \in Live /\ Live' = Live
    BY <1>2 DEF Serves, Moves, Live, Alive
  <2>2. Promise!Serve(a)
    BY <1>1, <1>2, <2>1 DEF Promise!Serve, Serves
  <2> QED BY <2>2 DEF Promise!Next
<1>3. ASSUME NEW a \in Attempts, Exits(a) PROVE Promise!Next
  <2>1. a \in Live /\ Live' = Live \ {a}
    BY <1>3 DEF Exits, Live, Alive
  <2>2. Promise!Die(a)
    BY <1>1, <1>3, <2>1 DEF Promise!Die, Exits
  <2> QED BY <2>2 DEF Promise!Next
<1>4. ASSUME NEW a \in Attempts, Wait(a) PROVE UNCHANGED Promise!vars
  <2>1. Live' = Live /\ UNCHANGED <<owner, engine>>
    BY <1>4 DEF Wait, Reaped, DoneClosed, Moves, Live, Alive
  <2> QED BY <1>1, <2>1 DEF Promise!vars
<1>5. CASE ForeignStarts \/ ForeignExits \/ EngineMoves
  <2>1. Live' = Live
    BY <1>5 DEF ForeignStarts, ForeignExits, EngineMoves, Live, Alive
  <2>2. CASE ForeignStarts
    <3>1. Promise!AllQuiet
      BY <2>2 DEF ForeignStarts, Promise!AllQuiet, Promise!Busy, Status, Starting, InProgress
    <3>2. Promise!ForeignComes
      BY <1>1, <2>1, <2>2, <3>1 DEF Promise!ForeignComes, ForeignStarts
    <3> QED BY <3>2 DEF Promise!Next
  <2>3. CASE ForeignExits
    <3>1. Promise!ForeignGoes
      BY <1>1, <2>1, <2>3 DEF Promise!ForeignGoes, ForeignExits
    <3> QED BY <3>1 DEF Promise!Next
  <2>4. CASE EngineMoves
    <3>1. Promise!EngineMoves
      BY <1>1, <2>1, <2>4 DEF Promise!EngineMoves, EngineMoves
    <3> QED BY <3>1 DEF Promise!Next
  <2> QED BY <1>5, <2>2, <2>3, <2>4
<1> QED BY <1>2, <1>3, <1>4, <1>5

\* Without overlaps a Start is to its caller what AtomicLauncher says: it launches
\* one core of its own beside no other, tells no other core to stop and fails
\* without a trace; and no core of a launcher outlives its Stop (launcher.go:90-248).
THEOREM ImplementsAtomic ==
    ASSUME Overlaps = {}
    PROVE  Spec => LaunchIsAtomic
<1>1. PromiseInv /\ [Next]_vars => [Promise!Next]_Promise!vars
  <2> SUFFICES ASSUME PromiseInv, [Next]_vars PROVE [Promise!Next]_Promise!vars
    OBVIOUS
  <2>1. CASE UNCHANGED vars
    BY <2>1 DEF vars, Promise!vars, Status, InProgress, Live, Alive, Stopped
  <2>2. ASSUME NEW l \in Launchers, StopCalled(l) PROVE [Promise!Next]_Promise!vars
    BY <2>2, StopKeepsPromise DEF Callers
  <2> QED BY <2>1, <2>2, StartKeepsPromise, StopKeepsPromise, ProcessKeepsPromise DEF Next
<1> QED BY <1>1, PromiseInit, PromiseInductive, PTL DEF Spec, LaunchIsAtomic, Promise!Spec

(***************************************************************************)
(* The daemon takes steps of CoreLauncher                                  *)
(***************************************************************************)
\* A Start the daemon calls is a Start, and its Stop a Stop.
LEMMA StepsOfLaunchers == DaemonNext => [Next]_vars
<1> SUFFICES ASSUME DaemonNext PROVE [Next]_vars
  OBVIOUS
<1>1. StartOf \in [Runs -> Attempts] /\ Runs \subseteq Launchers
  BY DaemonAssumption
<1>2. CASE LauncherStep
  BY <1>1, <1>2 DEF LauncherStep, Next, Continue, Start, DaemonStarts
<1>3. ASSUME NEW d \in Runs, Launched(d) \/ Signalled(d) \/ GuardReturns(d) \/ Main(d)
      PROVE  [Next]_vars
  <2>1. CASE Launched(d)
    BY <1>1, <2>1 DEF Launched, Next
  <2>2. CASE Signalled(d)
    BY <2>2 DEF Signalled
  <2>3. CASE GuardReturns(d)
    BY <1>1, <2>3 DEF GuardReturns, Next, Start
  <2>4. CASE SignalStops(d)
    BY <1>1, <2>4 DEF SignalStops, Next
  <2>5. CASE StartReturns(d) \/ RefusedLeaves(d) \/ StopDone(d) \/ CoreExits(d)
    BY <2>5 DEF StartReturns, RefusedLeaves, StopDone, CoreExits
  <2> QED BY <1>3, <2>1, <2>2, <2>3, <2>4, <2>5 DEF Main
<1> QED BY <1>2, <1>3 DEF DaemonNext

\* What is proved of the launchers holds of them with the daemon among them.
THEOREM LaunchersKept == DaemonSpec => Spec
<1>1. DaemonInit => Init
  BY DEF DaemonInit
<1>2. [DaemonNext]_allVars => [Next]_vars
  BY StepsOfLaunchers DEF allVars
<1> QED BY <1>1, <1>2, PTL DEF DaemonSpec, Spec

(***************************************************************************)
(* The core of a run                                                       *)
(***************************************************************************)
\* l.cmd is the core of the run while it is alive, and a Stop on the way out waits
\* for nothing else; who has given up, or has ended, has no live core.
OwnCore(d) ==
    LET a == StartOf[d] IN
    /\ cmd[d] \in {None, a}
    /\ Alive(a) => cmd[d] = a
    /\ pc[a] \in {"idle", "guard", "spawn"} => proc[a] = "none"
    /\ pc[a] = "err" => ~ Alive(a)
    /\ stop[a].at # "no" => pc[a] = "failing"
    /\ stop[a].at = "wait" => stop[a].target = a
    /\ stop[d].at = "wait" => stop[d].target = a
    /\ at[d] = "refused" => pc[a] = "err"
    /\ at[d] \in {"running", "stopping"} => pc[a] = "ok"
    /\ at[d] = "stopping" /\ stop[d].at = "no" => ~ Alive(a)
    /\ at[d] = "ended" => pc[a] \in {"ok", "err"} /\ ~ Alive(a)

DaemonInv == TypeOK /\ DaemonTypeOK /\ \A d \in Runs : OwnCore(d)

\* A run has a launcher and a call of its own.
LEMMA Private ==
    ASSUME NEW d \in Runs
    PROVE  /\ d \in Launchers /\ StartOf[d] \in Attempts /\ d \notin Attempts
           /\ d \in Callers /\ StartOf[d] \in Callers
           /\ Of(d) = d /\ Of(StartOf[d]) = d /\ LauncherOf[StartOf[d]] = d
           /\ \A e \in Runs : e # d => StartOf[e] # StartOf[d]
           /\ \A b \in Attempts : LauncherOf[b] = d => b = StartOf[d]
BY DaemonAssumption, LauncherAssumption DEF Callers, Of

\* What does not touch the run leaves it as it is.
LEMMA Aside ==
    ASSUME NEW d \in Runs, OwnCore(d),
           pc'[StartOf[d]] = pc[StartOf[d]], proc'[StartOf[d]] = proc[StartOf[d]],
           cmd'[d] = cmd[d], stop'[d] = stop[d], stop'[StartOf[d]] = stop[StartOf[d]],
           at'[d] = at[d]
    PROVE  OwnCore(d)'
BY DEF OwnCore, Alive

\* The types of the wrapper's own variables (main.go:20-57).
LEMMA DaemonTypes == DaemonTypeOK /\ DaemonNext => DaemonTypeOK'
<1> SUFFICES ASSUME DaemonTypeOK, DaemonNext PROVE DaemonTypeOK'
  OBVIOUS
<1>1. CASE LauncherStep
  BY <1>1 DEF LauncherStep, daemonVars, DaemonTypeOK
<1>2. ASSUME NEW d \in Runs, Launched(d) \/ Signalled(d) \/ GuardReturns(d) \/ Main(d)
      PROVE  DaemonTypeOK'
  BY <1>2 DEF Launched, Signalled, GuardReturns, Main, StartReturns, RefusedLeaves, SignalStops,
              StopDone, CoreExits, MovesOn, Ends, DaemonTypeOK
<1> QED BY <1>1, <1>2 DEF DaemonNext

\* A process that exits or is reaped is not alive afterwards, and only its own
\* launcher forgets it.
LEMMA OwnProcess ==
    ASSUME DaemonInv, NEW d \in Runs, NEW b \in Attempts, Serves(b) \/ Exits(b) \/ Wait(b),
           at' = at
    PROVE  OwnCore(d)'
<1> DEFINE a == StartOf[d]
<1>1. a \in Attempts /\ d \in Launchers /\ OwnCore(d) /\ None \notin Attempts
  BY Private, LauncherAssumption DEF DaemonInv
<1>2. pc' = pc /\ stop' = stop
  BY DEF Serves, Exits, Wait, Reaped, DoneClosed
<1>3. proc'[a] # "none" => proc[a] # "none"
  BY <1>1 DEF Serves, Exits, Wait, Reaped, DoneClosed, Moves, DaemonInv, TypeOK, Alive
<1>4. Alive(a)' => Alive(a)
  BY <1>1 DEF Serves, Exits, Wait, Reaped, DoneClosed, Moves, DaemonInv, TypeOK, Alive
<1>5. cmd'[d] = cmd[d] \/ (cmd'[d] = None /\ ~ Alive(a)')
  <2>1. CASE Reaped(b)
    <3>1. cmd'[d] = IF cmd[d] = b THEN None ELSE cmd[d]
      BY <1>1, <2>1 DEF Reaped
    <3>2. cmd[d] = b => b = a
      BY <1>1 DEF OwnCore
    <3>3. b = a => ~ Alive(a)'
      BY <1>1, <2>1 DEF Reaped, Moves, Alive, DaemonInv, TypeOK
    <3> QED BY <3>1, <3>2, <3>3
  <2>2. CASE ~ Reaped(b)
    BY <2>2 DEF Serves, Exits, Wait, DoneClosed
  <2> QED BY <2>1, <2>2
<1>6. pc[a] \in {"idle", "guard", "spawn"} => proc'[a] = "none"
  BY <1>1, <1>3 DEF OwnCore
<1> QED BY <1>1, <1>2, <1>4, <1>5, <1>6 DEF OwnCore

\* A step of a Start: of another one it touches nothing here.
LEMMA OwnStart ==
    ASSUME DaemonInv, NEW d \in Runs, NEW b \in Attempts, Called(b) \/ Start(b),
           at'[d] = at[d], b = StartOf[d] => ~ Called(b) /\ ~ Guard(b)
    PROVE  OwnCore(d)'
<1> DEFINE a == StartOf[d]
<1>1. a \in Attempts /\ d \in Launchers /\ OwnCore(d) /\ a \in Callers /\ d \in Callers
      /\ LauncherOf[a] = d /\ d # a
  BY Private DEF DaemonInv
<1> USE DEF DaemonInv, TypeOK
<1>2. CASE b # a
  <2>1. pc'[a] = pc[a] /\ proc'[a] = proc[a]
    BY <1>1, <1>2 DEF Called, Start, Guard, Spawn, Dial, Bootstrap, Disconnect, Settle,
                      StartGivesUp, Goes
  <2>2. LauncherOf[b] # d
    BY <1>2, Private
  <2>3. cmd'[d] = cmd[d]
    BY <1>1, <2>2 DEF Called, Start, Guard, Spawn, Dial, Bootstrap, Disconnect, Settle, StartGivesUp
  <2>4. stop'[d] = stop[d] /\ stop'[a] = stop[a]
    <3>1. CASE stop' = stop
      BY <3>1
    <3>2. CASE StartGivesUp(b)
      BY <1>1, <1>2, <3>2, Private DEF StartGivesUp, To
    <3> QED BY <3>1, <3>2 DEF Called, Start, Guard, Spawn, Dial, Bootstrap, Disconnect, Settle
  <2> QED BY <1>1, <2>1, <2>3, <2>4, Aside
<1>3. CASE b = a
  <2>1. at[d] \notin {"refused", "running", "stopping", "ended"}
    BY <1>1, <1>3 DEF Called, Start, Guard, Spawn, Dial, Bootstrap, Disconnect, Settle,
                      StartGivesUp, Goes, OwnCore
  <2>2. CASE Spawn(a)
    <3>1. pc[a] = "spawn" /\ proc[a] = "none" /\ ~ Alive(a) /\ stop[a].at = "no"
      BY <1>1, <2>2 DEF Spawn, Goes, OwnCore, Alive
    <3>2. CASE pc'[a] = "dial"
      BY <1>1, <2>1, <2>2, <3>1, <3>2 DEF Spawn, Goes, OwnCore, Alive
    <3>3. CASE pc'[a] = "err"
      BY <1>1, <2>1, <2>2, <3>1, <3>3 DEF Spawn, Goes, OwnCore, Alive
    <3> QED BY <1>1, <2>2, <3>2, <3>3 DEF Spawn, Goes
  <2>3. CASE Dial(a)
    <3>1. UNCHANGED <<proc, cmd, stop>> /\ pc[a] = "dial"
          /\ (pc'[a] \in {"bootstrap", "failing"} \/ (pc'[a] = "err" /\ Closed(a)))
      BY <1>1, <2>3 DEF Dial, Goes
    <3>2. Closed(a) => ~ Alive(a)
      BY DEF Closed, Alive
    <3> QED BY <1>1, <2>1, <3>1, <3>2 DEF OwnCore, Alive
  <2>4. CASE Bootstrap(a) \/ Disconnect(a) \/ Settle(a)
    <3>1. UNCHANGED <<proc, cmd, stop>> /\ pc[a] \in {"bootstrap", "disconnect", "settle"}
          /\ pc'[a] \in {"disconnect", "settle", "failing", "ok"}
      BY <1>1, <2>4 DEF Bootstrap, Disconnect, Settle, Goes
    <3> QED BY <1>1, <2>1, <3>1 DEF OwnCore, Alive
  <2>5. CASE StartGivesUp(a)
    <3>1. UNCHANGED <<pc, proc, cmd>> /\ pc[a] = "failing" /\ stop'[d] = stop[d]
          /\ stop'[a] = [at |-> "read", target |-> None]
      BY <1>1, <2>5 DEF StartGivesUp, To
    <3> QED BY <1>1, <2>1, <3>1 DEF OwnCore, Alive
  <2> QED BY <1>3, <2>2, <2>3, <2>4, <2>5 DEF Start
<1> QED BY <1>2, <1>3

\* A Stop returns when its launcher has no process, or sees the one it has read
\* reaped: on the launcher of a run that is the core of the run.
LEMMA OwnStop ==
    ASSUME DaemonInv, NEW d \in Runs, NEW x \in Callers, Stop(x) \/ StopKills(x), at' = at
    PROVE  OwnCore(d)'
<1> DEFINE a == StartOf[d]
<1>1. a \in Attempts /\ d \in Launchers /\ OwnCore(d) /\ a \in Callers /\ d \in Callers
      /\ Of(a) = d /\ Of(d) = d /\ d # a /\ d \notin Attempts
  BY Private DEF DaemonInv
<1> USE DEF DaemonInv, TypeOK
<1>2. UNCHANGED <<proc, cmd>>
  BY DEF Stop, StopReads, StopSees, StopKills
<1>3. CASE x \notin {a, d}
  <2>1. pc'[a] = pc[a] /\ stop'[a] = stop[a] /\ stop'[d] = stop[d]
    BY <1>1, <1>3 DEF Stop, StopReads, StopSees, StopKills, StopReturns, To
  <2> QED BY <1>1, <1>2, <2>1, Aside
<1>4. CASE StopKills(x)
  BY <1>1, <1>2, <1>4, Aside DEF StopKills
<1>5. ASSUME x \in {a, d}, StopReturns(x), ~ Alive(a), stop[x].at # "no" PROVE OwnCore(d)'
  <2>1. ~ Alive(a)'
    BY <1>2, <1>5 DEF Alive
  <2>2. CASE x = d
    <3>1. pc' = pc /\ stop'[a] = stop[a] /\ stop'[d] = Outside
      BY <1>1, <1>5, <2>2 DEF StopReturns, To
    <3> QED BY <1>1, <1>2, <1>5, <2>1, <3>1 DEF OwnCore, Outside
  <2>3. CASE x = a
    <3>1. pc'[a] = "err" /\ pc[a] = "failing" /\ stop'[d] = stop[d] /\ stop'[a] = Outside
      BY <1>1, <1>5, <2>3 DEF StopReturns, To, OwnCore
    <3> QED BY <1>1, <1>2, <2>1, <3>1 DEF OwnCore, Outside
  <2> QED BY <1>5, <2>2, <2>3
<1>6. CASE x \in {a, d} /\ StopReads(x)
  <2>1. CASE cmd[d] = None
    <3>1. ~ Alive(a)
      BY <1>1, <2>1, LauncherAssumption DEF OwnCore
    <3> QED BY <1>1, <1>5, <1>6, <2>1, <3>1 DEF StopReads, At
  <2>2. CASE cmd[d] # None
    <3>1. pc' = pc /\ stop' = [stop EXCEPT ![x] = [at |-> "wait", target |-> a]] /\ stop[x].at = "read"
      BY <1>1, <1>6, <2>2 DEF StopReads, To, At, OwnCore
    <3>2. CASE x = d
      BY <1>1, <1>2, <3>1, <3>2 DEF OwnCore, Alive
    <3>3. CASE x = a
      BY <1>1, <1>2, <3>1, <3>3 DEF OwnCore, Alive
    <3> QED BY <1>6, <3>2, <3>3
  <2> QED BY <2>1, <2>2
<1>7. CASE x \in {a, d} /\ StopSees(x)
  <2>1. stop[x].at = "wait" /\ stop[x].target = a
    BY <1>1, <1>7 DEF StopSees, At, OwnCore
  <2>2. ~ Alive(a)
    BY <1>7, <2>1 DEF StopSees, Closed, Alive
  <2> QED BY <1>5, <1>7, <2>1, <2>2 DEF StopSees
<1> QED BY <1>3, <1>4, <1>6, <1>7 DEF Stop

\* main itself: it calls Start once, and leaves only without a core.
LEMMA OwnMain ==
    ASSUME DaemonInv, NEW d \in Runs,
           Launched(d) \/ Signalled(d) \/ GuardReturns(d) \/ Main(d)
    PROVE  OwnCore(d)'
<1> DEFINE a == StartOf[d]
<1>1. a \in Attempts /\ d \in Launchers /\ OwnCore(d) /\ a \in Callers /\ d \in Callers /\ d # a
  BY Private DEF DaemonInv
<1> USE DEF DaemonInv, TypeOK, DaemonTypeOK
<1>2. CASE Launched(d)
  BY <1>1, <1>2 DEF Launched, Called, Goes, MovesOn, OwnCore, Alive
<1>3. CASE Signalled(d)
  BY <1>1, <1>3, Aside DEF Signalled, vars
<1>4. CASE GuardReturns(d)
  <2>1. pc[a] = "guard" /\ pc'[a] \in {"err", "spawn"} /\ UNCHANGED <<proc, cmd, stop>>
        /\ at'[d] = IF pc'[a] = "err" THEN "refused" ELSE at[d]
    BY <1>1, <1>4 DEF GuardReturns, Guard, Goes
  <2> QED BY <1>1, <2>1 DEF OwnCore, Alive
<1>5. CASE StartReturns(d)
  BY <1>1, <1>5 DEF StartReturns, MovesOn, Ends, vars, OwnCore, Alive
<1>6. CASE RefusedLeaves(d)
  BY <1>1, <1>6 DEF RefusedLeaves, MovesOn, Ends, vars, OwnCore, Alive
<1>7. CASE SignalStops(d)
  <2>1. UNCHANGED <<pc, proc, cmd>> /\ stop'[a] = stop[a]
        /\ stop'[d] = [at |-> "read", target |-> None] /\ at[d] = "running" /\ at'[d] = "stopping"
    BY <1>1, <1>7 DEF SignalStops, StopCalled, To, MovesOn
  <2> QED BY <1>1, <2>1 DEF OwnCore, Alive
<1>8. CASE StopDone(d)
  BY <1>1, <1>8 DEF StopDone, MovesOn, Ends, vars, OwnCore, Alive
<1>9. CASE CoreExits(d)
  BY <1>1, <1>9 DEF CoreExits, MovesOn, Ends, vars, OwnCore, Alive, Closed
<1> QED BY <1>2, <1>3, <1>4, <1>5, <1>6, <1>7, <1>8, <1>9 DEF Main

\* main of another run has a launcher and a Start of its own.
LEMMA OtherMain ==
    ASSUME DaemonInv, NEW d \in Runs, NEW e \in Runs, e # d,
           Launched(e) \/ Signalled(e) \/ GuardReturns(e) \/ Main(e)
    PROVE  OwnCore(d)'
<1>1. /\ StartOf[d] \in Attempts /\ StartOf[e] \in Attempts /\ StartOf[e] # StartOf[d]
      /\ d \in Callers /\ e \in Callers /\ StartOf[d] \in Callers
      /\ e \notin Attempts /\ OwnCore(d)
  BY Private DEF DaemonInv
<1> USE DEF DaemonInv, TypeOK, DaemonTypeOK
<1>2. at'[d] = at[d]
  BY DEF Launched, Signalled, GuardReturns, Main, StartReturns, RefusedLeaves, SignalStops,
         StopDone, CoreExits, MovesOn, Ends
<1>3. UNCHANGED <<proc, cmd>> /\ pc'[StartOf[d]] = pc[StartOf[d]]
  BY <1>1 DEF Launched, Called, Goes, Signalled, GuardReturns, Guard, Main, StartReturns,
         RefusedLeaves, SignalStops, StopCalled, StopDone, CoreExits, vars
<1>4. stop'[d] = stop[d] /\ stop'[StartOf[d]] = stop[StartOf[d]]
  BY <1>1 DEF Launched, Called, Signalled, GuardReturns, Guard, Main, StartReturns,
         RefusedLeaves, SignalStops, StopCalled, To, StopDone, CoreExits, vars
<1> QED BY <1>1, <1>2, <1>3, <1>4, Aside

\* Every step keeps the invariant.
LEMMA DaemonInductive == DaemonInv /\ [DaemonNext]_allVars => DaemonInv'
<1> SUFFICES ASSUME DaemonInv, [DaemonNext]_allVars PROVE DaemonInv'
  OBVIOUS
<1>1. CASE UNCHANGED allVars
  BY <1>1 DEF allVars, vars, daemonVars, DaemonInv, TypeOK, DaemonTypeOK, OwnCore, Alive
<1>2. CASE DaemonNext
  <2>1. TypeOK' /\ DaemonTypeOK'
    BY <1>2, StepsOfLaunchers, TypeInductive, DaemonTypes DEF DaemonInv
  <2>2. ASSUME NEW d \in Runs PROVE OwnCore(d)'
    <3>1. CASE LauncherStep
      <4>1. at' = at
        BY <3>1 DEF LauncherStep, daemonVars
      <4>2. ASSUME NEW b \in Attempts \ DaemonStarts, Called(b) \/ Start(b) PROVE OwnCore(d)'
        BY <4>1, <4>2, OwnStart DEF DaemonStarts
      <4>3. ASSUME NEW b \in DaemonStarts, Continue(b) PROVE OwnCore(d)'
        <5>1. b \in Attempts /\ Start(b)
          BY <4>3, Private DEF DaemonStarts, Continue, Start
        <5>2. ~ Called(b) /\ ~ Guard(b)
          BY <4>3 DEF Continue, Spawn, Dial, Bootstrap, Disconnect, Settle, StartGivesUp,
                      Called, Guard, Goes
        <5> QED BY <4>1, <5>1, <5>2, OwnStart
      <4>4. ASSUME NEW l \in Launchers \ Runs, StopCalled(l) PROVE OwnCore(d)'
        <5>1. l # d /\ l # StartOf[d] /\ OwnCore(d) /\ d \in Callers /\ StartOf[d] \in Callers
              /\ l \in Callers
          BY Private, LauncherAssumption DEF DaemonInv, Callers
        <5> QED BY <4>1, <4>4, <5>1, Aside DEF StopCalled, To, DaemonInv, TypeOK
      <4>5. CASE ForeignStarts \/ ForeignExits \/ EngineMoves
        <5>1. OwnCore(d)
          BY DEF DaemonInv
        <5> QED BY <4>1, <4>5, <5>1, Aside DEF ForeignStarts, ForeignExits, EngineMoves
      <4> QED BY <3>1, <4>1, <4>2, <4>3, <4>4, <4>5, OwnProcess, OwnStop DEF LauncherStep
    <3>2. ASSUME NEW e \in Runs, Launched(e) \/ Signalled(e) \/ GuardReturns(e) \/ Main(e)
          PROVE  OwnCore(d)'
      BY <3>2, OwnMain, OtherMain
    <3> QED BY <1>2, <3>1, <3>2 DEF DaemonNext
  <2> QED BY <2>1, <2>2 DEF DaemonInv
<1> QED BY <1>1, <1>2

\* No run has been started.
LEMMA DaemonInitially == DaemonInit => DaemonInv
<1> SUFFICES ASSUME DaemonInit PROVE DaemonInv
  OBVIOUS
<1>1. TypeOK /\ DaemonTypeOK
  BY InitTyped DEF DaemonInit, DaemonTypeOK
<1>2. ASSUME NEW d \in Runs PROVE OwnCore(d)
  BY Private DEF DaemonInit, Init, OwnCore, Alive, Outside
<1> QED BY <1>1, <1>2 DEF DaemonInv

\* No run of the daemon ends while a core it has started is alive, whatever it
\* ends for and whatever the other users of the address do (main.go:38-57).
THEOREM NothingLeft == DaemonSpec => []ExitLeavesNothing
<1>1. DaemonInv => ExitLeavesNothing
  BY DEF DaemonInv, OwnCore, ExitLeavesNothing
<1> QED BY <1>1, DaemonInitially, DaemonInductive, PTL DEF DaemonSpec
=================================================================================
