------------------------------ MODULE AtomicStore ------------------------------
(***************************************************************************)
(* What profile.Store promises its callers (internal/profile/profile.go):  *)
(* an operation changes the memory, and Save "persists the store           *)
(* atomically" - in one step the file goes from the old store to the new   *)
(* one - or returns an error and leaves the file as it was.                *)
(***************************************************************************)
EXTENDS ProfileStore

CONSTANTS Procs, Writers, ProcOf, NotRunning, NoFile

VARIABLES
    mem,    \* mem[p]:    the *Store of process p
    disk,   \* the store in the file, NoFile before the first save
    saving, \* saving[w]: w has changed the memory and not returned yet
    result  \* result[w]: what the last operation of w returned

vars == <<mem, disk, saving, result>>

Init ==
    /\ mem    = [p \in Procs |-> NotRunning]
    /\ disk   = NoFile
    /\ saving = [w \in Writers |-> FALSE]
    /\ result = [w \in Writers |-> "none"]

Open(p) ==
    /\ mem[p] = NotRunning
    /\ mem' = [mem EXCEPT ![p] = IF disk = NoFile THEN EmptyStore ELSE disk]
    /\ UNCHANGED <<disk, saving, result>>

Exit(p) ==
    /\ mem[p] # NotRunning
    /\ mem'    = [mem EXCEPT ![p] = NotRunning]
    /\ saving' = [w \in Writers |-> ProcOf[w] # p /\ saving[w]]
    /\ result' = [w \in Writers |-> IF ProcOf[w] = p THEN "none" ELSE result[w]]
    /\ UNCHANGED disk

Mutate(w, o) ==
    /\ ~ saving[w]
    /\ mem[ProcOf[w]] # NotRunning
    /\ Accepted(o, mem[ProcOf[w]])
    /\ mem'    = [mem EXCEPT ![ProcOf[w]] = Applied(o, @)]
    /\ saving' = [saving EXCEPT ![w] = TRUE]
    /\ result' = [result EXCEPT ![w] = "none"]
    /\ UNCHANGED disk

Refuse(w) ==
    /\ ~ saving[w]
    /\ mem[ProcOf[w]] # NotRunning
    /\ result' = [result EXCEPT ![w] = "error"]
    /\ UNCHANGED <<mem, disk, saving>>

Commit(w) ==
    /\ saving[w]
    /\ disk'   = Persisted(mem[ProcOf[w]])
    /\ saving' = [saving EXCEPT ![w] = FALSE]
    /\ result' = [result EXCEPT ![w] = "ok"]
    /\ UNCHANGED mem

Fail(w) ==
    /\ saving[w]
    /\ saving' = [saving EXCEPT ![w] = FALSE]
    /\ result' = [result EXCEPT ![w] = "error"]
    /\ UNCHANGED <<mem, disk>>

Next ==
    \/ \E p \in Procs : Open(p) \/ Exit(p)
    \/ \E w \in Writers : \E o \in Operations : Mutate(w, o)
    \/ \E w \in Writers : Refuse(w) \/ Commit(w) \/ Fail(w)

Spec == Init /\ [][Next]_vars
================================================================================
