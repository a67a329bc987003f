----------------------------- MODULE StoreFileSole -----------------------------
(***************************************************************************)
(* The profile store when one flow of control saves it: one CLI command,   *)
(* or the TUI as long as its commands do not overlap.  Other processes may *)
(* open the file at any moment, and the saving process may die at any step *)
(* and be started again.                                                   *)
(***************************************************************************)
EXTENDS StoreFile

ASSUME SoleWriter == \A v, w \in Writers : v = w

\* The promise: memory and file as they are, a save in progress as a flag.
Saving == [w \in Writers |-> pc[w] # "idle"]

Promise == INSTANCE AtomicStore WITH disk <- path, saving <- Saving

(***************************************************************************)
(* Properties                                                              *)
(***************************************************************************)
\* Save, step by step and with every error path and crash, is the one atomic
\* step AtomicStore promises (profile.go:87-101).
SaveIsAtomic == Promise!Spec

\* An operation that returned nil is in the file until the writer's next
\* change: a crash right after it loses nothing but Content (profile.go:142-191).
SavedMeansOnDisk ==
    \A w \in Writers : result[w] = "ok" => path = Persisted(mem[ProcOf[w]])

\* The selection never dangles, in memory or in the file, through deletions,
\* failed saves and restarts (profile.go:151-163): HasActive fails only when
\* nothing is selected.
SelectionExists ==
    /\ \A p \in Procs : mem[p] # NotRunning => WellFormed(mem[p])
    /\ path \in Stores => WellFormed(path)
================================================================================
