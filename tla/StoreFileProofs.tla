---------------------------- MODULE StoreFileProofs ----------------------------
(***************************************************************************)
(* What holds of the profile store for every set of ids, names and config  *)
(* documents when one flow of control saves it.                            *)
(***************************************************************************)
EXTENDS StoreFileSole, ProfileStoreProofs

(***************************************************************************)
(* Type correctness, for any number of writers.  It needs that a process   *)
(* runs as long as one of its writers is inside a save.                    *)
(***************************************************************************)
Running == \A w \in Writers : pc[w] # "idle" => mem[ProcOf[w]] # NotRunning

\* A step of Save keeps the types and stays within a running process
\* (profile.go:88-100).
LEMMA SaveTyped ==
    ASSUME TypeOK, Running, NEW w \in Writers, Save(w)
    PROVE  TypeOK' /\ Running'
<1> USE WriterAssumption, ContentAssumption DEF TypeOK, Contents, Running
<1>1. CASE Marshal(w)
  <2>1. mem[ProcOf[w]] \in Stores
    BY <1>1 DEF Marshal
  <2>2. Persisted(mem[ProcOf[w]]) \in Stores
    BY <2>1, PersistedIsStore
  <2> QED BY <1>1, <2>2 DEF Marshal
<1>2. CASE OpenTmp(w)
  BY <1>2 DEF OpenTmp
<1>3. CASE WriteTmp(w)
  <2>1. PICK c \in Overwritten(OpenFile(w), data[w]) : WriteTo(w, c)
    BY <1>3 DEF WriteTmp
  <2>2. c \in Contents
    BY DEF Overwritten
  <2>3. path' \in Contents /\ tmp' \in Contents
    BY <2>1, <2>2 DEF WriteTo
  <2> QED BY <1>3, <2>3 DEF WriteTmp
<1>4. CASE RenameOver(w)
  BY <1>4 DEF RenameOver, Return
<1>5. CASE CreateFails(w)
  BY <1>5 DEF CreateFails, Return
<1>6. CASE WriteFails(w)
  <2>1. path' \in Contents /\ tmp' \in Contents
    BY <1>6 DEF WriteFails, WriteTo
  <2> QED BY <1>6, <2>1 DEF WriteFails, Return
<1>7. CASE RenameFails(w)
  BY <1>7 DEF RenameFails, Return
<1> QED BY <1>1, <1>2, <1>3, <1>4, <1>5, <1>6, <1>7 DEF Save

\* So does every other step: opening, ending, and the mutating operations.
LEMMA TypeInductive == TypeOK /\ Running /\ [Next]_vars => TypeOK' /\ Running'
<1> SUFFICES ASSUME TypeOK, Running, [Next]_vars PROVE TypeOK' /\ Running'
  OBVIOUS
<1> USE WriterAssumption, ContentAssumption DEF TypeOK, Contents, Running
<1>1. ASSUME NEW p \in Procs, Open(p) PROVE TypeOK' /\ Running'
  BY <1>1, EmptyIsStore DEF Open
<1>2. ASSUME NEW p \in Procs, Exit(p) PROVE TypeOK' /\ Running'
  BY <1>2 DEF Exit
<1>3. ASSUME NEW w \in Writers, NEW o \in Operations, Mutate(w, o)
      PROVE  TypeOK' /\ Running'
  <2>1. mem[ProcOf[w]] \in Stores /\ Accepted(o, mem[ProcOf[w]])
    BY <1>3 DEF Mutate
  <2>2. Applied(o, mem[ProcOf[w]]) \in Stores
    BY <2>1, AppliedIsStore
  <2> QED BY <1>3, <2>2 DEF Mutate
<1>4. ASSUME NEW w \in Writers, NEW o \in Operations, Refuse(w, o)
      PROVE  TypeOK' /\ Running'
  BY <1>4 DEF Refuse
<1>5. ASSUME NEW w \in Writers, Save(w) PROVE TypeOK' /\ Running'
  BY <1>5, SaveTyped
<1>6. CASE UNCHANGED vars
  BY <1>6 DEF vars
<1> QED BY <1>1, <1>2, <1>3, <1>4, <1>5, <1>6 DEF Next

\* Before anything is opened the types hold and nobody is inside Save.
LEMMA InitTyped == Init => TypeOK /\ Running
BY DEF Init, TypeOK, Contents, Running

\* Every variable of the store keeps its type, whoever saves and in whatever
\* order the steps of concurrent saves are taken.
THEOREM Typed == Spec => []TypeOK
BY InitTyped, TypeInductive, PTL DEF Spec

(***************************************************************************)
(* One writer.  PathDecodes and SavedMeansOnDisk are not inductive: that   *)
(* the rename installs the writer's own bytes, and that these are still    *)
(* what is in memory, depends on where the save is.                        *)
(***************************************************************************)
SaveProgress ==
    \A w \in Writers :
        /\ fd[w] = IF pc[w] = "write" THEN "tmp" ELSE "none"
        /\ pc[w] \in {"open", "write", "rename"} => data[w] = Persisted(mem[ProcOf[w]])
        /\ pc[w] = "write"  => tmp = Blank
        /\ pc[w] = "rename" => tmp = data[w]
        /\ result[w] = "ok" => pc[w] = "idle" /\ mem[ProcOf[w]] # NotRunning

SoleInv == /\ TypeOK
           /\ Running
           /\ PathDecodes
           /\ SavedMeansOnDisk
           /\ SelectionExists
           /\ SaveProgress

\* The inductive invariant holds before the first process opens the file.
LEMMA SoleInit == Init => SoleInv
BY InitTyped, ContentAssumption
   DEF Init, SoleInv, PathDecodes, SavedMeansOnDisk, SelectionExists, SaveProgress

\* A process that starts or ends leaves the file alone and has no save in
\* progress afterwards.
LEMMA SoleProcess ==
    ASSUME SoleInv, NEW p \in Procs, Open(p) \/ Exit(p), TypeOK', Running'
    PROVE  SoleInv'
<1> USE WriterAssumption, ContentAssumption
    DEF SoleInv, TypeOK, Contents, Running, PathDecodes, SavedMeansOnDisk,
        SelectionExists, SaveProgress
<1>1. CASE Open(p)
  <2>1. PathDecodes' /\ SavedMeansOnDisk' /\ SaveProgress'
    BY <1>1 DEF Open
  <2>2. SelectionExists'
    BY <1>1, EmptyIsStore DEF Open
  <2> QED BY <2>1, <2>2
<1>2. CASE Exit(p)
  BY <1>2 DEF Exit
<1> QED BY <1>1, <1>2

\* An operation changes the memory of the one process and starts its save, or is
\* refused and changes nothing (profile.go:132-191).
LEMMA SoleMutate ==
    ASSUME SoleInv, NEW w \in Writers, NEW o \in Operations,
           Mutate(w, o) \/ Refuse(w, o), TypeOK', Running'
    PROVE  SoleInv'
<1> USE SoleWriter, WriterAssumption
    DEF SoleInv, TypeOK, PathDecodes, SavedMeansOnDisk, SaveProgress
<1>1. CASE Mutate(w, o)
  <2>1. mem[ProcOf[w]] \in Stores /\ Accepted(o, mem[ProcOf[w]])
    BY <1>1 DEF Mutate
  <2>2. WellFormed(Applied(o, mem[ProcOf[w]]))
    BY <2>1, <1>1, AppliedKeepsSelection DEF SelectionExists, Mutate
  <2>3. SelectionExists'
    BY <2>2, <1>1 DEF SelectionExists, Mutate
  <2>4. PathDecodes' /\ SavedMeansOnDisk' /\ SaveProgress'
    BY <1>1 DEF Mutate
  <2> QED BY <2>3, <2>4
<1>2. CASE Refuse(w, o)
  BY <1>2 DEF Refuse, SelectionExists
<1> QED BY <1>1, <1>2

\* A step of Save, failed or not, keeps the file whole and the writer's bytes
\* those of its memory (profile.go:88-100).
LEMMA SoleSave ==
    ASSUME SoleInv, NEW w \in Writers, Save(w), TypeOK', Running'
    PROVE  SoleInv'
<1> USE SoleWriter, WriterAssumption, ContentAssumption
    DEF SoleInv, TypeOK, Contents, Running, PathDecodes, SavedMeansOnDisk,
        SaveProgress, SelectionExists
<1>1. CASE Marshal(w)
  BY <1>1 DEF Marshal
<1>2. CASE OpenTmp(w)
  BY <1>2 DEF OpenTmp
<1>3. CASE WriteTmp(w)
  BY <1>3 DEF WriteTmp, Overwritten, OpenFile, WriteTo
<1>4. CASE RenameOver(w)
  <2>1. path' = Persisted(mem[ProcOf[w]]) /\ mem[ProcOf[w]] \in Stores
    BY <1>4 DEF RenameOver
  <2>2. path' \in Stores /\ WellFormed(path')
    BY <2>1, PersistedIsStore DEF WellFormed
  <2>3. PathDecodes' /\ SelectionExists'
    BY <1>4, <2>2 DEF RenameOver
  <2>4. SavedMeansOnDisk' /\ SaveProgress'
    BY <1>4, <2>1 DEF RenameOver, Return
  <2> QED BY <2>3, <2>4
<1>5. CASE CreateFails(w)
  BY <1>5 DEF CreateFails, Return
<1>6. CASE WriteFails(w)
  BY <1>6 DEF WriteFails, WriteTo, Return
<1>7. CASE RenameFails(w)
  BY <1>7 DEF RenameFails, Return
<1> QED BY <1>1, <1>2, <1>3, <1>4, <1>5, <1>6, <1>7 DEF Save

\* Every step keeps the inductive invariant.
LEMMA SoleNext == SoleInv /\ [Next]_vars => SoleInv'
<1> SUFFICES ASSUME SoleInv, [Next]_vars PROVE SoleInv'
  OBVIOUS
<1>1. TypeOK' /\ Running'
  BY TypeInductive DEF SoleInv
<1>2. CASE UNCHANGED vars
  BY <1>1, <1>2 DEF SoleInv, vars, PathDecodes, SavedMeansOnDisk, SelectionExists, SaveProgress
<1>3. CASE Next
  BY <1>1, <1>3, SoleProcess, SoleMutate, SoleSave DEF Next
<1> QED BY <1>2, <1>3

\* With one writer the file at Path is a whole store at every moment,
\* whichever call of Save fails and wherever the process dies.
THEOREM AlwaysDecodes == Spec => []PathDecodes
<1>1. SoleInv => PathDecodes
  BY DEF SoleInv
<1> QED BY <1>1, SoleInit, SoleNext, PTL DEF Spec

\* With one writer, an operation that returned nil is in the file.
THEOREM Durable == Spec => []SavedMeansOnDisk
<1>1. SoleInv => SavedMeansOnDisk
  BY DEF SoleInv
<1> QED BY <1>1, SoleInit, SoleNext, PTL DEF Spec

\* With one writer, ActiveID is empty or names a profile, in memory and on disk.
THEOREM SelectionSound == Spec => []SelectionExists
<1>1. SoleInv => SelectionExists
  BY DEF SoleInv
<1> QED BY <1>1, SoleInit, SoleNext, PTL DEF Spec

(***************************************************************************)
(* Save implements the atomic store: only the rename is a Commit, every    *)
(* failed step is a Fail, and the steps in between are invisible.          *)
(***************************************************************************)
\* AtomicStore works with the same list operations as StoreFile.
LEMMA SameOperators ==
    /\ Promise!Operations = Operations
    /\ Promise!EmptyStore = EmptyStore
    /\ \A o, s : Promise!Accepted(o, s) = Accepted(o, s)
    /\ \A o, s : Promise!Applied(o, s) = Applied(o, s)
    /\ \A s : Promise!Persisted(s) = Persisted(s)
<1> USE DEF Promise!Present, Present
<1>1. Promise!Operations = Operations /\ Promise!EmptyStore = EmptyStore
  BY DEF Promise!Operations, Operations, Promise!EmptyStore, EmptyStore
<1>2. \A o, s : Promise!Accepted(o, s) = Accepted(o, s)
  BY Zenon DEF Promise!Accepted, Accepted
<1>3. \A o, s : Promise!Applied(o, s) = Applied(o, s)
  BY Zenon DEF Promise!Applied, Applied, Promise!Add, Add, Promise!SetActive, SetActive,
     Promise!Delete, Delete, Promise!Rename, Rename, Promise!Update, Update,
     Promise!ToggleAutoStart, ToggleAutoStart
<1>4. \A s : Promise!Persisted(s) = Persisted(s)
  BY Zenon DEF Promise!Persisted, Persisted, Promise!WithoutContent, WithoutContent
<1> QED BY <1>1, <1>2, <1>3, <1>4

\* A step of a writer that moves it inside its save, touching neither memory nor
\* Path, is invisible.
LEMMA InsideSave ==
    ASSUME SoleInv, NEW w \in Writers, pc[w] # "idle", pc'[w] # "idle",
           UNCHANGED <<mem, path, result>>
    PROVE  UNCHANGED Promise!vars
BY SoleWriter DEF SoleInv, Promise!vars, Saving

\* A step of Save is a Commit, a Fail or invisible.
LEMMA SaveImplements ==
    ASSUME SoleInv, NEW w \in Writers, Save(w)
    PROVE  Promise!Next \/ UNCHANGED Promise!vars
<1> USE SoleWriter, SameOperators DEF SoleInv, TypeOK, Saving
<1>1. CASE Marshal(w) \/ OpenTmp(w)
  <2>1. pc[w] # "idle" /\ pc'[w] # "idle" /\ UNCHANGED <<mem, path, result>>
    BY <1>1 DEF Marshal, OpenTmp
  <2> QED BY <2>1, InsideSave
<1>2. CASE WriteTmp(w)
  <2>1. pc[w] # "idle" /\ pc'[w] # "idle" /\ UNCHANGED <<mem, path, result>>
    BY <1>2 DEF WriteTmp, WriteTo, SaveProgress
  <2> QED BY <2>1, InsideSave
<1>3. CASE RenameOver(w)
  <2>1. path' = Persisted(mem[ProcOf[w]])
    BY <1>3 DEF RenameOver, SaveProgress
  <2>2. Promise!Commit(w)
    BY <1>3, <2>1 DEF RenameOver, Return, Promise!Commit
  <2> QED BY <2>2 DEF Promise!Next
<1>4. CASE CreateFails(w) \/ RenameFails(w)
  <2>1. Promise!Fail(w)
    BY <1>4 DEF CreateFails, RenameFails, Return, Promise!Fail
  <2> QED BY <2>1 DEF Promise!Next
<1>5. CASE WriteFails(w)
  <2>1. Promise!Fail(w)
    BY <1>5 DEF WriteFails, WriteTo, Return, Promise!Fail, SaveProgress
  <2> QED BY <2>1 DEF Promise!Next
<1> QED BY <1>1, <1>2, <1>3, <1>4, <1>5 DEF Save

\* Every step of the file-level store is a step of the atomic one or invisible.
LEMMA StepImplements == SoleInv /\ [Next]_vars => [Promise!Next]_(Promise!vars)
<1> SUFFICES ASSUME SoleInv, [Next]_vars PROVE Promise!Next \/ UNCHANGED Promise!vars
  OBVIOUS
<1> USE SoleWriter, SameOperators, WriterAssumption, ContentAssumption
    DEF SoleInv, TypeOK, Saving
<1>1. ASSUME NEW p \in Procs, Open(p) PROVE Promise!Next
  <2>1. Promise!Open(p)
    BY <1>1 DEF Open, Promise!Open
  <2> QED BY <2>1 DEF Promise!Next
<1>2. ASSUME NEW p \in Procs, Exit(p) PROVE Promise!Next
  <2>1. Promise!Exit(p)
    BY <1>2 DEF Exit, Promise!Exit
  <2> QED BY <2>1 DEF Promise!Next
<1>3. ASSUME NEW w \in Writers, NEW o \in Operations, Mutate(w, o) PROVE Promise!Next
  <2>1. Promise!Mutate(w, o)
    BY <1>3 DEF Mutate, Promise!Mutate
  <2> QED BY <2>1 DEF Promise!Next
<1>4. ASSUME NEW w \in Writers, NEW o \in Operations, Refuse(w, o) PROVE Promise!Next
  <2>1. Promise!Refuse(w)
    BY <1>4 DEF Refuse, Promise!Refuse
  <2> QED BY <2>1 DEF Promise!Next
<1>5. ASSUME NEW w \in Writers, Save(w) PROVE Promise!Next \/ UNCHANGED Promise!vars
  BY <1>5, SaveImplements
<1>6. CASE UNCHANGED vars
  BY <1>6 DEF vars, Promise!vars
<1> QED BY <1>1, <1>2, <1>3, <1>4, <1>5, <1>6 DEF Next

\* With one writer, the file-level Save with its failures and crashes
\* implements the store that is saved in one step.
THEOREM Implements == Spec => SaveIsAtomic
<1>1. Init => Promise!Init
  BY DEF Init, Promise!Init, Saving
<1> QED BY <1>1, SoleInit, SoleNext, StepImplements, PTL DEF Spec, SaveIsAtomic, Promise!Spec
================================================================================
