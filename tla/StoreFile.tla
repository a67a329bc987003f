------------------------------- MODULE StoreFile -------------------------------
(***************************************************************************)
(* The profile store in memory and on disk (internal/profile/profile.go):  *)
(* Open, the mutating operations and Save, which marshals the list, writes *)
(* Path+".tmp" and renames it over Path.                                   *)
(*                                                                         *)
(* A process is one run of the TUI or of a CLI command; it opens the file  *)
(* once and then works on its own copy.  A writer is one flow of control   *)
(* that mutates and saves: a CLI command has one, the TUI has one per      *)
(* command goroutine, all sharing the *Store with no lock around it.       *)
(*                                                                         *)
(* os.WriteFile opens with O_TRUNC, so a second writer truncates and       *)
(* overwrites the very inode the first one is filling; a rename moves that *)
(* inode, and a writer that still has it open goes on writing to what is   *)
(* now Path.  fd[w] says where the file w has open is at the moment.       *)
(***************************************************************************)
EXTENDS ProfileStore

CONSTANTS
    Procs,      \* processes that use the store
    Writers,    \* flows of control that mutate and save it
    ProcOf,     \* the process of each writer
    NotRunning, \* mem[p]: the process is not running
    NoFile,     \* content: there is no such file
    Blank,      \* content: just truncated
    Torn        \* content: not the JSON of any store

ASSUME WriterAssumption == ProcOf \in [Writers -> Procs]
ASSUME ContentAssumption ==
    /\ NotRunning \notin Stores
    /\ {NoFile, Blank, Torn} \cap Stores = {}
    /\ NoFile # Blank /\ NoFile # Torn /\ Blank # Torn

VARIABLES
    mem,      \* mem[p]:    the *Store of process p
    path,     \* content of the file at Path
    tmp,      \* content of the file at Path+".tmp"
    pc,       \* pc[w]:     the next step of writer w
    data,     \* data[w]:   the bytes json.MarshalIndent returned
    fd,       \* fd[w]:     "none", or where the file w has open is now
    result    \* result[w]: what the last operation of w returned

vars == <<mem, path, tmp, pc, data, fd, result>>

Contents == Stores \cup {NoFile, Blank, Torn}

TypeOK ==
    /\ mem    \in [Procs -> Stores \cup {NotRunning}]
    /\ path   \in Contents
    /\ tmp    \in Contents
    /\ pc     \in [Writers -> {"idle", "marshal", "open", "write", "rename"}]
    /\ data   \in [Writers -> Contents]
    /\ fd     \in [Writers -> {"none", "tmp", "path", "gone"}]
    /\ result \in [Writers -> {"none", "ok", "error"}]

Init ==
    /\ mem    = [p \in Procs |-> NotRunning]
    /\ path   = NoFile
    /\ tmp    = NoFile
    /\ pc     = [w \in Writers |-> "idle"]
    /\ data   = [w \in Writers |-> NoFile]
    /\ fd     = [w \in Writers |-> "none"]
    /\ result = [w \in Writers |-> "none"]

\* Open: a missing file is an empty store, an undecodable one is an error.
Open(p) ==
    /\ mem[p] = NotRunning
    /\ path \in Stores \cup {NoFile}
    /\ mem' = [mem EXCEPT ![p] = IF path = NoFile THEN EmptyStore ELSE path]
    /\ UNCHANGED <<path, tmp, pc, data, fd, result>>

\* The process ends or is killed, at any point of a save.
Exit(p) ==
    /\ mem[p] # NotRunning
    /\ mem' = [mem EXCEPT ![p] = NotRunning]
    /\ pc'     = [w \in Writers |-> IF ProcOf[w] = p THEN "idle" ELSE pc[w]]
    /\ data'   = [w \in Writers |-> IF ProcOf[w] = p THEN NoFile ELSE data[w]]
    /\ fd'     = [w \in Writers |-> IF ProcOf[w] = p THEN "none" ELSE fd[w]]
    /\ result' = [w \in Writers |-> IF ProcOf[w] = p THEN "none" ELSE result[w]]
    /\ UNCHANGED <<path, tmp>>

(***************************************************************************)
(* One mutating operation: the in-memory part, then the steps of Save.     *)
(***************************************************************************)
Mutate(w, o) ==
    LET s == mem[ProcOf[w]] IN
    /\ pc[w] = "idle"
    /\ s # NotRunning
    /\ Accepted(o, s)
    /\ mem'    = [mem EXCEPT ![ProcOf[w]] = Applied(o, s)]
    /\ pc'     = [pc EXCEPT ![w] = "marshal"]
    /\ result' = [result EXCEPT ![w] = "none"]
    /\ UNCHANGED <<path, tmp, data, fd>>

\* "profile %q not found": nothing is changed and nothing is saved.
Refuse(w, o) ==
    LET s == mem[ProcOf[w]] IN
    /\ pc[w] = "idle"
    /\ s # NotRunning
    /\ o.op # "add"
    /\ ~ Accepted(o, s)
    /\ result' = [result EXCEPT ![w] = "error"]
    /\ UNCHANGED <<mem, path, tmp, pc, data, fd>>

Marshal(w) ==
    /\ pc[w] = "marshal"
    /\ data' = [data EXCEPT ![w] = Persisted(mem[ProcOf[w]])]
    /\ pc'   = [pc EXCEPT ![w] = "open"]
    /\ UNCHANGED <<mem, path, tmp, fd, result>>

\* (For a mutant of OpenTmp: it writes Path itself.)
OpenInPlace(w) ==
    /\ pc[w] = "open"
    /\ path' = Blank
    /\ fd'  = [fd EXCEPT ![w] = "path"]
    /\ pc'  = [pc EXCEPT ![w] = "write"]
    /\ UNCHANGED <<mem, tmp, data, result>>

\* os.WriteFile: open Path+".tmp" with O_CREATE|O_TRUNC ...
OpenTmp(w) ==
    /\ pc[w] = "open"
    /\ tmp' = Blank
    /\ fd'  = [fd EXCEPT ![w] = "tmp"]
    /\ pc'  = [pc EXCEPT ![w] = "write"]
    /\ UNCHANGED <<mem, path, data, result>>

\* What a write of d from offset 0 can make of a file that holds c: over longer
\* content it leaves a tail.
Overwritten(c, d) == IF c \in {Blank, d} THEN {d} ELSE {d, Torn}

\* The content of the file w has open, and the effect of changing it to c.
OpenFile(w) == CASE fd[w] = "tmp"  -> tmp
                 [] fd[w] = "path" -> path
                 [] OTHER          -> Blank

WriteTo(w, c) ==
    \/ fd[w] = "tmp"  /\ tmp'  = c /\ UNCHANGED path
    \/ fd[w] = "path" /\ path' = c /\ UNCHANGED tmp
    \/ fd[w] = "gone" /\ UNCHANGED <<path, tmp>>

\* ... write the bytes and close it.
WriteTmp(w) ==
    /\ pc[w] = "write"
    /\ \E c \in Overwritten(OpenFile(w), data[w]) : WriteTo(w, c)
    /\ fd' = [fd EXCEPT ![w] = "none"]
    /\ pc' = [pc EXCEPT ![w] = "rename"]
    /\ UNCHANGED <<mem, data, result>>

Return(w, r) ==
    /\ pc'     = [pc EXCEPT ![w] = "idle"]
    /\ data'   = [data EXCEPT ![w] = NoFile]
    /\ result' = [result EXCEPT ![w] = r]

\* Path+".tmp" becomes Path; whoever has either of them open keeps the inode.
RenameOver(w) ==
    /\ pc[w] = "rename"
    /\ tmp # NoFile
    /\ path' = tmp
    /\ tmp'  = NoFile
    /\ fd'   = [v \in Writers |-> CASE fd[v] = "tmp"  -> "path"
                                    [] fd[v] = "path" -> "gone"
                                    [] OTHER          -> fd[v]]
    /\ Return(w, "ok")
    /\ UNCHANGED mem

\* Save returns an error and leaves the memory as the operation made it: the
\* directory or the temporary file cannot be created, ...
CreateFails(w) ==
    /\ pc[w] = "open"
    /\ Return(w, "error")
    /\ UNCHANGED <<mem, path, tmp, fd>>

\* ... the write fails part of the way, ...
WriteFails(w) ==
    /\ pc[w] = "write"
    /\ WriteTo(w, Torn)
    /\ fd' = [fd EXCEPT ![w] = "none"]
    /\ Return(w, "error")
    /\ UNCHANGED mem

\* (For a mutant of RenameFails: the error of the rename is dropped.)
RenameIgnored(w) ==
    /\ pc[w] = "rename"
    /\ Return(w, "ok")
    /\ UNCHANGED <<mem, path, tmp, fd>>

\* ... or the rename fails, as it does when another writer took the file away.
RenameFails(w) ==
    /\ pc[w] = "rename"
    /\ Return(w, "error")
    /\ UNCHANGED <<mem, path, tmp, fd>>

Save(w) ==
    \/ Marshal(w)
    \/ OpenTmp(w)
    \/ WriteTmp(w)
    \/ RenameOver(w)
    \/ CreateFails(w)
    \/ WriteFails(w)
    \/ RenameFails(w)

Next ==
    \/ \E p \in Procs : Open(p) \/ Exit(p)
    \/ \E w \in Writers : \E o \in Operations : Mutate(w, o) \/ Refuse(w, o)
    \/ \E w \in Writers : Save(w)

Spec == Init /\ [][Next]_vars

(***************************************************************************)
(* Properties                                                              *)
(***************************************************************************)
\* Save "persists the store atomically" (profile.go:87): whatever a reader
\* opens at Path is a whole store, never a blank or a torn file.
PathDecodes == path \notin {Blank, Torn}

\* "Content is stored verbatim" (profile.go:36): a profile of an open store has
\* the config document it was added with, or a newer one.
ContentKept ==
    \A p \in Procs : mem[p] # NotRunning =>
        \A i \in Present(mem[p]) : mem[p].profiles[i].content # NoConfig
================================================================================
