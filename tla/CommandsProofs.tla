----------------------------- MODULE CommandsProofs -----------------------------
(***************************************************************************)
(* What the exit codes of the command line say of the profile file, and    *)
(* what it stores, for every database of the GUI, every set of documents   *)
(* the core may accept, and whatever the core does in between.             *)
(***************************************************************************)
EXTENDS Commands, ProfileStoreProofs, FiniteSetTheorems

(***************************************************************************)
(* The file is written in the last step of a command, and only there; the  *)
(* one exception, the second save of an import, ends in "applied".         *)
(***************************************************************************)
Working == {"plan", "review", "import", "store", "dial", "start", "read",
            "fetch", "parse", "keep", "call", "query", "follow"}

FileInv ==
    /\ at \in Working => file = before
    /\ FailureChangesNothing

\* WithCore leads to a step of the command, which is not the last one, or ends
\* it (main.go:119-134).
LEMMA WithCoreGoesOn ==
    ASSUME WithCore
    PROVE  at' \in {"fetch", "read", "call", "query", "exit"}
BY DEF WithCore, Exit

\* A step of an import that leaves the file alone, or reports (gui.go:46-140).
LEMMA MigrateKeeps ==
    ASSUME FileInv, Migrate, UNCHANGED before
    PROVE  FileInv'
<1> USE DEF FileInv, FailureChangesNothing, Working
<1>1. CASE ReadPlan
  BY <1>1 DEF ReadPlan, Exit, Printed
<1>2. CASE ImportFails
  BY <1>2 DEF ImportFails
<1>3. CASE Import
  BY <1>3 DEF Import
<1>4. CASE SaveImported
  BY <1>4 DEF SaveImported, Report
<1>5. CASE SelectActive
  BY <1>5 DEF SelectActive, Report
<1> QED BY <1>1, <1>2, <1>3, <1>4, <1>5 DEF Migrate

\* A step of a command writes the file with its last one, or not at all
\* (cli/profile.go:93-191).
LEMMA StepKeeps ==
    ASSUME FileInv, Step
    PROVE  FileInv'
<1> USE DEF FileInv, FailureChangesNothing, Working, jobVars
<1>1. CASE StoreCommand
  BY <1>1 DEF StoreCommand, Store, Exit, Printed
<1>2. CASE Dial
  BY <1>2, WithCoreGoesOn DEF Dial, Exit
<1>3. CASE StartCore
  BY <1>3, WithCoreGoesOn DEF StartCore, Exit
<1>4. CASE ReadDocument
  BY <1>4 DEF ReadDocument, Exit
<1>5. CASE Fetch
  BY <1>5 DEF Fetch, Exit
<1>6. CASE Parse
  BY <1>6 DEF Parse, Exit
<1>7. CASE Keep
  BY <1>7 DEF Keep, Store, Exit, Printed
<1>8. CASE Connect
  BY <1>8 DEF Connect, Exit
<1>9. CASE Order
  BY <1>9 DEF Order, Exit
<1>10. CASE Query
  BY <1>10 DEF Query, Exit, Printed
<1>11. CASE Follow
  BY <1>11 DEF Follow, Exit
<1>12. CASE Migrate /\ UNCHANGED <<jobVars, core>>
  BY <1>12, MigrateKeeps
<1> QED BY <1>1, <1>2, <1>3, <1>4, <1>5, <1>6, <1>7, <1>8, <1>9, <1>10, <1>11, <1>12
        DEF Step

\* The file invariant is inductive.
LEMMA FileInductive == FileInv /\ [Next]_vars => FileInv'
<1> SUFFICES ASSUME FileInv, [Next]_vars PROVE FileInv'
  OBVIOUS
<1>1. ASSUME NEW c \in AllCommands, NEW i \in Ids \cup {NoId}, NEW a \in BOOLEAN, Run(c, i, a)
      PROVE  FileInv'
  BY <1>1 DEF FileInv, FailureChangesNothing, Run, Exit
<1>2. CASE Step
  BY <1>2, StepKeeps
<1>3. CASE Reap
  BY <1>3 DEF FileInv, FailureChangesNothing, Working, Reap
<1>4. CASE Kill
  BY <1>4 DEF FileInv, FailureChangesNothing, Working, Kill, Exit
<1>5. CASE CoreChanges
  BY <1>5 DEF FileInv, FailureChangesNothing, CoreChanges, migrationVars, jobVars
<1>6. CASE UNCHANGED vars
  BY <1>6 DEF FileInv, FailureChangesNothing, vars, migrationVars, jobVars
<1> QED BY <1>1, <1>2, <1>3, <1>4, <1>5, <1>6 DEF Next

\* A command that ends with 2, 3 or 4 has not touched the file, unless only its
\* output got lost, whichever step failed (main.go:97-134, cli/profile.go:93-191).
THEOREM FailuresKeepTheFile == Spec => []FailureChangesNothing
<1>1. Init => FileInv
  BY DEF Init, FileInv, FailureChangesNothing, Working
<1>2. FileInv => FailureChangesNothing
  BY DEF FileInv
<1> QED BY <1>1, <1>2, FileInductive, PTL DEF Spec

(***************************************************************************)
(* Only what the core has accepted is stored.  The document is not looked  *)
(* at again once Parse has accepted it.                                    *)
(***************************************************************************)
ValidInv ==
    /\ origin \in [Ids -> Valid \cup {NoConfig}]
    /\ at = "keep" => doc \in Valid

\* A step of a command stores the document that was validated, and stores it
\* only from the step after Parse (main.go:256, cli/profile.go:93-191).
LEMMA StepStoresValid ==
    ASSUME ValidInv, Step
    PROVE  ValidInv'
<1> USE DEF ValidInv, jobVars
<1>1. CASE StoreCommand
  BY <1>1 DEF StoreCommand, Store, Exit, Printed
<1>2. CASE Dial
  BY <1>2, WithCoreGoesOn DEF Dial, Exit, Working
<1>3. CASE StartCore
  BY <1>3, WithCoreGoesOn DEF StartCore, Exit, Working
<1>4. CASE ReadDocument
  BY <1>4 DEF ReadDocument, Exit
<1>5. CASE Fetch
  BY <1>5 DEF Fetch, Exit
<1>6. CASE Parse
  BY <1>6 DEF Parse, Exit
<1>7. CASE Keep
  BY <1>7 DEF Keep, Store, Exit, Printed
<1>8. CASE Connect
  BY <1>8 DEF Connect, Exit
<1>9. CASE Order
  BY <1>9 DEF Order, Exit
<1>10. CASE Query
  BY <1>10 DEF Query, Exit
<1>11. CASE Follow
  BY <1>11 DEF Follow, Exit
<1>12. CASE Migrate /\ UNCHANGED <<jobVars, core>>
  BY <1>12 DEF Migrate, ReadPlan, ImportFails, Import, SaveImported, SelectActive, Report, Exit
<1> QED BY <1>1, <1>2, <1>3, <1>4, <1>5, <1>6, <1>7, <1>8, <1>9, <1>10, <1>11, <1>12
        DEF Step

\* The invariant of the stored documents is inductive.
LEMMA ValidInductive == ValidInv /\ [Next]_vars => ValidInv'
<1> SUFFICES ASSUME ValidInv, [Next]_vars PROVE ValidInv'
  OBVIOUS
<1>1. ASSUME NEW c \in AllCommands, NEW i \in Ids \cup {NoId}, NEW a \in BOOLEAN, Run(c, i, a)
      PROVE  ValidInv'
  BY <1>1 DEF ValidInv, Run, First, Exit
<1>2. CASE Step
  BY <1>2, StepStoresValid
<1>3. CASE Reap
  BY <1>3 DEF ValidInv, Reap
<1>4. CASE Kill
  BY <1>4 DEF ValidInv, Kill, Exit, jobVars
<1>5. CASE CoreChanges
  BY <1>5 DEF ValidInv, CoreChanges, migrationVars, jobVars
<1>6. CASE UNCHANGED vars
  BY <1>6 DEF ValidInv, vars, migrationVars, jobVars
<1> QED BY <1>1, <1>2, <1>3, <1>4, <1>5, <1>6 DEF Next

\* No command but an import has stored a document the core did not accept, at
\* whatever step the core went away (main.go:256).
THEOREM StoredIsValid == Spec => []OnlyValidated
<1>1. Init => ValidInv
  BY DEF Init, ValidInv
<1>2. ValidInv => OnlyValidated
  BY DEF ValidInv, OnlyValidated
<1> QED BY <1>1, <1>2, ValidInductive, PTL DEF Spec

(***************************************************************************)
(* What the process has in memory and on disk are stores all along, which  *)
(* needs the types of what a command carries from step to step.            *)
(***************************************************************************)
StoreInv ==
    /\ file \in Stores /\ mem \in Stores
    /\ activeId \in Ids \cup {NoId}
    /\ at = "store"  => job.cmd \in StoreCommands
    /\ at = "read"   => job.cmd = "addLocal"
    /\ at = "parse"  => doc \in Configs
    /\ at = "keep"   => doc \in Configs
    /\ at \in {"parse", "keep"} /\ job.cmd = "refresh" => job.id \in Present(mem)

\* What a command asks of the list, once the list accepts it, is one of its
\* operations (cli/profile.go:117-191).
LEMMA OperationAllowed ==
    ASSUME mem \in Stores, Accepted(Operation, mem),
           job.cmd \in {"activate", "delete", "rename"}
    PROVE  Operation \in Operations
<1>1. CASE job.cmd = "activate"
  BY <1>1 DEF Operation, Operations, Accepted, Present
<1>2. CASE job.cmd = "delete"
  BY <1>2 DEF Operation, Operations, Accepted, Present
<1>3. CASE job.cmd = "rename"
  <2>1. Operation = [op |-> "rename", id |-> job.id, name |-> CHOOSE n \in Names : TRUE]
    BY <1>3 DEF Operation, NewName
  <2>2. job.id \in Ids /\ mem.profiles[job.id] \in Profile
    BY <2>1 DEF Accepted, Present, Stores
  <2>3. \E n \in Names : TRUE
    BY <2>2 DEF Profile
  <2> QED BY <2>1, <2>2, <2>3 DEF Operations
<1> QED BY <1>1, <1>2, <1>3

\* Save leaves stores in memory and on disk (profile.go:88-100).
LEMMA StoreTyped ==
    ASSUME NEW s \in Stores, NEW codes, file \in Stores, Store(s, codes)
    PROVE  file' \in Stores /\ mem' \in Stores /\ at' = "exit"
BY PersistedIsStore DEF Store, Exit

\* A command on the store alone leaves a store (cli/profile.go:117-191).
LEMMA StoreCommandTyped ==
    ASSUME StoreInv, StoreCommand
    PROVE  StoreInv'
<1> USE DEF StoreInv
<1>1. CASE UNCHANGED <<file, mem>> /\ at' = "exit"
  BY <1>1 DEF StoreCommand, Unmigrated, importVars
<1>2. CASE /\ job.cmd \in {"activate", "delete", "rename"}
           /\ Accepted(Operation, mem)
           /\ Store(Applied(Operation, mem), {"ok"})
  <2>1. Applied(Operation, mem) \in Stores
    BY <1>2, OperationAllowed, AppliedIsStore
  <2> QED BY <1>2, <2>1, StoreTyped DEF StoreCommand, Unmigrated, importVars
<1> QED BY <1>1, <1>2 DEF StoreCommand, StoreCommands, Exit

\* So does the step that keeps a document (cli/profile.go:93-115, 128-167).
LEMMA KeepTyped ==
    ASSUME StoreInv, Keep
    PROVE  StoreInv'
<1> USE DEF StoreInv
<1>1. PICK i \in IF job.cmd = "refresh" THEN {job.id} ELSE NewIds(job.cmd = "add"),
           n \in Names :
         IF job.cmd = "refresh"
         THEN Store(Update(mem, i, [mem.profiles[i] EXCEPT !.content = doc]), {"ok"})
         ELSE Store(Add(mem, i, [name |-> n, content |-> doc], job.activate), Printed)
  BY DEF Keep
<1>2. at = "keep" /\ Unmigrated /\ doc \in Configs
  BY DEF Keep
<1>3. CASE job.cmd = "refresh"
  <2> DEFINE o == [op |-> "refresh", id |-> i, content |-> doc]
  <2>1. i \in Present(mem) /\ i \in Ids
    BY <1>1, <1>2, <1>3 DEF Present
  <2>2. o \in Operations /\ Accepted(o, mem)
    BY <1>2, <2>1 DEF Operations, Accepted
  <2>3. Applied(o, mem) = Update(mem, i, [mem.profiles[i] EXCEPT !.content = doc])
    BY DEF Applied
  <2>4. Applied(o, mem) \in Stores
    BY <2>2, AppliedIsStore
  <2> QED BY <1>1, <1>2, <1>3, <2>3, <2>4, StoreTyped DEF Unmigrated, importVars
<1>4. CASE job.cmd # "refresh"
  <2> DEFINE s == Add(mem, i, [name |-> n, content |-> doc], job.activate)
  <2>1. i \in Ids
    BY <1>1, <1>4, RemoteIdsAssumption DEF NewIds
  <2>2. s \in Stores
    BY <1>2, <2>1 DEF Add, Stores, Profile
  <2>3. Store(s, Printed)
    BY <1>1, <1>4
  <2> QED BY <1>2, <2>2, <2>3, StoreTyped DEF Unmigrated, importVars
<1> QED BY <1>3, <1>4

\* So does every step of an import (gui.go:100-140).
LEMMA MigrateTyped ==
    ASSUME StoreInv, Migrate, UNCHANGED jobVars
    PROVE  StoreInv'
<1> USE DEF StoreInv, jobVars
<1>1. CASE ReadPlan
  BY <1>1 DEF ReadPlan, Exit
<1>2. CASE ImportFails
  BY <1>2 DEF ImportFails
<1>3. CASE Import
  <2>0. PICK k \in left : \E i \in NewIds(Remote(k)), n \in Names, c \in Configs :
             /\ mem'      = Add(mem, i, [name |-> n, content |-> c], FALSE)
             /\ activeId' = IF Rows[k].active THEN i ELSE activeId
    BY <1>3 DEF Import
  <2>1. PICK i \in NewIds(Remote(k)), n \in Names, c \in Configs :
             /\ mem'      = Add(mem, i, [name |-> n, content |-> c], FALSE)
             /\ activeId' = IF Rows[k].active THEN i ELSE activeId
    BY <2>0
  <2>2. i \in Ids
    BY RemoteIdsAssumption DEF NewIds
  <2>3. mem' \in Stores
    BY <2>1, <2>2 DEF Add, Stores, Profile
  <2>4. activeId' \in Ids \cup {NoId}
    BY <2>1, <2>2
  <2> QED BY <1>3, <2>3, <2>4 DEF Import
<1>4. CASE SaveImported
  BY <1>4, PersistedIsStore DEF SaveImported, Report
<1>5. CASE SelectActive
  <2>1. SetActive(mem, activeId) \in Stores
    BY DEF SetActive, Stores
  <2> QED BY <1>5, <2>1, PersistedIsStore DEF SelectActive, Report
<1> QED BY <1>1, <1>2, <1>3, <1>4, <1>5 DEF Migrate

\* The types of the stores are inductive.
LEMMA StoreInductive == StoreInv /\ [Next]_vars => StoreInv'
<1> SUFFICES ASSUME StoreInv, [Next]_vars PROVE StoreInv'
  OBVIOUS
<1> USE DEF StoreInv, jobVars, Unmigrated, importVars
<1>1. ASSUME NEW c \in AllCommands, NEW i \in Ids \cup {NoId}, NEW a \in BOOLEAN, Run(c, i, a)
      PROVE  StoreInv'
  <2>1. First(c) = "store" => c \in StoreCommands
    BY DEF First
  <2>2. First(c) \notin {"read", "parse", "keep", "select"}
    BY DEF First
  <2> QED BY <1>1, <2>1, <2>2 DEF Run, Exit
<1>2. CASE StoreCommand
  BY <1>2, StoreCommandTyped
<1>3. CASE Dial
  BY <1>3, WithCoreGoesOn DEF Dial, Exit, WithCore
<1>4. CASE StartCore
  BY <1>4, WithCoreGoesOn DEF StartCore, Exit, WithCore
<1>5. CASE ReadDocument
  BY <1>5 DEF ReadDocument, Exit
<1>6. CASE Fetch
  BY <1>6 DEF Fetch, Exit
<1>7. CASE Parse
  BY <1>7 DEF Parse, Exit
<1>8. CASE Keep
  BY <1>8, KeepTyped
<1>9. CASE Connect
  BY <1>9 DEF Connect, Exit
<1>10. CASE Order
  BY <1>10 DEF Order, Exit
<1>11. CASE Query
  BY <1>11 DEF Query, Exit
<1>12. CASE Follow
  BY <1>12 DEF Follow, Exit
<1>13. CASE Migrate /\ UNCHANGED <<jobVars, core>>
  BY <1>13, MigrateTyped
<1>14. CASE Reap
  BY <1>14, EmptyIsStore DEF Reap
<1>15. CASE Kill
  BY <1>15 DEF Kill, Exit
<1>16. CASE CoreChanges
  BY <1>16 DEF CoreChanges, migrationVars
<1>17. CASE UNCHANGED vars
  BY <1>17 DEF vars, migrationVars
<1> QED BY <1>1, <1>2, <1>3, <1>4, <1>5, <1>6, <1>7, <1>8, <1>9, <1>10, <1>11, <1>12,
           <1>13, <1>14, <1>15, <1>16, <1>17 DEF Next, Step

(***************************************************************************)
(* What an import has added stays in memory and, from its first save on,   *)
(* in the file: selecting a profile drops none.                            *)
(***************************************************************************)
IdsImported == {r.id : r \in imported}

ImportInv ==
    /\ at \in {"idle", "plan", "review"} => imported = {}
    /\ at = "import" => IdsImported \subseteq Present(mem)
    /\ at = "select" => IdsImported \subseteq Present(mem) \cap Present(file)
    /\ ImportedIsSaved

\* Adding a profile leaves those that are there (gui.go:113-122).
LEMMA AddPresent ==
    ASSUME mem \in Stores, NEW i \in Ids, NEW p \in Profile
    PROVE  Present(Add(mem, i, p, FALSE)) = Present(mem) \cup {i}
<1>1. p # NoProfile
  BY StoreAssumption DEF Profile
<1>2. Add(mem, i, p, FALSE).profiles = [mem.profiles EXCEPT ![i] = p]
  BY DEF Add, Stores
<1> QED BY <1>1, <1>2 DEF Present, Stores

\* A step of an import keeps what it has imported (gui.go:100-140).
LEMMA MigrateKeepsImports ==
    ASSUME StoreInv, ImportInv, Migrate
    PROVE  ImportInv'
<1> USE DEF ImportInv, IdsImported, ImportedIsSaved
<1>1. CASE ReadPlan
  BY <1>1 DEF ReadPlan, Exit
<1>2. CASE ImportFails
  BY <1>2 DEF ImportFails, Present
<1>3. CASE Import
  <2>0. PICK k \in left : \E i \in NewIds(Remote(k)), n \in Names, c \in Configs :
             /\ mem'      = Add(mem, i, [name |-> n, content |-> c], FALSE)
             /\ imported' = imported \cup {[row |-> k, id |-> i]}
    BY <1>3 DEF Import
  <2>1. PICK i \in NewIds(Remote(k)), n \in Names, c \in Configs :
             /\ mem'      = Add(mem, i, [name |-> n, content |-> c], FALSE)
             /\ imported' = imported \cup {[row |-> k, id |-> i]}
    BY <2>0
  <2>2. i \in Ids /\ mem \in Stores /\ [name |-> n, content |-> c] \in Profile
    BY RemoteIdsAssumption DEF NewIds, StoreInv, Profile
  <2>3. Present(mem') = Present(mem) \cup {i}
    BY <2>1, <2>2, AddPresent
  <2>4. at = "import" /\ at' = "import"
    BY <1>3 DEF Import
  <2>5. ASSUME NEW r \in imported' PROVE r.id \in Present(mem')
    <3>1. CASE r \in imported
      BY <3>1, <2>3, <2>4
    <3>2. CASE r = [row |-> k, id |-> i]
      BY <3>2, <2>3
    <3> QED BY <2>1, <3>1, <3>2
  <2> QED BY <2>4, <2>5 DEF Present
<1>4. CASE SaveImported
  <2>1. Present(Persisted(mem)) = Present(mem)
    BY PersistedIsStore DEF StoreInv
  <2> QED BY <1>4, <2>1 DEF SaveImported, Report, Present
<1>5. CASE SelectActive
  <2>1. SetActive(mem, activeId) \in Stores
    BY <1>5 DEF SelectActive, StoreInv, SetActive, Stores
  <2>2. Present(SetActive(mem, activeId)) = Present(mem)
    BY DEF StoreInv, SetActive, Stores, Present
  <2>3. Present(Persisted(mem')) = Present(mem)
    BY <1>5, <2>1, <2>2, PersistedIsStore DEF SelectActive
  <2> QED BY <1>5, <2>3 DEF SelectActive, Report, Present
<1> QED BY <1>1, <1>2, <1>3, <1>4, <1>5 DEF Migrate

\* The invariant of the imports is inductive.
LEMMA ImportInductive == StoreInv /\ ImportInv /\ [Next]_vars => ImportInv'
<1> SUFFICES ASSUME StoreInv, ImportInv, [Next]_vars PROVE ImportInv'
  OBVIOUS
<1> USE DEF ImportInv, IdsImported, ImportedIsSaved, jobVars, Unmigrated, importVars
<1>1. ASSUME NEW c \in AllCommands, NEW i \in Ids \cup {NoId}, NEW a \in BOOLEAN, Run(c, i, a)
      PROVE  ImportInv'
  <2>1. imported' = {}
    BY <1>1 DEF Run
  <2> QED BY <2>1 DEF Present
<1>2. CASE StoreCommand
  BY <1>2 DEF StoreCommand, Store, Exit
<1>3. CASE Dial
  BY <1>3, WithCoreGoesOn DEF Dial, Exit, Working
<1>4. CASE StartCore
  BY <1>4, WithCoreGoesOn DEF StartCore, Exit, Working
<1>5. CASE ReadDocument
  BY <1>5 DEF ReadDocument, Exit
<1>6. CASE Fetch
  BY <1>6 DEF Fetch, Exit
<1>7. CASE Parse
  BY <1>7 DEF Parse, Exit
<1>8. CASE Keep
  <2>1. at' = "exit"
    BY <1>8 DEF Keep, Store, Exit
  <2> QED BY <2>1
<1>9. CASE Connect
  BY <1>9 DEF Connect, Exit
<1>10. CASE Order
  BY <1>10 DEF Order, Exit
<1>11. CASE Query
  BY <1>11 DEF Query, Exit
<1>12. CASE Follow
  BY <1>12 DEF Follow, Exit
<1>13. CASE Migrate /\ UNCHANGED <<jobVars, core>>
  BY <1>13, MigrateKeepsImports
<1>14. CASE Reap
  <2>1. imported' = {}
    BY <1>14 DEF Reap
  <2> QED BY <2>1 DEF Present
<1>15. CASE Kill
  BY <1>15 DEF Kill, Exit
<1>16. CASE CoreChanges
  BY <1>16 DEF CoreChanges, migrationVars, Present
<1>17. CASE UNCHANGED vars
  BY <1>17 DEF vars, migrationVars, Present
<1> QED BY <1>1, <1>2, <1>3, <1>4, <1>5, <1>6, <1>7, <1>8, <1>9, <1>10, <1>11, <1>12,
           <1>13, <1>14, <1>15, <1>16, <1>17 DEF Next, Step

\* Whatever the database of the GUI holds and whichever step fails, a profile
\* the result calls imported is in the file, or the result warns of a failed
\* save (gui.go:129-139).
THEOREM ImportsAreSaved == Spec => []ImportedIsSaved
<1>1. Init => StoreInv /\ ImportInv
  BY EmptyIsStore DEF Init, StoreInv, ImportInv, IdsImported, ImportedIsSaved
<1>2. ImportInv => ImportedIsSaved
  BY DEF ImportInv
<1> QED BY <1>1, <1>2, StoreInductive, ImportInductive, PTL DEF Spec

(***************************************************************************)
(* Exit code 0.  What a command has in memory is the file it started with  *)
(* until its last step, so the step that reports success is the one that   *)
(* has done what was asked.                                                *)
(***************************************************************************)
JobInv ==
    /\ at \in {"plan", "review", "import", "select"} => job.cmd \in Imports
    /\ at = "fetch" => job.cmd \in {"add", "refresh"}
    /\ at \in {"parse", "keep"} => job.cmd \in Profiles
    /\ at = "query" => job.cmd \in Queries \cup Followers
    /\ at = "follow" => job.cmd \in Followers
    /\ at \in {"store", "dial", "start", "read", "fetch", "parse", "keep", "call"} => mem = before
    /\ job.cmd = "restart" => job.id = NoId
    /\ OkMeansDone

\* No command belongs to two of the groups (main.go:80-134).
LEMMA GroupsDiffer ==
    /\ \A c \in StoreCommands : c \notin Profiles /\ c \notin Connections
    /\ \A c \in Imports \cup Connections \cup Orders \cup Queries \cup Followers :
          c \notin {"activate", "delete", "rename", "refresh"} /\ c \notin Additions
    /\ \A c \in Additions : c \notin {"activate", "delete", "rename", "refresh"}
    /\ \A c \in StoreCommands \cup Imports \cup Orders \cup Queries \cup Followers :
          c \notin Profiles /\ c \notin Additions /\ c \notin Connections
    /\ \A c \in Profiles : c \notin Connections /\ c # "restart"
    /\ Additions \subseteq Profiles
BY DEF StoreCommands, Imports, Orders, Queries, Followers, Profiles, Additions, Connections

\* The profile that was added or refreshed is in the file when the save has
\* succeeded, and selected if --activate was given (cli/profile.go:93-115, 142-167).
LEMMA KeepDone ==
    ASSUME StoreInv, JobInv, Keep
    PROVE  JobInv'
<1> USE DEF StoreInv
<1>1. PICK i \in IF job.cmd = "refresh" THEN {job.id} ELSE NewIds(job.cmd = "add"),
           n \in Names :
         /\ IF job.cmd = "refresh"
               THEN Store(Update(mem, i, [mem.profiles[i] EXCEPT !.content = doc]), {"ok"})
               ELSE Store(Add(mem, i, [name |-> n, content |-> doc], job.activate), Printed)
         /\ job' = [job EXCEPT !.id = i]
  BY DEF Keep
<1>2. /\ at = "keep" /\ doc \in Configs /\ before' = before /\ mem = before
      /\ job.cmd \in Profiles /\ at' = "exit"
  BY <1>1 DEF Keep, JobInv, Store, Exit
<1>3. job'.cmd = job.cmd /\ job'.activate = job.activate
  BY <1>1
<1>4. CASE code' # "ok"
  BY <1>2, <1>3, <1>4, GroupsDiffer DEF JobInv, OkMeansDone
<1>5. CASE code' = "ok" /\ job.cmd = "refresh"
  <2> DEFINE s == Update(mem, i, [mem.profiles[i] EXCEPT !.content = doc])
  <2>1. i \in Ids /\ i \in Present(mem) /\ i = job.id
    BY <1>1, <1>2, <1>5 DEF Present
  <2>2. [mem.profiles[i] EXCEPT !.content = doc] \in Profile
    BY <1>2, <2>1 DEF Present, Stores, Profile
  <2>3. s \in Stores /\ i \in Present(s) /\ s.profiles[i].name = mem.profiles[i].name
    BY <2>1, <2>2, StoreAssumption DEF Update, Stores, Present, Profile
  <2>4. file' = Persisted(s)
    BY <1>1, <1>5 DEF Store, Exit
  <2> HIDE DEF s
  <2>5. i \in Present(file') /\ file'.profiles[i].name = mem.profiles[i].name
    BY <2>3, <2>4, PersistedIsStore, PersistedNames
  <2>6. job'.id = i
    BY <1>1, <1>5, <2>1 DEF Keep
  <2>7. FileSaysSo'
    <3>1. job'.cmd = "refresh" /\ job'.cmd \notin Additions
      BY <1>3, <1>5 DEF Additions
    <3> QED BY <1>2, <2>1, <2>5, <2>6, <3>1 DEF FileSaysSo
  <2> QED BY <1>2, <1>3, <1>5, <2>7, GroupsDiffer DEF JobInv, OkMeansDone
<1>6. CASE code' = "ok" /\ job.cmd # "refresh"
  <2> DEFINE s == Add(mem, i, [name |-> n, content |-> doc], job.activate)
  <2>1. i \in Ids /\ i \notin Present(mem)
    BY <1>1, <1>6, RemoteIdsAssumption DEF NewIds
  <2>2. [name |-> n, content |-> doc] \in Profile
    BY <1>2 DEF Profile
  <2>3. /\ s \in Stores /\ i \in Present(s)
        /\ job.activate => s.active = i
    BY <2>1, <2>2, StoreAssumption DEF Add, Stores, Present, Profile
  <2>4. file' = Persisted(s)
    BY <1>1, <1>6 DEF Store, Exit
  <2>5. i \in Present(file') /\ (job.activate => file'.active = i)
    BY <2>3, <2>4, PersistedIsStore
  <2>6. job' = [job EXCEPT !.id = i]
    BY <1>1
  <2>7. FileSaysSo'
    <3>1. job'.cmd \in Additions
      BY <1>2, <1>3, <1>6 DEF Profiles
    <3> QED BY <1>2, <1>3, <2>1, <2>5, <2>6, <3>1, GroupsDiffer DEF FileSaysSo
  <2> QED BY <1>2, <1>3, <1>6, <2>7, GroupsDiffer DEF JobInv, OkMeansDone
<1> QED BY <1>4, <1>5, <1>6

\* A command on the store alone has done what it was asked when its save has
\* succeeded (cli/profile.go:136-160, profile.go:142-172).
LEMMA StoreCommandDone ==
    ASSUME StoreInv, JobInv, StoreCommand
    PROVE  JobInv'
<1> USE DEF StoreInv
<1>1. /\ at = "store" /\ at' = "exit" /\ job' = job /\ before' = before /\ mem = before
      /\ job.cmd \in StoreCommands /\ sent' = sent
  BY DEF StoreCommand, Store, Exit, JobInv
<1>2. CASE code' # "ok"
  BY <1>1, <1>2, GroupsDiffer DEF JobInv, OkMeansDone
<1>3. CASE code' = "ok" /\ job.cmd \in {"list", "show"}
  <2>1. FileSaysSo'
    BY <1>1, <1>3 DEF FileSaysSo, Additions
  <2> QED BY <1>1, <1>3, <2>1, GroupsDiffer DEF JobInv, OkMeansDone
<1>4. CASE code' = "ok" /\ job.cmd \notin {"list", "show"}
  <2> DEFINE s == Applied(Operation, mem)
  <2>1. /\ job.cmd \in {"activate", "delete", "rename"}
        /\ Accepted(Operation, mem) /\ file' = Persisted(s)
    BY <1>1, <1>4 DEF StoreCommand, StoreCommands, Store, Exit
  <2>2. Operation \in Operations
    BY <2>1, OperationAllowed
  <2>3. s \in Stores
    BY <2>1, <2>2, AppliedIsStore
  <2>4. job.cmd = "activate" => job.id \in Present(s) /\ s.active = job.id
    BY <2>1 DEF Operation, Accepted, Applied, SetActive, Present, Stores
  <2>5. job.cmd = "delete" => job.id \notin Present(s) /\ s.active # job.id
    <3> SUFFICES ASSUME job.cmd = "delete" PROVE job.id \notin Present(s) /\ s.active # job.id
      OBVIOUS
    <3>1. job.id \in Ids /\ s = Delete(mem, job.id)
      BY <2>1 DEF Operation, Accepted, Applied, Present
    <3> QED BY <3>1, StoreAssumption DEF Delete, Present, Stores
  <2>6. job.cmd = "rename" => job.id \in Present(s) /\ s.profiles[job.id].name = NewName
    <3> SUFFICES ASSUME job.cmd = "rename"
                 PROVE  job.id \in Present(s) /\ s.profiles[job.id].name = NewName
      OBVIOUS
    <3>1. job.id \in Ids /\ mem.profiles[job.id] \in Profile /\ s = Rename(mem, job.id, NewName)
      BY <2>1 DEF Operation, Accepted, Applied, Present, Stores
    <3>2. NewName \in Names
      BY <3>1 DEF Profile, NewName
    <3>3. [mem.profiles[job.id] EXCEPT !.name = NewName] \in Profile
      BY <3>1, <3>2 DEF Profile
    <3>4. s.profiles[job.id] = [mem.profiles[job.id] EXCEPT !.name = NewName]
      BY <3>1 DEF Rename, Stores
    <3>5. s.profiles[job.id] # NoProfile /\ s.profiles[job.id].name = NewName
      BY <3>1, <3>3, <3>4, StoreAssumption DEF Profile
    <3> QED BY <3>1, <3>5 DEF Present
  <2> HIDE DEF s
  <2>7. /\ job.cmd = "activate" => job.id \in Present(file') /\ file'.active = job.id
        /\ job.cmd = "delete"   => job.id \notin Present(file') /\ file'.active # job.id
        /\ job.cmd = "rename"   => /\ job.id \in Present(file')
                                   /\ file'.profiles[job.id].name = NewName
    BY <2>1, <2>3, <2>4, <2>5, <2>6, PersistedIsStore, PersistedNames
  <2>8. FileSaysSo'
    BY <1>1, <2>1, <2>7 DEF FileSaysSo, Additions
  <2> QED BY <1>1, <2>8, GroupsDiffer DEF JobInv, OkMeansDone
<1> QED BY <1>2, <1>3, <1>4

\* The core is handed the profile that was named or is selected (main.go:256-318).
LEMMA ConnectDone ==
    ASSUME FileInv, JobInv, Connect
    PROVE  JobInv'
<1>1. /\ file' = mem /\ job' = job /\ before' = before /\ at' = "exit"
      /\ job.cmd \in Connections
  BY DEF Connect, FileInv, Working, JobInv, Exit
<1>2. CASE code' # "ok"
  BY <1>1, <1>2 DEF JobInv, OkMeansDone
<1>3. CASE code' = "ok"
  <2>1. sent'.id = Target
    BY <1>3 DEF Connect, Exit
  <2>2. Target = IF job.id = NoId THEN mem.active ELSE job.id
    BY <1>1 DEF Target, JobInv, Connections
  <2>3. FileSaysSo'
    BY <1>1, GroupsDiffer DEF FileSaysSo
  <2> QED BY <1>1, <1>3, <2>1, <2>2, <2>3, GroupsDiffer DEF JobInv, OkMeansDone
<1> QED BY <1>2, <1>3

\* The other steps of a command (main.go:97-134, 204-234, 319-347).
LEMMA StepDone ==
    ASSUME StoreInv, FileInv, JobInv, Step
    PROVE  JobInv'
<1> USE GroupsDiffer DEF JobInv, OkMeansDone, jobVars, Unmigrated, importVars
<1>1. CASE StoreCommand
  BY <1>1, StoreCommandDone
<1>2. CASE Dial
  BY <1>2 DEF Dial, WithCore, Exit
<1>3. CASE StartCore
  BY <1>3 DEF StartCore, WithCore, Exit
<1>4. CASE ReadDocument
  BY <1>4 DEF ReadDocument, Exit, StoreInv, Profiles, Additions
<1>5. CASE Fetch
  BY <1>5 DEF Fetch, Exit, Profiles, Additions
<1>6. CASE Parse
  BY <1>6 DEF Parse, Exit
<1>7. CASE Keep
  BY <1>7, KeepDone
<1>8. CASE Connect
  BY <1>8, ConnectDone
<1>9. CASE Order
  BY <1>9 DEF Order, Exit, FileSaysSo
<1>10. CASE Query
  BY <1>10 DEF Query, Exit, FileSaysSo
<1>11. CASE Follow
  BY <1>11 DEF Follow, Exit, FileSaysSo
<1>12. CASE Migrate /\ UNCHANGED <<jobVars, core>>
  <2>1. at' \in {"exit", "import", "applied", "select"}
    BY <1>12 DEF Migrate, ReadPlan, ImportFails, Import, SaveImported, SelectActive, Report, Exit
  <2>2. job.cmd \in Imports /\ job' = job
    BY <1>12 DEF Migrate, ReadPlan, ImportFails, Import, SaveImported, SelectActive
  <2> QED BY <2>1, <2>2 DEF FileSaysSo
<1> QED BY <1>1, <1>2, <1>3, <1>4, <1>5, <1>6, <1>7, <1>8, <1>9, <1>10, <1>11, <1>12
        DEF Step

\* The invariant of the commands is inductive.
LEMMA JobInductive == StoreInv /\ FileInv /\ JobInv /\ [Next]_vars => JobInv'
<1> SUFFICES ASSUME StoreInv, FileInv, JobInv, [Next]_vars PROVE JobInv'
  OBVIOUS
<1>1. ASSUME NEW c \in AllCommands, NEW i \in Ids \cup {NoId}, NEW a \in BOOLEAN,
             (i # NoId) = (c \in {"activate", "rename", "delete", "show", "refresh"})
                \/ c = "connect",
             Run(c, i, a)
      PROVE  JobInv'
  <2>1. /\ First(c) \in {"store", "plan", "review", "dial"}
        /\ First(c) \in {"plan", "review"} => c \in Imports
    BY DEF First, Imports
  <2>2. c = "restart" => i = NoId
    BY <1>1
  <2> QED BY <1>1, <2>1, <2>2 DEF Run, Exit, JobInv, OkMeansDone
<1>2. CASE Step
  BY <1>2, StepDone
<1>3. CASE Reap
  BY <1>3 DEF JobInv, OkMeansDone, Reap, NoJob
<1>4. CASE Kill
  BY <1>4 DEF JobInv, OkMeansDone, Kill, Exit, jobVars
<1>5. CASE CoreChanges
  BY <1>5 DEF JobInv, OkMeansDone, FileSaysSo, CoreChanges, migrationVars, jobVars
<1>6. CASE UNCHANGED vars
  BY <1>6 DEF JobInv, OkMeansDone, FileSaysSo, vars, migrationVars, jobVars
<1> QED BY <1>1, <1>2, <1>3, <1>4, <1>5, <1>6 DEF Next

\* After exit code 0 of activate, delete, rename, add and refresh the file holds the
\* selection, the ids and the names that were asked for, and after that of connect and
\* restart the core was handed the profile that was named or is selected, for every
\* list, every document and every behaviour of the core (docs/operations.md:55,
\* cli/profile.go:93-191, main.go:256-318).  Not claimed: that the file or the core has
\* the profile's document, that an import which ends with it could save, anything of
\* the commands that only ask the core.
THEOREM ZeroMeansDone == Spec => []OkMeansDone
<1>1. Init => StoreInv /\ FileInv /\ JobInv
  BY EmptyIsStore DEF Init, StoreInv, FileInv, FailureChangesNothing, Working, JobInv,
     OkMeansDone, NoJob
<1>2. JobInv => OkMeansDone
  BY DEF JobInv
<1> QED BY <1>1, <1>2, StoreInductive, FileInductive, JobInductive, PTL DEF Spec

(***************************************************************************)
(* The types of what a command carries.                                    *)
(***************************************************************************)
\* A step of an import keeps the types (gui.go:46-140).
LEMMA MigrateTypes ==
    ASSUME TypeOK, StoreInv, StoreInv', Migrate, UNCHANGED <<jobVars, core>>
    PROVE  TypeOK'
<1> USE DEF StoreInv, TypeOK, Codes, Printed, jobVars
<1>1. CASE ReadPlan
  <2>1. left' \subseteq DOMAIN Rows /\ warned' \subseteq DOMAIN Rows \cup {0}
    BY <1>1 DEF ReadPlan, Plan
  <2> QED BY <1>1, <2>1 DEF ReadPlan, Exit
<1>2. CASE ImportFails
  <2>1. left' \subseteq DOMAIN Rows /\ warned' \subseteq DOMAIN Rows \cup {0}
    BY <1>2 DEF ImportFails
  <2> QED BY <1>2, <2>1 DEF ImportFails
<1>3. CASE Import
  <2>1. PICK k \in left : \E i \in NewIds(Remote(k)) :
             /\ left' = left \ {k}
             /\ imported' = imported \cup {[row |-> k, id |-> i]}
    BY <1>3 DEF Import
  <2>2. \A i \in NewIds(Remote(k)) : i \in Ids
    BY RemoteIdsAssumption DEF NewIds
  <2>3. left' \subseteq DOMAIN Rows /\ imported' \subseteq [row : DOMAIN Rows, id : Ids]
    BY <2>1, <2>2
  <2> QED BY <1>3, <2>3 DEF Import
<1>4. CASE SaveImported
  BY <1>4 DEF SaveImported, Report
<1>5. CASE SelectActive
  BY <1>5 DEF SelectActive, Report
<1> QED BY <1>1, <1>2, <1>3, <1>4, <1>5 DEF Migrate

\* So does a step of any other command (cli/profile.go, main.go:112-329).
LEMMA StepTypes ==
    ASSUME TypeOK, StoreInv, StoreInv', JobInv, Step
    PROVE  TypeOK'
<1> USE DEF StoreInv, TypeOK, Codes, Printed, jobVars, Unmigrated, importVars
<1>1. CASE StoreCommand
  <2>1. /\ at' = "exit" /\ code' \in Codes
        /\ UNCHANGED <<job, doc, before, sent, core, left, imported, warned>>
    BY <1>1 DEF StoreCommand, Store, Exit
  <2>2. origin' \in [Ids -> Configs \cup {NoConfig}]
    BY <1>1 DEF StoreCommand
  <2> QED BY <2>1, <2>2
<1>2. CASE Dial
  BY <1>2 DEF Dial, WithCore, Exit
<1>3. CASE StartCore
  BY <1>3 DEF StartCore, WithCore, Exit
<1>4. CASE ReadDocument
  BY <1>4 DEF ReadDocument, Exit
<1>5. CASE Fetch
  BY <1>5 DEF Fetch, Exit
<1>6. CASE Parse
  BY <1>6 DEF Parse, Exit
<1>7. CASE Keep
  <2>1. PICK i \in IF job.cmd = "refresh" THEN {job.id} ELSE NewIds(job.cmd = "add") :
             /\ job' = [job EXCEPT !.id = i]
             /\ origin' = IF code' \in Printed THEN [origin EXCEPT ![i] = doc] ELSE origin
    BY <1>7 DEF Keep
  <2>2. i \in Ids
    BY <1>7, <2>1, RemoteIdsAssumption DEF Keep, NewIds, Present
  <2>3. at' = "exit" /\ code' \in Codes
    BY <1>7 DEF Keep, Store, Exit
  <2>4. job' \in [cmd : AllCommands, id : Ids \cup {NoId}, activate : BOOLEAN] \cup {NoJob}
    <3>1. job # NoJob
      BY <1>7 DEF Keep, JobInv, NoJob, Profiles, Additions
    <3> QED BY <2>1, <2>2, <3>1
  <2>5. origin' \in [Ids -> Configs \cup {NoConfig}]
    BY <2>1, <1>7 DEF Keep
  <2> QED BY <1>7, <2>3, <2>4, <2>5 DEF Keep
<1>8. CASE Connect
  <2>1. sent' \in [id : Ids \cup {NoId}, content : Configs \cup {NoConfig}]
    <3>1. CASE sent' = sent
      BY <3>1
    <3>2. CASE /\ Target \in Present(mem)
               /\ sent' = [id |-> Target, content |-> mem.profiles[Target].content]
      <4>1. Target \in Ids /\ mem.profiles[Target] \in Profile
        BY <3>2 DEF Present, Stores
      <4> QED BY <3>2, <4>1 DEF Profile
    <3> QED BY <1>8, <3>1, <3>2 DEF Connect
  <2> QED BY <1>8, <2>1 DEF Connect, Exit
<1>9. CASE Order
  BY <1>9 DEF Order, Exit
<1>10. CASE Query
  BY <1>10 DEF Query, Exit
<1>11. CASE Follow
  BY <1>11 DEF Follow, Exit
<1>12. CASE Migrate /\ UNCHANGED <<jobVars, core>>
  BY <1>12, MigrateTypes
<1> QED BY <1>1, <1>2, <1>3, <1>4, <1>5, <1>6, <1>7, <1>8, <1>9, <1>10, <1>11, <1>12
        DEF Step

\* The types are inductive, given those of the stores.
LEMMA TypesInductive == TypeOK /\ StoreInv /\ StoreInv' /\ JobInv /\ [Next]_vars => TypeOK'
<1> SUFFICES ASSUME TypeOK, StoreInv, StoreInv', JobInv, [Next]_vars PROVE TypeOK'
  OBVIOUS
<1> USE DEF StoreInv, TypeOK, Codes, Unmigrated, importVars
<1>1. ASSUME NEW c \in AllCommands, NEW i \in Ids \cup {NoId}, NEW a \in BOOLEAN, Run(c, i, a)
      PROVE  TypeOK'
  <2>1. First(c) \in {"store", "plan", "review", "dial"}
    BY DEF First
  <2> QED BY <1>1, <2>1 DEF Run, Exit
<1>2. CASE Step
  BY <1>2, StepTypes
<1>3. CASE Reap
  BY <1>3, EmptyIsStore DEF Reap, NothingSent
<1>4. CASE Kill
  BY <1>4 DEF Kill, Exit, jobVars
<1>5. CASE CoreChanges
  BY <1>5 DEF CoreChanges, migrationVars, jobVars
<1>6. CASE UNCHANGED vars
  BY <1>6 DEF vars, migrationVars, jobVars
<1> QED BY <1>1, <1>2, <1>3, <1>4, <1>5, <1>6 DEF Next

\* Memory and file hold stores, and every command has the types of its variables.
THEOREM Typed == Spec => []TypeOK
<1> DEFINE Inv == StoreInv /\ FileInv /\ JobInv /\ TypeOK
<1>1. Init => Inv
  BY EmptyIsStore DEF Init, NothingSent, StoreInv, FileInv, FailureChangesNothing, Working, JobInv,
     OkMeansDone, NoJob, TypeOK, Codes
<1>2. Inv /\ [Next]_vars => Inv'
  BY StoreInductive, FileInductive, JobInductive, TypesInductive
<1>3. Inv => TypeOK
  OBVIOUS
<1> QED BY <1>1, <1>2, <1>3, PTL DEF Spec
(***************************************************************************)
(* The result of an import.  While it runs, the rows of the database are   *)
(* those imported, those warned of and those left, which no two share.     *)
(***************************************************************************)
RowsImported == {r.row : r \in imported}

\* The rows ReadPlan leaves out as duplicates.
Repeats == {k \in DOMAIN Rows : Remote(k) /\ Duplicate(k)}

Accounts ==
    /\ RowsImported \cup left \cup warned = DOMAIN Rows
    /\ RowsImported \cap left = {} /\ RowsImported \cap warned = {}
    /\ left \cap warned = {}
    /\ left \cap Repeats = {}

Closed ==
    /\ RowsImported \cup (warned \ {0}) = DOMAIN Rows
    /\ RowsImported \cap warned = {}

PlanInv ==
    /\ at \in {"idle", "plan", "review"} => imported = {} /\ activeId = NoId
    /\ at = "import" => Accounts
    /\ at = "select" => Closed /\ 0 \notin warned
    /\ at = "applied" => Closed

OnceInv ==
    /\ RowsImported \cap Repeats = {}
    /\ \A q, r \in imported : q.row = r.row => q = r
    /\ IsFiniteSet(imported) /\ IsFiniteSet(IdsImported)
    /\ Cardinality(IdsImported) = Cardinality(imported)

\* There is no row 0: rows are counted from 1.
LEMMA RowsCounted == DOMAIN Rows \subseteq Int /\ 0 \notin DOMAIN Rows
BY RowsAssumption

\* What one more import adds to the rows and to the ids (gui.go:124-129).
LEMMA ImportAdds ==
    ASSUME Import
    PROVE  \E k \in left : \E i \in NewIds(Remote(k)) :
              /\ left' = left \ {k}
              /\ imported' = imported \cup {[row |-> k, id |-> i]}
              /\ RowsImported' = RowsImported \cup {k}
              /\ IdsImported' = IdsImported \cup {i}
<1>1. PICK k \in left : \E i \in NewIds(Remote(k)) :
         left' = left \ {k} /\ imported' = imported \cup {[row |-> k, id |-> i]}
  BY DEF Import
<1>2. PICK i \in NewIds(Remote(k)) :
         left' = left \ {k} /\ imported' = imported \cup {[row |-> k, id |-> i]}
  BY <1>1
<1> DEFINE x == [row |-> k, id |-> i]
<1>3. x.row = k /\ x.id = i /\ imported' = imported \cup {x}
  BY <1>2
<1> HIDE DEF x
<1>4. RowsImported' = RowsImported \cup {k}
  BY <1>3 DEF RowsImported
<1>5. IdsImported' = IdsImported \cup {i}
  BY <1>3 DEF IdsImported
<1> QED BY <1>2, <1>4, <1>5

\* A step of an import moves a row from the plan to the result, or ends the
\* import once the plan is done (gui.go:46-140).
LEMMA MigrateAccounts ==
    ASSUME TypeOK, PlanInv, Migrate
    PROVE  PlanInv'
<1>0. left \subseteq DOMAIN Rows
  BY DEF TypeOK
<1>1. CASE ReadPlan
  <2>1. CASE at' = "import"
    <3>1. PICK readable \in SUBSET LocalRows :
             left' = Plan(readable) /\ warned' = {k \in DOMAIN Rows : Skipped(k, readable)}
      BY <1>1, <2>1 DEF ReadPlan, Exit
    <3>2. RowsImported' = {}
      BY <1>1 DEF ReadPlan, RowsImported, PlanInv
    <3>3. left' \cap Repeats = {}
      BY <3>1 DEF Plan, Skipped, Repeats
    <3>4. left' \cup warned' = DOMAIN Rows /\ left' \cap warned' = {}
      BY <3>1 DEF Plan
    <3>5. Accounts'
      BY <3>2, <3>3, <3>4 DEF Accounts
    <3> QED BY <2>1, <3>5 DEF PlanInv
  <2>2. CASE at' = "exit"
    BY <2>2 DEF PlanInv
  <2> QED BY <1>1, <2>1, <2>2 DEF ReadPlan, Exit
<1>2. CASE ImportFails
  <2>1. PICK k \in left : left' = left \ {k} /\ warned' = warned \cup {k}
    BY <1>2 DEF ImportFails
  <2>2. RowsImported' = RowsImported /\ Accounts /\ at' = "import"
    BY <1>2 DEF ImportFails, RowsImported, PlanInv
  <2>3. Accounts'
    BY <1>0, <2>1, <2>2 DEF Accounts
  <2> QED BY <2>2, <2>3 DEF PlanInv
<1>3. CASE Import
  <2>1. PICK k \in left : left' = left \ {k} /\ RowsImported' = RowsImported \cup {k}
    BY <1>3, ImportAdds
  <2>2. Accounts /\ at' = "import" /\ warned' = warned
    BY <1>3 DEF Import, PlanInv
  <2>3. Accounts'
    BY <1>0, <2>1, <2>2 DEF Accounts
  <2> QED BY <2>2, <2>3 DEF PlanInv
<1>4. CASE SaveImported
  <2>1. RowsImported' = RowsImported /\ Accounts /\ left = {}
    BY <1>4 DEF SaveImported, RowsImported, PlanInv
  <2>2. 0 \notin RowsImported /\ 0 \notin warned
    BY <2>1, RowsCounted DEF Accounts
  <2>3. \/ at' = "select" /\ warned' = warned
        \/ at' = "applied" /\ warned' \in {warned, warned \cup {0}}
    BY <1>4 DEF SaveImported, Report
  <2>4. Closed'
    BY <2>1, <2>2, <2>3 DEF Accounts, Closed
  <2> QED BY <2>2, <2>3, <2>4 DEF PlanInv
<1>5. CASE SelectActive
  <2>1. RowsImported' = RowsImported /\ Closed /\ 0 \notin warned
    BY <1>5 DEF SelectActive, RowsImported, PlanInv
  <2>2. 0 \notin RowsImported
    BY <2>1, RowsCounted DEF Closed
  <2>3. at' = "applied" /\ warned' \in {warned, warned \cup {0}}
    BY <1>5 DEF SelectActive, Report
  <2>4. Closed'
    BY <2>1, <2>2, <2>3 DEF Closed
  <2> QED BY <2>3, <2>4 DEF PlanInv
<1> QED BY <1>1, <1>2, <1>3, <1>4, <1>5 DEF Migrate

\* No row is imported twice, and no two rows share an id (gui.go:103-129).
LEMMA MigrateOnce ==
    ASSUME StoreInv, ImportInv, PlanInv, OnceInv, Migrate
    PROVE  OnceInv'
<1> USE DEF OnceInv
<1>1. CASE imported' = imported
  BY <1>1 DEF IdsImported, RowsImported
<1>2. CASE Import
  <2>0. PICK k \in left : \E i \in NewIds(Remote(k)) :
           /\ imported' = imported \cup {[row |-> k, id |-> i]}
           /\ RowsImported' = RowsImported \cup {k}
           /\ IdsImported' = IdsImported \cup {i}
    BY <1>2, ImportAdds
  <2>1. PICK i \in NewIds(Remote(k)) :
           /\ imported' = imported \cup {[row |-> k, id |-> i]}
           /\ RowsImported' = RowsImported \cup {k}
           /\ IdsImported' = IdsImported \cup {i}
    BY <2>0
  <2> DEFINE x == [row |-> k, id |-> i]
  <2>2. at = "import" /\ k \notin RowsImported /\ k \notin Repeats
    BY <1>2 DEF Import, PlanInv, Accounts
  <2>3. i \notin IdsImported
    BY <2>2 DEF NewIds, ImportInv
  <2>4. x \notin imported
    BY <2>3 DEF IdsImported
  <2>5. /\ IsFiniteSet(imported')
        /\ Cardinality(imported') = Cardinality(imported) + 1
    BY <2>1, <2>4, FS_AddElement
  <2>6. /\ IsFiniteSet(IdsImported')
        /\ Cardinality(IdsImported') = Cardinality(IdsImported) + 1
    BY <2>1, <2>3, FS_AddElement
  <2>7. RowsImported' \cap Repeats = {}
    BY <2>1, <2>2
  <2>8. ASSUME NEW q \in imported', NEW r \in imported', q.row = r.row PROVE q = r
    BY <2>1, <2>2, <2>8 DEF RowsImported
  <2> QED BY <2>5, <2>6, <2>7, <2>8
<1> QED BY <1>1, <1>2 DEF Migrate, ReadPlan, ImportFails, SaveImported, SelectActive

\* The accounts of an import are kept by every step of the program.
LEMMA PlanInductive ==
    TypeOK /\ StoreInv /\ ImportInv /\ PlanInv /\ OnceInv /\ [Next]_vars => PlanInv' /\ OnceInv'
<1> SUFFICES ASSUME TypeOK, StoreInv, ImportInv, PlanInv, OnceInv, [Next]_vars
             PROVE  PlanInv' /\ OnceInv'
  OBVIOUS
<1>1. CASE Migrate
  BY <1>1, MigrateAccounts, MigrateOnce
<1>2. CASE Reap
  <2>1. imported' = {} /\ activeId' = NoId /\ at' = "idle"
    BY <1>2 DEF Reap
  <2>2. IdsImported' = {}
    BY <2>1 DEF IdsImported
  <2>3. RowsImported' = {}
    BY <2>1 DEF RowsImported
  <2> QED BY <2>1, <2>2, <2>3, FS_EmptySet DEF PlanInv, OnceInv
<1>3. CASE Unmigrated /\ (at' = at \/ at' \notin {"idle", "import", "select", "applied"})
           /\ (at' \in {"plan", "review"} => at = "idle" \/ at' = at)
  BY <1>3 DEF PlanInv, Accounts, Closed, OnceInv, Unmigrated, importVars, RowsImported,
     IdsImported
<1>4. CASE \E c \in AllCommands, i \in Ids \cup {NoId}, a \in BOOLEAN : Run(c, i, a)
  <2>1. at = "idle" /\ Unmigrated /\ at' \in {"exit", "store", "plan", "review", "dial"}
    BY <1>4 DEF Run, Exit, First
  <2> QED BY <1>3, <2>1
<1>5. ASSUME Step PROVE Migrate \/ (Unmigrated /\ at' \in {"exit", "start", "fetch", "read",
                                    "call", "query", "parse", "keep", "follow"})
  BY <1>5, WithCoreGoesOn DEF Step, StoreCommand, Store, Dial, StartCore, ReadDocument, Fetch,
     Parse, Keep, Connect, Order, Query, Follow, Exit
<1>6. CASE Kill
  BY <1>3, <1>6 DEF Kill, Exit
<1>7. CASE CoreChanges
  BY <1>3, <1>7 DEF CoreChanges, migrationVars, Unmigrated
<1>8. CASE UNCHANGED vars
  BY <1>3, <1>8 DEF vars, migrationVars, Unmigrated
<1> QED BY <1>1, <1>2, <1>3, <1>4, <1>5, <1>6, <1>7, <1>8 DEF Next

(***************************************************************************)
(* The selection of an import.                                             *)
(***************************************************************************)
ActiveInv ==
    /\ activeId = NoId => ActiveImports = {}
    /\ \A r \in ActiveImports : ActiveImports = {r} => activeId = r.id
    /\ at \in {"idle", "plan", "review"} => ActiveImports = {}
    /\ GuiSelectionKept

\* The row that was active in the GUI gives the profile to select, and the second
\* save of an import writes the selection (gui.go:126-138).
LEMMA MigrateSelects ==
    ASSUME StoreInv, ActiveInv, Migrate
    PROVE  ActiveInv'
<1> USE DEF ActiveInv, GuiSelectionKept
<1>1. CASE ReadPlan
  BY <1>1 DEF ReadPlan, ActiveImports, Exit
<1>2. CASE ImportFails
  BY <1>2 DEF ImportFails, ActiveImports
<1>3. CASE Import
  <2>0. PICK k \in left : \E i \in NewIds(Remote(k)) :
           /\ imported' = imported \cup {[row |-> k, id |-> i]}
           /\ activeId' = IF Rows[k].active THEN i ELSE activeId
    BY <1>3 DEF Import
  <2>1. PICK i \in NewIds(Remote(k)) :
           /\ imported' = imported \cup {[row |-> k, id |-> i]}
           /\ activeId' = IF Rows[k].active THEN i ELSE activeId
    BY <2>0
  <2> DEFINE x == [row |-> k, id |-> i]
  <2>2. x.row = k /\ x.id = i /\ imported' = imported \cup {x} /\ i # NoId
    BY <2>1, StoreAssumption, RemoteIdsAssumption DEF NewIds
  <2>3. at = "import" /\ at' = "import"
    BY <1>3 DEF Import
  <2> HIDE DEF x
  <2>4. CASE Rows[k].active
    <3>1. x \in ActiveImports'
      BY <2>2, <2>4 DEF ActiveImports
    <3>2. activeId' = x.id
      BY <2>1, <2>2, <2>4
    <3> QED BY <2>2, <2>3, <3>1, <3>2
  <2>5. CASE ~ Rows[k].active
    <3>1. ActiveImports' = ActiveImports
      BY <2>2, <2>5 DEF ActiveImports
    <3> QED BY <2>1, <2>3, <2>5, <3>1
  <2> QED BY <2>4, <2>5
<1>4. CASE SaveImported
  <2>1. ActiveImports' = ActiveImports /\ activeId' = activeId
    BY <1>4 DEF SaveImported, ActiveImports
  <2>2. \/ at' = "select"
        \/ at' = "applied" /\ (activeId = NoId \/ 0 \in warned')
    BY <1>4 DEF SaveImported, Report
  <2> QED BY <2>1, <2>2
<1>5. CASE SelectActive
  <2>1. ActiveImports' = ActiveImports /\ activeId' = activeId /\ at' = "applied"
    BY <1>5 DEF SelectActive, ActiveImports, Report
  <2>2. SetActive(mem, activeId) \in Stores /\ SetActive(mem, activeId).active = activeId
    BY DEF SetActive, Stores, StoreInv
  <2>3. file' = Persisted(SetActive(mem, activeId)) \/ 0 \in warned'
    BY <1>5 DEF SelectActive, Report
  <2>4. file'.active = activeId \/ 0 \in warned'
    BY <2>2, <2>3, PersistedIsStore
  <2> QED BY <2>1, <2>4
<1> QED BY <1>1, <1>2, <1>3, <1>4, <1>5 DEF Migrate

\* The other steps neither import nor touch the file of an import that is over.
LEMMA ActiveInductive == StoreInv /\ ActiveInv /\ [Next]_vars => ActiveInv'
<1> SUFFICES ASSUME StoreInv, ActiveInv, [Next]_vars PROVE ActiveInv'
  OBVIOUS
<1>1. CASE Migrate
  BY <1>1, MigrateSelects
<1>2. CASE Reap
  <2>1. ActiveImports' = {} /\ at' = "idle"
    BY <1>2 DEF Reap, ActiveImports
  <2> QED BY <2>1 DEF ActiveInv, GuiSelectionKept
<1>3. CASE Unmigrated /\ (at' # "applied" \/ (at' = at /\ file' = file))
           /\ (at' \in {"idle", "plan", "review"} => at = "idle" \/ at' = at)
  BY <1>3 DEF ActiveInv, GuiSelectionKept, Unmigrated, importVars, ActiveImports
<1>4. CASE \E c \in AllCommands, i \in Ids \cup {NoId}, a \in BOOLEAN : Run(c, i, a)
  <2>1. at = "idle" /\ Unmigrated /\ at' \in {"exit", "store", "plan", "review", "dial"}
    BY <1>4 DEF Run, Exit, First
  <2> QED BY <1>3, <2>1
<1>5. ASSUME Step PROVE Migrate \/ (Unmigrated /\ at' \in {"exit", "start", "fetch", "read",
                                    "call", "query", "parse", "keep", "follow"})
  BY <1>5, WithCoreGoesOn DEF Step, StoreCommand, Store, Dial, StartCore, ReadDocument, Fetch,
     Parse, Keep, Connect, Order, Query, Follow, Exit
<1>6. CASE Kill
  BY <1>3, <1>6 DEF Kill, Exit
<1>7. CASE CoreChanges
  BY <1>3, <1>7 DEF CoreChanges, migrationVars, Unmigrated
<1>8. CASE UNCHANGED vars
  BY <1>3, <1>8 DEF vars, migrationVars, Unmigrated
<1> QED BY <1>1, <1>2, <1>3, <1>4, <1>5, <1>6, <1>7, <1>8 DEF Next

\* Every invariant of a command at once.
CommandsInv ==
    TypeOK /\ StoreInv /\ FileInv /\ JobInv /\ ImportInv /\ PlanInv /\ OnceInv /\ ActiveInv

\* It holds initially and is kept.
LEMMA CommandsSafe == Spec => []CommandsInv
<1>1. Init => CommandsInv
  <2> SUFFICES ASSUME Init PROVE CommandsInv
    OBVIOUS
  <2>1. IdsImported = {} /\ imported = {} /\ RowsImported = {}
    BY DEF Init, IdsImported, RowsImported
  <2>2. TypeOK /\ StoreInv /\ FileInv /\ JobInv
    BY EmptyIsStore DEF Init, NothingSent, StoreInv, FileInv, FailureChangesNothing, Working, JobInv,
       OkMeansDone, NoJob, TypeOK, Codes
  <2>3. ImportInv
    BY <2>1 DEF Init, ImportInv, ImportedIsSaved
  <2>4. PlanInv /\ OnceInv
    BY <2>1, FS_EmptySet DEF Init, PlanInv, OnceInv
  <2>5. ActiveInv
    BY <2>1 DEF Init, ActiveInv, GuiSelectionKept, ActiveImports
  <2> QED BY <2>2, <2>3, <2>4, <2>5 DEF CommandsInv
<1>2. CommandsInv /\ [Next]_vars => CommandsInv'
  BY StoreInductive, FileInductive, JobInductive, TypesInductive, ImportInductive, PlanInductive,
     ActiveInductive DEF CommandsInv
<1> QED BY <1>1, <1>2, PTL DEF Spec

\* The result of an import accounts for every row of every database: imported as
\* one profile, or warned of (gui.go:62-93, 103-129).
THEOREM ResultIsComplete == Spec => []EveryRowReported
<1>1. CommandsInv => EveryRowReported
  BY DEF CommandsInv, PlanInv, Closed, OnceInv, EveryRowReported, RowsImported, IdsImported
<1> QED BY <1>1, CommandsSafe, PTL

\* No subscription of any database is imported twice (gui.go:76-79).
THEOREM UrlsImportedOnce == Spec => []NoUrlTwice
<1>1. CommandsInv => NoUrlTwice
  <2> SUFFICES ASSUME CommandsInv, NEW q \in imported, NEW r \in imported,
                      Remote(q.row), Remote(r.row), Rows[q.row].url = Rows[r.row].url
               PROVE  q = r
    BY DEF NoUrlTwice
  <2>1. q.row \notin Repeats /\ r.row \notin Repeats
    BY DEF CommandsInv, OnceInv, RowsImported
  <2>2. q.row \in DOMAIN Rows /\ r.row \in DOMAIN Rows
    BY DEF CommandsInv, TypeOK
  <2>3. q.row = r.row
    BY <2>1, <2>2, RowsAssumption DEF Duplicate, Repeats
  <2> QED BY <2>3 DEF CommandsInv, OnceInv
<1> QED BY <1>1, CommandsSafe, PTL

\* An import that reports no failed save leaves the profile selected that was
\* active in the GUI, for every database (gui.go:126-138).
THEOREM SelectionFollowsGui == Spec => []GuiSelectionKept
<1>1. CommandsInv => GuiSelectionKept
  BY DEF CommandsInv, ActiveInv
<1> QED BY <1>1, CommandsSafe, PTL

(***************************************************************************)
(* The steps a command has left run out, which is the safety half of       *)
(* CommandsEnd: no command goes back, or round in circles.                 *)
(***************************************************************************)
\* The longest way from each step to the end of the process.
Remaining ==
    [idle |-> 0, exit |-> 1, applied |-> 1, select |-> 2, review |-> 2, store |-> 2,
     keep |-> 2, call |-> 2, follow |-> 2, query |-> 3, parse |-> 3, fetch |-> 4,
     read |-> 4, start |-> 5, dial |-> 6]

Rank == CASE at = "plan"   -> Len(Rows) + 4
          [] at = "import" -> Cardinality(left) + 3
          [] OTHER         -> Remaining[at]

StepsRunOut == [][/\ Step \/ Reap => Rank' < Rank
                  /\ at # "idle" => Rank' <= Rank]_vars

\* The rows left are some of the rows of the database (gui.go:46-93).
LEMMA RowsLeft ==
    ASSUME NEW S \in SUBSET DOMAIN Rows
    PROVE  /\ IsFiniteSet(S) /\ Len(Rows) \in Nat
           /\ Cardinality(S) \in 0 .. Len(Rows)
           /\ \A k \in S : Cardinality(S \ {k}) = Cardinality(S) - 1
<1>1. Len(Rows) \in Nat /\ DOMAIN Rows = 1 .. Len(Rows)
  BY RowsAssumption
<1>2. IsFiniteSet(1 .. Len(Rows)) /\ Cardinality(1 .. Len(Rows)) = Len(Rows)
  BY <1>1, FS_Interval
<1>3. IsFiniteSet(S) /\ Cardinality(S) <= Len(Rows)
  BY <1>1, <1>2, FS_Subset
<1>4. Cardinality(S) \in Nat
  BY <1>3, FS_CardinalityType
<1> QED BY <1>1, <1>3, <1>4, FS_RemoveElement

\* The number of steps left is a number, and bounded by the size of the database.
LEMMA RankBounded == TypeOK => /\ Rank \in 0 .. Len(Rows) + 6
                               /\ at # "idle" => Rank >= 1
<1> SUFFICES ASSUME TypeOK PROVE Rank \in 0 .. Len(Rows) + 6 /\ (at # "idle" => Rank >= 1)
  OBVIOUS
<1>1. Len(Rows) \in Nat /\ Cardinality(left) \in 0 .. Len(Rows)
  BY RowsLeft DEF TypeOK
<1>2. CASE at \in {"plan", "import"}
  BY <1>1, <1>2 DEF Rank
<1>3. CASE at \notin {"plan", "import"}
  <2>1. Rank = Remaining[at]
    BY <1>3 DEF Rank
  <2>2. Remaining[at] \in 0 .. 6 /\ (at # "idle" => Remaining[at] >= 1)
    BY <1>3 DEF TypeOK, Remaining
  <2> QED BY <1>1, <2>1, <2>2
<1> QED BY <1>2, <1>3

\* The import takes one row after the other (gui.go:95-140).
LEMMA MigrateAdvances ==
    ASSUME TypeOK, TypeOK', Migrate
    PROVE  Rank' < Rank
<1>1. /\ Len(Rows) \in Nat
      /\ Cardinality(left) \in 0 .. Len(Rows) /\ Cardinality(left') \in 0 .. Len(Rows)
      /\ \A k \in left : Cardinality(left \ {k}) = Cardinality(left) - 1
  BY RowsLeft DEF TypeOK
<1> USE DEF Rank, Remaining
<1>2. CASE ReadPlan
  BY <1>1, <1>2 DEF ReadPlan, Exit
<1>3. CASE ImportFails
  BY <1>1, <1>3 DEF ImportFails
<1>4. CASE Import
  BY <1>1, <1>4 DEF Import
<1>5. CASE SaveImported
  BY <1>1, <1>5 DEF SaveImported, Report
<1>6. CASE SelectActive
  BY <1>6 DEF SelectActive, Report
<1> QED BY <1>2, <1>3, <1>4, <1>5, <1>6 DEF Migrate

\* Each step of a command leaves fewer of them (main.go:141-270, cli/profile.go:93-191).
LEMMA StepAdvances ==
    ASSUME TypeOK, TypeOK', Step
    PROVE  Rank' < Rank
<1> USE DEF Rank, Remaining
<1>1. CASE StoreCommand
  BY <1>1 DEF StoreCommand, Store, Exit
<1>2. CASE Dial
  BY <1>2 DEF Dial, WithCore, Exit
<1>3. CASE StartCore
  BY <1>3 DEF StartCore, WithCore, Exit
<1>4. CASE ReadDocument
  BY <1>4 DEF ReadDocument, Exit
<1>5. CASE Fetch
  BY <1>5 DEF Fetch, Exit
<1>6. CASE Parse
  BY <1>6 DEF Parse, Exit
<1>7. CASE Keep
  BY <1>7 DEF Keep, Store, Exit
<1>8. CASE Connect
  BY <1>8 DEF Connect, Exit
<1>9. CASE Order
  BY <1>9 DEF Order, Exit
<1>10. CASE Query
  BY <1>10 DEF Query, Exit
<1>11. CASE Follow
  BY <1>11 DEF Follow, Exit
<1>12. CASE Migrate
  BY <1>12, MigrateAdvances
<1> QED BY <1>1, <1>2, <1>3, <1>4, <1>5, <1>6, <1>7, <1>8, <1>9, <1>10, <1>11, <1>12
        DEF Step

\* A command takes at most six steps and the number of rows of the GUI's database,
\* whatever the core and the file system do: every step it takes leaves fewer, and
\* nothing adds to them (main.go:90-270).
THEOREM CommandsAdvance == Spec => StepsRunOut /\ [](Rank \in 0 .. Len(Rows) + 6)
<1>0. (TypeOK => Rank \in 0 .. Len(Rows) + 6 /\ (at # "idle" => Rank >= 1))'
  BY RankBounded, PTL
<1>1. ASSUME TypeOK, TypeOK', [Next]_vars
      PROVE  [/\ Step \/ Reap => Rank' < Rank
              /\ at # "idle" => Rank' <= Rank]_vars
  <2>1. Rank \in Int /\ Rank' \in Int
    <3>1. Len(Rows) \in Nat
      BY RowsLeft
    <3> QED BY <1>0, <1>1, <3>1, RankBounded
  <2>2. ASSUME Step PROVE Rank' < Rank
    BY <1>1, <2>2, StepAdvances
  <2>3. ASSUME Reap PROVE Rank' < Rank
    BY <2>3 DEF Reap, Rank, Remaining
  <2>4. ASSUME Kill PROVE Rank' <= Rank
    <3>1. Rank' = 1
      BY <2>4 DEF Kill, Exit, Rank, Remaining
    <3> QED BY <1>1, <2>1, <2>4, <3>1, RankBounded DEF Kill
  <2>5. ASSUME CoreChanges PROVE Rank' <= Rank
    BY <2>1, <2>5 DEF CoreChanges, migrationVars, importVars, Rank
  <2>6. ASSUME NEW c \in AllCommands, NEW i \in Ids \cup {NoId}, NEW a \in BOOLEAN, Run(c, i, a)
        PROVE  at = "idle"
    BY <2>6 DEF Run
  <2> QED BY <1>1, <2>1, <2>2, <2>3, <2>4, <2>5, <2>6 DEF Next
<1>2. TypeOK => Rank \in 0 .. Len(Rows) + 6
  BY RankBounded
<1> QED BY <1>1, <1>2, Typed, PTL DEF Spec, StepsRunOut
================================================================================
