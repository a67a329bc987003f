------------------------------- MODULE Migration -------------------------------
(***************************************************************************)
(* The import of the profiles of the Hiddify GUI (internal/migrate/gui.go):*)
(* ReadPlan decides which rows of the GUI's database are importable, Apply *)
(* adds them to the profile store, saves it once and then selects the      *)
(* profile that was active in the GUI.                                     *)
(*                                                                         *)
(* The module is the part of a process that runs after the store has been  *)
(* opened; Commands starts it, ends it, and kills it at any step.  A save  *)
(* is one step here: StoreFile takes it apart.                             *)
(***************************************************************************)
EXTENDS ProfileStore, Integers, Sequences, FiniteSets

CONSTANTS
    Rows,       \* profile_entries, in rowid order
    Urls,       \* subscription URLs
    NoUrl,      \* a NULL or empty url
    RemoteIds   \* the ids given to remote profiles: an id is never reused, so
                \* the kind and the URL of a profile hang on its id

ASSUME RowsAssumption ==
    /\ NoUrl \notin Urls
    /\ Rows \in Seq([kind   : {"remote", "local", "other"},
                     url    : Urls \cup {NoUrl},
                     active : BOOLEAN])
ASSUME RemoteIdsAssumption == RemoteIds \subseteq Ids

VARIABLES
    file,     \* the store at Path, as Open would decode it
    mem,      \* the *Store of the process
    at,       \* the next step of the process; "idle": none is running
    code,     \* its exit code, "none" until it ends
    left,     \* rows of the plan not yet imported
    imported, \* Result.Imported: pairs of a row and the id of its profile
    warned,   \* Result.Warnings: rows, and 0 for a warning about no row
    activeId  \* activeID: the profile to select after the import

importVars    == <<left, imported, warned, activeId>>
migrationVars == <<file, mem, at, code, importVars>>

Exit(c) == at' = "exit" /\ code' = c

\* The exit code is 0, or 4 if the output of a command that has done its work
\* could not be written: "unprinted".
Printed == {"ok", "unprinted"}

(***************************************************************************)
(* ReadPlan                                                                *)
(***************************************************************************)
LocalRows == {k \in DOMAIN Rows : Rows[k].kind = "local"}

Remote(k) == Rows[k].kind = "remote"

\* A remote row whose URL an earlier one has: seen holds the URLs met so far.
Duplicate(k) == \E j \in 1..(k - 1) : Remote(j) /\ Rows[j].url = Rows[k].url

\* (For a mutant of Skipped: it compares the row with the one before only.)
SkippedAdjacent(k, readable) ==
    \/ Remote(k) /\ (Rows[k].url = NoUrl \/ (k > 1 /\ Rows[k - 1].url = Rows[k].url))
    \/ k \in LocalRows \ readable
    \/ Rows[k].kind = "other"

\* The rows ReadPlan leaves out, each with a warning; readable are the local
\* rows whose file in the configs directory can be read.
Skipped(k, readable) ==
    \/ Remote(k) /\ (Rows[k].url = NoUrl \/ Duplicate(k))
    \/ k \in LocalRows \ readable
    \/ Rows[k].kind = "other"

Plan(readable) == {k \in DOMAIN Rows : ~ Skipped(k, readable)}

\* The plan is printed ("review") or applied; the database may be unreadable.
ReadPlan ==
    /\ at \in {"plan", "review"}
    /\ \/ \E readable \in SUBSET LocalRows :
            /\ left'   = Plan(readable)
            /\ warned' = {k \in DOMAIN Rows : Skipped(k, readable)}
            /\ IF at = "plan" THEN at' = "import" /\ UNCHANGED code
                              ELSE \E c \in Printed : Exit(c)
       \/ Exit("rejected") /\ UNCHANGED <<left, warned>>
    /\ UNCHANGED <<file, mem, imported, activeId>>

(***************************************************************************)
(* Apply                                                                   *)
(***************************************************************************)
\* What newID can return for a profile of that kind.
NewIds(remote) == (IF remote THEN RemoteIds ELSE Ids \ RemoteIds) \ Present(mem)

\* Row k is the next one of the plan.
Due(k) == k \in left /\ \A j \in left : k <= j

\* (For a mutant of ImportFails: the failure is not reported.)
ImportFailsSilently ==
    /\ at = "import"
    /\ \E k \in left : Due(k) /\ Remote(k) /\ left' = left \ {k}
    /\ UNCHANGED <<file, mem, at, code, imported, warned, activeId>>

\* FetchRemote fails: the row is reported and left out.
ImportFails ==
    /\ at = "import"
    /\ \E k \in left :
          /\ Due(k) /\ Remote(k)
          /\ left'   = left \ {k}
          /\ warned' = warned \cup {k}
    /\ UNCHANGED <<file, mem, at, code, imported, activeId>>

\* One profile is added, in memory; its content is not shown to the core.
Import ==
    /\ at = "import"
    /\ \E k \in left : \E i \in NewIds(Remote(k)), n \in Names, c \in Configs :
          /\ Due(k)
          /\ left'     = left \ {k}
          /\ mem'      = Add(mem, i, [name |-> n, content |-> c], FALSE)
          /\ imported' = imported \cup {[row |-> k, id |-> i]}
          /\ activeId' = IF Rows[k].active THEN i ELSE activeId
    /\ UNCHANGED <<file, at, code, warned>>

Report(w) == at' = "applied" /\ code' \in Printed /\ warned' = w

\* (For a mutant of SaveImported: the selection is left to the caller.)
SaveImportedOnly ==
    /\ at = "import" /\ left = {}
    /\ \/ file' = Persisted(mem) /\ Report(warned)
       \/ Report(warned \cup {0}) /\ UNCHANGED file
    /\ UNCHANGED <<mem, left, imported, activeId>>

\* (For a mutant of SaveImported: its error is not reported.)
SaveUnreported ==
    /\ at = "import" /\ left = {}
    /\ \/ file' = Persisted(mem)
       \/ UNCHANGED file
    /\ IF activeId = NoId THEN Report(warned)
                          ELSE at' = "select" /\ UNCHANGED <<code, warned>>
    /\ UNCHANGED <<mem, left, imported, activeId>>

\* Save, once for the whole plan.  Its error is a warning of the result: both
\* programs print the result and exit with 0 (hiddify-migrate has 1 where Commands
\* has "rejected" and "unprinted").
SaveImported ==
    /\ at = "import" /\ left = {}
    /\ \/ /\ file' = Persisted(mem)
          /\ IF activeId = NoId THEN Report(warned)
                                ELSE at' = "select" /\ UNCHANGED <<code, warned>>
       \/ Report(warned \cup {0}) /\ UNCHANGED file
    /\ UNCHANGED <<mem, left, imported, activeId>>

\* SetActive: a second save.
SelectActive ==
    /\ at = "select"
    /\ mem' = SetActive(mem, activeId)
    /\ \/ file' = Persisted(mem') /\ Report(warned)
       \/ Report(warned \cup {0}) /\ UNCHANGED file
    /\ UNCHANGED <<left, imported, activeId>>

Migrate == ReadPlan \/ ImportFails \/ Import \/ SaveImported \/ SelectActive

(***************************************************************************)
(* Properties                                                              *)
(***************************************************************************)
\* The result accounts for the GUI's database: every row is either imported,
\* as exactly one profile, or has a warning (gui.go:62-93 and 103-129).
EveryRowReported ==
    at = "applied" =>
        /\ {r.row : r \in imported} \cup (warned \ {0}) = DOMAIN Rows
        /\ {r.row : r \in imported} \cap warned = {}
        /\ Cardinality({r.id : r \in imported}) = Cardinality(imported)

\* A subscription is imported once, whatever the order of the rows
\* ("duplicate remote URL", gui.go:76-79).
NoUrlTwice ==
    \A q, r \in imported :
        Remote(q.row) /\ Remote(r.row) /\ Rows[q.row].url = Rows[r.row].url => q = r

\* A profile the result calls imported is in the file, unless the result also
\* carries the warning of a failed save (gui.go:130-133).
ImportedIsSaved ==
    at = "applied" /\ 0 \notin warned => \A r \in imported : r.id \in Present(file)

ActiveImports == {r \in imported : Rows[r.row].active}

\* An import that reports no failed save leaves the profile selected that was
\* active in the GUI, if it could be imported, across the two saves of Apply and
\* whatever was selected before (gui.go:126-138).
GuiSelectionKept ==
    at = "applied" /\ 0 \notin warned =>
        \A r \in ActiveImports : ActiveImports = {r} => file.active = r.id

\* docs/operations.md:55 says of the exit codes "0 success": an import that ends
\* with 0 has put every row it planned into the file.
OkMeansImported ==
    at = "applied" /\ code = "ok" =>
        {r.row : r \in {q \in imported : q.id \in Present(file)}} = DOMAIN Rows \ warned
================================================================================
