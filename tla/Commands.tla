-------------------------------- MODULE Commands -------------------------------
(***************************************************************************)
(* The command line: cmd/hiddify-tui/main.go (run and the run... functions *)
(* it dispatches to), the commands of internal/cli, openCore, and the      *)
(* import of Migration as one more command.                                *)
(*                                                                         *)
(* Commands are run one after the other, each in a process of its own that *)
(* opens the store, may need the core, and ends with one of the exit codes *)
(* docs/operations.md lists.  Around them the core comes and goes, stops   *)
(* answering, and the user may kill a command at any step.  What processes *)
(* that run at the same time do to the file is the subject of StoreFile,   *)
(* and how the core is spawned of CoreLauncher.                            *)
(***************************************************************************)
EXTENDS Migration

CONSTANT
    Valid      \* the config documents the core's Parse accepts

ASSUME ValidAssumption == Valid \subseteq Configs

VARIABLES
    job,     \* the command, the profile ID it was given, and --activate
    doc,     \* the document it has downloaded or read
    core,    \* "absent", "up", or "hung": it listens and does not answer
    before,  \* the file when the command started
    origin,  \* origin[i]: the document a command, other than an import, has
             \* last stored for profile i
    sent     \* the profile and the document the process has handed to the core

jobVars == <<job, doc, before, origin, sent>>
vars    == <<migrationVars, jobVars, core>>

(***************************************************************************)
(* The commands, by what they need.                                        *)
(***************************************************************************)
StoreCommands == {"activate", "rename", "delete", "show", "list"}
Additions     == {"add", "addLocal"}
Profiles      == Additions \cup {"refresh"}
Connections   == {"connect", "restart"}
Orders        == {"disconnect", "select", "test", "set", "validate"}
Queries       == {"status", "outbounds"}
Followers     == {"watch", "logs"}
Imports       == {"migrate", "dryRun"}
CoreCommands  == Profiles \cup Connections \cup Orders \cup Queries \cup Followers
                   \cup {"unknown"}
AllCommands   == StoreCommands \cup CoreCommands \cup Imports \cup {"misuse"}

Codes == {"none", "ok", "usage", "unavailable", "rejected", "unprinted", "killed"}

NothingSent == [id |-> NoId, content |-> NoConfig]

NoJob == [cmd |-> "none", id |-> NoId, activate |-> FALSE]

TypeOK ==
    /\ file \in Stores
    /\ mem  \in Stores
    /\ at   \in {"idle", "exit", "applied", "plan", "review", "import", "select", "store",
                 "dial", "start", "read", "fetch", "parse", "keep", "call", "query", "follow"}
    /\ code \in Codes
    /\ left \subseteq DOMAIN Rows
    /\ imported \subseteq [row : DOMAIN Rows, id : Ids]
    /\ warned   \subseteq DOMAIN Rows \cup {0}
    /\ activeId \in Ids \cup {NoId}
    /\ job  \in [cmd : AllCommands, id : Ids \cup {NoId}, activate : BOOLEAN] \cup {NoJob}
    /\ doc  \in Configs \cup {NoConfig}
    /\ core \in {"absent", "up", "hung"}
    /\ before \in Stores
    /\ origin \in [Ids -> Configs \cup {NoConfig}]
    /\ sent   \in [id : Ids \cup {NoId}, content : Configs \cup {NoConfig}]

Init ==
    /\ file   = EmptyStore /\ mem = EmptyStore /\ before = EmptyStore
    /\ at     = "idle" /\ code = "none"
    /\ left   = {} /\ imported = {} /\ warned = {} /\ activeId = NoId
    /\ job    = NoJob
    /\ doc    = NoConfig
    /\ core   \in {"absent", "up"}
    /\ origin = [i \in Ids |-> NoConfig]
    /\ sent   = NothingSent

Unmigrated == UNCHANGED importVars

(***************************************************************************)
(* Starting and ending a process                                           *)
(***************************************************************************)
\* Bound: a command that adds profiles is started only while ids are left.
HasRoom(c) ==
    LET free(S) == Cardinality(S \ Present(file))
        rows(b) == Cardinality({k \in DOMAIN Rows : Remote(k) = b /\ ~ Skipped(k, LocalRows)})
    IN  /\ c = "add"      => free(RemoteIds) > 0
        /\ c = "addLocal" => free(Ids \ RemoteIds) > 0
        /\ c = "migrate"  => /\ free(RemoteIds) >= rows(TRUE)
                             /\ free(Ids \ RemoteIds) >= rows(FALSE)

\* Where run goes once the store is open: three groups of commands do without
\* a core.
First(c) == CASE c \in StoreCommands -> "store"
              [] c = "migrate"       -> "plan"
              [] c = "dryRun"        -> "review"
              [] OTHER               -> "dial"

\* run up to the store: of the commands that do without a core, the flags and
\* the number of arguments are checked before they do anything.
Run(c, i, a) ==
    /\ at = "idle"
    /\ HasRoom(c)
    /\ job'    = [cmd |-> c, id |-> i, activate |-> a]
    /\ before' = file
    /\ mem'    = file
    /\ \/ c = "misuse" /\ Exit("usage")
       \/ c # "misuse" /\ at' = First(c) /\ UNCHANGED code
       \/ Exit("rejected")                           \* Open fails
    /\ UNCHANGED <<file, doc, origin, sent, core>> /\ Unmigrated

\* The process has exited; what it held is gone.
Reap ==
    /\ at \in {"exit", "applied"}
    /\ at' = "idle" /\ code' = "none"
    /\ mem' = EmptyStore /\ before' = EmptyStore
    /\ left' = {} /\ imported' = {} /\ warned' = {} /\ activeId' = NoId
    /\ job' = NoJob /\ doc' = NoConfig /\ sent' = NothingSent
    /\ UNCHANGED <<file, origin, core>>

\* At any step, the last one included.
Kill ==
    /\ at # "idle" /\ code # "killed"
    /\ Exit("killed")
    /\ UNCHANGED <<file, mem, jobVars, core>> /\ Unmigrated

(***************************************************************************)
(* Saving, which each mutating command does last                           *)
(***************************************************************************)
\* (For a mutant of Store: the error of Save is dropped.)
StoreUnchecked(s, codes) ==
    /\ mem' = s
    /\ \E c \in codes : Exit(c)
    /\ file' = Persisted(s) \/ UNCHANGED file

\* (For a mutant of Store: it writes the file in place.)
StoreInPlace(s, codes) ==
    /\ mem' = s
    /\ file' = Persisted(s)
    /\ \E c \in codes \cup {"rejected"} : Exit(c)

\* Save puts the whole list into the file or, with an error, nothing.  The codes
\* are those the command may end with once it has saved.
Store(s, codes) ==
    /\ mem' = s
    /\ \/ file' = Persisted(s) /\ \E c \in codes : Exit(c)
       \/ UNCHANGED file /\ Exit("rejected")

\* The name profile rename is given.
NewName == CHOOSE n \in Names : TRUE

\* The profile commands that work on the store alone.
Operation ==
    CASE job.cmd = "activate" -> [op |-> "setActive", id |-> job.id]
      [] job.cmd = "delete"   -> [op |-> "delete", id |-> job.id]
      [] job.cmd = "rename"   -> [op |-> "rename", id |-> job.id, name |-> NewName]

StoreCommand ==
    /\ at = "store"
    /\ IF job.cmd = "list" \/ (job.cmd = "show" /\ job.id \in Present(mem))
          THEN (\E c \in Printed : Exit(c)) /\ UNCHANGED <<file, mem, origin>>
       ELSE IF job.cmd = "show" \/ ~ Accepted(Operation, mem)
          THEN Exit("rejected") /\ UNCHANGED <<file, mem, origin>>
       ELSE /\ Store(Applied(Operation, mem), {"ok"})
            /\ origin' = IF job.cmd = "delete" /\ code' = "ok"
                         THEN [origin EXCEPT ![job.id] = NoConfig] ELSE origin
    /\ UNCHANGED <<job, doc, before, sent, core>> /\ Unmigrated

(***************************************************************************)
(* openCore                                                                *)
(***************************************************************************)
\* What follows when there is a client; an unknown command, or one with wrong
\* arguments, is found out only now.
WithCore ==
    \/ job.cmd \in {"add", "refresh"}         /\ at' = "fetch" /\ UNCHANGED code
    \/ job.cmd = "addLocal"                   /\ at' = "read"  /\ UNCHANGED code
    \/ job.cmd \in Connections \cup Orders    /\ at' = "call"  /\ UNCHANGED code
    \/ job.cmd \in Queries \cup Followers     /\ at' = "query" /\ UNCHANGED code
    \/ job.cmd = "unknown"                    /\ Exit("usage")

\* Attach to a core that answers before the timeout; start one otherwise, unless
\* --address names another address than the default one, or there is no binary.
Dial ==
    /\ at = "dial"
    /\ \/ core = "up" /\ WithCore
       \/ core # "up" /\ Exit("unavailable")
       \/ core # "up" /\ at' = "start" /\ UNCHANGED code
    /\ UNCHANGED <<file, mem, jobVars, core>> /\ Unmigrated

\* Launcher.Start: it refuses an address in use, and may fail for reasons of
\* its own, in which case it leaves no core behind.
StartCore ==
    /\ at = "start"
    /\ \/ core = "absent" /\ core' = "up" /\ WithCore
       \/ Exit("unavailable") /\ UNCHANGED core
    /\ UNCHANGED <<file, mem, jobVars>> /\ Unmigrated

(***************************************************************************)
(* profile add, add-file, add-stdin, refresh                               *)
(***************************************************************************)
\* add-file of a file that cannot be opened is a usage error.
ReadDocument ==
    /\ at = "read"
    /\ \/ \E c \in Configs : doc' = c /\ at' = "parse" /\ UNCHANGED code
       \/ (Exit("usage") \/ Exit("rejected")) /\ UNCHANGED doc
    /\ UNCHANGED <<file, mem, job, before, origin, sent, core>> /\ Unmigrated

\* Only a remote profile of the store is refreshed; the download fails or ends
\* within the timeout of the command.
Fetch ==
    /\ at = "fetch"
    /\ \/ /\ job.cmd = "refresh" => job.id \in Present(mem) \cap RemoteIds
          /\ \E c \in Configs : doc' = c
          /\ at' = "parse" /\ UNCHANGED code
       \/ Exit("rejected") /\ UNCHANGED doc
    /\ UNCHANGED <<file, mem, job, before, origin, sent, core>> /\ Unmigrated

\* (For a mutant of Parse: refresh trusts what it has downloaded.)
ParseAdditions ==
    /\ at = "parse"
    /\ \/ /\ job.cmd = "refresh" \/ (core = "up" /\ doc \in Valid)
          /\ at' = "keep" /\ UNCHANGED code
       \/ Exit("rejected")
    /\ UNCHANGED <<file, mem, jobVars, core>> /\ Unmigrated

\* The core has to be there still, answer in time and accept the document.
Parse ==
    /\ at = "parse"
    /\ \/ core = "up" /\ doc \in Valid /\ at' = "keep" /\ UNCHANGED code
       \/ Exit("rejected")
    /\ UNCHANGED <<file, mem, jobVars, core>> /\ Unmigrated

\* The document goes into the store.  An addition prints the id it was given;
\* the word refresh prints may get lost.
Keep ==
    /\ at = "keep"
    /\ \E i \in IF job.cmd = "refresh" THEN {job.id} ELSE NewIds(job.cmd = "add") :
       \E n \in Names :
          /\ IF job.cmd = "refresh"
                THEN Store(Update(mem, i, [mem.profiles[i] EXCEPT !.content = doc]), {"ok"})
                ELSE Store(Add(mem, i, [name |-> n, content |-> doc], job.activate), Printed)
          /\ job'    = [job EXCEPT !.id = i]
          /\ origin' = IF code' \in Printed THEN [origin EXCEPT ![i] = doc] ELSE origin
    /\ UNCHANGED <<doc, before, sent, core>> /\ Unmigrated

(***************************************************************************)
(* Requests to the core                                                    *)
(***************************************************************************)
\* activeOr: the profile connect was given, or the active one.
Target == IF job.cmd = "connect" /\ job.id # NoId THEN job.id ELSE mem.active

\* Connect and Restart hand the document of the target to the core.  It may
\* refuse it; without a target, or a core that answers, nothing is sent.
Connect ==
    /\ at = "call" /\ job.cmd \in Connections
    /\ \/ /\ core = "up" /\ Target \in Present(mem)
          /\ sent' = [id |-> Target, content |-> mem.profiles[Target].content]
          /\ Exit("ok") \/ Exit("rejected")
       \/ (core # "up" \/ Target \notin Present(mem)) /\ Exit("rejected") /\ UNCHANGED sent
    /\ UNCHANGED <<file, mem, job, doc, before, origin, core>> /\ Unmigrated

\* One call with a deadline: disconnect, outbound select and test, settings,
\* whose file may be missing.
Order ==
    /\ at = "call" /\ job.cmd \in Orders
    /\ \/ core = "up" /\ Exit("ok")
       \/ Exit("rejected")
       \/ job.cmd \in {"set", "validate"} /\ Exit("usage")
    /\ UNCHANGED <<file, mem, jobVars, core>> /\ Unmigrated

\* (For a mutant of Query: the call has no deadline.)
QueryWaits ==
    /\ at = "query"
    /\ \/ core = "up" /\ job.cmd \in Queries /\ \E c \in Printed : Exit(c)
       \/ core # "absent" /\ job.cmd \in Followers /\ at' = "follow" /\ UNCHANGED code
       \/ core = "absent" /\ Exit("unavailable")
    /\ UNCHANGED <<file, mem, jobVars, core>> /\ Unmigrated

\* status and outbound list ask once, status --watch and logs open a stream.
Query ==
    /\ at = "query"
    /\ \/ core = "up" /\ job.cmd \in Queries /\ \E c \in Printed : Exit(c)
       \/ core # "absent" /\ job.cmd \in Followers /\ at' = "follow" /\ UNCHANGED code
       \/ Exit("unavailable")
    /\ UNCHANGED <<file, mem, jobVars, core>> /\ Unmigrated

\* The stream has ended, with the core that served it, or a line of it could not
\* be written.
Follow ==
    /\ at = "follow"
    /\ (core = "absent" /\ Exit("ok")) \/ Exit("unprinted")
    /\ UNCHANGED <<file, mem, jobVars, core>> /\ Unmigrated

(***************************************************************************)
(* The core, as its users find it                                          *)
(***************************************************************************)
CoreChanges ==
    /\ \/ core = "absent" /\ core' = "up"
       \/ core = "up"     /\ core' \in {"absent", "hung"}
       \/ core = "hung"   /\ core' = "absent"
    /\ UNCHANGED <<migrationVars, jobVars>>

Step ==
    \/ StoreCommand
    \/ Dial
    \/ StartCore
    \/ ReadDocument
    \/ Fetch
    \/ Parse
    \/ Keep
    \/ Connect
    \/ Order
    \/ Query
    \/ Follow
    \/ Migrate /\ UNCHANGED <<jobVars, core>>

Next ==
    \/ \E c \in AllCommands, i \in Ids \cup {NoId}, a \in BOOLEAN :
          /\ (i # NoId) = (c \in {"activate", "rename", "delete", "show", "refresh"})
                \/ c = "connect"
          /\ a => c \in Additions
          /\ Run(c, i, a)
    \/ Step
    \/ Reap
    \/ Kill
    \/ CoreChanges

Spec == Init /\ [][Next]_vars

\* The process takes its next step: every call to the core or of a download has a
\* deadline (main.go:141,148,169,213,263; subscription.go:37), or ends with its
\* stream.  Of add-stdin this assumes that standard input ends: it is read to its
\* end (io.ReadAll, main.go:296), and nothing bounds that.
FairSpec == Spec /\ WF_vars(Step) /\ WF_vars(Reap)

(***************************************************************************)
(* Properties                                                              *)
(***************************************************************************)
\* Exit code 0 of the profile commands says what the file now holds: the profile
\* that was activated is selected, the deleted one is gone and not selected, the
\* renamed one has its new name, the added one is new, and selected if --activate
\* was given, and the refreshed one is there under the name it had.  The file does
\* not hold the documents (Content has the tag json:"-", profile.go:45), so of these
\* it says nothing.
FileSaysSo ==
    /\ job.cmd = "activate"    => job.id \in Present(file) /\ file.active = job.id
    /\ job.cmd = "delete"      => job.id \notin Present(file) /\ file.active # job.id
    /\ job.cmd = "rename"      => /\ job.id \in Present(file)
                                  /\ file.profiles[job.id].name = NewName
    /\ job.cmd \in Additions   => /\ job.id \in Present(file) \ Present(before)
                                  /\ job.activate => file.active = job.id
    /\ job.cmd = "refresh"     => /\ job.id \in Present(file) \cap Present(before)
                                  /\ file.profiles[job.id].name = before.profiles[job.id].name

\* Exit code 0 of activate, delete, rename, add and refresh means FileSaysSo, and of
\* connect and restart that this process has handed the core the profile that was
\* named, or the selected one: which profile, that is, and not its document, which
\* may be empty (SendsStoredDocument).  It says nothing here of the commands that
\* only read or only ask the core (select, set, ...), and an import ends with it
\* although a save failed, with a warning (EveryRowReported).
OkMeansDone ==
    at = "exit" /\ code = "ok" =>
        /\ FileSaysSo
        /\ job.cmd \in Connections => sent.id = IF job.id = NoId THEN file.active ELSE job.id

\* The exit codes 2, 3 and 4 mean that the file is as it was, whichever of the
\* steps of the command failed, unless all that failed was to print the result
\* of an addition that is saved by then (cli/profile.go:111-115, 196-198).
FailureChangesNothing ==
    at = "exit" /\ code \in {"usage", "unavailable", "rejected"} => file = before

\* "add/refresh validate via Parse" (main.go:256): no add and no refresh has stored
\* a document the core did not accept, at whatever step the core went away.  Imports
\* are left out of origin: gui.go stores what it finds in the GUI's files unparsed,
\* although core-compatibility.md:23 names imports among what Parse validates.
OnlyValidated == \A i \in Ids : origin[i] \in Valid \cup {NoConfig}

\* Every command ends, whatever the core does, but those that follow a stream.
CommandsEnd ==
    (at # "idle" /\ job.cmd \notin Followers) ~> (at = "idle")

\* "the active profile's content is handed to Start" (core-compatibility.md:31):
\* a core is sent the document the profile was added or refreshed with.
SendsStoredDocument ==
    [][sent' # sent /\ sent' # NothingSent /\ origin[sent'.id] # NoConfig => sent'.content = origin[sent'.id]]_vars
================================================================================
