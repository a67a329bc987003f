----------------------------- MODULE ProfileStore -----------------------------
(***************************************************************************)
(* The client-owned profile list of internal/profile/profile.go, as values *)
(* and as operators on values.  Nothing here has state: StoreFile gives    *)
(* the list a memory and a file.                                           *)
(*                                                                         *)
(* A Store is a record.  Its profiles are a function from every possible   *)
(* id to the profile stored under it, or NoProfile: the order of the list  *)
(* only matters to the cursor of the dashboard, and ids are 64 random bits *)
(* (newID), taken here never to collide within a list.                     *)
(***************************************************************************)
EXTENDS Naturals

CONSTANTS
    Ids,        \* the ids newID can produce
    Names,      \* display names
    Configs,    \* config documents, the Content of a profile
    NoId,       \* the empty ActiveID
    NoConfig,   \* the empty Content
    NoProfile   \* no profile is stored under an id

ASSUME StoreAssumption ==
    /\ NoId \notin Ids
    /\ NoConfig \notin Configs
    /\ NoProfile \notin [name : Names, content : Configs \cup {NoConfig}]

\* Profile, down to the fields the store's own operations tell apart.
Profile == [name : Names, content : Configs \cup {NoConfig}]

Stores == [active   : Ids \cup {NoId},
           auto     : BOOLEAN,
           profiles : [Ids -> Profile \cup {NoProfile}]]

\* What Open returns when there is no file yet.
EmptyStore == [active   |-> NoId,
               auto     |-> FALSE,
               profiles |-> [i \in Ids |-> NoProfile]]

\* The profiles of the list: List and Get range over these.
Present(s) == {i \in Ids : s.profiles[i] # NoProfile}

\* Active: the active profile, if ActiveID is set and names a profile.
HasActive(s) == s.active \in Present(s)

(***************************************************************************)
(* The mutations.  Each operation is a record; Accepted is the check the   *)
(* code makes before it touches the list ("profile %q not found"), and     *)
(* Applied the list after the in-memory part, before Save.                 *)
(***************************************************************************)
Operations ==
    [op : {"add"}, id : Ids, profile : [name : Names, content : Configs],
     activate : BOOLEAN]
      \cup [op : {"setActive", "delete"}, id : Ids]
      \cup [op : {"rename"}, id : Ids, name : Names]
      \cup [op : {"refresh"}, id : Ids, content : Configs]
      \cup [op : {"toggleAutoStart"}]

Accepted(o, s) ==
    CASE o.op = "add"             -> o.id \notin Present(s)
      [] o.op = "toggleAutoStart" -> TRUE
      [] OTHER                    -> o.id \in Present(s)

Add(s, id, profile, setActive) ==
    [s EXCEPT !.profiles[id] = profile,
              !.active = IF setActive THEN id ELSE @]

SetActive(s, id) == [s EXCEPT !.active = id]

\* (For a mutant of Delete: it forgets the selection.)
DeleteOnly(s, id) == [s EXCEPT !.profiles[id] = NoProfile]

\* "If it was active, the selection is cleared."
Delete(s, id) ==
    [s EXCEPT !.profiles[id] = NoProfile,
              !.active = IF @ = id THEN NoId ELSE @]

Rename(s, id, name) == [s EXCEPT !.profiles[id].name = name]

Update(s, id, profile) == [s EXCEPT !.profiles[id] = profile]

ToggleAutoStart(s) == [s EXCEPT !.auto = ~ @]

Applied(o, s) ==
    CASE o.op = "add"             -> Add(s, o.id, o.profile, o.activate)
      [] o.op = "setActive"       -> SetActive(s, o.id)
      [] o.op = "delete"          -> Delete(s, o.id)
      [] o.op = "rename"          -> Rename(s, o.id, o.name)
      [] o.op = "refresh"         -> Update(s, o.id, [s.profiles[o.id] EXCEPT !.content = o.content])
      [] o.op = "toggleAutoStart" -> ToggleAutoStart(s)

(***************************************************************************)
(* The JSON form of a Store.  Content carries the tag json:"-": it is not  *)
(* written, so what Open decodes has an empty Content in every profile.    *)
(***************************************************************************)
WithoutContent(p) == IF p = NoProfile THEN NoProfile
                                      ELSE [p EXCEPT !.content = NoConfig]

Persisted(s) == [s EXCEPT !.profiles = [i \in Ids |-> WithoutContent(s.profiles[i])]]

\* The selection is empty or names a profile of the list.
WellFormed(s) == s.active \in Present(s) \cup {NoId}
===============================================================================
