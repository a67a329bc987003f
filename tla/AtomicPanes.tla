------------------------------ MODULE AtomicPanes ------------------------------
(***************************************************************************)
(* What the profiles pane promises its user (internal/tui/dashboard.go,    *)
(* internal/profile/profile.go): a request concerns a profile that was on  *)
(* the screen when the key was pressed; it takes effect at one moment and  *)
(* once, or not at all; nothing else changes the list or the selection;    *)
(* and the screen shows no profile there has never been.                   *)
(*                                                                         *)
(* How the operations range over the list, in which order they change it   *)
(* and the selection, the copying and the cursor are Panes'.               *)
(***************************************************************************)
EXTENDS Naturals, Sequences, SequencesExt

CONSTANTS Ids, NoId

VARIABLES
    list,     \* the profiles
    active,   \* the one selected, or NoId
    known,    \* those there are or have been
    screen,   \* those on the screen
    requests  \* what has been asked for and has not taken effect

vars == <<list, active, known, screen, requests>>

Init ==
    /\ list \in Seq(Ids) /\ IsInjective(list)
    /\ active \in ToSet(list) \cup {NoId}
    /\ known = ToSet(list) /\ screen = ToSet(list)
    /\ requests = {}

Request(k, i) == [kind |-> k, id |-> i]

\* The user has one request at a time; d and enter ask for one on the screen.
Ask ==
    /\ requests = {}
    /\ requests' \in {{Request(k, i)} : k \in {"delete", "activate"}, i \in screen}
                       \cup {{Request("add", i)} : i \in Ids}
    /\ UNCHANGED <<list, active, known, screen>>

\* It has its effect now.
Takes(r) ==
    /\ r \in requests /\ requests' = {}
    /\ UNCHANGED screen

\* Delete: the profile goes, the others stay in their order, and "if it was
\* active, the selection is cleared".
Delete(r) ==
    /\ r.kind = "delete" /\ Takes(r)
    /\ \E n \in DOMAIN list : list[n] = r.id /\ list' = RemoveAt(list, n)
    /\ active' = IF active = r.id THEN NoId ELSE active
    /\ UNCHANGED known

Activate(r) ==
    /\ r.kind = "activate" /\ Takes(r)
    /\ r.id \in ToSet(list) /\ active' = r.id
    /\ UNCHANGED <<list, known>>

\* Add puts a new profile at the end and does not select it.
Add(r) ==
    /\ r.kind = "add" /\ Takes(r)
    /\ r.id \notin known /\ known' = known \cup {r.id}
    /\ list' = Append(list, r.id)
    /\ UNCHANGED active

\* A profile that is gone already cannot be deleted or selected; a new one may not
\* be available, or not be accepted.
Drop(r) ==
    /\ Takes(r)
    /\ r.kind = "add" \/ r.id \notin ToSet(list)
    /\ UNCHANGED <<list, active, known>>

Refresh ==
    /\ screen' \in SUBSET known
    /\ UNCHANGED <<list, active, known, requests>>

Next ==
    \/ Ask
    \/ \E r \in requests : Delete(r) \/ Activate(r) \/ Add(r) \/ Drop(r)
    \/ Refresh

Spec == Init /\ [][Next]_vars
================================================================================
