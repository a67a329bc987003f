--------------------------------- MODULE Panes ---------------------------------
(***************************************************************************)
(* The lists of the dashboard (internal/tui/dashboard.go): the panes and   *)
(* their cursors, the form that adds a profile, and the commands that      *)
(* change the profile store.                                               *)
(*                                                                         *)
(* Update handles one message at a time.  A key may start a command, a     *)
(* goroutine of its own that works on the *Store the whole program shares, *)
(* with no lock around it, and posts an actionResult; Update then copies   *)
(* the store's list into m.profiles.  The operations of the store are      *)
(* taken apart here at the points where they read and write the list and   *)
(* the selection; StoreFile has their saves, Dashboard the connection.     *)
(*                                                                         *)
(* A Go slice is a length and an array, and who ranges over one keeps the  *)
(* length it had but reads the array as it is by then.  Delete moves the   *)
(* profiles up in the array itself, one after the other; List reads one    *)
(* after the other.  A string, a length and an element of the array are    *)
(* read and written as a whole here, and there is one array: a larger one  *)
(* that Add moves to is not told apart from the one it was copied from.    *)
(*                                                                         *)
(* Overlaps and Unread say which commands the user lets run at the same    *)
(* time, and which one after the other without waiting for the screen.     *)
(***************************************************************************)
EXTENDS Integers, Sequences, FiniteSets, SequencesExt

CONSTANTS
    Ids,        \* the ids newID can produce
    NoId,       \* the empty ActiveID, and the ID of a zero Profile
    MaxStored,  \* bound: profiles in the store at launch
    MaxChoices, \* bound: outbound choices
    MaxCmds,    \* bound: commands in flight
    Overlaps,   \* pairs {k, l} of kinds that may be in flight together
    Unread      \* pairs {k, l}: a k may start when Update has not yet handled
                \* the result an l has posted

Kinds == {"delete", "activate", "add", "clipboard", "other"}

ASSUME BoundsAssumption ==
    MaxStored \in Nat /\ MaxChoices \in Nat /\ MaxCmds \in Nat \ {0}
ASSUME IdsAssumption == NoId \notin Ids
ASSUME OverlapsAssumption == Overlaps \cup Unread \subseteq SUBSET Kinds

VARIABLES
    array,     \* the array of Store.Profiles, down to the ids
    size,      \* the length of Store.Profiles; what is behind it stays in the array
    active,    \* Store.ActiveID
    shown,     \* m.profiles, copied from the list
    marked,    \* the lines of shown with the marker of the active profile
    pane,      \* the pane in focus
    cursor,    \* m.profileCursor
    outCursor, \* m.outboundCursor
    choices,   \* the number of outboundChoices
    adding,    \* the form is open
    input,     \* what is in the form: "empty", "blank" (spaces) or "text"
    cmd,       \* cmd[s]: the command of slot s
    copying,   \* what List has copied so far, or None
    panicked,  \* an index was out of range
    known,     \* the profiles there were at launch or were added since
    chosen     \* the profiles the user has asked to delete

storeVars  == <<array, size, active>>
screenVars == <<shown, marked, cursor>>
formVars   == <<adding, input>>
vars == <<storeVars, screenVars, pane, outCursor, choices, formVars, cmd, copying,
          panicked, known, chosen>>

Slots == 1..MaxCmds

Lists == Seq(Ids \cup {NoId})

\* Store.Profiles.
list == SubSeq(array, 1, size)

None    == [kind |-> "none"]
Command == [kind : Kinds, id : Ids \cup {NoId}, at : 0..4, seen : Lists, ix : Nat]

\* The copy in the making: the length allocated, the length List ranges over (-1
\* before it does), the lines copied, and those found active.
Copy == [room : Nat, len : Nat \cup {-1}, out : Lists, marks : SUBSET Nat]

TypeOK ==
    /\ array \in Lists /\ size \in 0..Len(array) /\ shown \in Lists
    /\ active \in Ids \cup {NoId} /\ marked \subseteq Nat
    /\ pane \in {"profiles", "outbounds", "logs"}
    /\ cursor \in Nat
    /\ choices \in 0..MaxChoices /\ outCursor \in 0..MaxChoices
    /\ adding \in BOOLEAN /\ panicked \in BOOLEAN
    /\ input \in {"empty", "blank", "text"}
    /\ cmd \in [Slots -> Command \cup {None}]
    /\ copying \in Copy \cup {None}
    /\ known \subseteq Ids /\ chosen \subseteq Ids

\* The lines of a list with the marker of profile a.
MarkedIn(l, a) == {n \in DOMAIN l : l[n] = a}

\* NewDashboard reads the list once; the outbounds come with the stream.
Init ==
    /\ array \in {l \in SeqOf(Ids, MaxStored) : IsInjective(l)}
    /\ size = Len(array)
    /\ active \in ToSet(array) \cup {NoId}
    /\ shown = array /\ marked = MarkedIn(array, active)
    /\ pane = "profiles" /\ cursor = 0 /\ outCursor = 0
    /\ choices = 0
    /\ adding = FALSE /\ input = "empty"
    /\ cmd = [s \in Slots |-> None]
    /\ copying = None
    /\ panicked = FALSE
    /\ known = ToSet(array) /\ chosen = {}

(***************************************************************************)
(* Commands                                                                *)
(***************************************************************************)
\* The command has posted its message.
Posted == 4

\* Update returns a command.  It runs at once, next to those in flight.
Start(k, i) ==
    \E s \in Slots :
        /\ cmd[s] = None
        /\ \A r \in Slots : r < s => cmd[r] # None
        /\ \A r \in Slots : cmd[r] # None =>
              \/ {k, cmd[r].kind} \in Overlaps
              \/ cmd[r].at = Posted /\ {k, cmd[r].kind} \in Unread
        /\ cmd' = [cmd EXCEPT ![s] = [kind |-> k, id |-> i, at |-> 0,
                                      seen |-> <<>>, ix |-> 0]]

\* The message does not say which profile the command was about.
Post(s)      == cmd' = [cmd EXCEPT ![s] = [kind |-> cmd[s].kind, id |-> NoId, at |-> Posted,
                                           seen |-> <<>>, ix |-> 0]]
Advance(s)   == cmd' = [cmd EXCEPT ![s].at = @ + 1]
Running(s, k, n) == cmd[s] # None /\ cmd[s].kind = k /\ cmd[s].at = n

Untouched == UNCHANGED <<screenVars, pane, outCursor, choices, formVars, copying, chosen>>

\* Another deletion is moving profiles up: a range over the array can pass the
\* profile it looks for by.
Shifting(s)   == cmd[s] # None /\ cmd[s].kind = "delete" /\ cmd[s].at = 2
MayMiss(s)    == \E r \in Slots \ {s} : Shifting(r)
Place(id)     == CHOOSE i \in DOMAIN list : list[i] = id /\ \A j \in 1..(i - 1) : list[j] # id

\* Delete ranges over the profiles until it meets the id ...
DeleteFinds(s) ==
    /\ Running(s, "delete", 0)
    /\ \/ /\ cmd[s].id \in ToSet(list)
          /\ cmd' = [cmd EXCEPT ![s].at = 1, ![s].ix = Place(cmd[s].id)]
       \/ /\ cmd[s].id \notin ToSet(list) \/ MayMiss(s)
          /\ Post(s)
    /\ UNCHANGED <<storeVars, panicked, known>> /\ Untouched

\* ... slices what is now the list around that index ...
DeleteSlices(s) ==
    /\ Running(s, "delete", 1)
    /\ IF cmd[s].ix > size
          THEN panicked' = TRUE /\ UNCHANGED cmd
          ELSE cmd' = [cmd EXCEPT ![s].at = 2, ![s].seen = list] /\ UNCHANGED panicked
    /\ UNCHANGED <<storeVars, known>> /\ Untouched

\* ... moves the profiles behind the index up by one in the array, one by one ...
DeleteShifts(s) ==
    /\ Running(s, "delete", 2) /\ cmd[s].ix < Len(cmd[s].seen)
    /\ array' = [array EXCEPT ![cmd[s].ix] = array[cmd[s].ix + 1]]
    /\ cmd' = [cmd EXCEPT ![s].ix = @ + 1]
    /\ UNCHANGED <<size, active, panicked, known>> /\ Untouched

\* ... takes the last one off the list ...
DeleteCuts(s) ==
    /\ Running(s, "delete", 2) /\ cmd[s].ix >= Len(cmd[s].seen)
    /\ size' = Len(cmd[s].seen) - 1
    /\ Advance(s)
    /\ UNCHANGED <<array, active, panicked, known>> /\ Untouched

\* (For a mutant of DeleteClears: the selection stays.)
DeleteKeepsActive(s) ==
    /\ Running(s, "delete", 3)
    /\ Post(s)
    /\ UNCHANGED <<storeVars, panicked, known>> /\ Untouched

\* ... and clears the selection if it was the active one; then it saves.
DeleteClears(s) ==
    /\ Running(s, "delete", 3)
    /\ active' = IF active = cmd[s].id THEN NoId ELSE active
    /\ Post(s)
    /\ UNCHANGED <<array, size, panicked, known>> /\ Untouched

\* SetActive looks the id up, then sets it, whatever has happened in between.
ActivateFinds(s) ==
    /\ Running(s, "activate", 0)
    /\ \/ cmd[s].id \in ToSet(list) /\ Advance(s)
       \/ (cmd[s].id \notin ToSet(list) \/ MayMiss(s)) /\ Post(s)
    /\ UNCHANGED <<storeVars, panicked, known>> /\ Untouched

ActivateSets(s) ==
    /\ Running(s, "activate", 1)
    /\ active' = cmd[s].id
    /\ Post(s)
    /\ UNCHANGED <<array, size, panicked, known>> /\ Untouched

\* addProfile downloads a URL, or has the core parse a document; both may fail.
AddChecks(s) ==
    /\ Running(s, "add", 0)
    /\ Advance(s) \/ Post(s)
    /\ UNCHANGED <<storeVars, panicked, known>> /\ Untouched

\* Add appends to the list it has read.  It does not select the profile.
AddReads(s) ==
    /\ Running(s, "add", 1)
    /\ cmd' = [cmd EXCEPT ![s].at = 2, ![s].seen = list]
    /\ UNCHANGED <<storeVars, panicked, known>> /\ Untouched

\* The profile goes behind the list that was read, in place or in a copy that was
\* made, line by line, since then.
Appended(s, copied) ==
    LET n == Len(cmd[s].seen)
    IN  [i \in DOMAIN array \cup {n + 1} |->
            IF i = n + 1 THEN cmd[s].id
            ELSE IF i \in copied THEN cmd[s].seen[i] ELSE array[i]]

AddAppends(s) ==
    /\ Running(s, "add", 2)
    /\ \E copied \in SUBSET DOMAIN cmd[s].seen : array' = Appended(s, copied)
    /\ size'  = Len(cmd[s].seen) + 1
    /\ known' = known \cup {cmd[s].id}
    /\ Post(s)
    /\ UNCHANGED <<active, panicked>> /\ Untouched

\* A clipboard tool answers or times out; a call to the core returns.
Answered(s) ==
    /\ Running(s, "clipboard", 0) \/ Running(s, "other", 0)
    /\ Post(s)
    /\ UNCHANGED <<storeVars, panicked, known>> /\ Untouched

CommandStep(s) ==
    \/ DeleteFinds(s)
    \/ DeleteSlices(s)
    \/ DeleteShifts(s)
    \/ DeleteCuts(s)
    \/ DeleteClears(s)
    \/ ActivateFinds(s)
    \/ ActivateSets(s)
    \/ AddChecks(s)
    \/ AddReads(s)
    \/ AddAppends(s)
    \/ Answered(s)

(***************************************************************************)
(* Keys.  Update is free when it is not copying the list.                  *)
(***************************************************************************)
Idle == copying = None
Browsing == Idle /\ ~ adding

Quiet == UNCHANGED <<storeVars, copying, known>>

\* tab, 1, 2, 3.
Focus(p) ==
    /\ Browsing
    /\ pane' = p
    /\ UNCHANGED <<screenVars, outCursor, choices, formVars, cmd, panicked, chosen>> /\ Quiet

\* up, k, down, j: around the list of the pane.  The outbound cursor may be
\* beyond a list that has shrunk.
Move(c, delta, limit) == IF limit = 0 THEN c ELSE (c + delta + limit) % limit

MoveCursor(delta) ==
    /\ Browsing
    /\ \/ /\ pane = "profiles"
          /\ cursor' = Move(cursor, delta, Len(shown)) /\ UNCHANGED outCursor
       \/ /\ pane = "outbounds"
          /\ outCursor' = Move(outCursor, delta, choices) /\ UNCHANGED cursor
    /\ UNCHANGED <<shown, marked, pane, choices, formVars, cmd, panicked, chosen>> /\ Quiet

\* The profile under the cursor; the handlers return when there is none.
OnProfile   == cursor < Len(shown)
OnChoice    == outCursor < choices
Highlighted == shown[cursor + 1]

\* (For a mutant of PressDelete: the ID is looked up in the store.)
PressDeleteStored ==
    /\ Browsing /\ pane = "profiles"
    /\ OnProfile /\ cursor < size
    /\ Start("delete", list[cursor + 1])
    /\ chosen' = chosen \cup ({Highlighted} \cap Ids)
    /\ UNCHANGED <<screenVars, pane, outCursor, choices, formVars, panicked>> /\ Quiet

\* d captures the ID under the cursor, not its place in the list.
PressDelete ==
    /\ Browsing /\ pane = "profiles"
    /\ OnProfile
    /\ Start("delete", Highlighted)
    /\ chosen' = chosen \cup ({Highlighted} \cap Ids)
    /\ UNCHANGED <<screenVars, pane, outCursor, choices, formVars, panicked>> /\ Quiet

\* (For a mutant of PressActivate: no look at the length of the list.)
PressActivateUnguarded ==
    /\ Browsing /\ pane = "profiles"
    /\ IF OnProfile THEN Start("activate", Highlighted) /\ UNCHANGED panicked
                    ELSE panicked' = TRUE /\ UNCHANGED cmd
    /\ UNCHANGED <<screenVars, pane, outCursor, choices, formVars, chosen>> /\ Quiet

\* enter on a profile.
PressActivate ==
    /\ Browsing /\ pane = "profiles"
    /\ OnProfile
    /\ Start("activate", Highlighted)
    /\ UNCHANGED <<screenVars, pane, outCursor, choices, formVars, panicked, chosen>> /\ Quiet

\* enter and t on an outbound; the choice, not its place, is captured.
PressChoice ==
    /\ Browsing /\ pane = "outbounds"
    /\ OnChoice
    /\ Start("other", NoId)
    /\ UNCHANGED <<screenVars, pane, outCursor, choices, formVars, panicked, chosen>> /\ Quiet

\* c, r and A, in any pane.  No command of these touches the list, and each posts
\* a result; so do those of PressChoice.
PressOther ==
    /\ Browsing
    /\ Start("other", NoId)
    /\ UNCHANGED <<screenVars, pane, outCursor, choices, formVars, panicked, chosen>> /\ Quiet

(***************************************************************************)
(* The form                                                                *)
(***************************************************************************)
OpenForm ==
    /\ Browsing /\ pane = "profiles"
    /\ adding' = TRUE /\ input' = "empty"
    /\ UNCHANGED <<screenVars, pane, outCursor, choices, cmd, panicked, chosen>> /\ Quiet

\* Keys, backspace and bracketed paste.
Edit ==
    /\ Idle /\ adding
    /\ input' \in {"empty", "blank", "text"}
    /\ UNCHANGED <<screenVars, pane, outCursor, choices, adding, cmd, panicked, chosen>> /\ Quiet

\* ctrl+v starts a clipboard tool.
ReadClipboard ==
    /\ Idle /\ adding
    /\ Start("clipboard", NoId)
    /\ UNCHANGED <<screenVars, pane, outCursor, choices, formVars, panicked, chosen>> /\ Quiet

\* esc.
Cancel ==
    /\ Idle /\ adding
    /\ adding' = FALSE /\ input' = "empty"
    /\ UNCHANGED <<screenVars, pane, outCursor, choices, cmd, panicked, chosen>> /\ Quiet

\* enter and ctrl+d.  The ID is drawn later, in Add; here it is one that no
\* profile and no command has.
FreshIds == Ids \ (known \cup {cmd[s].id : s \in {r \in Slots : cmd[r] # None}})

Submit ==
    /\ Idle /\ adding
    /\ adding' = FALSE /\ input' = "empty"
    /\ IF input = "text" THEN \E i \in FreshIds : Start("add", i)
                         ELSE UNCHANGED cmd
    /\ UNCHANGED <<screenVars, pane, outCursor, choices, panicked, chosen>> /\ Quiet

(***************************************************************************)
(* Messages                                                                *)
(***************************************************************************)
Taken(s) == cmd' = [cmd EXCEPT ![s] = None]

\* (For a mutant of OnClipboard: whether the form is still open.)
OnClipboardAlways(s) ==
    /\ Idle /\ Running(s, "clipboard", Posted)
    /\ input' \in {input, "blank", "text"}
    /\ Taken(s)
    /\ UNCHANGED <<screenVars, pane, outCursor, choices, adding, panicked, chosen>> /\ Quiet

\* clipboardMsg: it replaces what is in the form, if the form is open and there
\* was something to paste.
OnClipboard(s) ==
    /\ Idle /\ Running(s, "clipboard", Posted)
    /\ IF adding THEN input' \in {input, "blank", "text"} ELSE UNCHANGED input
    /\ Taken(s)
    /\ UNCHANGED <<screenVars, pane, outCursor, choices, adding, panicked, chosen>> /\ Quiet

\* update with groups; none when the core has stopped.
OnGroups ==
    /\ Idle
    /\ choices' \in 0..MaxChoices
    /\ UNCHANGED <<screenVars, pane, outCursor, formVars, cmd, panicked, chosen>> /\ Quiet

\* (For a mutant of OnResult: an activation leaves the list alone.)
OnOtherResult(s) ==
    /\ Idle /\ cmd[s] # None /\ cmd[s].kind # "clipboard" /\ cmd[s].at = Posted
    /\ copying' = IF cmd[s].kind = "activate" THEN None
                  ELSE [room |-> size, len |-> -1, out |-> <<>>, marks |-> {}]
    /\ Taken(s)
    /\ UNCHANGED <<storeVars, screenVars, pane, outCursor, choices, formVars, panicked,
                   known, chosen>>

\* actionResult, of a success or of an error: refreshProfiles, whose List
\* allocates a slice as long as the list is now ...
OnResult(s) ==
    /\ Idle /\ cmd[s] # None /\ cmd[s].kind # "clipboard" /\ cmd[s].at = Posted
    /\ copying' = [room |-> size, len |-> -1, out |-> <<>>, marks |-> {}]
    /\ Taken(s)
    /\ UNCHANGED <<storeVars, screenVars, pane, outCursor, choices, formVars, panicked,
                   known, chosen>>

\* (For a mutant of Clamp: only the upper end.)
ClampUpper(c, n) == IF c < n THEN c ELSE n

\* Clamp: the cursor is pulled back onto the list.
Clamp(c, n) == IF c < n THEN c ELSE IF n = 0 THEN 0 ELSE n - 1

Copying == /\ ~ Idle
           /\ UNCHANGED <<storeVars, pane, outCursor, choices, formVars, cmd, known, chosen>>

\* ... then ranges over the list as it is by then; it panics at the line it has no
\* room for ...
RangeList ==
    /\ Copying /\ copying.len = -1
    /\ IF size > copying.room
          THEN panicked' = TRUE /\ UNCHANGED copying
          ELSE copying' = [copying EXCEPT !.len = size] /\ UNCHANGED panicked
    /\ UNCHANGED screenVars

\* ... copies it line by line, each as it finds it, with its marker ...
CopyLine ==
    /\ Copying /\ Len(copying.out) < copying.len
    /\ LET n == Len(copying.out) + 1
       IN  copying' = [copying EXCEPT !.out = Append(@, array[n]),
                                      !.marks = @ \cup {m \in {n} : array[m] = active}]
    /\ UNCHANGED <<screenVars, panicked>>

\* ... and the cursor is pulled back onto it.  Lines the list has lost since the
\* slice was allocated stay blank.
ShowList ==
    /\ Copying /\ Len(copying.out) = copying.len
    /\ shown'  = copying.out \o [i \in 1..(copying.room - copying.len) |-> NoId]
    /\ marked' = copying.marks
    /\ cursor' = Clamp(cursor, copying.room)
    /\ copying' = None
    /\ UNCHANGED panicked

Keys ==
    \/ \E p \in {"profiles", "outbounds", "logs"} : Focus(p)
    \/ \E d \in {-1, 1} : MoveCursor(d)
    \/ PressDelete
    \/ PressActivate
    \/ PressChoice
    \/ PressOther
    \/ OpenForm
    \/ Edit
    \/ ReadClipboard
    \/ Cancel
    \/ Submit

Handle ==
    \/ \E s \in Slots : OnClipboard(s)
    \/ \E s \in Slots : OnResult(s)
    \/ OnGroups
    \/ RangeList
    \/ CopyLine
    \/ ShowList

\* A panic ends the program.
Ended == panicked /\ UNCHANGED vars

Next ==
    \/ /\ ~ panicked
       /\ \/ Keys
          \/ Handle
          \/ \E s \in Slots : CommandStep(s)
    \/ Ended

Spec == Init /\ [][Next]_vars

(***************************************************************************)
(* Properties                                                              *)
(***************************************************************************)
\* The one index that can be out of range is List's own: a panic takes an addition
\* that has made the list longer between the two looks of List at its length
\* (profile.go:105-106, 135).  The cursors, in lists that have shrunk, and Delete's
\* index, in one that has moved, are always checked against the list they are used on.
OnlyAddsPanic ==
    panicked => ~ Idle /\ \E s \in Slots : Running(s, "add", Posted)

\* The profile cursor is on a line of the list, however the list has changed
\* since it was moved (refreshProfiles "clamps the cursor", dashboard.go:487).
CursorOnList == cursor \in 0..(IF shown = <<>> THEN 0 ELSE Len(shown) - 1)

\* With every result handled, the list and the marker on the screen are those
\* of the store ("re-reads the store here to keep the active marker and list
\* current", dashboard.go:488-489).
ScreenIsCurrent ==
    Idle /\ (\A s \in Slots : cmd[s] = None \/ cmd[s].kind \in {"clipboard", "other"})
      => shown = list /\ marked = MarkedIn(list, active)

\* A profile goes only if the user pressed d on that very line.
NothingElseDeleted == known \ chosen \subseteq ToSet(list)

\* A deletion that has cut the profile out, and not looked at the selection yet.
Cutting(s) == cmd[s] # None /\ cmd[s].kind = "delete" /\ cmd[s].at = 3

\* "If it was active, the selection is cleared" (profile.go:151): the selection
\* names a profile of the list, but in the middle of a deletion.
SelectionListed ==
    (\A s \in Slots : ~ Shifting(s) /\ ~ Cutting(s)) => active \in ToSet(list) \cup {NoId}

\* A request that has not had its effect on the list and the selection.
Pending(s) == /\ cmd[s] # None /\ cmd[s].id # NoId
              /\ \/ cmd[s].kind = "delete" /\ cmd[s].at \in {0, 1, 2}
                 \/ cmd[s].kind \in {"activate", "add"} /\ cmd[s].at # Posted

\* The promise: requests as one step each, the list and the selection without the
\* middle of a deletion, the screen as a set of profiles.
Requests  == {[kind |-> cmd[s].kind, id |-> cmd[s].id] : s \in {r \in Slots : Pending(r)}}
Profiles  == IF \E s \in Slots : Shifting(s)
             THEN cmd[CHOOSE s \in Slots : Shifting(s)].seen ELSE list
Selection == IF \E s \in Slots : Cutting(s) /\ cmd[s].id = active THEN NoId ELSE active
Screened  == ToSet(shown) \ {NoId}

Promise == INSTANCE AtomicPanes WITH
    list <- Profiles, active <- Selection, screen <- Screened, requests <- Requests

\* Adding, activating and deleting a profile, each several looks at an array that has
\* no lock and is changed line by line, are one step each, on a profile that was on the
\* screen when the key was pressed (profile.go:110-165).  Of the screen it says only
\* that it shows profiles there are or have been: a copy made beside a deletion can show
\* one twice and miss another, until the result of the deletion is handled.
RequestsAreAtomic == Promise!Spec

\* A closed form holds nothing: what a clipboard tool delivers late is not
\* found there by the next one.
ClosedFormIsEmpty == ~ adding => input = "empty"
================================================================================
