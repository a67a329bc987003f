--------------------------- MODULE ProfileStoreProofs ---------------------------
(***************************************************************************)
(* What the operators on stores return, for every set of ids, names and    *)
(* config documents.  The proofs about StoreFile and about Commands cite   *)
(* these lemmas.                                                           *)
(***************************************************************************)
EXTENDS ProfileStore, TLAPS

\* Every accepted operation of the list yields a store (profile.go:133-191).
LEMMA AppliedIsStore ==
    ASSUME NEW s \in Stores, NEW o \in Operations, Accepted(o, s)
    PROVE  Applied(o, s) \in Stores
<1> USE DEF Stores, Profile, Present
<1>1. CASE o.op = "add"
  BY <1>1 DEF Operations, Applied, Add
<1>2. CASE o.op = "setActive"
  BY <1>2 DEF Operations, Applied, SetActive
<1>3. CASE o.op = "delete"
  BY <1>3 DEF Operations, Applied, Delete
<1>4. CASE o.op = "rename"
  <2>1. o.id \in Ids /\ o.name \in Names /\ s.profiles[o.id] \in Profile
    BY <1>4 DEF Operations, Accepted
  <2> QED BY <1>4, <2>1 DEF Applied, Rename
<1>5. CASE o.op = "refresh"
  <2>1. o.id \in Ids /\ o.content \in Configs /\ s.profiles[o.id] \in Profile
    BY <1>5 DEF Operations, Accepted
  <2> QED BY <1>5, <2>1 DEF Applied, Update
<1>6. CASE o.op = "toggleAutoStart"
  BY <1>6 DEF Operations, Applied, ToggleAutoStart
<1> QED BY <1>1, <1>2, <1>3, <1>4, <1>5, <1>6 DEF Operations

\* Every accepted operation keeps the selection on a profile of the list: the
\* one that removes a profile clears the selection with it.
LEMMA AppliedKeepsSelection ==
    ASSUME NEW s \in Stores, NEW o \in Operations, Accepted(o, s), WellFormed(s)
    PROVE  WellFormed(Applied(o, s))
<1> USE StoreAssumption DEF Stores, Profile, Present, WellFormed
<1>1. CASE o.op = "add"
  BY <1>1 DEF Operations, Applied, Add
<1>2. CASE o.op = "setActive"
  BY <1>2 DEF Operations, Accepted, Applied, SetActive
<1>3. CASE o.op = "delete"
  BY <1>3 DEF Operations, Applied, Delete
<1>4. CASE o.op = "rename"
  <2>1. o.id \in Ids /\ o.name \in Names /\ s.profiles[o.id] \in Profile
    BY <1>4 DEF Operations, Accepted
  <2>2. [s.profiles[o.id] EXCEPT !.name = o.name] # NoProfile
    BY <2>1
  <2> QED BY <1>4, <2>1, <2>2 DEF Applied, Rename
<1>5. CASE o.op = "refresh"
  <2>1. o.id \in Ids /\ o.content \in Configs /\ s.profiles[o.id] \in Profile
    BY <1>5 DEF Operations, Accepted
  <2>2. [s.profiles[o.id] EXCEPT !.content = o.content] # NoProfile
    BY <2>1
  <2> QED BY <1>5, <2>1, <2>2 DEF Applied, Update
<1>6. CASE o.op = "toggleAutoStart"
  BY <1>6 DEF Operations, Applied, ToggleAutoStart
<1> QED BY <1>1, <1>2, <1>3, <1>4, <1>5, <1>6 DEF Operations

\* What the file holds of a store is a store with the same selection and the
\* same ids: only Content is missing (profile.go:45).
LEMMA PersistedIsStore ==
    ASSUME NEW s \in Stores
    PROVE  /\ Persisted(s) \in Stores
           /\ Present(Persisted(s)) = Present(s)
           /\ Persisted(s).active = s.active
<1>1. ASSUME NEW p \in Profile
      PROVE  WithoutContent(p) \in Profile /\ WithoutContent(p) # NoProfile
  BY <1>1, StoreAssumption DEF WithoutContent, Profile
<1>2. WithoutContent(NoProfile) = NoProfile
  BY DEF WithoutContent
<1>3. \A i \in Ids : /\ s.profiles[i] \in Profile \cup {NoProfile}
                     /\ Persisted(s).profiles[i] = WithoutContent(s.profiles[i])
  BY DEF Stores, Persisted
<1>4. Persisted(s) \in Stores
  BY <1>1, <1>2 DEF Stores, Persisted
<1>5. Present(Persisted(s)) = Present(s)
  BY <1>1, <1>2, <1>3 DEF Present
<1> QED BY <1>4, <1>5 DEF Stores, Persisted

\* Its profiles keep their names.
LEMMA PersistedNames ==
    ASSUME NEW s \in Stores, NEW i \in Present(s)
    PROVE  Persisted(s).profiles[i].name = s.profiles[i].name
<1>1. i \in Ids /\ s.profiles[i] \in Profile /\ s.profiles[i] # NoProfile
  BY DEF Present, Stores
<1>2. Persisted(s).profiles[i] = [s.profiles[i] EXCEPT !.content = NoConfig]
  BY <1>1 DEF Persisted, WithoutContent
<1> QED BY <1>1, <1>2 DEF Profile

\* The empty store has no profile and no selection (profile.go:73-77).
LEMMA EmptyIsStore == EmptyStore \in Stores /\ WellFormed(EmptyStore)
BY DEF EmptyStore, Stores, WellFormed

================================================================================
