------------------------------ MODULE PanesProofs ------------------------------
(***************************************************************************)
(* What holds of the lists of the dashboard for any store, any ids and any *)
(* number of commands in flight - some of it whatever they overlap, some   *)
(* as long as those that change the store do not - and of its layout for   *)
(* any window.                                                             *)
(***************************************************************************)
EXTENDS Screen, SequenceTheorems, FiniteSetTheorems, WellFoundedInduction, TLAPS

(***************************************************************************)
(* Commands                                                                *)
(***************************************************************************)
\* A command in a slot is a record with its kind, and so not None.
LEMMA CommandIsNotNone == \A c \in Command : c # None /\ c.kind \in Kinds
BY DEF Command, None, Kinds

\* The command of slot s keeps its kind, and the other slots their commands.
Turns(s, i, n, l, k) ==
    /\ cmd' \in [Slots -> Command \cup {None}]
    /\ cmd'[s] \in Command /\ cmd'[s] # None
    /\ cmd'[s].kind = cmd[s].kind
    /\ cmd'[s].id = i /\ cmd'[s].at = n /\ cmd'[s].seen = l /\ cmd'[s].ix = k
    /\ \A r \in Slots \ {s} : cmd'[r] = cmd[r]

\* A slot is given another command.
LEMMA TurnsInto ==
    ASSUME TypeOK, NEW s \in Slots, NEW c \in Command, c.kind = cmd[s].kind,
           cmd' = [cmd EXCEPT ![s] = c]
    PROVE  Turns(s, c.id, c.at, c.seen, c.ix)
<1>1. cmd' \in [Slots -> Command \cup {None}] /\ cmd'[s] = c /\ \A r \in Slots \ {s} : cmd'[r] = cmd[r]
  BY DEF TypeOK
<1> QED BY <1>1, CommandIsNotNone DEF Turns

\* A command goes on, ...
LEMMA Advances ==
    ASSUME TypeOK, NEW s \in Slots, cmd[s] # None, cmd[s].at \in 0..3, Advance(s)
    PROVE  Turns(s, cmd[s].id, cmd[s].at + 1, cmd[s].seen, cmd[s].ix)
<1>1. cmd[s] \in Command
  BY DEF TypeOK
<1>2. PICK c : c = [cmd[s] EXCEPT !.at = cmd[s].at + 1]
  OBVIOUS
<1>3. c \in Command
  BY <1>1, <1>2 DEF Command
<1>4. /\ c.kind = cmd[s].kind /\ c.id = cmd[s].id /\ c.at = cmd[s].at + 1
      /\ c.seen = cmd[s].seen /\ c.ix = cmd[s].ix
  BY <1>1, <1>2 DEF Command
<1>5. cmd' = [cmd EXCEPT ![s] = c]
  BY <1>1, <1>2 DEF TypeOK, Advance
<1>6. Turns(s, c.id, c.at, c.seen, c.ix)
  BY <1>3, <1>4, <1>5, TurnsInto
<1> QED BY <1>4, <1>6

Finds(s, n, k)   == cmd' = [cmd EXCEPT ![s].at = n, ![s].ix = k]
HasRead(s, n, l) == cmd' = [cmd EXCEPT ![s].at = n, ![s].seen = l]

\* ... finds its index, ...
LEMMA FindsIndex ==
    ASSUME TypeOK, NEW s \in Slots, cmd[s] # None, NEW n \in 0..4, NEW k \in Nat, Finds(s, n, k)
    PROVE  Turns(s, cmd[s].id, n, cmd[s].seen, k)
<1>1. cmd[s] \in Command
  BY DEF TypeOK
<1>2. [cmd[s] EXCEPT !.at = n, !.ix = k] \in Command
  BY <1>1 DEF Command
<1>3. cmd' = [cmd EXCEPT ![s] = [cmd[s] EXCEPT !.at = n, !.ix = k]]
  BY <1>1 DEF TypeOK, Finds
<1>4. /\ cmd' \in [Slots -> Command \cup {None}]
      /\ cmd'[s] \in Command
      /\ cmd'[s].kind = cmd[s].kind /\ cmd'[s].id = cmd[s].id /\ cmd'[s].at = n
      /\ cmd'[s].seen = cmd[s].seen /\ cmd'[s].ix = k
      /\ \A r \in Slots \ {s} : cmd'[r] = cmd[r]
  BY <1>1, <1>2, <1>3 DEF TypeOK, Command
<1> QED BY <1>4, CommandIsNotNone DEF Turns

\* ... reads the list, ...
LEMMA ReadsList ==
    ASSUME TypeOK, NEW s \in Slots, cmd[s] # None, NEW n \in 0..4, NEW l \in Lists, HasRead(s, n, l)
    PROVE  Turns(s, cmd[s].id, n, l, cmd[s].ix)
<1>1. cmd[s] \in Command
  BY DEF TypeOK
<1>2. [cmd[s] EXCEPT !.at = n, !.seen = l] \in Command
  BY <1>1 DEF Command
<1>3. cmd' = [cmd EXCEPT ![s] = [cmd[s] EXCEPT !.at = n, !.seen = l]]
  BY <1>1 DEF TypeOK, HasRead
<1>4. /\ cmd' \in [Slots -> Command \cup {None}]
      /\ cmd'[s] \in Command
      /\ cmd'[s].kind = cmd[s].kind /\ cmd'[s].id = cmd[s].id /\ cmd'[s].at = n
      /\ cmd'[s].seen = l /\ cmd'[s].ix = cmd[s].ix
      /\ \A r \in Slots \ {s} : cmd'[r] = cmd[r]
  BY <1>1, <1>2, <1>3 DEF TypeOK, Command
<1> QED BY <1>4, CommandIsNotNone DEF Turns

\* ... moves one profile up, ...
LEMMA MovesUp ==
    ASSUME TypeOK, NEW s \in Slots, cmd[s] # None, cmd' = [cmd EXCEPT ![s].ix = @ + 1]
    PROVE  Turns(s, cmd[s].id, cmd[s].at, cmd[s].seen, cmd[s].ix + 1)
<1>1. cmd[s] \in Command
  BY DEF TypeOK
<1>2. PICK c : c = [cmd[s] EXCEPT !.ix = cmd[s].ix + 1]
  OBVIOUS
<1>3. c \in Command
  BY <1>1, <1>2 DEF Command
<1>4. /\ c.kind = cmd[s].kind /\ c.id = cmd[s].id /\ c.at = cmd[s].at
      /\ c.seen = cmd[s].seen /\ c.ix = cmd[s].ix + 1
  BY <1>1, <1>2 DEF Command
<1>5. cmd' = [cmd EXCEPT ![s] = c]
  BY <1>1, <1>2 DEF TypeOK
<1>6. Turns(s, c.id, c.at, c.seen, c.ix)
  BY <1>3, <1>4, <1>5, TurnsInto
<1> QED BY <1>4, <1>6

\* ... or posts its message.
LEMMA Posts ==
    ASSUME TypeOK, NEW s \in Slots, cmd[s] # None, Post(s)
    PROVE  Turns(s, NoId, Posted, <<>>, 0)
<1> DEFINE c == [kind |-> cmd[s].kind, id |-> NoId, at |-> Posted, seen |-> <<>>, ix |-> 0]
<1>1. cmd[s].kind \in Kinds
  BY DEF TypeOK, Command
<1>2. c \in Command /\ c.kind = cmd[s].kind /\ c.id = NoId /\ c.at = Posted /\ c.seen = <<>> /\ c.ix = 0
  BY <1>1 DEF Command, Lists, Posted
<1>3. cmd' = [cmd EXCEPT ![s] = c]
  BY DEF Post
<1> HIDE DEF c
<1>4. Turns(s, c.id, c.at, c.seen, c.ix)
  BY <1>2, <1>3, TurnsInto
<1> QED BY <1>2, <1>4

\* A command that stays where it is.
LEMMA Stays ==
    ASSUME TypeOK, NEW s \in Slots, cmd[s] # None, cmd' = cmd
    PROVE  Turns(s, cmd[s].id, cmd[s].at, cmd[s].seen, cmd[s].ix)
BY CommandIsNotNone DEF TypeOK, Turns

\* A new command stands at its first step, in a slot that was free.
LEMMA Starts ==
    ASSUME TypeOK, NEW k \in Kinds, NEW i \in Ids \cup {NoId}, Start(k, i)
    PROVE  \E s \in Slots :
              /\ cmd' \in [Slots -> Command \cup {None}]
              /\ cmd[s] = None
              /\ cmd'[s] \in Command /\ cmd'[s] # None
              /\ cmd'[s].kind = k /\ cmd'[s].id = i /\ cmd'[s].at = 0 /\ cmd'[s].seen = <<>>
              /\ \A r \in Slots \ {s} : cmd'[r] = cmd[r]
              /\ \A r \in Slots : cmd[r] # None =>
                    \/ {k, cmd[r].kind} \in Overlaps
                    \/ cmd[r].at = Posted /\ {k, cmd[r].kind} \in Unread
<1> DEFINE c == [kind |-> k, id |-> i, at |-> 0, seen |-> <<>>, ix |-> 0]
<1>1. c \in Command
  BY DEF Command, Lists
<1>2. PICK s \in Slots :
          /\ cmd[s] = None
          /\ \A r \in Slots : cmd[r] # None =>
                \/ {k, cmd[r].kind} \in Overlaps
                \/ cmd[r].at = Posted /\ {k, cmd[r].kind} \in Unread
          /\ cmd' = [cmd EXCEPT ![s] = c]
  BY DEF Start
<1> HIDE DEF c
<1>3. cmd' \in [Slots -> Command \cup {None}] /\ cmd'[s] = c
  BY <1>1, <1>2 DEF TypeOK
<1>4. c.kind = k /\ c.id = i /\ c.at = 0 /\ c.seen = <<>>
  BY DEF c
<1>5. \A r \in Slots \ {s} : cmd'[r] = cmd[r]
  BY <1>2 DEF TypeOK
<1> QED BY <1>1, <1>2, <1>3, <1>4, <1>5, CommandIsNotNone

\* A slot whose message is taken is free.
LEMMA TakenFree ==
    ASSUME TypeOK, NEW s \in Slots, Taken(s)
    PROVE  /\ cmd' \in [Slots -> Command \cup {None}]
           /\ cmd'[s] = None
           /\ \A r \in Slots \ {s} : cmd'[r] = cmd[r]
BY DEF TypeOK, Taken

(***************************************************************************)
(* Lists                                                                   *)
(***************************************************************************)
\* RemoveAt shortens the list by the one element.
LEMMA RemoveAtTyped ==
    ASSUME NEW S, NEW l \in Seq(S), NEW i \in 1..Len(l)
    PROVE  /\ RemoveAt(l, i) \in Seq(S)
           /\ Len(RemoveAt(l, i)) = Len(l) - 1
           /\ ToSet(l) \subseteq ToSet(RemoveAt(l, i)) \cup {l[i]}
<1> DEFINE a == SubSeq(l, 1, i - 1)
           b == SubSeq(l, i + 1, Len(l))
           c == a \o b
<1>1. a \in Seq(S) /\ Len(a) = i - 1 /\ \A j \in 1..(i - 1) : a[j] = l[j]
  BY SubSeqProperties
<1>2. b \in Seq(S) /\ Len(b) = Len(l) - i /\ \A j \in 1..(Len(l) - i) : b[j] = l[i + j]
  BY SubSeqProperties
<1>3. RemoveAt(l, i) = c
  BY DEF RemoveAt
<1> HIDE DEF a, b, c
<1>0. /\ c \in Seq(S) /\ Len(c) = Len(a) + Len(b)
      /\ \A k \in 1..Len(a) + Len(b) : c[k] = IF k <= Len(a) THEN a[k] ELSE b[k - Len(a)]
  BY <1>1, <1>2, ConcatProperties, Zenon DEF c
<1>4. c \in Seq(S) /\ Len(c) = Len(l) - 1
  BY <1>0, <1>1, <1>2, i \in Int, Len(l) \in Nat
<1>5. ASSUME NEW j \in 1..Len(l), j # i PROVE \E k \in 1..Len(c) : c[k] = l[j]
  <2>1. CASE j < i
    <3>1. j \in 1..Len(a) /\ j \in 1..(i - 1) /\ j \in 1..Len(c)
      BY <1>1, <1>2, <1>4, <2>1
    <3>2. j \in 1..Len(a) + Len(b) /\ j <= Len(a)
      BY <1>0, <3>1
    <3>3. c[j] = a[j] /\ a[j] = l[j]
      BY <1>0, <1>1, <3>1, <3>2
    <3> QED BY <3>1, <3>3, Zenon
  <2>2. CASE j > i
    <3>1. j - i \in 1..Len(b) /\ j - 1 \in 1..Len(c)
      BY <1>1, <1>2, <1>4, <2>2
    <3>2. c[j - 1] = b[j - i]
      <4>1. Len(l) \in Nat /\ i \in Int /\ j \in Int
        OBVIOUS
      <4>2. j - 1 \in 1..Len(a) + Len(b) /\ ~ (j - 1 <= Len(a))
        BY <1>0, <3>1, <1>1, <2>2, <4>1
      <4>3. c[j - 1] = b[(j - 1) - Len(a)]
        BY <1>0, <4>2
      <4>4. (j - 1) - Len(a) = j - i
        BY <1>1, <4>1
      <4> QED BY <4>3, <4>4
    <3>3. b[j - i] = l[j]
      <4>1. j - i \in 1..(Len(l) - i)
        BY <2>2
      <4>2. b[j - i] = l[i + (j - i)]
        BY <1>2, <4>1
      <4>3. i + (j - i) = j
        OBVIOUS
      <4> QED BY <4>2, <4>3
    <3>4. c[j - 1] = l[j]
      BY <3>2, <3>3, Zenon
    <3> QED BY <3>1, <3>4, Zenon
  <2> QED BY <1>5, <2>1, <2>2
<1>6. \A e \in ToSet(l) : e = l[i] \/ e \in ToSet(c)
  <2> SUFFICES ASSUME NEW j \in 1..Len(l), j # i PROVE l[j] \in ToSet(c)
    BY DEF ToSet
  <2> QED BY <1>4, <1>5 DEF ToSet
<1> QED BY <1>3, <1>4, <1>6

\* moveCursor stays on a list that is not empty, wherever it came from.
LEMMA MoveInRange ==
    ASSUME NEW c \in Nat, NEW d \in {-1, 1}, NEW limit \in Nat \ {0}
    PROVE  Move(c, d, limit) \in 0..(limit - 1)
<1>1. c + d + limit \in Nat
  OBVIOUS
<1>2. (c + d + limit) % limit \in 0..(limit - 1)
  BY <1>1
<1> QED BY <1>2 DEF Move

\* A copy with blank lines at its end.
LEMMA CopyTyped ==
    ASSUME NEW S, NEW l \in Seq(S), NEW p \in Seq(S), NEW n \in Nat, Len(l) + Len(p) = n
    PROVE  /\ l \o p \in Seq(S) /\ Len(l \o p) = n /\ (n = Len(l) => l \o p = l)
           /\ ToSet(l \o p) \subseteq ToSet(l) \cup ToSet(p)
<1>1. n = Len(l) => p = <<>>
  BY EmptySeq
<1>2. /\ l \o p \in Seq(S) /\ Len(l \o p) = Len(l) + Len(p)
      /\ \A k \in 1..Len(l) + Len(p) : (l \o p)[k] = IF k <= Len(l) THEN l[k] ELSE p[k - Len(l)]
  BY ConcatProperties, Zenon
<1>3. n = Len(l) => l \o p = l
  BY <1>1, ConcatEmptySeq, Zenon
<1>4. ASSUME NEW k \in 1..n PROVE (l \o p)[k] \in ToSet(l) \cup ToSet(p)
  <2>1. Len(l) \in Nat /\ Len(p) \in Nat /\ DOMAIN l = 1..Len(l) /\ DOMAIN p = 1..Len(p)
    OBVIOUS
  <2>2. CASE k <= Len(l)
    BY <1>2, <2>1, <2>2 DEF ToSet
  <2>3. CASE ~ (k <= Len(l))
    <3>1. k - Len(l) \in DOMAIN p /\ (l \o p)[k] = p[k - Len(l)]
      BY <1>2, <2>1, <2>3
    <3> QED BY <3>1 DEF ToSet
  <2> QED BY <2>2, <2>3
<1>5. DOMAIN (l \o p) = 1..n
  BY <1>2
<1>6. ToSet(l \o p) \subseteq ToSet(l) \cup ToSet(p)
  <2> SUFFICES ASSUME NEW e \in ToSet(l \o p) PROVE e \in ToSet(l) \cup ToSet(p)
    OBVIOUS
  <2>1. PICK k \in 1..n : e = (l \o p)[k]
    BY <1>5 DEF ToSet
  <2> QED BY <1>4, <2>1
<1> QED BY <1>2, <1>3, <1>6

\* A copy is not None.
LEMMA CopyIsNotNone == \A c \in Copy : c # None
BY DEF Copy, None

\* The list is the front of its array.
LEMMA ListTyped ==
    TypeOK => /\ array \in Lists /\ Len(array) \in Nat /\ size \in Nat /\ size <= Len(array)
              /\ list \in Lists /\ Len(list) = size /\ DOMAIN list = 1..size
              /\ \A k \in 1..size : list[k] = array[k]
<1> SUFFICES ASSUME TypeOK
             PROVE  /\ array \in Lists /\ Len(array) \in Nat /\ size \in Nat /\ size <= Len(array)
                    /\ list \in Lists /\ Len(list) = size /\ DOMAIN list = 1..size
                    /\ \A k \in 1..size : list[k] = array[k]
  OBVIOUS
<1>1. array \in Seq(Ids \cup {NoId}) /\ Len(array) \in Nat /\ size \in 0..Len(array)
  BY DEF TypeOK, Lists
<1>2. size \in Nat /\ size <= Len(array)
  BY <1>1
<1>3. /\ SubSeq(array, 1, size) \in Seq(Ids \cup {NoId})
      /\ Len(SubSeq(array, 1, size)) = size
      /\ \A k \in 1..size : SubSeq(array, 1, size)[k] = array[k]
  BY <1>1, <1>2
<1> QED BY <1>1, <1>2, <1>3 DEF list, Lists

\* So is the next list, of the next array.
LEMMA NextListTyped ==
    (TypeOK => /\ array \in Lists /\ Len(array) \in Nat /\ size \in Nat /\ size <= Len(array)
               /\ list \in Lists /\ Len(list) = size /\ DOMAIN list = 1..size
               /\ \A k \in 1..size : list[k] = array[k])'
BY ListTyped, PTL

\* An array with the new profile in its place.
LEMMA AppendedTyped ==
    ASSUME NEW a \in Lists, NEW seen \in Lists, Len(seen) <= Len(a), NEW e \in Ids \cup {NoId},
           NEW b, b = [i \in DOMAIN a \cup {Len(seen) + 1} |->
                         IF i = Len(seen) + 1 THEN e ELSE b[i]],
           \A i \in 1..Len(seen) : b[i] = seen[i] \/ b[i] = a[i],
           \A i \in (Len(seen) + 2)..Len(a) : b[i] = a[i]
    PROVE  b \in Lists /\ Len(b) >= Len(a) /\ Len(b) >= Len(seen) + 1
<1>1. Len(a) \in Nat /\ Len(seen) \in Nat /\ DOMAIN a = 1..Len(a)
      /\ (\A i \in 1..Len(a) : a[i] \in Ids \cup {NoId})
      /\ (\A i \in 1..Len(seen) : seen[i] \in Ids \cup {NoId})
  BY DEF Lists
<1>2. PICK n \in Nat : n >= Len(a) /\ n >= Len(seen) + 1 /\ DOMAIN a \cup {Len(seen) + 1} = 1..n
  <2>1. CASE Len(seen) = Len(a)
    BY <1>1, <2>1
  <2>2. CASE Len(seen) # Len(a)
    BY <1>1, <2>2
  <2> QED BY <2>1, <2>2
<1>3. DOMAIN b = 1..n
  BY <1>2
<1>4. \A i \in 1..n : b[i] \in Ids \cup {NoId}
  <2> SUFFICES ASSUME NEW i \in 1..n PROVE b[i] \in Ids \cup {NoId}
    OBVIOUS
  <2>1. i \in 1..Len(seen) \/ i = Len(seen) + 1 \/ i \in (Len(seen) + 2)..Len(a)
    BY <1>1, <1>2
  <2>2. CASE i = Len(seen) + 1
    <3>1. i \in DOMAIN a \cup {Len(seen) + 1}
      BY <2>2
    <3>2. b[i] = e
      BY <2>2, <3>1
    <3> QED BY <3>2
  <2>3. CASE i \in 1..Len(seen)
    <3>1. i \in 1..Len(a)
      BY <1>1, <2>3
    <3> QED BY <1>1, <2>3, <3>1
  <2>4. CASE i \in (Len(seen) + 2)..Len(a)
    <3>1. i \in 1..Len(a)
      BY <1>1, <2>4
    <3> QED BY <1>1, <2>4, <3>1
  <2> QED BY <2>1, <2>2, <2>3, <2>4
<1>5. b = [i \in 1..n |-> b[i]]
  BY <1>2, <1>3
<1>6. b \in [1..n -> Ids \cup {NoId}]
  BY <1>4, <1>5
<1>7. b \in Seq(Ids \cup {NoId})
  <2>1. b \in UNION {[1..m -> Ids \cup {NoId}] : m \in Nat}
    BY <1>2, <1>6, Zenon
  <2> QED BY <2>1, SeqDef, Zenon
<1>8. Len(b) = n
  BY <1>2, <1>3, <1>7
<1> QED BY <1>1, <1>2, <1>7, <1>8 DEF Lists

(***************************************************************************)
(* Whatever the commands overlap                                           *)
(***************************************************************************)
Writers == {"delete", "activate", "add"}

\* A command that changes the store, until its result is handled.
Unhandled(s) == cmd[s] # None /\ cmd[s].kind \in Writers

\* What a command has in its hands.
Staged(s) == cmd[s] # None =>
    /\ cmd[s].kind = "add" /\ cmd[s].at # Posted => cmd[s].id \in Ids
    /\ cmd[s].kind = "delete" /\ cmd[s].at \in {1, 2} => cmd[s].ix >= 1
    /\ cmd[s].kind = "delete" /\ cmd[s].at = 2 => cmd[s].ix <= Len(cmd[s].seen)
    /\ Len(cmd[s].seen) <= Len(array)

\* The copy has room, and is of what is in the array.
CopyInv == ~ Idle =>
    /\ copying.len <= copying.room /\ copying.len <= Len(array)
    /\ Len(copying.out) <= (IF copying.len = -1 THEN 0 ELSE copying.len)

\* What has been copied is the list and its marker.
CopyCurrent ==
    /\ copying.room = size /\ copying.len \in {-1, size}
    /\ \A n \in 1..Len(copying.out) : copying.out[n] = array[n]
    /\ copying.marks = {n \in 1..Len(copying.out) : array[n] = active}

\* What is on the screen, or on its way there, when no result is awaited.
CurrentInv ==
    (\A s \in Slots : ~ Unhandled(s)) =>
        IF Idle THEN shown = list /\ marked = MarkedIn(list, active) ELSE CopyCurrent

PanesInv ==
    /\ TypeOK /\ CursorOnList /\ ClosedFormIsEmpty /\ (\A s \in Slots : Staged(s))
    /\ CopyInv /\ CurrentInv

\* The invariant holds at launch.
LEMMA InitPanes == Init => PanesInv
<1> SUFFICES ASSUME Init PROVE PanesInv
  OBVIOUS
<1>1. array \in Seq(Ids)
  BY DEF Init, SeqOf
<1>2. array \in Lists /\ Len(array) \in Nat /\ ToSet(array) \subseteq Ids
  BY <1>1 DEF Lists, ToSet
<1>3. cmd \in [Slots -> Command \cup {None}]
  BY DEF Init
<1>4. choices \in 0..MaxChoices /\ outCursor \in 0..MaxChoices
  BY BoundsAssumption DEF Init
<1>5. pane \in {"profiles", "outbounds", "logs"} /\ input \in {"empty", "blank", "text"}
  BY DEF Init
<1>6. size \in 0..Len(array)
  BY <1>2 DEF Init
<1>7. marked \subseteq Nat
  BY <1>2 DEF Init, MarkedIn, Lists
<1>8. TypeOK
  BY <1>2, <1>3, <1>4, <1>5, <1>6, <1>7 DEF Init, TypeOK
<1>9. list = array
  BY <1>1 DEF Init, list
<1>10. CursorOnList /\ ClosedFormIsEmpty
  BY <1>2 DEF Init, CursorOnList, ClosedFormIsEmpty, Lists
<1>11. (\A s \in Slots : Staged(s)) /\ CopyInv /\ CurrentInv
  BY <1>9 DEF Init, Staged, CopyInv, CurrentInv, Idle
<1> QED BY <1>8, <1>10, <1>11 DEF PanesInv

\* Nothing is different on the screen, or on its way there.
LEMMA CurrentKept ==
    ASSUME CurrentInv, UNCHANGED <<storeVars, shown, marked, copying>>,
           \A r \in Slots : Unhandled(r) => Unhandled(r)'
    PROVE  CurrentInv'
<1>1. list' = list
  BY DEF list, storeVars
<1>2. (\A r \in Slots : ~ Unhandled(r)') => \A r \in Slots : ~ Unhandled(r)
  OBVIOUS
<1>3. CASE Idle
  BY <1>1, <1>2, <1>3 DEF CurrentInv, Idle, MarkedIn, storeVars
<1>4. CASE ~ Idle
  BY <1>2, <1>4 DEF CurrentInv, Idle, CopyCurrent, storeVars
<1> QED BY <1>3, <1>4

\* A step of a command leaves the screen to Update, and the store alone unless it
\* is one that changes it.
LEMMA Proceeds ==
    ASSUME PanesInv, NEW s \in Slots, cmd[s] # None, Untouched,
           NEW i, NEW n, NEW l, NEW k, Turns(s, i, n, l, k), Staged(s)',
           array' \in Lists, Len(array) <= Len(array'), size' \in 0..Len(array'),
           active' \in Ids \cup {NoId}, panicked' \in BOOLEAN, known' \subseteq Ids,
           cmd[s].kind \in Writers \/ UNCHANGED storeVars
    PROVE  PanesInv'
<1>1. TypeOK'
  BY DEF PanesInv, TypeOK, Untouched, screenVars, formVars, Turns
<1>2. CursorOnList' /\ ClosedFormIsEmpty'
  BY DEF PanesInv, CursorOnList, ClosedFormIsEmpty, Untouched, screenVars, formVars
<1>3. Len(array) \in Nat /\ Len(array') \in Nat
  BY DEF PanesInv, TypeOK, Lists
<1>4. ASSUME NEW r \in Slots PROVE Staged(r)'
  <2>1. CASE r = s
    BY <2>1
  <2>2. CASE r # s /\ cmd[r] # None
    <3>1. cmd'[r] = cmd[r] /\ Staged(r)
      BY <2>2 DEF Turns, PanesInv
    <3>2. Len(cmd[r].seen) \in Nat
      BY <2>2 DEF PanesInv, TypeOK, Command, Lists
    <3>3. Len(cmd[r].seen) <= Len(array')
      BY <1>3, <2>2, <3>1, <3>2 DEF Staged
    <3> QED BY <2>2, <3>1, <3>3 DEF Staged
  <2>3. CASE r # s /\ cmd[r] = None
    BY <2>3 DEF Turns, Staged
  <2> QED BY <2>1, <2>2, <2>3
<1>5. CopyInv'
  <2>1. copying' = copying /\ CopyInv
    BY DEF Untouched, PanesInv
  <2>2. ~ Idle => copying.len \in Int
    BY DEF PanesInv, TypeOK, Copy, Idle
  <2> QED BY <1>3, <2>1, <2>2 DEF CopyInv, Idle
<1>6. CurrentInv'
  <2>1. \A r \in Slots : Unhandled(r)' <=> Unhandled(r)
    BY DEF Unhandled, Turns
  <2>2. CASE cmd[s].kind \in Writers
    BY <2>1, <2>2 DEF CurrentInv, Unhandled
  <2>3. CASE UNCHANGED storeVars
    BY <2>1, <2>3, CurrentKept DEF PanesInv, Untouched, screenVars
  <2> QED BY <2>2, <2>3
<1> QED BY <1>1, <1>2, <1>4, <1>5, <1>6 DEF PanesInv

\* A result is posted, whatever the command has done.
LEMMA Delivers ==
    ASSUME PanesInv, NEW s \in Slots, cmd[s] # None, Untouched, Post(s),
           array' \in Lists, Len(array) <= Len(array'), size' \in 0..Len(array'),
           active' \in Ids \cup {NoId}, panicked' \in BOOLEAN, known' \subseteq Ids,
           cmd[s].kind \in Writers \/ UNCHANGED storeVars
    PROVE  PanesInv'
<1>1. Turns(s, NoId, Posted, <<>>, 0)
  BY Posts DEF PanesInv
<1>2. Len(array') \in Nat
  BY DEF Lists
<1>3. Staged(s)'
  BY <1>1, <1>2 DEF Turns, Staged, Posted
<1> QED BY <1>1, <1>3, Proceeds

\* A step that does not touch the store.
LEMMA LooksOn ==
    ASSUME PanesInv, NEW s \in Slots, cmd[s] # None, Untouched,
           UNCHANGED <<storeVars, known>>, panicked' \in BOOLEAN,
           Post(s) \/ \E i, n, l, k : Turns(s, i, n, l, k) /\ Staged(s)'
    PROVE  PanesInv'
<1>1. array' \in Lists /\ size' \in 0..Len(array') /\ active' \in Ids \cup {NoId} /\ known' \subseteq Ids
      /\ Len(array) <= Len(array')
  BY DEF PanesInv, TypeOK, storeVars, Lists
<1>2. CASE Post(s)
  BY <1>1, <1>2, Delivers
<1>3. CASE \E i, n, l, k : Turns(s, i, n, l, k) /\ Staged(s)'
  BY <1>1, <1>3, Proceeds
<1> QED BY <1>2, <1>3

\* A profile that is in the list has a place in it.
LEMMA PlaceFound ==
    ASSUME TypeOK, NEW id \in ToSet(list)
    PROVE  Place(id) \in 1..size /\ list[Place(id)] = id
<1>1. DOMAIN list = 1..size /\ size \in Nat
  BY ListTyped
<1> DEFINE At == {i \in 1..size : list[i] = id}
<1>2. At # {} /\ At \subseteq Nat
  BY <1>1 DEF ToSet
<1>3. PICK i \in At : \A j \in At : i <= j
  <2>1. \E i \in At : \A j \in At : <<j, i>> \notin OpToRel(<, Nat)
    <3> HIDE DEF At
    <3> QED BY ONLY <1>2, NatLessThanWellFounded, WFMin
  <2>2. PICK i \in At : \A j \in At : <<j, i>> \notin OpToRel(<, Nat)
    BY <2>1
  <2>3. \A j \in At : i <= j
    <3> SUFFICES ASSUME NEW j \in At PROVE i <= j
      OBVIOUS
    <3>1. i \in Nat /\ j \in Nat
      BY <1>2
    <3>2. <<j, i>> \notin OpToRel(<, Nat)
      BY <2>2
    <3> QED BY <3>1, <3>2 DEF OpToRel
  <2> QED BY <2>3
<1>4. i \in DOMAIN list /\ list[i] = id /\ \A j \in 1..(i - 1) : list[j] # id
  BY <1>1, <1>3
<1>5. Place(id) \in DOMAIN list /\ list[Place(id)] = id
  BY <1>4, Zenon DEF Place
<1> QED BY <1>1, <1>5

\* Every step of a command keeps the invariant.
LEMMA CommandKeeps ==
    ASSUME PanesInv, NEW s \in Slots, CommandStep(s) PROVE PanesInv'
<1>1. TypeOK /\ Staged(s)
  BY DEF PanesInv
<1>2. /\ array \in Lists /\ Len(array) \in Nat /\ size \in 0..Len(array) /\ list \in Lists
      /\ Len(list) = size /\ size \in Nat
      /\ active \in Ids \cup {NoId} /\ panicked \in BOOLEAN /\ known \subseteq Ids
      /\ cmd[s] # None => cmd[s] \in Command
  BY <1>1, ListTyped DEF TypeOK
<1>3. cmd[s] # None => /\ cmd[s].ix \in Nat /\ cmd[s].seen \in Lists /\ Len(cmd[s].seen) \in Nat
                       /\ cmd[s].id \in Ids \cup {NoId}
  BY <1>2 DEF Command, Lists
<1>4. CASE DeleteFinds(s)
  <2>1. cmd[s] # None /\ cmd[s].kind = "delete" /\ Untouched /\ UNCHANGED <<storeVars, panicked, known>>
    BY <1>4 DEF DeleteFinds, Running
  <2>2. CASE Post(s)
    BY <1>2, <2>1, <2>2, LooksOn
  <2>3. CASE cmd[s].id \in ToSet(list) /\ Finds(s, 1, Place(cmd[s].id))
    <3>1. Place(cmd[s].id) \in 1..size
      BY <1>1, <2>3, PlaceFound
    <3>2. Turns(s, cmd[s].id, 1, cmd[s].seen, Place(cmd[s].id))
      BY <1>1, <2>1, <2>3, <3>1, FindsIndex
    <3>3. Staged(s)'
      BY <1>1, <2>1, <3>1, <3>2 DEF Staged, Turns, storeVars
    <3> QED BY <1>2, <2>1, <3>2, <3>3, LooksOn
  <2> QED BY <1>4, <2>2, <2>3 DEF DeleteFinds, Finds
<1>5. CASE DeleteSlices(s)
  <2>1. cmd[s] # None /\ cmd[s].kind = "delete" /\ cmd[s].at = 1 /\ Untouched
        /\ UNCHANGED <<storeVars, known>> /\ panicked' \in BOOLEAN
    BY <1>2, <1>5 DEF DeleteSlices, Running
  <2>2. CASE cmd' = cmd
    <3>1. Turns(s, cmd[s].id, cmd[s].at, cmd[s].seen, cmd[s].ix)
      BY <1>1, <2>1, <2>2, Stays
    <3>2. Staged(s)'
      BY <1>1, <2>1, <2>2 DEF Staged, storeVars
    <3> QED BY <2>1, <3>1, <3>2, LooksOn
  <2>3. CASE ~ (cmd[s].ix > size) /\ HasRead(s, 2, list)
    <3>1. Turns(s, cmd[s].id, 2, list, cmd[s].ix)
      BY <1>1, <1>2, <2>1, <2>3, ReadsList
    <3>2. Staged(s)'
      BY <1>1, <1>2, <1>3, <2>1, <2>3, <3>1 DEF Staged, Turns, storeVars
    <3> QED BY <2>1, <3>1, <3>2, LooksOn
  <2> QED BY <1>5, <2>2, <2>3 DEF DeleteSlices, HasRead
<1>6. CASE DeleteShifts(s)
  <2>1. /\ cmd[s] # None /\ cmd[s].kind = "delete" /\ cmd[s].at = 2 /\ Untouched
        /\ cmd[s].ix < Len(cmd[s].seen)
        /\ array' = [array EXCEPT ![cmd[s].ix] = array[cmd[s].ix + 1]]
        /\ cmd' = [cmd EXCEPT ![s].ix = @ + 1]
        /\ UNCHANGED <<size, active, panicked, known>>
    BY <1>6 DEF DeleteShifts, Running
  <2>2. cmd[s].ix \in 1..Len(array) /\ cmd[s].ix + 1 \in 1..Len(array) /\ cmd[s].ix + 1 <= Len(cmd[s].seen)
    BY <1>1, <1>2, <1>3, <2>1 DEF Staged
  <2>3. array' \in Lists /\ Len(array') = Len(array)
    BY <1>2, <2>1, <2>2 DEF Lists
  <2>4. Turns(s, cmd[s].id, cmd[s].at, cmd[s].seen, cmd[s].ix + 1)
    BY <1>1, <2>1, MovesUp
  <2>5. Staged(s)'
    BY <1>1, <1>3, <2>1, <2>2, <2>3, <2>4 DEF Staged, Turns
  <2>6. /\ cmd[s] # None /\ cmd[s].kind \in Writers /\ Untouched
        /\ size' \in 0..Len(array') /\ Len(array) <= Len(array')
        /\ active' \in Ids \cup {NoId} /\ panicked' \in BOOLEAN /\ known' \subseteq Ids
    BY <1>2, <2>1, <2>3 DEF Writers
  <2> QED BY <2>3, <2>4, <2>5, <2>6, Proceeds
<1>7. CASE DeleteCuts(s)
  <2>1. /\ cmd[s] # None /\ cmd[s].kind = "delete" /\ cmd[s].at = 2 /\ Untouched
        /\ size' = Len(cmd[s].seen) - 1 /\ Advance(s) /\ UNCHANGED <<array, active, panicked, known>>
    BY <1>7 DEF DeleteCuts, Running
  <2>2. size' \in 0..Len(array)
    BY <1>1, <1>2, <1>3, <2>1 DEF Staged
  <2>3. Turns(s, cmd[s].id, 3, cmd[s].seen, cmd[s].ix)
    BY <1>1, <2>1, Advances
  <2>4. Staged(s)'
    BY <1>1, <2>1, <2>3 DEF Staged, Turns
  <2> QED BY <1>2, <2>1, <2>2, <2>3, <2>4, Proceeds DEF Writers
<1>8. CASE DeleteClears(s)
  <2>1. cmd[s] # None /\ cmd[s].kind = "delete" /\ Untouched /\ Post(s)
        /\ active' \in Ids \cup {NoId} /\ UNCHANGED <<array, size, panicked, known>>
    BY <1>2, <1>8 DEF DeleteClears, Running
  <2> QED BY <1>2, <2>1, Delivers DEF Writers
<1>9. CASE ActivateFinds(s) \/ AddChecks(s)
  <2>1. cmd[s] # None /\ cmd[s].kind \in {"activate", "add"} /\ cmd[s].at = 0 /\ Untouched
        /\ UNCHANGED <<storeVars, panicked, known>> /\ (Advance(s) \/ Post(s))
    BY <1>9 DEF ActivateFinds, AddChecks, Running
  <2>2. CASE Post(s)
    BY <1>2, <2>1, <2>2, LooksOn
  <2>3. CASE Advance(s)
    <3>1. Turns(s, cmd[s].id, 1, cmd[s].seen, cmd[s].ix)
      BY <1>1, <2>1, <2>3, Advances
    <3>2. Staged(s)'
      BY <1>1, <2>1, <3>1 DEF Staged, Turns, storeVars, Posted
    <3> QED BY <1>2, <2>1, <3>1, <3>2, LooksOn
  <2> QED BY <2>1, <2>2, <2>3
<1>10. CASE ActivateSets(s)
  <2>1. cmd[s] # None /\ cmd[s].kind = "activate" /\ Untouched /\ Post(s)
        /\ active' \in Ids \cup {NoId} /\ UNCHANGED <<array, size, panicked, known>>
    BY <1>3, <1>10 DEF ActivateSets, Running
  <2> QED BY <1>2, <2>1, Delivers DEF Writers
<1>11. CASE AddReads(s)
  <2>1. cmd[s] # None /\ cmd[s].kind = "add" /\ cmd[s].at = 1 /\ Untouched
        /\ HasRead(s, 2, list) /\ UNCHANGED <<storeVars, panicked, known>>
    BY <1>11 DEF AddReads, Running, HasRead
  <2>2. Turns(s, cmd[s].id, 2, list, cmd[s].ix)
    BY <1>1, <1>2, <2>1, ReadsList
  <2>3. Staged(s)'
    BY <1>1, <1>2, <2>1, <2>2 DEF Staged, Turns, storeVars, Posted
  <2> QED BY <1>2, <2>1, <2>2, <2>3, LooksOn
<1>12. CASE AddAppends(s)
  <2>1. /\ cmd[s] # None /\ cmd[s].kind = "add" /\ cmd[s].at = 2 /\ Untouched /\ Post(s)
        /\ size' = Len(cmd[s].seen) + 1 /\ known' = known \cup {cmd[s].id} /\ UNCHANGED <<active, panicked>>
    BY <1>12 DEF AddAppends, Running
  <2>2. cmd[s].id \in Ids /\ Len(cmd[s].seen) <= Len(array)
    BY <1>1, <2>1 DEF Staged, Posted
  <2>3. PICK copied \in SUBSET DOMAIN cmd[s].seen : array' = Appended(s, copied)
    BY <1>12 DEF AddAppends
  <2>4. PICK b : b = array'
    OBVIOUS
  <2>5. b = [i \in DOMAIN array \cup {Len(cmd[s].seen) + 1} |->
                IF i = Len(cmd[s].seen) + 1 THEN cmd[s].id
                ELSE IF i \in copied THEN cmd[s].seen[i] ELSE array[i]]
    BY <2>3, <2>4 DEF Appended
  <2>6. b \in Lists /\ Len(b) >= Len(array) /\ Len(b) >= Len(cmd[s].seen) + 1
    <3>1. b = [i \in DOMAIN array \cup {Len(cmd[s].seen) + 1} |->
                  IF i = Len(cmd[s].seen) + 1 THEN cmd[s].id ELSE b[i]]
      BY <2>5
    <3>2. DOMAIN array = 1..Len(array)
      BY <1>2 DEF Lists
    <3>3. \A i \in 1..Len(cmd[s].seen) : b[i] = cmd[s].seen[i] \/ b[i] = array[i]
      BY <1>2, <1>3, <2>1, <2>2, <2>5, <3>2
    <3>4. \A i \in (Len(cmd[s].seen) + 2)..Len(array) : b[i] = array[i]
      <4>1. DOMAIN cmd[s].seen = 1..Len(cmd[s].seen)
        BY <1>3, <2>1 DEF Lists
      <4> QED BY <1>2, <1>3, <2>1, <2>2, <2>3, <2>5, <3>2, <4>1
    <3>5. cmd[s].id \in Ids \cup {NoId} /\ cmd[s].seen \in Lists
      BY <1>3, <2>1
    <3> QED BY <1>2, <2>2, <3>1, <3>3, <3>4, <3>5, AppendedTyped
  <2>7. array' \in Lists /\ size' \in 0..Len(array') /\ Len(array) <= Len(array')
    <3>1. Len(b) \in Nat
      BY <2>6 DEF Lists
    <3> QED BY <1>2, <1>3, <2>1, <2>4, <2>6, <3>1
  <2>8. known' \subseteq Ids
    BY <1>2, <2>1, <2>2
  <2> QED BY <1>2, <2>1, <2>7, <2>8, Delivers DEF Writers
<1>13. CASE Answered(s)
  BY <1>2, <1>13, LooksOn DEF Answered, Running
<1> QED BY <1>4, <1>5, <1>6, <1>7, <1>8, <1>9, <1>10, <1>11, <1>12, <1>13 DEF CommandStep

\* A key that starts a command leaves the lists alone.
LEMMA Launches ==
    ASSUME PanesInv, NEW k \in Kinds, NEW i \in Ids \cup {NoId}, Start(k, i), k = "add" => i \in Ids,
           UNCHANGED <<screenVars, pane, outCursor, choices, panicked>>, Quiet,
           adding' \in BOOLEAN, input' \in {"empty", "blank", "text"}, ClosedFormIsEmpty',
           chosen' \subseteq Ids
    PROVE  PanesInv'
<1>1. TypeOK
  BY DEF PanesInv
<1>2. PICK s \in Slots :
          /\ cmd' \in [Slots -> Command \cup {None}]
          /\ cmd[s] = None
          /\ cmd'[s].kind = k /\ cmd'[s].id = i /\ cmd'[s].at = 0 /\ cmd'[s].seen = <<>>
          /\ \A r \in Slots \ {s} : cmd'[r] = cmd[r]
  BY <1>1, Starts
<1>3. TypeOK'
  BY <1>1, <1>2 DEF TypeOK, Quiet, screenVars, storeVars
<1>4. CursorOnList'
  BY DEF PanesInv, CursorOnList, screenVars
<1>5. ASSUME NEW r \in Slots PROVE Staged(r)'
  <2>1. array' = array /\ Len(array) \in Nat
    BY DEF Quiet, storeVars, PanesInv, TypeOK, Lists
  <2>2. CASE r = s
    BY <1>2, <2>1, <2>2 DEF Staged
  <2>3. CASE r # s
    BY <1>2, <2>1, <2>3 DEF PanesInv, Staged
  <2> QED BY <2>2, <2>3
<1>6. CopyInv'
  BY DEF PanesInv, CopyInv, Idle, Quiet, storeVars
<1>7. CurrentInv'
  <2>1. \A r \in Slots : Unhandled(r) => Unhandled(r)'
    BY <1>2 DEF Unhandled
  <2> QED BY <2>1, CurrentKept DEF PanesInv, Quiet, screenVars
<1> QED BY <1>3, <1>4, <1>5, <1>6, <1>7 DEF PanesInv

\* Keys and groups that leave the commands alone.
LEMMA Browses ==
    ASSUME PanesInv, UNCHANGED <<shown, marked, cmd, panicked, chosen>>, Quiet,
           pane' \in {"profiles", "outbounds", "logs"}, cursor' \in Nat, CursorOnList',
           choices' \in 0..MaxChoices, outCursor' \in 0..MaxChoices,
           adding' \in BOOLEAN, input' \in {"empty", "blank", "text"}, ClosedFormIsEmpty'
    PROVE  PanesInv'
<1>1. TypeOK'
  BY DEF PanesInv, TypeOK, Quiet, storeVars
<1>2. CopyInv' /\ \A r \in Slots : Staged(r)'
  BY DEF PanesInv, Staged, CopyInv, Idle, Quiet, storeVars
<1>3. CurrentInv'
  <2>1. \A r \in Slots : Unhandled(r) => Unhandled(r)'
    BY DEF Unhandled
  <2> QED BY <2>1, CurrentKept DEF PanesInv, Quiet
<1> QED BY <1>1, <1>2, <1>3 DEF PanesInv

\* Every key keeps the invariant.
LEMMA KeysKeep == ASSUME PanesInv, Keys PROVE PanesInv'
<1>1. TypeOK /\ CursorOnList /\ ClosedFormIsEmpty
  BY DEF PanesInv
<1>2. /\ shown \in Lists /\ Len(shown) \in Nat /\ cursor \in Nat
      /\ pane \in {"profiles", "outbounds", "logs"} /\ adding \in BOOLEAN
      /\ input \in {"empty", "blank", "text"}
      /\ choices \in 0..MaxChoices /\ outCursor \in 0..MaxChoices /\ chosen \subseteq Ids
  BY <1>1 DEF TypeOK, Lists
<1>3. ASSUME NEW p \in {"profiles", "outbounds", "logs"}, Focus(p) PROVE PanesInv'
  <2>1. CursorOnList' /\ ClosedFormIsEmpty'
    BY <1>1, <1>3 DEF Focus, CursorOnList, ClosedFormIsEmpty, screenVars, formVars
  <2> QED BY <1>2, <1>3, <2>1, Browses DEF Focus, screenVars, formVars
<1>4. ASSUME NEW d \in {-1, 1}, MoveCursor(d) PROVE PanesInv'
  <2>1. UNCHANGED <<shown, marked, pane, choices, formVars, cmd, panicked, chosen>> /\ Quiet
    BY <1>4 DEF MoveCursor
  <2>2. CASE cursor' = Move(cursor, d, Len(shown)) /\ UNCHANGED outCursor
    <3>1. cursor' \in Nat /\ CursorOnList'
      <4>1. CASE Len(shown) = 0
        BY <1>1, <1>2, <2>1, <2>2, <4>1 DEF Move, CursorOnList
      <4>2. CASE Len(shown) # 0
        <5>1. cursor' \in 0..(Len(shown) - 1)
          BY <1>2, <2>2, <4>2, MoveInRange
        <5>2. shown # <<>>
          BY <4>2
        <5> QED BY <1>2, <2>1, <5>1, <5>2 DEF CursorOnList
      <4> QED BY <4>1, <4>2
    <3>2. ClosedFormIsEmpty'
      BY <1>1, <2>1 DEF ClosedFormIsEmpty, formVars
    <3> QED BY <1>2, <2>1, <2>2, <3>1, <3>2, Browses DEF formVars
  <2>3. CASE outCursor' = Move(outCursor, d, choices) /\ UNCHANGED cursor
    <3>1. outCursor' \in 0..MaxChoices
      <4>1. CASE choices = 0
        BY <1>2, <2>3, <4>1 DEF Move
      <4>2. CASE choices # 0
        <5>1. choices \in Nat \ {0} /\ outCursor \in Nat /\ MaxChoices \in Nat
          BY <1>2, <4>2, BoundsAssumption
        <5>2. outCursor' \in 0..(choices - 1)
          BY <2>3, <5>1, MoveInRange
        <5> QED BY <1>2, <5>1, <5>2
      <4> QED BY <4>1, <4>2
    <3>2. CursorOnList' /\ ClosedFormIsEmpty'
      BY <1>1, <2>1, <2>3 DEF CursorOnList, ClosedFormIsEmpty, formVars
    <3> QED BY <1>2, <2>1, <2>3, <3>1, <3>2, Browses DEF formVars
  <2> QED BY <1>4, <2>2, <2>3 DEF MoveCursor
<1>5. ASSUME OnProfile PROVE Highlighted \in Ids \cup {NoId}
  BY <1>2, <1>5 DEF OnProfile, Highlighted, Lists
<1>6. CASE PressDelete
  <2>1. Start("delete", Highlighted) /\ OnProfile
        /\ UNCHANGED <<screenVars, pane, outCursor, choices, formVars, panicked>> /\ Quiet
    BY <1>6 DEF PressDelete
  <2>2. chosen' \subseteq Ids
    BY <1>2, <1>6 DEF PressDelete
  <2>3. ClosedFormIsEmpty'
    BY <1>1, <2>1 DEF ClosedFormIsEmpty, formVars
  <2> QED BY <1>2, <1>5, <2>1, <2>2, <2>3, Launches DEF formVars, Kinds
<1>7. CASE PressActivate
  <2>1. Start("activate", Highlighted) /\ OnProfile
        /\ UNCHANGED <<screenVars, pane, outCursor, choices, formVars, panicked, chosen>> /\ Quiet
    BY <1>7 DEF PressActivate
  <2>2. ClosedFormIsEmpty'
    BY <1>1, <2>1 DEF ClosedFormIsEmpty, formVars
  <2> QED BY <1>2, <1>5, <2>1, <2>2, Launches DEF formVars, Kinds
<1>8. CASE PressChoice \/ PressOther
  <2>1. Start("other", NoId)
        /\ UNCHANGED <<screenVars, pane, outCursor, choices, formVars, panicked, chosen>> /\ Quiet
    BY <1>8 DEF PressChoice, PressOther
  <2>2. ClosedFormIsEmpty'
    BY <1>1, <2>1 DEF ClosedFormIsEmpty, formVars
  <2> QED BY <1>2, <2>1, <2>2, Launches DEF formVars, Kinds
<1>9. CASE OpenForm \/ Edit \/ Cancel
  <2>1. UNCHANGED <<screenVars, pane, outCursor, choices, cmd, panicked, chosen>> /\ Quiet
        /\ adding' \in BOOLEAN /\ input' \in {"empty", "blank", "text"} /\ ClosedFormIsEmpty'
    BY <1>2, <1>9 DEF OpenForm, Edit, Cancel, ClosedFormIsEmpty
  <2>2. CursorOnList'
    BY <1>1, <2>1 DEF CursorOnList, screenVars
  <2> QED BY <1>2, <2>1, <2>2, Browses DEF screenVars
<1>10. CASE ReadClipboard
  <2>1. Start("clipboard", NoId)
        /\ UNCHANGED <<screenVars, pane, outCursor, choices, formVars, panicked, chosen>> /\ Quiet
    BY <1>10 DEF ReadClipboard
  <2>2. ClosedFormIsEmpty'
    BY <1>1, <2>1 DEF ClosedFormIsEmpty, formVars
  <2> QED BY <1>2, <2>1, <2>2, Launches DEF formVars, Kinds
<1>11. CASE Submit
  <2>1. UNCHANGED <<screenVars, pane, outCursor, choices, panicked, chosen>> /\ Quiet
        /\ adding' = FALSE /\ input' = "empty" /\ ClosedFormIsEmpty'
    BY <1>11 DEF Submit, ClosedFormIsEmpty
  <2>2. CASE input = "text"
    <3>1. PICK i \in FreshIds : Start("add", i)
      BY <1>11, <2>2 DEF Submit
    <3>2. i \in Ids
      BY <3>1 DEF FreshIds
    <3> QED BY <1>2, <2>1, <3>1, <3>2, Launches DEF Kinds
  <2>3. CASE input # "text"
    <3>1. UNCHANGED cmd
      BY <1>11, <2>3 DEF Submit
    <3>2. CursorOnList'
      BY <1>1, <2>1 DEF CursorOnList, screenVars
    <3> QED BY <1>2, <2>1, <3>1, <3>2, Browses DEF screenVars
  <2> QED BY <2>2, <2>3
<1> QED BY <1>3, <1>4, <1>6, <1>7, <1>8, <1>9, <1>10, <1>11 DEF Keys

\* A slot that is emptied.
LEMMA StagesTaken ==
    ASSUME PanesInv, NEW s \in Slots, Taken(s), UNCHANGED storeVars
    PROVE  /\ cmd' \in [Slots -> Command \cup {None}] /\ cmd'[s] = None
           /\ \A r \in Slots \ {s} : cmd'[r] = cmd[r]
           /\ \A r \in Slots : Staged(r)'
<1>1. /\ cmd' \in [Slots -> Command \cup {None}] /\ cmd'[s] = None
      /\ \A r \in Slots \ {s} : cmd'[r] = cmd[r]
  BY TakenFree DEF PanesInv
<1>2. ASSUME NEW r \in Slots PROVE Staged(r)'
  <2>1. CASE r = s
    BY <1>1, <2>1 DEF Staged
  <2>2. CASE r # s
    BY <1>1, <2>2 DEF PanesInv, Staged, storeVars
  <2> QED BY <2>1, <2>2
<1> QED BY <1>1, <1>2

\* Every message keeps the invariant.
LEMMA HandlersKeep == ASSUME PanesInv, Handle PROVE PanesInv'
<1>1. TypeOK /\ CursorOnList /\ ClosedFormIsEmpty /\ (\A s \in Slots : Staged(s)) /\ CopyInv /\ CurrentInv
  BY DEF PanesInv
<1>2. /\ array \in Lists /\ Len(array) \in Nat /\ size \in Nat /\ size <= Len(array)
      /\ list \in Lists /\ Len(list) = size /\ \A k \in 1..size : list[k] = array[k]
      /\ shown \in Lists /\ active \in Ids \cup {NoId} /\ cursor \in Nat
      /\ (~ Idle => /\ copying \in Copy /\ copying.room \in Nat /\ copying.len \in Nat \cup {-1}
                    /\ copying.out \in Lists /\ Len(copying.out) \in Nat /\ copying.marks \subseteq Nat)
  BY <1>1, ListTyped DEF TypeOK, Lists, Copy, Idle
<1>3. ASSUME NEW s \in Slots, OnClipboard(s) PROVE PanesInv'
  <2>1. /\ cmd' \in [Slots -> Command \cup {None}] /\ cmd'[s] = None
        /\ \A r \in Slots \ {s} : cmd'[r] = cmd[r]
        /\ \A r \in Slots : Staged(r)'
    BY <1>3, StagesTaken DEF OnClipboard, Quiet
  <2>2. /\ UNCHANGED <<screenVars, pane, outCursor, choices, adding, panicked, chosen>> /\ Quiet
        /\ input' \in {input, "blank", "text"} /\ (~ adding => input' = input)
        /\ cmd[s].kind = "clipboard"
    BY <1>3 DEF OnClipboard, Running
  <2>3. TypeOK'
    BY <1>1, <2>1, <2>2 DEF TypeOK, Quiet, screenVars, storeVars
  <2>4. CursorOnList' /\ ClosedFormIsEmpty' /\ CopyInv'
    BY <1>1, <2>2 DEF CursorOnList, ClosedFormIsEmpty, CopyInv, Idle, screenVars, Quiet, storeVars
  <2>5. \A r \in Slots : Unhandled(r) => Unhandled(r)'
    BY <2>1, <2>2 DEF Unhandled, Writers
  <2>6. CurrentInv'
    BY <1>1, <2>2, <2>5, CurrentKept DEF Quiet, screenVars
  <2> QED BY <2>1, <2>3, <2>4, <2>6 DEF PanesInv
<1>4. ASSUME NEW s \in Slots, OnResult(s) PROVE PanesInv'
  <2>1. /\ cmd' \in [Slots -> Command \cup {None}] /\ \A r \in Slots : Staged(r)'
    BY <1>4, StagesTaken DEF OnResult
  <2>2. /\ copying' = [room |-> size, len |-> -1, out |-> <<>>, marks |-> {}]
        /\ UNCHANGED <<storeVars, screenVars, pane, outCursor, choices, formVars, panicked, known, chosen>>
    BY <1>4 DEF OnResult
  <2>3. copying' \in Copy /\ ~ Idle'
    <3>1. [room |-> size, len |-> -1, out |-> <<>>, marks |-> {}] \in Copy
      BY <1>2 DEF Copy, Lists
    <3> QED BY <2>2, <3>1, CopyIsNotNone DEF Idle
  <2>4. TypeOK'
    BY <1>1, <2>1, <2>2, <2>3 DEF TypeOK, screenVars, storeVars, formVars
  <2>5. CursorOnList' /\ ClosedFormIsEmpty'
    BY <1>1, <2>2 DEF CursorOnList, ClosedFormIsEmpty, screenVars, formVars
  <2>6. copying'.room = size' /\ copying'.len = -1 /\ copying'.out = <<>> /\ copying'.marks = {} /\ array' = array
    BY <2>2 DEF storeVars
  <2>7. CopyInv'
    BY <1>2, <2>2, <2>6 DEF CopyInv, storeVars
  <2>8. CurrentInv'
    BY <2>3, <2>6 DEF CurrentInv, CopyCurrent
  <2> QED BY <2>1, <2>4, <2>5, <2>7, <2>8 DEF PanesInv
<1>5. CASE OnGroups
  <2>1. CursorOnList' /\ ClosedFormIsEmpty'
    BY <1>1, <1>5 DEF OnGroups, CursorOnList, ClosedFormIsEmpty, screenVars, formVars
  <2> QED BY <1>1, <1>5, <2>1, Browses DEF OnGroups, TypeOK, screenVars, formVars
<1>6. ASSUME Copying
      PROVE  /\ ~ Idle /\ (\A r \in Slots : Staged(r)') /\ ClosedFormIsEmpty' /\ list' = list
             /\ \A r \in Slots : Unhandled(r)' <=> Unhandled(r)
  BY <1>1, <1>6 DEF Copying, Staged, ClosedFormIsEmpty, Unhandled, list, storeVars, formVars
<1>7. ASSUME Copying, copying' \in Copy, panicked' \in BOOLEAN, UNCHANGED screenVars,
             CopyInv', CopyCurrent => CopyCurrent'
      PROVE  PanesInv'
  <2>1. TypeOK'
    BY <1>1, <1>7 DEF Copying, TypeOK, screenVars, storeVars, formVars
  <2>2. CursorOnList'
    BY <1>1, <1>7 DEF CursorOnList, screenVars
  <2>3. CurrentInv'
    BY <1>1, <1>6, <1>7, CopyIsNotNone DEF CurrentInv, Idle
  <2> QED BY <1>6, <1>7, <2>1, <2>2, <2>3 DEF PanesInv
<1>8. CASE RangeList
  <2>1. Copying /\ copying.len = -1 /\ UNCHANGED screenVars /\ UNCHANGED <<array, size, active>>
    BY <1>8 DEF RangeList, Copying, storeVars
  <2>2. CASE panicked' = TRUE /\ UNCHANGED copying
    BY <1>1, <1>2, <1>6, <1>7, <2>1, <2>2 DEF CopyInv, CopyCurrent, Idle
  <2>3. CASE ~ (size > copying.room) /\ copying' = [copying EXCEPT !.len = size] /\ UNCHANGED panicked
    <3>1. copying \in Copy
      BY <1>2, <1>6, <2>1
    <3>2. /\ copying' \in Copy /\ copying'.len = size /\ copying'.room = copying.room
          /\ copying'.out = copying.out /\ copying'.marks = copying.marks
      BY <1>2, <2>3, <3>1 DEF Copy
    <3>3. Len(copying.out) = 0
      BY <1>1, <1>2, <1>6, <2>1 DEF CopyInv
    <3>4. CopyInv'
      BY <1>2, <1>6, <2>1, <2>3, <3>2, <3>3 DEF CopyInv
    <3>5. CopyCurrent => CopyCurrent'
      BY <2>1, <3>2 DEF CopyCurrent
    <3> QED BY <1>1, <1>7, <2>1, <2>3, <3>2, <3>4, <3>5 DEF TypeOK
  <2> QED BY <1>8, <2>2, <2>3 DEF RangeList
<1>9. CASE CopyLine
  <2>1. /\ Copying /\ Len(copying.out) < copying.len /\ UNCHANGED <<screenVars, panicked>>
        /\ UNCHANGED <<array, size, active>>
    BY <1>9 DEF CopyLine, Copying, storeVars
  <2>2. PICK n \in Nat : n = Len(copying.out) + 1
    BY <1>2, <1>6, <2>1
  <2>3. copying' = [copying EXCEPT !.out = Append(@, array[n]),
                                   !.marks = @ \cup {m \in {n} : array[m] = active}]
    BY <1>9, <2>2 DEF CopyLine
  <2>4. copying \in Copy /\ n \in 1..Len(array) /\ n <= copying.len
    BY <1>1, <1>2, <1>6, <2>1, <2>2 DEF CopyInv
  <2>5. array[n] \in Ids \cup {NoId}
    BY <1>2, <2>4 DEF Lists
  <2> DEFINE out == Append(copying.out, array[n])
             marks == copying.marks \cup {m \in {n} : array[m] = active}
  <2>6. out \in Lists /\ Len(out) = n /\ marks \in SUBSET Nat
        /\ \A k \in 1..n : out[k] = IF k = n THEN array[n] ELSE copying.out[k]
    BY <1>2, <1>6, <2>1, <2>2, <2>5 DEF Lists
  <2>7. copying' = [copying EXCEPT !.out = out, !.marks = marks]
    BY <2>3
  <2> HIDE DEF out, marks
  <2>8. /\ copying' \in Copy /\ copying'.len = copying.len /\ copying'.room = copying.room
        /\ copying'.out = out /\ copying'.marks = marks
    BY <2>4, <2>6, <2>7 DEF Copy
  <2>9. CopyInv'
    BY <1>1, <1>2, <1>6, <2>1, <2>4, <2>6, <2>8 DEF CopyInv
  <2>10. ASSUME CopyCurrent PROVE CopyCurrent'
    <3>1. Len(copying.out) = n - 1 /\ (\A k \in 1..(n - 1) : copying.out[k] = array[k])
          /\ copying.marks = {k \in 1..(n - 1) : array[k] = active}
      BY <1>2, <1>6, <2>1, <2>2, <2>10 DEF CopyCurrent
    <3>2. \A k \in 1..n : out[k] = array[k]
      BY <2>6, <3>1
    <3>3. marks = {k \in 1..n : array[k] = active}
      BY <2>4, <3>1 DEF marks
    <3> QED BY <2>1, <2>6, <2>8, <2>10, <3>2, <3>3 DEF CopyCurrent
  <2> QED BY <1>1, <1>7, <2>1, <2>8, <2>9, <2>10 DEF TypeOK
<1>10. CASE ShowList
  <2> DEFINE copy == copying.out \o [i \in 1..(copying.room - copying.len) |-> NoId]
  <2>1. /\ Copying /\ Len(copying.out) = copying.len
        /\ shown' = copy /\ marked' = copying.marks /\ cursor' = Clamp(cursor, copying.room)
        /\ copying' = None /\ UNCHANGED panicked
    BY <1>10 DEF ShowList
  <2>2. copying.len \in Nat /\ copying.len <= copying.room
    BY <1>1, <1>2, <1>6, <2>1 DEF CopyInv
  <2>3. /\ copy \in Lists /\ Len(copy) = copying.room
        /\ (copying.room = copying.len => copy = copying.out)
    <3> DEFINE pad == [k \in 1..(copying.room - copying.len) |-> NoId]
    <3>1. copying.out \in Seq(Ids \cup {NoId}) /\ copying.room - copying.len \in Nat
      BY <1>2, <1>6, <2>1, <2>2 DEF Lists
    <3>2. pad \in Seq(Ids \cup {NoId}) /\ Len(pad) = copying.room - copying.len
      BY <3>1
    <3> HIDE DEF pad
    <3>3. Len(copying.out) + Len(pad) = copying.room /\ copying.room \in Nat
      BY <1>2, <1>6, <2>1, <2>2, <3>2
    <3>4. /\ copying.out \o pad \in Seq(Ids \cup {NoId}) /\ Len(copying.out \o pad) = copying.room
          /\ copying.room = Len(copying.out) => copying.out \o pad = copying.out
      BY <3>1, <3>2, <3>3, CopyTyped
    <3>5. copy = copying.out \o pad
      BY DEF pad
    <3> QED BY <2>1, <3>4, <3>5 DEF Lists
  <2> HIDE DEF copy
  <2>4. cursor' \in Nat /\ cursor' \in 0..(IF copying.room = 0 THEN 0 ELSE copying.room - 1)
    BY <1>2, <1>6, <2>1 DEF Clamp
  <2>5. shown' = <<>> => copying.room = 0
    BY <2>1, <2>3
  <2>6. TypeOK'
    BY <1>1, <1>2, <1>6, <2>1, <2>3, <2>4 DEF Copying, TypeOK, storeVars, formVars
  <2>7. CursorOnList'
    BY <1>2, <1>6, <2>1, <2>3, <2>4, <2>5 DEF CursorOnList
  <2>8. CopyInv'
    BY <2>1 DEF CopyInv, Idle
  <2>9. CopyCurrent => shown' = list /\ marked' = MarkedIn(list, active)
    <3> SUFFICES ASSUME CopyCurrent PROVE shown' = list /\ marked' = MarkedIn(list, active)
      OBVIOUS
    <3>1. copying.room = size /\ copying.len = size /\ Len(copying.out) = size
      BY <2>1, <2>2 DEF CopyCurrent
    <3>2. \A k \in 1..size : copying.out[k] = list[k]
      BY <1>2, <3>1 DEF CopyCurrent
    <3>3. copying.out = list
      BY <1>2, <1>6, <2>1, <3>1, <3>2 DEF Lists
    <3>4. copying.marks = {k \in 1..size : array[k] = active} /\ DOMAIN list = 1..size
      BY <1>2, <3>1 DEF CopyCurrent, Lists
    <3> QED BY <1>2, <2>1, <2>3, <3>1, <3>3, <3>4 DEF MarkedIn
  <2>10. CurrentInv'
    BY <1>1, <1>6, <2>1, <2>9 DEF CurrentInv, Idle, Copying, storeVars
  <2> QED BY <1>6, <2>1, <2>6, <2>7, <2>8, <2>10 DEF PanesInv
<1> QED BY <1>3, <1>4, <1>5, <1>8, <1>9, <1>10 DEF Handle

\* The invariant is inductive.
LEMMA PanesInductive == PanesInv /\ [Next]_vars => PanesInv'
<1> SUFFICES ASSUME PanesInv, [Next]_vars PROVE PanesInv'
  OBVIOUS
<1>1. CASE UNCHANGED vars
  <2>1. UNCHANGED <<screenVars, cmd, pane, outCursor, choices, formVars, panicked, chosen>> /\ Quiet
    BY <1>1 DEF vars, Quiet
  <2>2. CursorOnList' /\ ClosedFormIsEmpty'
    BY <2>1 DEF PanesInv, CursorOnList, ClosedFormIsEmpty, screenVars, formVars
  <2> QED BY <2>1, <2>2, Browses DEF PanesInv, TypeOK, screenVars, formVars
<1>2. CASE Next
  BY <1>1, <1>2, KeysKeep, HandlersKeep, CommandKeeps DEF Next, Ended
<1> QED BY <1>1, <1>2

\* So the invariant always holds.
LEMMA PanesAlways == Spec => []PanesInv
BY InitPanes, PanesInductive, PTL DEF Spec

\* The store, the screen, the form and the commands keep their types, whatever
\* the commands overlap.
THEOREM Typed == Spec => []TypeOK
<1>1. PanesInv => TypeOK
  BY DEF PanesInv
<1> QED BY <1>1, PanesAlways, PTL

\* moveCursor and refreshProfiles keep the cursor on the list (dashboard.go:487),
\* whatever the commands overlap and the copies have met.
THEOREM CursorStaysOnList == Spec => []CursorOnList
<1>1. PanesInv => CursorOnList
  BY DEF PanesInv
<1> QED BY <1>1, PanesAlways, PTL

\* With no result awaited the list on the screen, and its marker, are those of the
\* store (dashboard.go:488), whatever the commands overlap and the copies have met.
THEOREM ScreenCatchesUp == Spec => []ScreenIsCurrent
<1>1. ASSUME PanesInv, Idle, \A s \in Slots : cmd[s] = None \/ cmd[s].kind \in {"clipboard", "other"}
      PROVE  shown = list /\ marked = MarkedIn(list, active)
  <2>1. \A s \in Slots : ~ Unhandled(s)
    BY <1>1 DEF Unhandled, Writers
  <2> QED BY <1>1, <2>1 DEF PanesInv, CurrentInv
<1>2. PanesInv => ScreenIsCurrent
  BY <1>1 DEF ScreenIsCurrent
<1> QED BY <1>2, PanesAlways, PTL

\* A closed form is empty, however late a clipboard tool answers (dashboard.go:185).
THEOREM FormsStartEmpty == Spec => []ClosedFormIsEmpty
<1>1. PanesInv => ClosedFormIsEmpty
  BY DEF PanesInv
<1> QED BY <1>1, PanesAlways, PTL

(***************************************************************************)
(* When the commands that change the store do not overlap                  *)
(***************************************************************************)
\* No two commands that change the store run at the same time; all the others may,
\* and any may follow another before Update has handled its result.
Separate == \A k, l \in Writers : {k, l} \notin Overlaps

Working(s) == Unhandled(s) /\ cmd[s].at # Posted

Exclusive == \A s, r \in Slots : Working(s) /\ Working(r) => s = r

\* The profiles between the place of the one deleted and the index have moved up.
Shifted(s) ==
    /\ Len(cmd[s].seen) = size /\ cmd[s].ix \in 1..size
    /\ \E p \in 1..cmd[s].ix :
          /\ cmd[s].seen[p] = cmd[s].id
          /\ \A k \in 1..size :
                array[k] = IF p <= k /\ k < cmd[s].ix THEN cmd[s].seen[k + 1] ELSE cmd[s].seen[k]

\* What a command has seen of the store still holds.
Holds(s) == cmd[s] # None =>
    /\ cmd[s].kind = "delete" => cmd[s].id \in chosen \cup {NoId}
    /\ cmd[s].kind = "delete" /\ cmd[s].at = 1 =>
          cmd[s].ix \in 1..size /\ list[cmd[s].ix] = cmd[s].id
    /\ cmd[s].kind = "delete" /\ cmd[s].at = 2 => Shifted(s)
    /\ cmd[s].kind = "add" /\ cmd[s].at = 2 => cmd[s].seen = list
    /\ cmd[s].kind = "activate" /\ cmd[s].at = 1 => cmd[s].id \in ToSet(list)

HoldInv == PanesInv /\ Exclusive /\ \A s \in Slots : Holds(s)

\* While a command works on the store no other does.
LEMMA OthersRest ==
    ASSUME Exclusive, NEW s \in Slots, Working(s)
    PROVE  \A r \in Slots \ {s} : ~ Working(r) /\ ~ Pending(r) /\ ~ Cutting(r) /\ ~ Shifting(r)
BY DEF Exclusive, Working, Unhandled, Pending, Cutting, Shifting, Writers, Posted

\* The profiles, when s is the only one that may be moving them.
LEMMA ProfilesOf ==
    \A s \in Slots : (\A r \in Slots \ {s} : ~ Shifting(r)) =>
        Profiles = IF Shifting(s) THEN cmd[s].seen ELSE list
<1> SUFFICES ASSUME NEW s \in Slots, \A r \in Slots \ {s} : ~ Shifting(r)
             PROVE  Profiles = IF Shifting(s) THEN cmd[s].seen ELSE list
  OBVIOUS
<1>1. CASE Shifting(s)
  <2>1. PICK t : t = CHOOSE r \in Slots : Shifting(r)
    OBVIOUS
  <2>2. t \in Slots /\ Shifting(t)
    BY <1>1, <2>1
  <2>3. t = s
    BY <2>2
  <2> QED BY <1>1, <2>1, <2>3 DEF Profiles
<1>2. CASE ~ Shifting(s)
  BY <1>2 DEF Profiles
<1> QED BY <1>1, <1>2

\* They are the same next ones.
LEMMA NextProfilesOf ==
    (\A s \in Slots : (\A r \in Slots \ {s} : ~ Shifting(r)) =>
        Profiles = IF Shifting(s) THEN cmd[s].seen ELSE list)'
BY ProfilesOf, PTL

\* Who leaves the list and the deletions alone leaves the profiles alone.
LEMMA ProfilesKept ==
    ASSUME Exclusive, list' = list,
           \A r \in Slots : /\ Shifting(r)' <=> Shifting(r)
                            /\ Shifting(r) => cmd'[r].seen = cmd[r].seen
    PROVE  Profiles' = Profiles
<1>1. CASE \E t \in Slots : Shifting(t)
  <2>1. PICK t \in Slots : Shifting(t)
    BY <1>1
  <2>2. \A r \in Slots \ {t} : ~ Shifting(r)
    BY <2>1, OthersRest DEF Shifting, Working, Unhandled, Writers, Posted
  <2>3. Profiles = cmd[t].seen
    BY <2>1, <2>2, ProfilesOf
  <2>4. Profiles' = cmd'[t].seen
    BY <2>1, <2>2, NextProfilesOf
  <2> QED BY <2>1, <2>3, <2>4
<1>2. CASE ~ \E t \in Slots : Shifting(t)
  BY <1>2 DEF Profiles
<1> QED BY <1>1, <1>2

\* A step of a command keeps what the others hold of the store: those of them that
\* have looked at it are done with it.
LEMMA HoldsOn ==
    ASSUME HoldInv, PanesInv', NEW s \in Slots, cmd[s] # None, cmd[s].at # Posted,
           NEW i, NEW n, NEW l, NEW k, Turns(s, i, n, l, k), chosen' = chosen,
           cmd[s].kind \in Writers \/ UNCHANGED storeVars, Holds(s)'
    PROVE  /\ HoldInv'
           /\ cmd[s].kind \in Writers =>
                 /\ Profiles = IF Shifting(s) THEN cmd[s].seen ELSE list
                 /\ Profiles' = IF Shifting(s)' THEN cmd'[s].seen ELSE list'
           /\ cmd[s].kind \notin Writers => Profiles' = Profiles
<1>1. /\ cmd'[s] # None /\ cmd'[s].kind = cmd[s].kind
      /\ \A r \in Slots \ {s} : cmd'[r] = cmd[r]
  BY DEF Turns
<1>2. \A r \in Slots : Working(r)' => Working(r)
  BY <1>1 DEF Working, Unhandled
<1>3. Exclusive'
  BY <1>2 DEF HoldInv, Exclusive
<1>4. ASSUME NEW r \in Slots PROVE Holds(r)'
  <2>1. CASE r = s
    BY <2>1
  <2>2. CASE r # s /\ UNCHANGED storeVars
    <3>1. list' = list
      BY <2>2 DEF list, storeVars
    <3>2. cmd'[r] = cmd[r] /\ Holds(r) /\ UNCHANGED <<array, size, active>>
      BY <1>1, <2>2 DEF HoldInv, storeVars
    <3>3. Shifted(r)' <=> Shifted(r)
      BY <3>2 DEF Shifted
    <3> QED BY <3>1, <3>2, <3>3 DEF Holds
  <2>3. CASE r # s /\ cmd[s].kind \in Writers
    <3>1. ~ Working(r)
      BY <2>3, OthersRest DEF HoldInv, Working, Unhandled
    <3>2. cmd[r] # None /\ cmd[r].kind \in Writers => cmd[r].at = Posted
      BY <3>1 DEF Working, Unhandled
    <3> QED BY <1>1, <2>3, <3>2 DEF HoldInv, Holds, Writers, Posted
  <2> QED BY <2>1, <2>2, <2>3
<1>5. ASSUME cmd[s].kind \in Writers
      PROVE  /\ Profiles = IF Shifting(s) THEN cmd[s].seen ELSE list
             /\ Profiles' = IF Shifting(s)' THEN cmd'[s].seen ELSE list'
  <2>1. \A r \in Slots \ {s} : ~ Shifting(r) /\ ~ Shifting(r)'
    BY <1>1, <1>5, OthersRest DEF HoldInv, Working, Unhandled, Shifting
  <2> QED BY <2>1, ProfilesOf, NextProfilesOf
<1>6. ASSUME cmd[s].kind \notin Writers PROVE Profiles' = Profiles
  <2>1. list' = list
    BY <1>6 DEF list, storeVars
  <2>2. \A r \in Slots : (Shifting(r)' <=> Shifting(r)) /\ (Shifting(r) => cmd'[r].seen = cmd[r].seen)
    BY <1>1, <1>6 DEF Shifting, Writers
  <2> QED BY <2>1, <2>2, ProfilesKept DEF HoldInv
<1> QED BY <1>3, <1>4, <1>5, <1>6 DEF HoldInv

\* What a step of a command can be: it gets ready, ...
Prepares(s) ==
    /\ cmd[s].kind \in Writers /\ UNCHANGED <<Profiles, active, known>>
    /\ cmd'[s].id = cmd[s].id /\ (Pending(s)' <=> Pending(s))
    /\ ~ Cutting(s) /\ ~ Cutting(s)' /\ cmd'[s].at # Posted
\* ... gives up, ...
GivesUp(s) ==
    /\ cmd[s].kind \in Writers /\ UNCHANGED <<Profiles, active, known>>
    /\ cmd[s].id # NoId => Pending(s)
    /\ ~ Cutting(s) /\ cmd'[s].at = Posted /\ cmd'[s].id = NoId
    /\ cmd[s].kind = "add" \/ cmd[s].id \notin ToSet(Profiles)
\* ... has its effect, ...
Cuts(s) ==
    /\ cmd[s].kind = "delete" /\ Shifting(s) /\ Cutting(s)' /\ cmd'[s].id = cmd[s].id
    /\ \E p \in 1..Len(Profiles) : Profiles[p] = cmd[s].id /\ Profiles' = RemoveAt(Profiles, p)
    /\ cmd[s].id \in chosen \cup {NoId}
    /\ UNCHANGED <<active, known>>
Sets(s) ==
    /\ cmd[s].kind = "activate" /\ cmd[s].at = 1 /\ cmd'[s].at = Posted /\ cmd'[s].id = NoId
    /\ cmd[s].id \in ToSet(Profiles)
    /\ active' = cmd[s].id /\ UNCHANGED <<Profiles, known>>
Appends(s) ==
    /\ cmd[s].kind = "add" /\ cmd[s].at = 2 /\ cmd'[s].at = Posted /\ cmd'[s].id = NoId
    /\ Profiles' = Append(Profiles, cmd[s].id) /\ known' = known \cup {cmd[s].id} /\ UNCHANGED active
\* ... cleans up after it, ...
Clears(s) ==
    /\ cmd[s].kind = "delete" /\ cmd[s].at = 3 /\ cmd'[s].at = Posted /\ cmd'[s].id = NoId
    /\ active' = (IF active = cmd[s].id THEN NoId ELSE active) /\ UNCHANGED <<Profiles, known>>
\* ... or is none of the store's.
Elsewhere(s) == cmd[s].kind \notin Writers /\ UNCHANGED <<Profiles, active, known>>

\* RemoveAt moves the elements behind the one it removes up by one.
LEMMA RemoveAtElements ==
    ASSUME NEW S, NEW l \in Seq(S), NEW i \in 1..Len(l), NEW k \in 1..(Len(l) - 1)
    PROVE  RemoveAt(l, i)[k] = l[IF k < i THEN k ELSE k + 1]
<1> DEFINE a == SubSeq(l, 1, i - 1)
           b == SubSeq(l, i + 1, Len(l))
<1>0. Len(l) \in Nat /\ i \in Int /\ k \in Int
  OBVIOUS
<1>1. a \in Seq(S) /\ Len(a) = i - 1 /\ \A j \in 1..(i - 1) : a[j] = l[j]
  BY SubSeqProperties
<1>2. b \in Seq(S) /\ Len(b) = Len(l) - i /\ \A j \in 1..(Len(l) - i) : b[j] = l[i + j]
  BY SubSeqProperties
<1>3. RemoveAt(l, i) = a \o b
  BY DEF RemoveAt
<1> HIDE DEF a, b
<1>4. \A j \in 1..Len(a) + Len(b) : (a \o b)[j] = IF j <= Len(a) THEN a[j] ELSE b[j - Len(a)]
  BY <1>1, <1>2, ConcatProperties, Zenon
<1>5. k \in 1..Len(a) + Len(b)
  BY <1>0, <1>1, <1>2
<1>6. CASE k < i
  <2>1. k <= Len(a) /\ k \in 1..(i - 1)
    BY <1>0, <1>1, <1>6
  <2> QED BY <1>1, <1>3, <1>4, <1>5, <1>6, <2>1
<1>7. CASE ~ (k < i)
  <2>1. ~ (k <= Len(a)) /\ k - Len(a) = k - i + 1 /\ k - i + 1 \in 1..(Len(l) - i) /\ i + (k - i + 1) = k + 1
    BY <1>0, <1>1, <1>7
  <2>2. (a \o b)[k] = b[k - i + 1]
    BY <1>4, <1>5, <2>1
  <2>3. b[k - i + 1] = l[i + (k - i + 1)]
    BY <1>2, <2>1
  <2> QED BY <1>3, <1>7, <2>1, <2>2, <2>3
<1> QED BY <1>6, <1>7

\* When all the profiles behind it have moved up, the list without its last line is
\* the list without the one deleted.
LEMMA CutRemoves ==
    ASSUME NEW S, NEW a \in Seq(S), NEW l \in Seq(S), Len(l) >= 1, Len(l) <= Len(a), NEW p \in 1..Len(l),
           \A k \in 1..Len(l) : a[k] = IF p <= k /\ k < Len(l) THEN l[k + 1] ELSE l[k]
    PROVE  SubSeq(a, 1, Len(l) - 1) = RemoveAt(l, p)
<1>1. Len(l) \in Nat /\ Len(a) \in Nat /\ p \in Int
  OBVIOUS
<1>2. RemoveAt(l, p) \in Seq(S) /\ Len(RemoveAt(l, p)) = Len(l) - 1
  BY RemoveAtTyped
<1>3. \A k \in 1..(Len(l) - 1) : RemoveAt(l, p)[k] = l[IF k < p THEN k ELSE k + 1]
  BY RemoveAtElements
<1>4. /\ SubSeq(a, 1, Len(l) - 1) \in Seq(S) /\ Len(SubSeq(a, 1, Len(l) - 1)) = Len(l) - 1
      /\ \A k \in 1..(Len(l) - 1) : SubSeq(a, 1, Len(l) - 1)[k] = a[k]
  <2>1. PICK m : m = Len(l) - 1
    OBVIOUS
  <2>2. m \in Nat /\ m <= Len(a)
    BY <1>1, <2>1
  <2>3. SubSeq(a, 1, m) \in Seq(S) /\ Len(SubSeq(a, 1, m)) = m
        /\ \A k \in 1..m : SubSeq(a, 1, m)[k] = a[k]
    BY <1>1, <2>2
  <2> QED BY <2>1, <2>3
<1>5. \A k \in 1..(Len(l) - 1) : a[k] = l[IF k < p THEN k ELSE k + 1]
  BY <1>1
<1>6. PICK b, c : b = SubSeq(a, 1, Len(l) - 1) /\ c = RemoveAt(l, p)
  OBVIOUS
<1>7. b \in Seq(S) /\ c \in Seq(S) /\ Len(b) = Len(c) /\ \A k \in 1..Len(b) : b[k] = c[k]
  BY <1>1, <1>2, <1>3, <1>4, <1>5, <1>6
<1>8. b = c
  BY <1>7, SeqEqual
<1> QED BY <1>6, <1>8

\* That is all, and every step keeps what the commands hold of the store.
LEMMA StepEffects ==
    ASSUME HoldInv, NEW s \in Slots, CommandStep(s)
    PROVE  /\ HoldInv' /\ panicked' = panicked /\ chosen' = chosen
           /\ cmd[s] # None /\ cmd[s].at # Posted /\ cmd'[s] # None /\ cmd'[s].kind = cmd[s].kind
           /\ \A r \in Slots \ {s} : cmd'[r] = cmd[r]
           /\ \/ Prepares(s) \/ GivesUp(s) \/ Cuts(s) \/ Sets(s) \/ Appends(s) \/ Clears(s)
              \/ Elsewhere(s)
<1>1. TypeOK /\ Holds(s) /\ PanesInv' /\ Staged(s)
  BY CommandKeeps DEF HoldInv, PanesInv
<1>2. chosen' = chosen /\ cmd[s] # None /\ cmd[s].at # Posted
  BY DEF CommandStep, DeleteFinds, DeleteSlices, DeleteShifts, DeleteCuts, DeleteClears, ActivateFinds,
         ActivateSets, AddChecks, AddReads, AddAppends, Answered, Running, Untouched, Posted
<1>3. /\ array \in Lists /\ Len(array) \in Nat /\ size \in Nat /\ size <= Len(array)
      /\ list \in Lists /\ Len(list) = size /\ DOMAIN list = 1..size
      /\ \A k \in 1..size : list[k] = array[k]
  BY <1>1, ListTyped
<1>4. /\ cmd[s] \in Command /\ cmd[s].ix \in Nat /\ cmd[s].seen \in Lists /\ Len(cmd[s].seen) \in Nat
      /\ cmd[s].id \in Ids \cup {NoId}
  BY <1>1, <1>2 DEF TypeOK, Command, Lists
<1>5. ASSUME NEW i, NEW n, NEW l, NEW k, Turns(s, i, n, l, k)
      PROVE  /\ cmd'[s] # None /\ cmd'[s].kind = cmd[s].kind /\ \A r \in Slots \ {s} : cmd'[r] = cmd[r]
             /\ cmd'[s].id = i /\ cmd'[s].at = n /\ cmd'[s].seen = l /\ cmd'[s].ix = k
  BY <1>5 DEF Turns
\* Others are not moving profiles up when a command that changes the store looks.
<1>6. cmd[s].kind \in Writers => ~ MayMiss(s)
  BY <1>2, OthersRest DEF HoldInv, Working, Unhandled, MayMiss
<1>7. ASSUME UNCHANGED storeVars PROVE list' = list
  BY <1>7 DEF list, storeVars
<1>8. CASE DeleteFinds(s)
  <2>1. cmd[s].kind = "delete" /\ cmd[s].at = 0 /\ UNCHANGED <<storeVars, panicked, known>>
    BY <1>8 DEF DeleteFinds, Running
  <2>2. CASE cmd[s].id \notin ToSet(list) /\ Post(s)
    <3>1. Turns(s, NoId, Posted, <<>>, 0)
      BY <1>1, <1>2, <2>2, Posts
    <3>2. Holds(s)'
      BY <1>5, <2>1, <3>1 DEF Holds, Posted
    <3>3. HoldInv' /\ Profiles = list /\ Profiles' = list'
      BY <1>1, <1>2, <1>5, <2>1, <3>1, <3>2, HoldsOn DEF Writers, Shifting, Posted
    <3>4. GivesUp(s)
      BY <1>2, <1>5, <1>7, <2>1, <2>2, <3>1, <3>3 DEF GivesUp, Pending, Cutting, Posted, Writers, storeVars
    <3> QED BY <1>2, <1>5, <2>1, <3>1, <3>3, <3>4
  <2>3. CASE cmd[s].id \in ToSet(list) /\ Finds(s, 1, Place(cmd[s].id))
    <3>1. Place(cmd[s].id) \in 1..size /\ list[Place(cmd[s].id)] = cmd[s].id
      BY <1>1, <2>3, PlaceFound
    <3>2. PICK i : i = Place(cmd[s].id)
      OBVIOUS
    <3>3. Turns(s, cmd[s].id, 1, cmd[s].seen, i)
      BY <1>1, <1>2, <1>3, <2>3, <3>1, <3>2, FindsIndex
    <3>4. Holds(s)'
      BY <1>1, <1>2, <1>5, <1>7, <2>1, <3>1, <3>2, <3>3 DEF Holds, storeVars
    <3>5. HoldInv' /\ Profiles = list /\ Profiles' = list'
      BY <1>1, <1>2, <1>5, <2>1, <3>3, <3>4, HoldsOn DEF Writers, Shifting
    <3>6. Prepares(s)
      BY <1>2, <1>5, <1>7, <2>1, <3>3, <3>5 DEF Prepares, Pending, Cutting, Posted, Writers, storeVars
    <3> QED BY <1>2, <1>5, <2>1, <3>3, <3>5, <3>6
  <2> QED BY <1>6, <1>8, <2>1, <2>2, <2>3 DEF DeleteFinds, Finds, Writers
<1>9. CASE DeleteSlices(s)
  <2>1. cmd[s].kind = "delete" /\ cmd[s].at = 1 /\ UNCHANGED <<storeVars, known>>
    BY <1>9 DEF DeleteSlices, Running
  <2>2. cmd[s].ix \in 1..size /\ list[cmd[s].ix] = cmd[s].id
    BY <1>1, <1>2, <2>1 DEF Holds
  <2>3. HasRead(s, 2, list) /\ panicked' = panicked
    BY <1>3, <1>9, <2>2 DEF DeleteSlices, HasRead
  <2>4. Turns(s, cmd[s].id, 2, list, cmd[s].ix)
    BY <1>1, <1>2, <1>3, <2>3, ReadsList
  <2>5. Shifted(s)'
    <3>1. cmd'[s].seen = list /\ cmd'[s].ix = cmd[s].ix /\ cmd'[s].id = cmd[s].id
          /\ array' = array /\ size' = size
      BY <1>5, <2>1, <2>4 DEF storeVars
    <3>2. cmd[s].ix \in 1..cmd[s].ix
      BY <2>2
    <3>3. \A k \in 1..size :
             array[k] = IF cmd[s].ix <= k /\ k < cmd[s].ix THEN list[k + 1] ELSE list[k]
      BY <1>3, <2>2
    <3> QED BY <1>3, <2>2, <3>1, <3>2, <3>3 DEF Shifted
  <2>6. Holds(s)'
    BY <1>1, <1>2, <1>5, <2>1, <2>4, <2>5 DEF Holds
  <2>7. HoldInv' /\ Profiles = list /\ Profiles' = list
    BY <1>1, <1>2, <1>5, <2>1, <2>4, <2>6, HoldsOn DEF Writers, Shifting
  <2>8. Prepares(s)
    BY <1>2, <1>5, <2>1, <2>4, <2>7 DEF Prepares, Pending, Cutting, Posted, Writers, storeVars
  <2> QED BY <1>2, <1>5, <2>3, <2>4, <2>7, <2>8
<1>10. CASE DeleteShifts(s)
  <2>1. /\ cmd[s].kind = "delete" /\ cmd[s].at = 2
        /\ cmd[s].ix < Len(cmd[s].seen)
        /\ array' = [array EXCEPT ![cmd[s].ix] = array[cmd[s].ix + 1]]
        /\ cmd' = [cmd EXCEPT ![s].ix = @ + 1]
        /\ UNCHANGED <<size, active, panicked, known>>
    BY <1>10 DEF DeleteShifts, Running
  <2>2. Shifted(s)
    BY <1>1, <1>2, <2>1 DEF Holds
  <2>3. Turns(s, cmd[s].id, cmd[s].at, cmd[s].seen, cmd[s].ix + 1)
    BY <1>1, <1>2, <2>1, MovesUp
  <2>4. PICK m \in Nat : m = cmd[s].ix
    BY <1>4
  <2>5. m \in 1..size /\ m < size /\ Len(cmd[s].seen) = size /\ m + 1 \in 1..size
    BY <1>3, <2>1, <2>2, <2>4 DEF Shifted
  <2>6. PICK p \in 1..m :
            /\ cmd[s].seen[p] = cmd[s].id
            /\ \A k \in 1..size :
                  array[k] = IF p <= k /\ k < m THEN cmd[s].seen[k + 1] ELSE cmd[s].seen[k]
    BY <2>2, <2>4 DEF Shifted
  <2>7. \A k \in 1..size : array'[k] = IF k = m THEN array[m + 1] ELSE array[k]
    BY <1>3, <2>1, <2>4, <2>5 DEF Lists
  <2>8. array[m + 1] = cmd[s].seen[m + 1]
    BY <2>5, <2>6
  <2>9. \A k \in 1..size :
            array'[k] = IF p <= k /\ k < m + 1 THEN cmd[s].seen[k + 1] ELSE cmd[s].seen[k]
    BY <1>3, <2>5, <2>6, <2>7, <2>8
  <2>10. Shifted(s)'
    <3>1. cmd'[s].seen = cmd[s].seen /\ cmd'[s].ix = m + 1 /\ cmd'[s].id = cmd[s].id /\ size' = size
      BY <1>5, <2>1, <2>3, <2>4
    <3>2. p \in 1..(m + 1)
      OBVIOUS
    <3> QED BY <2>5, <2>6, <2>9, <3>1, <3>2 DEF Shifted
  <2>11. Holds(s)'
    BY <1>1, <1>2, <1>5, <2>1, <2>3, <2>10 DEF Holds
  <2>12. HoldInv' /\ Profiles = cmd[s].seen /\ Profiles' = cmd[s].seen
    BY <1>1, <1>2, <1>5, <2>1, <2>3, <2>11, HoldsOn DEF Writers, Shifting
  <2>13. Prepares(s)
    BY <1>2, <1>5, <2>1, <2>3, <2>12 DEF Prepares, Pending, Cutting, Posted, Writers
  <2> QED BY <1>2, <1>5, <2>1, <2>3, <2>12, <2>13
<1>11. CASE DeleteCuts(s)
  <2>1. /\ cmd[s].kind = "delete" /\ cmd[s].at = 2 /\ cmd[s].ix >= Len(cmd[s].seen)
        /\ size' = Len(cmd[s].seen) - 1 /\ Advance(s) /\ UNCHANGED <<array, active, panicked, known>>
    BY <1>11 DEF DeleteCuts, Running
  <2>2. Shifted(s) /\ cmd[s].id \in chosen \cup {NoId}
    BY <1>1, <1>2, <2>1 DEF Holds
  <2>3. Turns(s, cmd[s].id, 3, cmd[s].seen, cmd[s].ix)
    BY <1>1, <1>2, <2>1, Advances
  <2>4. Holds(s)'
    BY <1>1, <1>2, <1>5, <2>1, <2>3 DEF Holds
  <2>5. HoldInv' /\ Profiles = cmd[s].seen /\ Profiles' = list'
    BY <1>1, <1>2, <1>5, <2>1, <2>3, <2>4, HoldsOn DEF Writers, Shifting
  <2>6. Len(cmd[s].seen) = size /\ cmd[s].ix = size /\ size >= 1
    BY <1>3, <1>4, <2>1, <2>2 DEF Shifted
  <2>7. PICK p \in 1..size :
            /\ cmd[s].seen[p] = cmd[s].id
            /\ \A k \in 1..size :
                  array[k] = IF p <= k /\ k < size THEN cmd[s].seen[k + 1] ELSE cmd[s].seen[k]
    BY <2>2, <2>6 DEF Shifted
  <2>8. SubSeq(array, 1, size - 1) = RemoveAt(cmd[s].seen, p)
    <3>1. PICK l \in Lists : l = cmd[s].seen
      BY <1>4
    <3>2. array \in Seq(Ids \cup {NoId}) /\ l \in Seq(Ids \cup {NoId})
          /\ Len(l) = size /\ Len(l) >= 1 /\ Len(l) <= Len(array) /\ p \in 1..Len(l)
      BY <1>3, <2>6, <3>1 DEF Lists
    <3>3. \A k \in 1..Len(l) : array[k] = IF p <= k /\ k < Len(l) THEN l[k + 1] ELSE l[k]
      BY <2>7, <3>1, <3>2
    <3>4. SubSeq(array, 1, Len(l) - 1) = RemoveAt(l, p)
      BY <3>2, <3>3, CutRemoves
    <3> QED BY <3>1, <3>2, <3>4
  <2>9. list' = SubSeq(array, 1, size - 1)
    BY <2>1, <2>6 DEF list
  <2>10. Cuts(s)
    <3>1. Shifting(s) /\ Cutting(s)' /\ cmd'[s].id = cmd[s].id
      BY <1>2, <1>5, <2>1, <2>3 DEF Shifting, Cutting
    <3>2. p \in 1..Len(Profiles) /\ Profiles[p] = cmd[s].id /\ Profiles' = RemoveAt(Profiles, p)
      BY <2>5, <2>6, <2>7, <2>8, <2>9
    <3> QED BY <2>1, <2>2, <3>1, <3>2 DEF Cuts
  <2> QED BY <1>2, <1>5, <2>1, <2>3, <2>5, <2>10
<1>12. CASE DeleteClears(s)
  <2>1. cmd[s].kind = "delete" /\ cmd[s].at = 3 /\ Post(s) /\ UNCHANGED <<array, size, panicked, known>>
        /\ active' = IF active = cmd[s].id THEN NoId ELSE active
    BY <1>12 DEF DeleteClears, Running
  <2>2. Turns(s, NoId, Posted, <<>>, 0)
    BY <1>1, <1>2, <2>1, Posts
  <2>3. Holds(s)'
    BY <1>5, <2>1, <2>2 DEF Holds, Posted
  <2>4. HoldInv' /\ Profiles = list /\ Profiles' = list'
    BY <1>1, <1>2, <1>5, <2>1, <2>2, <2>3, HoldsOn DEF Writers, Shifting, Posted
  <2>5. list' = list
    BY <2>1 DEF list
  <2>6. Clears(s)
    BY <1>5, <2>1, <2>2, <2>4, <2>5 DEF Clears
  <2> QED BY <1>2, <1>5, <2>1, <2>2, <2>4, <2>6
<1>13. CASE ActivateFinds(s)
  <2>1. cmd[s].kind = "activate" /\ cmd[s].at = 0 /\ UNCHANGED <<storeVars, panicked, known>>
    BY <1>13 DEF ActivateFinds, Running
  <2>2. CASE cmd[s].id \notin ToSet(list) /\ Post(s)
    <3>1. Turns(s, NoId, Posted, <<>>, 0)
      BY <1>1, <1>2, <2>2, Posts
    <3>2. Holds(s)'
      BY <1>5, <2>1, <3>1 DEF Holds, Posted
    <3>3. HoldInv' /\ Profiles = list /\ Profiles' = list'
      BY <1>1, <1>2, <1>5, <2>1, <3>1, <3>2, HoldsOn DEF Writers, Shifting
    <3>4. GivesUp(s)
      BY <1>2, <1>5, <1>7, <2>1, <2>2, <3>1, <3>3 DEF GivesUp, Pending, Cutting, Posted, Writers, storeVars
    <3> QED BY <1>2, <1>5, <2>1, <3>1, <3>3, <3>4
  <2>3. CASE cmd[s].id \in ToSet(list) /\ Advance(s)
    <3>1. Turns(s, cmd[s].id, 1, cmd[s].seen, cmd[s].ix)
      BY <1>1, <1>2, <2>1, <2>3, Advances
    <3>2. Holds(s)'
      BY <1>5, <1>7, <2>1, <2>3, <3>1 DEF Holds
    <3>3. HoldInv' /\ Profiles = list /\ Profiles' = list'
      BY <1>1, <1>2, <1>5, <2>1, <3>1, <3>2, HoldsOn DEF Writers, Shifting
    <3>4. Prepares(s)
      BY <1>2, <1>5, <1>7, <2>1, <3>1, <3>3 DEF Prepares, Pending, Cutting, Posted, Writers, storeVars
    <3> QED BY <1>2, <1>5, <2>1, <3>1, <3>3, <3>4
  <2> QED BY <1>6, <1>13, <2>1, <2>2, <2>3 DEF ActivateFinds, Writers
<1>14. CASE ActivateSets(s)
  <2>1. cmd[s].kind = "activate" /\ cmd[s].at = 1 /\ Post(s) /\ active' = cmd[s].id
        /\ UNCHANGED <<array, size, panicked, known>>
    BY <1>14 DEF ActivateSets, Running
  <2>2. Turns(s, NoId, Posted, <<>>, 0)
    BY <1>1, <1>2, <2>1, Posts
  <2>3. Holds(s)'
    BY <1>5, <2>1, <2>2 DEF Holds, Posted
  <2>4. HoldInv' /\ Profiles = list /\ Profiles' = list'
    BY <1>1, <1>2, <1>5, <2>1, <2>2, <2>3, HoldsOn DEF Writers, Shifting
  <2>5. list' = list
    BY <2>1 DEF list
  <2>6. Sets(s)
    BY <1>1, <1>2, <1>5, <2>1, <2>2, <2>4, <2>5 DEF Sets, Holds
  <2> QED BY <1>2, <1>5, <2>1, <2>2, <2>4, <2>6
<1>15. CASE AddChecks(s)
  <2>1. cmd[s].kind = "add" /\ cmd[s].at = 0 /\ UNCHANGED <<storeVars, panicked, known>>
    BY <1>15 DEF AddChecks, Running
  <2>2. CASE Post(s)
    <3>1. Turns(s, NoId, Posted, <<>>, 0)
      BY <1>1, <1>2, <2>2, Posts
    <3>2. Holds(s)'
      BY <1>5, <2>1, <3>1 DEF Holds, Posted
    <3>3. HoldInv' /\ Profiles = list /\ Profiles' = list'
      BY <1>1, <1>2, <1>5, <2>1, <3>1, <3>2, HoldsOn DEF Writers, Shifting
    <3>4. GivesUp(s)
      BY <1>2, <1>5, <1>7, <2>1, <2>2, <3>1, <3>3 DEF GivesUp, Pending, Cutting, Posted, Writers, storeVars
    <3> QED BY <1>2, <1>5, <2>1, <3>1, <3>3, <3>4
  <2>3. CASE Advance(s)
    <3>1. Turns(s, cmd[s].id, 1, cmd[s].seen, cmd[s].ix)
      BY <1>1, <1>2, <2>1, <2>3, Advances
    <3>2. Holds(s)'
      BY <1>5, <2>1, <3>1 DEF Holds
    <3>3. HoldInv' /\ Profiles = list /\ Profiles' = list'
      BY <1>1, <1>2, <1>5, <2>1, <3>1, <3>2, HoldsOn DEF Writers, Shifting
    <3>4. Prepares(s)
      BY <1>2, <1>5, <1>7, <2>1, <3>1, <3>3 DEF Prepares, Pending, Cutting, Posted, Writers, storeVars
    <3> QED BY <1>2, <1>5, <2>1, <3>1, <3>3, <3>4
  <2> QED BY <1>15, <2>2, <2>3 DEF AddChecks
<1>16. CASE AddReads(s)
  <2>1. cmd[s].kind = "add" /\ cmd[s].at = 1 /\ HasRead(s, 2, list)
        /\ UNCHANGED <<storeVars, panicked, known>>
    BY <1>16 DEF AddReads, Running, HasRead
  <2>2. Turns(s, cmd[s].id, 2, list, cmd[s].ix)
    BY <1>1, <1>2, <1>3, <2>1, ReadsList
  <2>3. Holds(s)'
    BY <1>5, <1>7, <2>1, <2>2 DEF Holds
  <2>4. HoldInv' /\ Profiles = list /\ Profiles' = list'
    BY <1>1, <1>2, <1>5, <2>1, <2>2, <2>3, HoldsOn DEF Writers, Shifting
  <2>5. Prepares(s)
    BY <1>2, <1>5, <1>7, <2>1, <2>2, <2>4 DEF Prepares, Pending, Cutting, Posted, Writers, storeVars
  <2> QED BY <1>2, <1>5, <2>1, <2>2, <2>4, <2>5
<1>17. CASE AddAppends(s)
  <2>1. /\ cmd[s].kind = "add" /\ cmd[s].at = 2 /\ Post(s)
        /\ size' = Len(cmd[s].seen) + 1 /\ known' = known \cup {cmd[s].id} /\ UNCHANGED <<active, panicked>>
    BY <1>17 DEF AddAppends, Running
  <2>2. PICK copied \in SUBSET DOMAIN cmd[s].seen : array' = Appended(s, copied)
    BY <1>17 DEF AddAppends
  <2>3. cmd[s].seen = list /\ size' = size + 1
    BY <1>1, <1>2, <1>3, <2>1 DEF Holds
  <2>4. Turns(s, NoId, Posted, <<>>, 0)
    BY <1>1, <1>2, <2>1, Posts
  <2>5. Holds(s)'
    BY <1>5, <2>1, <2>4 DEF Holds, Posted
  <2>6. HoldInv' /\ Profiles = list /\ Profiles' = list'
    BY <1>1, <1>2, <1>5, <2>1, <2>4, <2>5, HoldsOn DEF Writers, Shifting
  <2>7. list' = Append(list, cmd[s].id)
    <3>1. /\ list' \in Lists /\ Len(list') = size + 1 /\ \A k \in 1..(size + 1) : list'[k] = array'[k]
      BY <1>1, <2>3, NextListTyped DEF PanesInv
    <3>2. array' = [k \in DOMAIN array \cup {size + 1} |->
                       IF k = size + 1 THEN cmd[s].id
                       ELSE IF k \in copied THEN list[k] ELSE array[k]]
      BY <1>3, <2>2, <2>3 DEF Appended
    <3>3. DOMAIN array = 1..Len(array)
      BY <1>3 DEF Lists
    <3>4. \A k \in 1..size : array'[k] = list[k]
      BY <1>3, <3>2, <3>3
    <3>5. array'[size + 1] = cmd[s].id
      BY <3>2
    <3>6. PICK l : l = Append(list, cmd[s].id)
      OBVIOUS
    <3>7. l \in Lists /\ Len(l) = size + 1 /\ (\A k \in 1..size : l[k] = list[k]) /\ l[size + 1] = cmd[s].id
      BY <1>3, <1>4, <3>6 DEF Lists
    <3>8. \A k \in 1..(size + 1) : list'[k] = l[k]
      <4> SUFFICES ASSUME NEW k \in 1..(size + 1) PROVE list'[k] = l[k]
        OBVIOUS
      <4>1. k \in 1..size \/ k = size + 1
        BY <1>3
      <4> QED BY <3>1, <3>4, <3>5, <3>7, <4>1
    <3>9. list' = l
      BY <3>1, <3>7, <3>8, SeqEqual DEF Lists
    <3> QED BY <3>6, <3>9
  <2>8. Appends(s)
    BY <1>5, <2>1, <2>4, <2>6, <2>7 DEF Appends
  <2> QED BY <1>2, <1>5, <2>1, <2>4, <2>6, <2>8
<1>18. CASE Answered(s)
  <2>1. cmd[s].kind \notin Writers /\ Post(s) /\ UNCHANGED <<storeVars, panicked, known>>
    BY <1>18 DEF Answered, Running, Writers
  <2>2. Turns(s, NoId, Posted, <<>>, 0)
    BY <1>1, <1>2, <2>1, Posts
  <2>3. Holds(s)'
    BY <1>5, <2>1, <2>2 DEF Holds, Writers
  <2>4. HoldInv' /\ Profiles' = Profiles
    BY <1>1, <1>2, <2>1, <2>2, <2>3, HoldsOn
  <2> QED BY <1>2, <1>5, <2>1, <2>2, <2>4 DEF Elsewhere, storeVars
<1> QED BY <1>8, <1>9, <1>10, <1>11, <1>12, <1>13, <1>14, <1>15, <1>16, <1>17, <1>18 DEF CommandStep

\* An array longer than the copy that is being made of it takes an addition whose
\* result waits.
Grown == ~ Idle /\ copying.len = -1 /\ size > copying.room =>
    \E s \in Slots : Running(s, "add", Posted)

\* Nothing is in the store, or on its way to the screen, but profiles that were added.
Stocked ==
    /\ ToSet(array) \subseteq known /\ ToSet(Profiles) \subseteq known
    /\ ~ Idle => ToSet(copying.out) \subseteq known

\* A profile that is being added is not there yet.
Fresh == \A s \in Slots : cmd[s] # None /\ cmd[s].kind = "add" /\ cmd[s].at # Posted =>
    cmd[s].id \in Ids \ known

\* The profiles nobody wanted deleted are there.
Kept == known \ chosen \subseteq ToSet(Profiles)

\* The selection names a profile, or the one a deletion has cut out.
Selected == active \in ToSet(Profiles) \cup {NoId} \/ \E s \in Slots : Cutting(s) /\ cmd[s].id = active

SafeInv ==
    /\ HoldInv /\ OnlyAddsPanic /\ Grown /\ Stocked /\ Fresh /\ Kept /\ Selected

\* The stronger invariant holds at launch.
LEMMA InitSafe == Init => SafeInv
<1> SUFFICES ASSUME Init PROVE SafeInv
  OBVIOUS
<1>1. PanesInv /\ \A s \in Slots : cmd[s] = None
  BY InitPanes DEF Init
<1>2. array \in Seq(Ids)
  BY DEF Init, SeqOf
<1>3. list = array /\ Profiles = array
  BY <1>1, <1>2 DEF Init, list, Profiles, Shifting
<1>4. HoldInv
  BY <1>1 DEF HoldInv, Exclusive, Holds, Working, Unhandled
<1>5. OnlyAddsPanic /\ Grown /\ Fresh
  BY <1>1 DEF Init, OnlyAddsPanic, Grown, Fresh, Idle
<1>6. Stocked /\ Kept /\ Selected
  BY <1>3 DEF Init, Stocked, Kept, Selected, Idle
<1> QED BY <1>4, <1>5, <1>6 DEF SafeInv

\* Only an addition brings in a profile, or makes the list longer.
LEMMA ArrayStocked ==
    ASSUME HoldInv, ToSet(array) \subseteq known, NEW s \in Slots, CommandStep(s)
    PROVE  /\ ToSet(array') \subseteq known' /\ copying' = copying
           /\ size' <= size \/ Running(s, "add", Posted)'
<1>1. TypeOK /\ Holds(s) /\ Staged(s)
  BY DEF HoldInv, PanesInv
<1>2. /\ array \in Lists /\ Len(array) \in Nat /\ DOMAIN array = 1..Len(array)
      /\ size \in Nat /\ size <= Len(array)
      /\ list \in Lists /\ Len(list) = size /\ DOMAIN list = 1..size
      /\ \A k \in 1..size : list[k] = array[k]
  BY <1>1, ListTyped DEF Lists
<1>3. cmd[s] # None /\ copying' = copying
  BY DEF CommandStep, DeleteFinds, DeleteSlices, DeleteShifts, DeleteCuts, DeleteClears, ActivateFinds,
         ActivateSets, AddChecks, AddReads, AddAppends, Answered, Running, Untouched
<1>4. cmd[s].ix \in Nat /\ cmd[s].seen \in Lists /\ Len(cmd[s].seen) \in Nat
  BY <1>1, <1>3 DEF TypeOK, Command, Lists
<1>5. CASE DeleteShifts(s)
  <2>1. /\ cmd[s].kind = "delete" /\ cmd[s].at = 2 /\ cmd[s].ix < Len(cmd[s].seen)
        /\ array' = [array EXCEPT ![cmd[s].ix] = array[cmd[s].ix + 1]] /\ size' = size /\ known' = known
    BY <1>5 DEF DeleteShifts, Running
  <2>2. cmd[s].ix \in 1..Len(array) /\ cmd[s].ix + 1 \in 1..Len(array)
    BY <1>1, <1>2, <1>3, <1>4, <2>1 DEF Staged
  <2>3. \A k \in 1..Len(array) : array'[k] = array[k] \/ array'[k] = array[cmd[s].ix + 1]
    BY <1>2, <2>1, <2>2
  <2>4. DOMAIN array' = 1..Len(array)
    BY <1>2, <2>1
  <2>5. ToSet(array') \subseteq ToSet(array)
    BY <1>2, <2>2, <2>3, <2>4 DEF ToSet
  <2>6. size' <= size
    BY <1>2, <2>1
  <2> QED BY <1>3, <2>1, <2>5, <2>6
<1>6. CASE DeleteCuts(s)
  <2>1. cmd[s].kind = "delete" /\ cmd[s].at = 2 /\ size' = Len(cmd[s].seen) - 1 /\ array' = array
        /\ known' = known
    BY <1>6 DEF DeleteCuts, Running
  <2>2. Len(cmd[s].seen) = size
    BY <1>1, <1>3, <2>1 DEF Holds, Shifted
  <2> QED BY <1>2, <1>3, <2>1, <2>2
<1>7. CASE AddAppends(s)
  <2>1. /\ cmd[s].kind = "add" /\ cmd[s].at = 2 /\ Post(s) /\ known' = known \cup {cmd[s].id}
    BY <1>7 DEF AddAppends, Running
  <2>2. PICK copied \in SUBSET DOMAIN cmd[s].seen : array' = Appended(s, copied)
    BY <1>7 DEF AddAppends
  <2>3. cmd[s].seen = list
    BY <1>1, <1>3, <2>1 DEF Holds
  <2>4. array' = [k \in DOMAIN array \cup {size + 1} |->
                     IF k = size + 1 THEN cmd[s].id
                     ELSE IF k \in copied THEN list[k] ELSE array[k]]
    BY <1>2, <2>2, <2>3 DEF Appended
  <2>5. ASSUME NEW k \in DOMAIN array' PROVE array'[k] \in ToSet(array) \cup {cmd[s].id}
    <3>1. k \in DOMAIN array \/ k = size + 1
      BY <2>4
    <3>2. CASE k = size + 1
      BY <2>4, <3>2
    <3>3. CASE k # size + 1 /\ k \in copied
      <4>1. k \in 1..size /\ k \in DOMAIN array
        BY <1>2, <2>3, <3>3
      <4>2. array'[k] = array[k]
        BY <1>2, <2>4, <3>3, <4>1
      <4> QED BY <4>1, <4>2 DEF ToSet
    <3>4. CASE k # size + 1 /\ k \notin copied
      <4>1. array'[k] = array[k] /\ k \in DOMAIN array
        BY <2>4, <3>1, <3>4
      <4> QED BY <4>1 DEF ToSet
    <3> QED BY <3>1, <3>2, <3>3, <3>4
  <2>6. ToSet(array') \subseteq known'
    BY <2>1, <2>5 DEF ToSet
  <2>7. Running(s, "add", Posted)'
    <3>1. Turns(s, NoId, Posted, <<>>, 0)
      BY <1>1, <1>3, <2>1, Posts
    <3> QED BY <2>1, <3>1 DEF Turns, Running, Posted
  <2> QED BY <1>3, <2>6, <2>7
<1>8. CASE ~ DeleteShifts(s) /\ ~ DeleteCuts(s) /\ ~ AddAppends(s)
  <2>1. UNCHANGED <<array, size, known>>
    BY <1>8 DEF CommandStep, DeleteFinds, DeleteSlices, DeleteClears, ActivateFinds,
                ActivateSets, AddChecks, AddReads, Answered, storeVars
  <2> QED BY <1>2, <1>3, <2>1
<1> QED BY <1>5, <1>6, <1>7, <1>8

\* The profiles are those of the list, or of the list a deletion has found.
LEMMA ProfilesTyped == ASSUME HoldInv PROVE Profiles \in Lists
<1>1. TypeOK /\ list \in Lists
  BY ListTyped DEF HoldInv, PanesInv
<1>2. CASE \E t \in Slots : Shifting(t)
  <2>1. PICK t \in Slots : Shifting(t)
    BY <1>2
  <2>2. \A r \in Slots \ {t} : ~ Shifting(r)
    BY <2>1, OthersRest DEF HoldInv, Shifting, Working, Unhandled, Writers, Posted
  <2>3. Profiles = cmd[t].seen
    BY <2>1, <2>2, ProfilesOf
  <2>4. cmd[t] \in Command
    BY <1>1, <2>1 DEF Shifting, TypeOK
  <2> QED BY <2>3, <2>4 DEF Command
<1>3. CASE ~ \E t \in Slots : Shifting(t)
  BY <1>1, <1>3 DEF Profiles
<1> QED BY <1>2, <1>3

\* A step of a command keeps the invariant.
LEMMA SafeCommands ==
    ASSUME SafeInv, ~ panicked, NEW s \in Slots, CommandStep(s) PROVE SafeInv'
<1>1. /\ HoldInv' /\ panicked' = panicked /\ chosen' = chosen
      /\ cmd[s] # None /\ cmd[s].at # Posted /\ cmd'[s] # None /\ cmd'[s].kind = cmd[s].kind
      /\ \A r \in Slots \ {s} : cmd'[r] = cmd[r]
      /\ \/ Prepares(s) \/ GivesUp(s) \/ Cuts(s) \/ Sets(s) \/ Appends(s) \/ Clears(s)
         \/ Elsewhere(s)
  BY StepEffects DEF SafeInv
<1>2. ToSet(array') \subseteq known' /\ copying' = copying /\ (size' <= size \/ Running(s, "add", Posted)')
  BY ArrayStocked DEF SafeInv, Stocked
<1>3. /\ TypeOK /\ known \subseteq Ids /\ chosen \subseteq Ids /\ Profiles \in Lists /\ Len(Profiles) \in Nat
      /\ DOMAIN Profiles = 1..Len(Profiles) /\ size \in Nat /\ size' \in Nat
      /\ (~ Idle => copying.room \in Nat)
  <2>1. TypeOK /\ size \in Nat
    BY ListTyped DEF SafeInv, HoldInv, PanesInv
  <2>2. size' \in Nat
    BY <1>1, NextListTyped DEF HoldInv, PanesInv
  <2>3. Profiles \in Lists
    BY ProfilesTyped DEF SafeInv
  <2> QED BY <2>1, <2>2, <2>3 DEF TypeOK, Lists, Copy, Idle
<1>4. OnlyAddsPanic'
  BY <1>1 DEF OnlyAddsPanic
<1>5. Grown'
  <2>1. \A r \in Slots : Running(r, "add", Posted) => Running(r, "add", Posted)'
    BY <1>1 DEF Running
  <2>2. CASE Running(s, "add", Posted)'
    BY <2>2 DEF Grown
  <2>3. CASE size' <= size
    <3>1. SUFFICES ASSUME ~ Idle, copying.len = -1, size' > copying.room
                   PROVE  \E r \in Slots : Running(r, "add", Posted)'
      BY <1>2 DEF Grown, Idle
    <3>2. size > copying.room
      BY <1>3, <2>3, <3>1
    <3> QED BY <2>1, <3>1, <3>2 DEF SafeInv, Grown
  <2> QED BY <1>2, <2>2, <2>3
<1>7. ASSUME Profiles' = Profiles, known' = known, active' = active, ~ Cutting(s) PROVE Stocked' /\ Kept' /\ Selected'
  <2>1. \A r \in Slots : Cutting(r) => Cutting(r)' /\ cmd'[r] = cmd[r]
    BY <1>1, <1>7 DEF Cutting
  <2> QED BY <1>1, <1>2, <1>7, <2>1 DEF SafeInv, Stocked, Kept, Selected, Idle
<1>8. cmd[s].kind \in Writers => \A r \in Slots \ {s} : ~ Working(r) /\ ~ Cutting(r)
  BY <1>1, OthersRest DEF SafeInv, HoldInv, Working, Unhandled
<1>9. CASE Prepares(s)
  <2>1. Fresh'
    <3>1. cmd'[s].id = cmd[s].id /\ known' = known
      BY <1>9 DEF Prepares
    <3> QED BY <1>1, <3>1 DEF SafeInv, Fresh
  <2> QED BY <1>1, <1>4, <1>5, <1>7, <1>9, <2>1 DEF SafeInv, Prepares
<1>10. CASE GivesUp(s)
  <2>1. Fresh'
    BY <1>1, <1>10 DEF SafeInv, Fresh, GivesUp
  <2> QED BY <1>1, <1>4, <1>5, <1>7, <1>10, <2>1 DEF SafeInv, GivesUp
<1>11. CASE Elsewhere(s)
  <2>1. Fresh' /\ ~ Cutting(s)
    BY <1>1, <1>11 DEF SafeInv, Fresh, Elsewhere, Cutting, Writers
  <2> QED BY <1>1, <1>4, <1>5, <1>7, <1>11, <2>1 DEF SafeInv, Elsewhere
<1>12. CASE Cuts(s)
  <2>1. PICK p \in 1..Len(Profiles) : Profiles[p] = cmd[s].id /\ Profiles' = RemoveAt(Profiles, p)
    BY <1>12 DEF Cuts
  <2>2. ToSet(Profiles) \subseteq ToSet(Profiles') \cup {cmd[s].id}
    BY <1>3, <2>1, RemoveAtTyped DEF Lists
  <2>3. ToSet(Profiles') \subseteq ToSet(Profiles)
    <3>1. RemoveAt(Profiles, p) \in Lists /\ Len(RemoveAt(Profiles, p)) = Len(Profiles) - 1
      BY <1>3, RemoveAtTyped DEF Lists
    <3>2. DOMAIN Profiles' = 1..(Len(Profiles) - 1)
      BY <2>1, <3>1 DEF Lists
    <3>3. \A k \in 1..(Len(Profiles) - 1) :
              Profiles'[k] = Profiles[IF k < p THEN k ELSE k + 1] /\ (IF k < p THEN k ELSE k + 1) \in 1..Len(Profiles)
      BY <1>3, <2>1, RemoveAtElements DEF Lists
    <3> QED BY <1>3, <3>2, <3>3 DEF ToSet
  <2>4. Fresh'
    BY <1>1, <1>12 DEF SafeInv, Fresh, Cuts
  <2>5. Stocked'
    BY <1>2, <1>12, <2>3 DEF SafeInv, Stocked, Idle, Cuts
  <2>6. Kept'
    BY <1>1, <1>3, <1>12, <2>2, IdsAssumption DEF SafeInv, Kept, Cuts
  <2>7. Selected'
    <3>1. active \in ToSet(Profiles) \cup {NoId}
      BY <1>8, <1>12 DEF SafeInv, Selected, Cuts, Shifting, Cutting, Writers
    <3> QED BY <1>12, <2>2, <3>1 DEF Selected, Cuts
  <2> QED BY <1>1, <1>4, <1>5, <2>4, <2>5, <2>6, <2>7 DEF SafeInv
<1>13. CASE Sets(s)
  <2>1. Fresh' /\ Stocked' /\ Kept'
    BY <1>1, <1>2, <1>13 DEF SafeInv, Fresh, Stocked, Kept, Sets, Idle
  <2>2. Selected'
    BY <1>13 DEF Sets, Selected
  <2> QED BY <1>1, <1>4, <1>5, <2>1, <2>2 DEF SafeInv
<1>14. CASE Clears(s)
  <2>1. Fresh' /\ Stocked' /\ Kept'
    BY <1>1, <1>2, <1>14 DEF SafeInv, Fresh, Stocked, Kept, Clears, Idle
  <2>2. Selected'
    BY <1>8, <1>14 DEF SafeInv, Selected, Clears, Writers
  <2> QED BY <1>1, <1>4, <1>5, <2>1, <2>2 DEF SafeInv
<1>15. CASE Appends(s)
  <2>1. cmd[s].id \in Ids \ known
    BY <1>1, <1>15 DEF SafeInv, Fresh, Appends
  <2>2. ToSet(Profiles') = ToSet(Profiles) \cup {cmd[s].id}
    BY <1>3, <1>15, <2>1 DEF Appends, ToSet, Lists
  <2>3. Fresh'
    <3>1. \A r \in Slots \ {s} : cmd[r] # None /\ cmd[r].kind = "add" => cmd[r].at = Posted
      BY <1>8, <1>15 DEF Appends, Working, Unhandled, Writers
    <3> QED BY <1>1, <1>15, <3>1 DEF Fresh, Appends
  <2>4. Stocked'
    BY <1>2, <1>15, <2>2 DEF SafeInv, Stocked, Appends, Idle
  <2>5. Kept'
    BY <1>1, <1>15, <2>2 DEF SafeInv, Kept, Appends
  <2>6. Selected'
    BY <1>8, <1>15, <2>2 DEF SafeInv, Selected, Appends, Cutting, Writers
  <2> QED BY <1>1, <1>4, <1>5, <2>3, <2>4, <2>5, <2>6 DEF SafeInv
<1> QED BY <1>1, <1>9, <1>10, <1>11, <1>12, <1>13, <1>14, <1>15

\* Update leaves the store to the commands: what they hold of it stays true when it
\* takes a message, starts a command or does neither.
LEMMA StoreKept ==
    ASSUME SafeInv, ~ panicked, PanesInv', UNCHANGED <<storeVars, known>>,
           chosen \subseteq chosen', Exclusive', OnlyAddsPanic', Grown', Fresh',
           ~ Idle' => ToSet(copying'.out) \subseteq known,
           \A r \in Slots : cmd'[r] # cmd[r] =>
              ~ Cutting(r) /\ ~ Shifting(r) /\ ~ Shifting(r)' /\ Holds(r)'
    PROVE  SafeInv' /\ Profiles' = Profiles /\ list' = list
<1>1. list' = list
  BY DEF list, storeVars
<1>2. ASSUME NEW r \in Slots PROVE Holds(r)'
  <2>1. CASE cmd'[r] = cmd[r]
    <3>1. Shifted(r)' <=> Shifted(r)
      BY <2>1 DEF Shifted, storeVars
    <3>2. Holds(r) /\ size' = size
      BY DEF SafeInv, HoldInv, storeVars
    <3> QED BY <1>1, <2>1, <3>1, <3>2 DEF Holds
  <2>2. CASE cmd'[r] # cmd[r]
    BY <2>2
  <2> QED BY <2>1, <2>2
<1>3. Profiles' = Profiles
  <2>1. \A r \in Slots : (Shifting(r)' <=> Shifting(r)) /\ (Shifting(r) => cmd'[r].seen = cmd[r].seen)
    BY DEF Shifting
  <2> QED BY <1>1, <2>1, ProfilesKept DEF SafeInv, HoldInv
<1>4. Stocked' /\ Kept'
  BY <1>3 DEF SafeInv, Stocked, Kept, storeVars
<1>5. Selected'
  <2>1. \A r \in Slots : Cutting(r) => Cutting(r)' /\ cmd'[r] = cmd[r]
    BY DEF Cutting
  <2> QED BY <1>3, <2>1 DEF SafeInv, Selected, storeVars
<1> QED BY <1>1, <1>2, <1>3, <1>4, <1>5 DEF SafeInv, HoldInv

\* A command starts.
LEMMA SafeStarts ==
    ASSUME Separate, SafeInv, ~ panicked, PanesInv', NEW k \in Kinds, NEW i \in Ids \cup {NoId},
           Start(k, i), Idle, copying' = copying, UNCHANGED <<storeVars, known, panicked>>,
           chosen \subseteq chosen', k = "delete" => i \in chosen' \cup {NoId},
           k = "add" => i \in Ids \ known
    PROVE  SafeInv' /\ Profiles' = Profiles /\ list' = list
<1>1. TypeOK
  BY DEF SafeInv, HoldInv, PanesInv
<1>2. PICK s \in Slots :
          /\ cmd' \in [Slots -> Command \cup {None}]
          /\ cmd[s] = None
          /\ cmd'[s] \in Command /\ cmd'[s] # None
          /\ cmd'[s].kind = k /\ cmd'[s].id = i /\ cmd'[s].at = 0 /\ cmd'[s].seen = <<>>
          /\ \A r \in Slots \ {s} : cmd'[r] = cmd[r]
          /\ \A r \in Slots : cmd[r] # None =>
                \/ {k, cmd[r].kind} \in Overlaps
                \/ cmd[r].at = Posted /\ {k, cmd[r].kind} \in Unread
  BY <1>1, Starts
<1>3. Exclusive'
  <2>1. \A r \in Slots \ {s} : Working(r)' <=> Working(r)
    BY <1>2 DEF Working, Unhandled
  <2>2. k \in Writers => \A r \in Slots \ {s} : ~ Working(r)
    BY <1>2 DEF Working, Unhandled, Separate
  <2>3. Working(s)' => k \in Writers
    BY <1>2 DEF Working, Unhandled
  <2> QED BY <2>1, <2>2, <2>3 DEF SafeInv, HoldInv, Exclusive
<1>4. OnlyAddsPanic' /\ Grown' /\ Idle'
  BY DEF OnlyAddsPanic, Grown, Idle
<1>5. Fresh'
  BY <1>2 DEF SafeInv, Fresh
<1>6. \A r \in Slots : cmd'[r] # cmd[r] => ~ Cutting(r) /\ ~ Shifting(r) /\ ~ Shifting(r)' /\ Holds(r)'
  BY <1>2 DEF Cutting, Shifting, Holds
<1> QED BY <1>3, <1>4, <1>5, <1>6, StoreKept

\* A message is taken.
LEMMA SafeTakes ==
    ASSUME SafeInv, ~ panicked, PanesInv', NEW s \in Slots, cmd[s] # None, cmd[s].at = Posted, Taken(s),
           UNCHANGED <<storeVars, known, panicked, chosen>>, Grown',
           ~ Idle' => ToSet(copying'.out) \subseteq known
    PROVE  SafeInv' /\ Profiles' = Profiles /\ list' = list
<1>1. TypeOK
  BY DEF SafeInv, HoldInv, PanesInv
<1>2. cmd'[s] = None /\ \A r \in Slots \ {s} : cmd'[r] = cmd[r]
  BY <1>1, TakenFree
<1>3. Exclusive' /\ Fresh' /\ OnlyAddsPanic'
  BY <1>2 DEF SafeInv, HoldInv, Exclusive, Working, Unhandled, Fresh, OnlyAddsPanic
<1>4. \A r \in Slots : cmd'[r] # cmd[r] => ~ Cutting(r) /\ ~ Shifting(r) /\ ~ Shifting(r)' /\ Holds(r)'
  BY <1>2 DEF Cutting, Shifting, Holds, Posted
<1> QED BY <1>3, <1>4, StoreKept

\* Nothing of the commands changes.
LEMMA SafeBrowses ==
    ASSUME SafeInv, ~ panicked, PanesInv', cmd' = cmd, UNCHANGED <<storeVars, known, chosen>>,
           OnlyAddsPanic', Grown', ~ Idle' => ToSet(copying'.out) \subseteq known
    PROVE  SafeInv' /\ Profiles' = Profiles /\ list' = list
<1>1. Exclusive' /\ Fresh'
  BY DEF SafeInv, HoldInv, Exclusive, Working, Unhandled, Fresh
<1> QED BY <1>1, StoreKept

\* A key keeps it when the commands that change the store do not overlap.
LEMMA SafeKeys ==
    ASSUME Separate, SafeInv, ~ panicked, Keys
    PROVE  SafeInv' /\ Profiles' = Profiles /\ list' = list
<1>1. PanesInv' /\ TypeOK
  BY KeysKeep DEF SafeInv, HoldInv, PanesInv
<1>2. CASE (\E p \in {"profiles", "outbounds", "logs"} : Focus(p)) \/ (\E d \in {-1, 1} : MoveCursor(d))
           \/ OpenForm \/ Edit \/ Cancel
  <2>1. cmd' = cmd /\ chosen' = chosen /\ Idle /\ copying' = copying
        /\ UNCHANGED <<storeVars, known, panicked>>
    BY <1>2 DEF Focus, MoveCursor, OpenForm, Edit, Cancel, Browsing, Quiet
  <2>2. OnlyAddsPanic' /\ Grown' /\ Idle'
    BY <2>1 DEF OnlyAddsPanic, Grown, Idle
  <2> QED BY <1>1, <2>1, <2>2, SafeBrowses
<1>3. OnProfile => Highlighted \in Ids \cup {NoId}
  BY <1>1 DEF OnProfile, Highlighted, TypeOK, Lists
<1>4. CASE PressDelete
  <2>1. Start("delete", Highlighted) /\ OnProfile /\ chosen' = chosen \cup ({Highlighted} \cap Ids)
        /\ Idle /\ copying' = copying /\ UNCHANGED <<storeVars, known, panicked>>
    BY <1>4 DEF PressDelete, Browsing, Quiet
  <2> QED BY <1>1, <1>3, <2>1, SafeStarts DEF Kinds
<1>5. CASE PressActivate \/ PressChoice \/ PressOther \/ ReadClipboard
  <2>1. PICK k \in {"activate", "other", "clipboard"}, i \in Ids \cup {NoId} :
            Start(k, i) /\ chosen' = chosen
    BY <1>3, <1>5 DEF PressActivate, PressChoice, PressOther, ReadClipboard
  <2>2. Idle /\ copying' = copying /\ UNCHANGED <<storeVars, known, panicked>>
    BY <1>5 DEF PressActivate, PressChoice, PressOther, ReadClipboard, Browsing, Quiet
  <2> QED BY <1>1, <2>1, <2>2, SafeStarts DEF Kinds
<1>6. CASE Submit
  <2>1. chosen' = chosen /\ Idle /\ copying' = copying /\ UNCHANGED <<storeVars, known, panicked>>
    BY <1>6 DEF Submit, Quiet
  <2>2. CASE input = "text"
    <3>1. PICK i \in Ids \ known : Start("add", i)
      BY <1>6, <2>2 DEF Submit, FreshIds
    <3> QED BY <1>1, <2>1, <3>1, SafeStarts DEF Kinds
  <2>3. CASE input # "text"
    <3>1. cmd' = cmd
      BY <1>6, <2>3 DEF Submit
    <3>2. OnlyAddsPanic' /\ Grown' /\ Idle'
      BY <2>1 DEF OnlyAddsPanic, Grown, Idle
    <3> QED BY <1>1, <2>1, <3>1, <3>2, SafeBrowses
  <2> QED BY <2>2, <2>3
<1> QED BY <1>2, <1>4, <1>5, <1>6 DEF Keys

\* Append brings in its element and no other.
LEMMA AppendElements ==
    ASSUME NEW S, NEW l \in Seq(S), NEW e \in S PROVE ToSet(Append(l, e)) \subseteq ToSet(l) \cup {e}
<1>1. PICK b : b = Append(l, e)
  OBVIOUS
<1>2. /\ Len(l) \in Nat /\ DOMAIN l = 1..Len(l) /\ DOMAIN b = 1..(Len(l) + 1)
      /\ (\A k \in 1..Len(l) : b[k] = l[k]) /\ b[Len(l) + 1] = e
  BY <1>1
<1>3. \A k \in DOMAIN b : b[k] \in ToSet(l) \cup {e}
  <2> SUFFICES ASSUME NEW k \in DOMAIN b PROVE b[k] \in ToSet(l) \cup {e}
    OBVIOUS
  <2>1. k \in DOMAIN l \/ k = Len(l) + 1
    BY <1>2
  <2> QED BY <1>2, <2>1 DEF ToSet
<1>4. ToSet(b) \subseteq ToSet(l) \cup {e}
  BY <1>3 DEF ToSet
<1> QED BY <1>1, <1>4

\* A message keeps it in any case.
LEMMA SafeHandlers ==
    ASSUME SafeInv, ~ panicked, Handle
    PROVE  SafeInv' /\ Profiles' = Profiles /\ list' = list
<1>1. PanesInv' /\ TypeOK /\ PanesInv
  BY HandlersKeep DEF SafeInv, HoldInv, PanesInv
<1>2. ASSUME NEW s \in Slots, OnClipboard(s)
      PROVE  SafeInv' /\ Profiles' = Profiles /\ list' = list
  <2>1. Idle' /\ Grown'
    BY <1>2 DEF OnClipboard, Grown, Idle, Quiet
  <2> QED BY <1>1, <1>2, <2>1, SafeTakes DEF OnClipboard, Running, Quiet
<1>3. ASSUME NEW s \in Slots, OnResult(s)
      PROVE  SafeInv' /\ Profiles' = Profiles /\ list' = list
  <2>1. copying'.room = size /\ copying'.out = <<>> /\ size' = size /\ size \in Nat
    BY <1>1, <1>3, ListTyped DEF OnResult, storeVars
  <2>2. Grown' /\ ToSet(copying'.out) \subseteq known
    BY <2>1 DEF Grown, ToSet
  <2> QED BY <1>1, <1>3, <2>2, SafeTakes DEF OnResult
<1>4. CASE OnGroups
  <2>1. Idle' /\ Grown' /\ OnlyAddsPanic'
    BY <1>4 DEF OnGroups, Grown, OnlyAddsPanic, Idle, Quiet
  <2> QED BY <1>1, <1>4, <2>1, SafeBrowses DEF OnGroups, Quiet
<1>5. CASE RangeList
  <2>1. Copying /\ copying.len = -1
    BY <1>5 DEF RangeList
  <2>2. ~ Idle /\ copying \in Copy /\ size \in Nat /\ UNCHANGED <<storeVars, cmd, known, chosen>>
    BY <1>1, <2>1, ListTyped DEF Copying, TypeOK, Idle
  <2>3. CASE size > copying.room /\ panicked' = TRUE /\ UNCHANGED copying
    <3>1. PICK s \in Slots : Running(s, "add", Posted)
      BY <2>1, <2>2, <2>3 DEF SafeInv, Grown
    <3>2. OnlyAddsPanic' /\ Grown'
      BY <2>2, <2>3, <3>1 DEF OnlyAddsPanic, Grown, Idle, Running
    <3> QED BY <1>1, <2>2, <2>3, <3>2, SafeBrowses DEF SafeInv, Stocked
  <2>4. CASE copying' = [copying EXCEPT !.len = size] /\ UNCHANGED panicked
    <3>1. copying'.len = size /\ copying'.out = copying.out /\ size # -1
      BY <2>2, <2>4 DEF Copy
    <3>2. OnlyAddsPanic' /\ Grown'
      BY <2>2, <2>4, <3>1 DEF OnlyAddsPanic, Grown
    <3> QED BY <1>1, <2>2, <2>4, <3>1, <3>2, SafeBrowses DEF SafeInv, Stocked
  <2> QED BY <1>5, <2>3, <2>4 DEF RangeList
<1>6. CASE CopyLine
  <2>1. Copying /\ Len(copying.out) < copying.len /\ UNCHANGED panicked
    BY <1>6 DEF CopyLine
  <2>2. ~ Idle /\ copying \in Copy /\ UNCHANGED <<storeVars, cmd, known, chosen>>
    BY <1>1, <2>1 DEF Copying, TypeOK, Idle
  <2>3. copying.out \in Lists /\ Len(copying.out) \in Nat /\ copying.len \in Nat \cup {-1}
        /\ array \in Lists /\ Len(array) \in Nat /\ copying.len <= Len(array)
    BY <1>1, <2>2, ListTyped DEF Copy, Lists, PanesInv, CopyInv
  <2>4. PICK n \in Nat : n = Len(copying.out) + 1
    BY <2>3
  <2>5. copying' = [copying EXCEPT !.out = Append(@, array[n]),
                                   !.marks = @ \cup {m \in {n} : array[m] = active}]
    BY <1>6, <2>4 DEF CopyLine
  <2>6. copying'.len = copying.len /\ copying'.out = Append(copying.out, array[n])
    BY <2>2, <2>5 DEF Copy
  <2>7. n \in DOMAIN array
    BY <2>1, <2>3, <2>4 DEF Lists
  <2>8. ToSet(copying'.out) \subseteq known
    <3>1. PICK e, l : e = array[n] /\ l = copying.out
      OBVIOUS
    <3>2. e \in ToSet(array) /\ e \in Ids \cup {NoId} /\ l \in Seq(Ids \cup {NoId})
      BY <2>3, <2>7, <3>1 DEF ToSet, Lists
    <3>3. ToSet(Append(l, e)) \subseteq ToSet(l) \cup {e}
      BY <3>2, AppendElements
    <3> QED BY <2>2, <2>6, <3>1, <3>2, <3>3 DEF SafeInv, Stocked
  <2>9. OnlyAddsPanic' /\ Grown'
    BY <2>1, <2>3, <2>6 DEF OnlyAddsPanic, Grown
  <2> QED BY <1>1, <2>1, <2>2, <2>8, <2>9, SafeBrowses
<1>7. CASE ShowList
  <2>1. UNCHANGED <<storeVars, cmd, known, chosen, panicked>> /\ copying' = None
    BY <1>7 DEF ShowList, Copying
  <2>2. OnlyAddsPanic' /\ Grown' /\ Idle'
    BY <2>1 DEF OnlyAddsPanic, Grown, Idle
  <2> QED BY <1>1, <2>1, <2>2, SafeBrowses
<1> QED BY <1>2, <1>3, <1>4, <1>5, <1>6, <1>7 DEF Handle

\* It is inductive, ...
LEMMA SafeInductive == ASSUME Separate PROVE SafeInv /\ [Next]_vars => SafeInv'
<1> SUFFICES ASSUME SafeInv, [Next]_vars PROVE SafeInv'
  OBVIOUS
<1>1. CASE UNCHANGED vars
  <2>1. UNCHANGED <<array, size, active, cmd, copying, panicked, known, chosen, screenVars, formVars,
                    pane, outCursor, choices>>
    BY <1>1 DEF vars, storeVars
  <2>2. PanesInv' /\ list' = list
    BY <1>1, <2>1, PanesInductive DEF SafeInv, HoldInv, list
  <2>3. \A r \in Slots : Shifting(r)' <=> Shifting(r)
    BY <2>1 DEF Shifting
  <2>4. Profiles' = Profiles
    BY <2>1, <2>2, <2>3, ProfilesKept DEF SafeInv, HoldInv
  <2>5. Exclusive' /\ \A r \in Slots : Holds(r)'
    BY <2>1, <2>2 DEF SafeInv, HoldInv, Exclusive, Working, Unhandled, Holds, Shifted
  <2>6. OnlyAddsPanic' /\ Grown' /\ Fresh'
    BY <2>1 DEF SafeInv, OnlyAddsPanic, Grown, Fresh, Idle, Running
  <2>7. Stocked' /\ Kept' /\ Selected'
    BY <2>1, <2>4 DEF SafeInv, Stocked, Kept, Selected, Cutting, Idle
  <2> QED BY <2>2, <2>5, <2>6, <2>7 DEF SafeInv, HoldInv
<1>2. CASE Next
  BY <1>1, <1>2, SafeKeys, SafeHandlers, SafeCommands DEF Next, Ended
<1> QED BY <1>1, <1>2

\* ... and so always holds.
LEMMA SafeAlways == ASSUME Separate PROVE Spec => []SafeInv
BY InitSafe, SafeInductive, PTL DEF Spec

\* When the commands that change the store do not overlap, an index is out of range
\* only in a copy made while a profile was added (profile.go:104-109, 135, 155;
\* dashboard.go:388, 429).
THEOREM OnlyAdditionsPanic == ASSUME Separate PROVE Spec => []OnlyAddsPanic
<1>1. SafeInv => OnlyAddsPanic
  BY DEF SafeInv
<1> QED BY <1>1, SafeAlways, PTL

\* A profile that stays is in the list also while those behind another move up.
LEMMA KeptListed == SafeInv => NothingElseDeleted
<1> SUFFICES ASSUME SafeInv, NEW e \in known \ chosen PROVE e \in ToSet(list)
  BY DEF NothingElseDeleted
<1>1. /\ size \in Nat /\ list \in Lists /\ DOMAIN list = 1..size /\ \A k \in 1..size : list[k] = array[k]
      /\ known \subseteq Ids
  BY ListTyped DEF SafeInv, HoldInv, PanesInv, TypeOK
<1>2. e \in ToSet(Profiles) /\ e # NoId
  BY <1>1, IdsAssumption DEF SafeInv, Kept
<1>3. CASE ~ \E t \in Slots : Shifting(t)
  BY <1>2, <1>3 DEF Profiles
<1>4. ASSUME NEW t \in Slots, Shifting(t) PROVE e \in ToSet(list)
  <2>1. \A r \in Slots \ {t} : ~ Shifting(r)
    BY <1>4, OthersRest DEF SafeInv, HoldInv, Shifting, Working, Unhandled, Writers, Posted
  <2>2. Profiles = cmd[t].seen
    BY <1>4, <2>1, ProfilesOf
  <2>3. Holds(t) /\ cmd[t] \in Command
    BY <1>4 DEF SafeInv, HoldInv, PanesInv, TypeOK, Shifting
  <2>4. Shifted(t) /\ cmd[t].id \in chosen \cup {NoId}
    BY <1>4, <2>3 DEF Holds, Shifting
  <2>5. PICK m \in Nat : m = cmd[t].ix
    BY <2>3 DEF Command
  <2>6. Len(cmd[t].seen) = size /\ DOMAIN cmd[t].seen = 1..size /\ m \in 1..size
    BY <2>3, <2>4, <2>5 DEF Shifted, Command, Lists
  <2>7. PICK p \in 1..m :
            /\ cmd[t].seen[p] = cmd[t].id
            /\ \A k \in 1..size :
                  array[k] = IF p <= k /\ k < m THEN cmd[t].seen[k + 1] ELSE cmd[t].seen[k]
    BY <2>4, <2>5 DEF Shifted
  <2>8. PICK k \in 1..size : e = cmd[t].seen[k]
    BY <1>2, <2>2, <2>6 DEF ToSet
  <2>9. k # p
    BY <1>2, <2>4, <2>7, <2>8
  <2>10. CASE k < p \/ k > m
    <3>1. list[k] = e
      BY <1>1, <2>6, <2>7, <2>8, <2>10
    <3> QED BY <1>1, <3>1 DEF ToSet
  <2>11. CASE p < k /\ k <= m
    <3>1. k - 1 \in 1..size /\ p <= k - 1 /\ k - 1 < m /\ (k - 1) + 1 = k
      BY <1>1, <2>6, <2>11
    <3>2. array[k - 1] = cmd[t].seen[k]
      BY <2>7, <3>1
    <3>3. list[k - 1] = e
      BY <1>1, <2>8, <3>1, <3>2
    <3> QED BY <1>1, <3>1, <3>3 DEF ToSet
  <2> QED BY <2>6, <2>9, <2>10, <2>11
<1> QED BY <1>3, <1>4

\* Then a profile goes only if the user pressed d on its line (dashboard.go:425),
\* although the screen may be behind the store.
THEOREM OnlyChosenDeleted == ASSUME Separate PROVE Spec => []NothingElseDeleted
BY KeptListed, SafeAlways, PTL

\* Then the selection names a profile of the list, or none (profile.go:151).
THEOREM SelectionNamesProfile == ASSUME Separate PROVE Spec => []SelectionListed
<1>1. SafeInv => SelectionListed
  <2> SUFFICES ASSUME SafeInv, \A s \in Slots : ~ Shifting(s) /\ ~ Cutting(s)
               PROVE  active \in ToSet(list) \cup {NoId}
    BY DEF SelectionListed
  <2>1. Profiles = list
    BY DEF Profiles
  <2> QED BY <2>1 DEF SafeInv, Selected
<1> QED BY <1>1, SafeAlways, PTL

(***************************************************************************)
(* Then each request is one step to the user: every step is one of         *)
(* AtomicPanes, or invisible to it.                                        *)
(***************************************************************************)
\* The operators on lists are those of the abstract module.
LEMMA PromiseOperators ==
    /\ \A l : Promise!ToSet(l) = ToSet(l)
    /\ \A l : Promise!IsInjective(l) <=> IsInjective(l)
    /\ \A l, n : Promise!RemoveAt(l, n) = RemoveAt(l, n)
BY DEF Promise!ToSet, ToSet, Promise!IsInjective, IsInjective, Promise!RemoveAt, RemoveAt

\* Before the first key the promise holds: nothing is asked for, and the screen is the list.
LEMMA AtomicInit == Init => Promise!Init
<1> SUFFICES ASSUME Init PROVE Promise!Init
  OBVIOUS
<1>1. array \in Seq(Ids) /\ IsInjective(array) /\ size = Len(array)
  BY DEF Init, SeqOf
<1>2. \A s \in Slots : cmd[s] = None
  BY DEF Init
<1>3. ToSet(array) \subseteq Ids /\ NoId \notin ToSet(array)
  BY <1>1, IdsAssumption DEF ToSet
<1>4. Profiles = array
  BY <1>1, <1>2 DEF Profiles, Shifting, list
<1>5. Requests = {} /\ Selection = active
  BY <1>2 DEF Requests, Selection, Pending, Cutting
<1>6. Screened = ToSet(array)
  BY <1>3 DEF Screened, Init
<1> QED BY <1>1, <1>4, <1>5, <1>6, PromiseOperators DEF Promise!Init, Init

\* A request that works is the only one.
LEMMA OneRequest ==
    \A s \in Slots : (\A r \in Slots \ {s} : ~ Pending(r) /\ ~ Cutting(r)) =>
        /\ Requests = IF Pending(s) THEN {Promise!Request(cmd[s].kind, cmd[s].id)} ELSE {}
        /\ Selection = IF Cutting(s) /\ cmd[s].id = active THEN NoId ELSE active
BY DEF Requests, Selection, Promise!Request

\* So is the next one.
LEMMA NextOneRequest ==
    (\A s \in Slots : (\A r \in Slots \ {s} : ~ Pending(r) /\ ~ Cutting(r)) =>
        /\ Requests = IF Pending(s) THEN {Promise!Request(cmd[s].kind, cmd[s].id)} ELSE {}
        /\ Selection = IF Cutting(s) /\ cmd[s].id = active THEN NoId ELSE active)'
BY OneRequest, PTL

\* Each step of a command is one the promise knows of, or changes nothing it shows.
LEMMA CommandKeepsPromise ==
    ASSUME SafeInv, NEW s \in Slots, CommandStep(s)
    PROVE  [Promise!Next]_Promise!vars
<1>1. /\ cmd[s] # None /\ cmd[s].at # Posted /\ cmd'[s] # None /\ cmd'[s].kind = cmd[s].kind
      /\ \A r \in Slots \ {s} : cmd'[r] = cmd[r]
      /\ \/ Prepares(s) \/ GivesUp(s) \/ Cuts(s) \/ Sets(s) \/ Appends(s) \/ Clears(s)
         \/ Elsewhere(s)
  BY StepEffects DEF SafeInv
<1>2. Screened' = Screened
  <2>1. shown' = shown
    BY DEF CommandStep, DeleteFinds, DeleteSlices, DeleteShifts, DeleteCuts, DeleteClears, ActivateFinds,
           ActivateSets, AddChecks, AddReads, AddAppends, Answered, Untouched, screenVars
  <2> QED BY <2>1 DEF Screened
<1>3. TypeOK /\ known \subseteq Ids /\ ToSet(Profiles) \subseteq Ids /\ NoId \notin Ids
  BY IdsAssumption DEF SafeInv, HoldInv, PanesInv, TypeOK, Stocked
<1>4. \A r \in Slots \ {s} : (Pending(r)' <=> Pending(r)) /\ (Cutting(r)' <=> Cutting(r))
  BY <1>1 DEF Pending, Cutting
<1>5. CASE Elsewhere(s)
  <2>1. ~ Pending(s) /\ ~ Pending(s)' /\ ~ Cutting(s) /\ ~ Cutting(s)'
    BY <1>1, <1>5 DEF Elsewhere, Pending, Cutting, Writers
  <2>2. Requests' = Requests
    BY <1>1, <1>4, <2>1 DEF Requests
  <2>3. Selection' = Selection
    BY <1>1, <1>4, <1>5, <2>1 DEF Selection, Elsewhere
  <2> QED BY <1>2, <1>5, <2>2, <2>3 DEF Elsewhere, Promise!vars
<1>6. PICK req : req = Promise!Request(cmd[s].kind, cmd[s].id)
  OBVIOUS
<1>7. req.kind = cmd[s].kind /\ req.id = cmd[s].id
  BY <1>6 DEF Promise!Request
<1>8. ASSUME cmd[s].kind \in Writers
      PROVE  /\ Requests = IF Pending(s) THEN {req} ELSE {}
             /\ Selection = IF Cutting(s) /\ cmd[s].id = active THEN NoId ELSE active
             /\ Requests' = IF Pending(s)' THEN {Promise!Request(cmd'[s].kind, cmd'[s].id)} ELSE {}
             /\ Selection' = IF Cutting(s)' /\ cmd'[s].id = active' THEN NoId ELSE active'
  <2>1. \A r \in Slots \ {s} : ~ Pending(r) /\ ~ Cutting(r)
    BY <1>1, <1>8, OthersRest DEF SafeInv, HoldInv, Working, Unhandled
  <2>2. \A r \in Slots \ {s} : ~ Pending(r)' /\ ~ Cutting(r)'
    BY <1>4, <2>1
  <2> QED BY <1>6, <2>1, <2>2, OneRequest, NextOneRequest
<1>9. cmd'[s].at = Posted /\ cmd'[s].id = NoId => ~ Pending(s)' /\ ~ Cutting(s)'
  BY DEF Pending, Cutting, Posted
<1>10. CASE Prepares(s)
  <2>1. Requests' = Requests
    BY <1>1, <1>6, <1>8, <1>10 DEF Prepares
  <2>2. Selection' = Selection
    BY <1>8, <1>10 DEF Prepares
  <2> QED BY <1>2, <1>10, <2>1, <2>2 DEF Prepares, Promise!vars
<1>11. CASE GivesUp(s)
  <2>1. Requests' = {} /\ Selection' = Selection /\ Profiles' = Profiles /\ known' = known
        /\ cmd[s].kind \in Writers
    BY <1>8, <1>9, <1>11 DEF GivesUp
  <2>2. CASE Pending(s)
    <3>1. Promise!Drop(req) /\ req \in Requests
      BY <1>2, <1>7, <1>8, <1>11, <2>1, <2>2, PromiseOperators DEF GivesUp, Promise!Drop, Promise!Takes
    <3> QED BY <3>1 DEF Promise!Next
  <2>3. CASE ~ Pending(s)
    BY <1>2, <1>8, <2>1, <2>3 DEF Promise!vars
  <2> QED BY <2>2, <2>3
<1>12. CASE Cuts(s)
  <2>1. PICK p \in 1..Len(Profiles) : Profiles[p] = cmd[s].id /\ Profiles' = RemoveAt(Profiles, p)
    BY <1>12 DEF Cuts
  <2>2. p \in DOMAIN Profiles
    BY <2>1, ProfilesTyped DEF SafeInv, Lists
  <2>3. cmd[s].id \in Ids
    BY <1>3, <2>1, <2>2 DEF ToSet
  <2>4. Pending(s) /\ ~ Pending(s)' /\ ~ Cutting(s) /\ Cutting(s)' /\ cmd[s].kind \in Writers
    BY <1>1, <1>3, <1>12, <2>3 DEF Cuts, Pending, Cutting, Shifting, Writers, Posted
  <2>5. Requests = {req} /\ Requests' = {}
        /\ Selection' = (IF Selection = cmd[s].id THEN NoId ELSE Selection)
    BY <1>8, <1>12, <2>4 DEF Cuts
  <2>6. Promise!Delete(req)
    BY <1>2, <1>7, <1>12, <2>1, <2>2, <2>5, PromiseOperators DEF Cuts, Promise!Delete, Promise!Takes
  <2> QED BY <2>5, <2>6 DEF Promise!Next
<1>13. CASE Sets(s)
  <2>1. cmd[s].id # NoId
    BY <1>3, <1>13 DEF Sets
  <2>2. Pending(s) /\ ~ Pending(s)' /\ ~ Cutting(s)' /\ cmd[s].kind \in Writers
    BY <1>1, <1>9, <1>13, <2>1 DEF Sets, Pending, Writers, Posted
  <2>3. Requests = {req} /\ Requests' = {} /\ Selection' = cmd[s].id
    BY <1>8, <1>13, <2>2 DEF Sets
  <2>4. Promise!Activate(req)
    BY <1>2, <1>7, <1>13, <2>3, PromiseOperators DEF Sets, Promise!Activate, Promise!Takes
  <2> QED BY <2>3, <2>4 DEF Promise!Next
<1>14. CASE Appends(s)
  <2>1. cmd[s].id \in Ids \ known /\ cmd[s].id # NoId
    BY <1>1, <1>3, <1>14 DEF SafeInv, Fresh, Appends
  <2>2. Pending(s) /\ ~ Pending(s)' /\ ~ Cutting(s) /\ ~ Cutting(s)' /\ cmd[s].kind \in Writers
    BY <1>1, <1>9, <1>14, <2>1 DEF Appends, Pending, Cutting, Writers, Posted
  <2>3. Requests = {req} /\ Requests' = {} /\ Selection' = Selection
    BY <1>8, <1>14, <2>2 DEF Appends
  <2>4. Promise!Add(req)
    BY <1>2, <1>7, <1>14, <2>1, <2>3 DEF Appends, Promise!Add, Promise!Takes
  <2> QED BY <2>3, <2>4 DEF Promise!Next
<1>15. CASE Clears(s)
  <2>1. ~ Pending(s) /\ ~ Pending(s)' /\ Cutting(s) /\ ~ Cutting(s)' /\ cmd[s].kind \in Writers
    BY <1>1, <1>9, <1>15 DEF Clears, Pending, Cutting, Writers
  <2>2. Requests' = Requests /\ Selection' = Selection
    BY <1>8, <1>15, <2>1 DEF Clears
  <2> QED BY <1>2, <1>15, <2>2 DEF Clears, Promise!vars
<1> QED BY <1>1, <1>5, <1>10, <1>11, <1>12, <1>13, <1>14, <1>15

\* A command that starts is a request, if it is one of the store's for a profile.
LEMMA StartKeepsPromise ==
    ASSUME Separate, SafeInv, NEW k \in Kinds, NEW i \in Ids \cup {NoId}, Start(k, i),
           UNCHANGED <<Profiles, active, known, shown>>,
           k \in {"delete", "activate"} /\ i # NoId => i \in ToSet(shown)
    PROVE  [Promise!Next]_Promise!vars
<1>1. TypeOK
  BY DEF SafeInv, HoldInv, PanesInv
<1>2. PICK s \in Slots :
          /\ cmd' \in [Slots -> Command \cup {None}]
          /\ cmd[s] = None
          /\ cmd'[s] \in Command /\ cmd'[s] # None
          /\ cmd'[s].kind = k /\ cmd'[s].id = i /\ cmd'[s].at = 0 /\ cmd'[s].seen = <<>>
          /\ \A r \in Slots \ {s} : cmd'[r] = cmd[r]
          /\ \A r \in Slots : cmd[r] # None =>
                \/ {k, cmd[r].kind} \in Overlaps
                \/ cmd[r].at = Posted /\ {k, cmd[r].kind} \in Unread
  BY <1>1, Starts
<1>3. /\ \A r \in Slots \ {s} : (Pending(r)' <=> Pending(r)) /\ (Cutting(r)' <=> Cutting(r))
      /\ ~ Pending(s) /\ ~ Cutting(s) /\ ~ Cutting(s)'
      /\ Pending(s)' <=> k \in Writers /\ i # NoId
  BY <1>2 DEF Pending, Cutting, Posted, Writers
<1>4. Selection' = Selection /\ Screened' = Screened
  BY <1>2, <1>3 DEF Selection, Screened
<1>5. CASE ~ Pending(s)'
  <2>1. Requests' = Requests
    BY <1>2, <1>3, <1>5 DEF Requests
  <2> QED BY <1>4, <2>1 DEF Promise!vars
<1>6. CASE Pending(s)'
  <2>1. \A r \in Slots : ~ Pending(r)
    <3>1. \A r \in Slots : ~ Working(r)
      BY <1>2, <1>3, <1>6 DEF Working, Unhandled, Separate
    <3> QED BY <3>1 DEF Pending, Working, Unhandled, Writers, Posted
  <2>2. Requests = {}
    BY <2>1 DEF Requests
  <2>3. Requests' = {Promise!Request(k, i)}
    BY <1>2, <1>3, <1>6, <2>1 DEF Requests, Promise!Request
  <2>4. CASE k = "add"
    <3>1. i \in Ids
      BY <1>3, <1>6
    <3>2. Promise!Ask
      BY <1>4, <2>2, <2>3, <2>4, <3>1 DEF Promise!Ask
    <3> QED BY <3>2 DEF Promise!Next
  <2>5. CASE k \in {"delete", "activate"}
    <3>1. i \in Screened
      BY <1>3, <1>6, <2>5 DEF Screened
    <3>2. Promise!Ask
      BY <1>4, <2>2, <2>3, <2>5, <3>1 DEF Promise!Ask
    <3> QED BY <3>2 DEF Promise!Next
  <2> QED BY <1>3, <1>6, <2>4, <2>5 DEF Writers
<1> QED BY <1>5, <1>6

\* Every key is a request, or changes nothing the promise shows.
LEMMA KeysKeepPromise ==
    ASSUME Separate, SafeInv, ~ panicked, Keys PROVE [Promise!Next]_Promise!vars
<1>1. TypeOK
  BY DEF SafeInv, HoldInv, PanesInv
<1>2. UNCHANGED <<Profiles, active, known, shown>>
  <2>1. Profiles' = Profiles
    BY SafeKeys
  <2>2. UNCHANGED <<active, known, shown>>
    BY DEF Keys, Focus, MoveCursor, PressDelete, PressActivate, PressChoice, PressOther, OpenForm, Edit,
           ReadClipboard, Cancel, Submit, Quiet, storeVars, screenVars
  <2> QED BY <2>1, <2>2
<1>3. CASE PressDelete \/ PressActivate
  <2>1. PICK k \in {"delete", "activate"} : Start(k, Highlighted) /\ OnProfile
    BY <1>3 DEF PressDelete, PressActivate
  <2>2. cursor + 1 \in DOMAIN shown
    BY <1>1, <2>1 DEF OnProfile, TypeOK, Lists
  <2>3. Highlighted \in Ids \cup {NoId} /\ Highlighted \in ToSet(shown)
    BY <1>1, <2>2 DEF Highlighted, TypeOK, Lists, ToSet
  <2> QED BY <1>2, <2>1, <2>3, StartKeepsPromise DEF Kinds
<1>4. CASE PressChoice \/ PressOther \/ ReadClipboard
  <2>1. PICK k \in {"other", "clipboard"} : Start(k, NoId)
    BY <1>4 DEF PressChoice, PressOther, ReadClipboard
  <2> QED BY <1>2, <2>1, StartKeepsPromise DEF Kinds
<1>5. ASSUME cmd' = cmd PROVE UNCHANGED Promise!vars
  BY <1>2, <1>5 DEF Promise!vars, Requests, Selection, Pending, Cutting, Screened
<1>6. CASE Submit
  <2>1. cmd' = cmd \/ \E i \in Ids : Start("add", i)
    BY <1>6 DEF Submit, FreshIds
  <2> QED BY <1>2, <1>5, <2>1, StartKeepsPromise DEF Kinds
<1>7. CASE (\E p \in {"profiles", "outbounds", "logs"} : Focus(p)) \/ (\E d \in {-1, 1} : MoveCursor(d))
           \/ OpenForm \/ Edit \/ Cancel
  BY <1>5, <1>7 DEF Focus, MoveCursor, OpenForm, Edit, Cancel
<1> QED BY <1>3, <1>4, <1>6, <1>7 DEF Keys

\* A copy shows what has been copied, and blank lines.
LEMMA CopyShows ==
    ASSUME SafeInv, ShowList PROVE Screened' \subseteq known
<1>1. TypeOK /\ CopyInv
  BY DEF SafeInv, HoldInv, PanesInv
<1>2. /\ copying.out \in Seq(Ids \cup {NoId}) /\ copying.room \in Nat /\ copying.len \in Nat
      /\ copying.len <= copying.room /\ Len(copying.out) = copying.len
      /\ ToSet(copying.out) \subseteq known
  BY <1>1 DEF ShowList, Copying, TypeOK, Copy, Idle, CopyInv, SafeInv, Stocked, Lists
<1> DEFINE pad == [i \in 1..(copying.room - copying.len) |-> NoId]
<1>3. pad \in Seq(Ids \cup {NoId}) /\ Len(pad) = copying.room - copying.len
  BY <1>2
<1>4. ToSet(pad) \subseteq {NoId}
  BY DEF ToSet
<1>5. shown' = copying.out \o pad
  BY DEF ShowList
<1> HIDE DEF pad
<1>6. ToSet(shown') \subseteq ToSet(copying.out) \cup ToSet(pad)
  <2>1. Len(copying.out) + Len(pad) = copying.room
    BY <1>2, <1>3
  <2> QED BY <1>2, <1>3, <1>5, <2>1, CopyTyped
<1> QED BY <1>2, <1>4, <1>6 DEF Screened

\* A message leaves what is shown as it is, or shows another copy.
LEMMA HandlersKeepPromise ==
    ASSUME SafeInv, ~ panicked, Handle PROVE [Promise!Next]_Promise!vars
<1>1. TypeOK
  BY DEF SafeInv, HoldInv, PanesInv
<1>2. UNCHANGED <<Profiles, active, known>>
  <2>1. Profiles' = Profiles
    BY SafeHandlers
  <2>2. UNCHANGED <<active, known>>
    BY DEF Handle, OnClipboard, OnResult, OnGroups, RangeList, CopyLine, ShowList, Copying, Quiet, storeVars
  <2> QED BY <2>1, <2>2
<1>3. ASSUME NEW s \in Slots, OnClipboard(s) \/ OnResult(s) PROVE UNCHANGED Promise!vars
  <2>1. shown' = shown /\ Taken(s) /\ cmd[s].at = Posted
    BY <1>3 DEF OnClipboard, OnResult, Running, screenVars
  <2>2. cmd'[s] = None /\ \A r \in Slots \ {s} : cmd'[r] = cmd[r]
    BY <1>1, <2>1, TakenFree
  <2>3. \A r \in Slots : (Pending(r)' <=> Pending(r)) /\ (Cutting(r)' <=> Cutting(r))
                         /\ (Pending(r) \/ Cutting(r) => cmd'[r] = cmd[r])
    BY <2>1, <2>2 DEF Pending, Cutting, Posted
  <2>4. Requests' = Requests /\ Selection' = Selection /\ Screened' = Screened
    BY <1>2, <2>1, <2>3 DEF Requests, Selection, Screened
  <2> QED BY <1>2, <2>4 DEF Promise!vars
<1>4. ASSUME cmd' = cmd PROVE UNCHANGED <<Requests, Selection>>
  BY <1>2, <1>4 DEF Requests, Selection, Pending, Cutting
<1>5. CASE OnGroups \/ RangeList \/ CopyLine
  <2>1. cmd' = cmd /\ shown' = shown
    BY <1>5 DEF OnGroups, RangeList, CopyLine, Copying, screenVars
  <2>2. Screened' = Screened
    BY <2>1 DEF Screened
  <2> QED BY <1>2, <1>4, <2>1, <2>2 DEF Promise!vars
<1>6. CASE ShowList
  <2>1. cmd' = cmd
    BY <1>6 DEF ShowList, Copying
  <2>2. Promise!Refresh
    BY <1>2, <1>4, <1>6, <2>1, CopyShows DEF Promise!Refresh
  <2> QED BY <2>2 DEF Promise!Next
<1> QED BY <1>3, <1>5, <1>6 DEF Handle

\* When the commands that change the store do not overlap, adding, activating and
\* deleting are one step each, on a profile that was on the screen when the key was
\* pressed, although each looks at the array several times and deleting moves the
\* profiles up in it one by one (profile.go:110-165).
THEOREM ImplementsAtomic == ASSUME Separate PROVE Spec => RequestsAreAtomic
<1>1. SafeInv /\ [Next]_vars => [Promise!Next]_Promise!vars
  <2> SUFFICES ASSUME SafeInv, [Next]_vars PROVE [Promise!Next]_Promise!vars
    OBVIOUS
  <2>1. CASE UNCHANGED vars
    <3>1. UNCHANGED <<array, size, active, cmd, known, shown>>
      BY <2>1 DEF vars, storeVars, screenVars
    <3>2. list' = list /\ \A r \in Slots : Shifting(r)' <=> Shifting(r)
      BY <3>1 DEF list, Shifting
    <3>3. Profiles' = Profiles
      BY <3>1, <3>2, ProfilesKept DEF SafeInv, HoldInv
    <3> QED BY <3>1, <3>3 DEF Promise!vars, Screened, Requests, Selection, Pending, Cutting
  <2>2. CASE Next
    BY <2>1, <2>2, KeysKeepPromise, HandlersKeepPromise, CommandKeepsPromise DEF Next, Ended
  <2> QED BY <2>1, <2>2
<1> QED BY <1>1, AtomicInit, SafeAlways, PTL DEF Spec, RequestsAreAtomic, Promise!Spec
(***************************************************************************)
(* Layout                                                                  *)
(***************************************************************************)
\* A row that shows lines of X and highlights those of T.
Row(X, T) == {r \in [width : Nat, lines : SUBSET X, lit : SUBSET X] : r.lit = r.lines \cap T}

\* A block of n such rows that are at most w wide.
Block(b, n, w, X, T) ==
    /\ b \in Seq(Row(X, T)) /\ Len(b) = n
    /\ \A i \in 1..n : b[i].width <= w

\* One block above the other.
LEMMA Above ==
    ASSUME NEW X, NEW T, NEW w \in Nat, NEW m \in Nat, NEW n \in Nat, NEW a, NEW b,
           Block(a, m, w, X, T), Block(b, n, w, X, T)
    PROVE  Block(a \o b, m + n, w, X, T)
<1>1. /\ a \o b \in Seq(Row(X, T)) /\ Len(a \o b) = m + n
      /\ \A i \in 1..(m + n) : (a \o b)[i] = IF i <= m THEN a[i] ELSE b[i - m]
  BY ConcatProperties DEF Block
<1>2. ASSUME NEW i \in 1..(m + n) PROVE (a \o b)[i].width <= w
  <2>1. CASE i <= m
    BY <1>1, <2>1 DEF Block
  <2>2. CASE ~ i <= m
    <3>1. i - m \in 1..n
      BY <2>2
    <3> QED BY <1>1, <2>2, <3>1 DEF Block
  <2> QED BY <2>1, <2>2
<1> QED BY <1>1, <1>2 DEF Block

\* One block beside the other.
LEMMA SideBySide ==
    ASSUME NEW X, NEW T, NEW n \in Nat, NEW v \in Nat, NEW w \in Nat, NEW a, NEW b,
           Block(a, n, v, X, T), Block(b, n, w, X, T)
    PROVE  Block(Beside(a, b), n, v + w, X, T)
<1>1. DOMAIN a = 1..n
  BY DEF Block
<1>2. ASSUME NEW i \in 1..n
      PROVE  /\ Beside(a, b)[i] \in Row(X, T)
             /\ Beside(a, b)[i].width <= v + w
  <2>1. a[i] \in Row(X, T) /\ b[i] \in Row(X, T) /\ a[i].width <= v /\ b[i].width <= w
    BY DEF Block
  <2>2. Beside(a, b)[i] = [width |-> a[i].width + b[i].width,
                           lines |-> a[i].lines \cup b[i].lines,
                           lit   |-> a[i].lit \cup b[i].lit]
    BY <1>1 DEF Beside
  <2> QED BY <2>1, <2>2 DEF Row
<1>3. Beside(a, b) \in [1..n -> Row(X, T)]
  BY <1>1, <1>2 DEF Beside
<1> QED BY <1>2, <1>3 DEF Block

Titles == {"profiles", "outbounds", "logs"}

\* A single row.
LEMMA Single ==
    ASSUME NEW X, NEW T, NEW w \in Nat, NEW v \in Nat, v <= w
    PROVE  Block(<<Bare(v)>>, 1, w, X, T)
<1>1. Bare(v) \in Row(X, T) /\ Bare(v).width = v
  BY DEF Bare, Row
<1>2. <<Bare(v)>> \in Seq(Row(X, T)) /\ Len(<<Bare(v)>>) = 1 /\ <<Bare(v)>>[1] = Bare(v)
  BY <1>1
<1> QED BY <1>1, <1>2 DEF Block

\* A title bar has the width it was given, however long its title.
LEMMA BarFits ==
    ASSUME NEW X, NEW T, NEW p \in Titles, NEW w \in Nat, w >= 3
    PROVE  Block(PaneBar(p, w), 1, w, X, T)
<1>1. TitleLength[p] \in Nat
  BY DEF Titles, TitleLength
<1>2. TopLine(p, w) = Bare(w)
  BY <1>1 DEF TopLine, Inner, Truncated, AtMost, AtLeast
<1> QED BY <1>2, Single DEF PaneBar

\* The line a focused pane highlights is in T, and no other is.
Aims(lines, focused, at, T) ==
    \A i \in DOMAIN lines : (focused /\ i - 1 = at) <=> lines[i] \in T

\* A pane has the size it was given, whatever its lines.
LEMMA PaneFits ==
    ASSUME NEW X, NEW T, NEW p \in Titles, NEW w \in Nat, w >= 3, NEW h \in Nat, h >= 3,
           NEW focused \in BOOLEAN, NEW lines, NEW at, NEW length \in Nat,
           \A i \in DOMAIN lines : lines[i] \in X,
           Aims(lines, focused, at, T)
    PROVE  Block(RenderPane(p, w, h, focused, lines, at, length), h, w, X, T)
<1> DEFINE rows == [i \in 1..Inner(h) |-> PaneRow(w, lines, i, focused /\ i - 1 = at, length)]
<1>1. Inner(h) = h - 2 /\ 2 + Inner(w) = w /\ Inner(w) \in Nat /\ h - 2 \in Nat
  BY DEF Inner, AtLeast
<1>2. ASSUME NEW i \in 1..Inner(h) PROVE rows[i] \in Row(X, T) /\ rows[i].width <= w
  <2> DEFINE lit == focused /\ i - 1 = at
  <2>1. rows[i] = PaneRow(w, lines, i, lit, length)
    OBVIOUS
  <2>2. CASE i \in DOMAIN lines
    <3>1. 2 + AtLeast(Truncated(length, Inner(w)), Inner(w)) = w
      BY <1>1 DEF Truncated, AtMost, AtLeast
    <3>2. rows[i] = [width |-> w, lines |-> {lines[i]}, lit |-> IF lit THEN {lines[i]} ELSE {}]
      BY <2>1, <2>2, <3>1 DEF PaneRow
    <3>3. {lines[i]} \in SUBSET X /\ (IF lit THEN {lines[i]} ELSE {}) \in SUBSET X
      BY <2>2
    <3>4. (IF lit THEN {lines[i]} ELSE {}) = {lines[i]} \cap T
      BY <2>2 DEF Aims
    <3> HIDE DEF lit
    <3> QED BY <3>2, <3>3, <3>4 DEF Row
  <2>3. CASE i \notin DOMAIN lines
    <3>1. rows[i] = Bare(w)
      BY <1>1, <2>1, <2>3 DEF PaneRow
    <3> QED BY <3>1 DEF Bare, Row
  <2> QED BY <2>2, <2>3
<1>3. Block(rows, h - 2, w, X, T)
  <2>1. rows \in [1..(h - 2) -> Row(X, T)]
    BY <1>1, <1>2
  <2> HIDE DEF rows
  <2>2. PICK n \in Nat : n = h - 2
    BY <1>1
  <2>3. rows \in Seq(Row(X, T)) /\ Len(rows) = n
    BY <2>1, <2>2
  <2> QED BY <1>1, <1>2, <2>2, <2>3 DEF Block
<1>4. Block(PaneBar(p, w), 1, w, X, T) /\ Block(<<Bare(2 + Inner(w))>>, 1, w, X, T)
  BY <1>1, BarFits, Single
<1>5. RenderPane(p, w, h, focused, lines, at, length)
        = PaneBar(p, w) \o rows \o <<Bare(2 + Inner(w))>>
  BY DEF RenderPane, PaneBar
<1> HIDE DEF rows
<1> DEFINE upper == PaneBar(p, w) \o rows
           last  == <<Bare(2 + Inner(w))>>
<1>6. PICK n \in Nat : n = 1 + (h - 2) /\ n + 1 = h
  BY <1>1
<1>7. Block(upper, n, w, X, T)
  BY <1>1, <1>3, <1>4, <1>6, Above
<1> HIDE DEF upper, last
<1>8. Block(last, 1, w, X, T)
  BY <1>4 DEF last
<1>9. Block(upper \o last, n + 1, w, X, T)
  BY <1>6, <1>7, <1>8, Above
<1> QED BY <1>5, <1>6, <1>9 DEF upper, last

\* The parts of a picture the layout depends on.
Sized(pic) ==
    /\ pic.window.width \in Nat /\ pic.window.height \in Nat
    /\ pic.length \in Nat /\ pic.breaks \in Nat
    /\ pic.view.pane \in Titles

\* The lines of its three lists.
LinesOf(pic) ==
    {ProfileLines(pic.view)[i] : i \in DOMAIN ProfileLines(pic.view)}
      \cup {OutboundLines(pic.groups)[i] : i \in DOMAIN OutboundLines(pic.groups)}
      \cup {LogLines(pic.logs, pic.window.height)[i] :
                i \in DOMAIN LogLines(pic.logs, pic.window.height)}

\* In each list of a picture the cursor is where its keys act.
Aimed(pic) ==
    /\ Aims(ProfileLines(pic.view), Focused(pic, "profiles"), ProfileAt(pic.view), Target(pic))
    /\ Aims(OutboundLines(pic.groups), Focused(pic, "outbounds"),
            OutboundAt(pic.view, pic.groups), Target(pic))
    /\ Aims(LogLines(pic.logs, pic.window.height), Focused(pic, "logs"), -1, Target(pic))

\* So do the three panes.
LEMMA PanesFit ==
    ASSUME NEW pic, Sized(pic), Aimed(pic), NEW w \in Nat, w >= 3, NEW h \in Nat, h >= 3
    PROVE  /\ Block(ProfilesPane(pic, w, h), h, w, LinesOf(pic), Target(pic))
           /\ Block(OutboundsPane(pic, w, h), h, w, LinesOf(pic), Target(pic))
           /\ Block(LogsPane(pic, w, h), h, w, LinesOf(pic), Target(pic))
<1> \A p \in Titles : Focused(pic, p) \in BOOLEAN
  BY DEF Focused
<1>1. Block(ProfilesPane(pic, w, h), h, w, LinesOf(pic), Target(pic))
  <2>1. \A i \in DOMAIN ProfileLines(pic.view) : ProfileLines(pic.view)[i] \in LinesOf(pic)
    BY DEF LinesOf
  <2> QED BY <2>1, PaneFits DEF ProfilesPane, Sized, Titles, Aimed
<1>2. Block(OutboundsPane(pic, w, h), h, w, LinesOf(pic), Target(pic))
  <2>1. \A i \in DOMAIN OutboundLines(pic.groups) : OutboundLines(pic.groups)[i] \in LinesOf(pic)
    BY DEF LinesOf
  <2> QED BY <2>1, PaneFits DEF OutboundsPane, Sized, Titles, Aimed
<1>3. Block(LogsPane(pic, w, h), h, w, LinesOf(pic), Target(pic))
  <2>1. \A i \in DOMAIN LogLines(pic.logs, pic.window.height) :
            LogLines(pic.logs, pic.window.height)[i] \in LinesOf(pic)
    BY DEF LinesOf
  <2> QED BY <2>1, PaneFits DEF LogsPane, Sized, Titles, Aimed
<1> QED BY <1>1, <1>2, <1>3

\* The grid fills the rows it is given.
LEMMA GridFits ==
    ASSUME NEW pic, Sized(pic), Aimed(pic), NEW w \in Nat, NEW area \in Nat, HasRoom(w, area)
    PROVE  Block(RenderGrid(pic, w, area), area, w, LinesOf(pic), Target(pic))
<1> DEFINE logs == GridLogs(area)
           left == GridProfiles(w)
           top  == area - logs
           right == w - left - 1
<1>1. w >= 72 /\ area >= 12
  BY DEF HasRoom, ComfortableWidth, ComfortableArea
<1>2. (area * 2) \div 5 \in Nat /\ (w * 2) \div 5 \in Nat
  OBVIOUS
<1>3. logs \in Nat /\ logs >= 4 /\ top \in Nat /\ top >= 4
  BY <1>1, <1>2 DEF GridLogs, AtMost, AtLeast
<1>4. left \in Nat /\ left >= 24 /\ right \in Nat /\ right >= 23
  BY <1>1, <1>2 DEF GridProfiles, AtMost, AtLeast
<1> HIDE DEF logs, left
<1>5. /\ Block(ProfilesPane(pic, left, top), top, left, LinesOf(pic), Target(pic))
      /\ Block(OutboundsPane(pic, right, top), top, right, LinesOf(pic), Target(pic))
      /\ Block(LogsPane(pic, w, logs), logs, w, LinesOf(pic), Target(pic))
  BY <1>1, <1>3, <1>4, PanesFit
<1> DEFINE upper == Beside(ProfilesPane(pic, left, top), OutboundsPane(pic, right, top))
<1>6. Block(upper, top, left + right, LinesOf(pic), Target(pic))
  BY <1>3, <1>4, <1>5, SideBySide
<1>7. Block(upper, top, w, LinesOf(pic), Target(pic))
  <2> HIDE DEF upper
  <2>1. left + right <= w /\ left + right \in Nat /\ top \in Nat
    BY <1>3, <1>4
  <2> HIDE DEF right, top
  <2>2. \A i \in 1..top : upper[i].width \in Nat /\ upper[i].width <= left + right
    <3> SUFFICES ASSUME NEW i \in 1..top
                 PROVE  upper[i].width \in Nat /\ upper[i].width <= left + right
      OBVIOUS
    <3>1. upper \in Seq(Row(LinesOf(pic), Target(pic))) /\ Len(upper) = top /\ upper[i].width <= left + right
      BY <1>6 DEF Block
    <3>2. upper[i] \in Row(LinesOf(pic), Target(pic))
      BY <2>1, <3>1
    <3> QED BY <3>1, <3>2 DEF Row
  <2> QED BY <1>6, <2>1, <2>2 DEF Block
<1> HIDE DEF upper
<1>8. Block(upper \o LogsPane(pic, w, logs), top + logs, w, LinesOf(pic), Target(pic))
  BY <1>3, <1>5, <1>7, Above
<1>9. RenderGrid(pic, w, area) = upper \o LogsPane(pic, w, logs) /\ top + logs = area
  BY <1>3 DEF RenderGrid, upper, logs, left
<1> QED BY <1>8, <1>9

\* So does the stack: one pane is in focus, the other two are bars.
LEMMA StackFits ==
    ASSUME NEW pic, Sized(pic), Aimed(pic), NEW w \in Nat, w >= 3, NEW area \in Nat, area >= 6
    PROVE  Block(RenderStacked(pic, w, area), area, w, LinesOf(pic), Target(pic))
<1> DEFINE h == AtLeast(area - 2, 4)
           X == LinesOf(pic)
           T == Target(pic)
           part1 == IF Focused(pic, "profiles") THEN ProfilesPane(pic, w, h) ELSE PaneBar("profiles", w)
           part2 == IF Focused(pic, "outbounds") THEN OutboundsPane(pic, w, h) ELSE PaneBar("outbounds", w)
           part3 == IF Focused(pic, "logs") THEN LogsPane(pic, w, h) ELSE PaneBar("logs", w)
<1>1. h = area - 2 /\ h \in Nat /\ h >= 3
  BY DEF AtLeast
<1> HIDE DEF h, X, T
<1>2. /\ Block(ProfilesPane(pic, w, h), h, w, X, T) /\ Block(OutboundsPane(pic, w, h), h, w, X, T)
      /\ Block(LogsPane(pic, w, h), h, w, X, T)
  BY <1>1, PanesFit DEF X, T
<1>3. \A p \in Titles : Block(PaneBar(p, w), 1, w, X, T)
  BY BarFits
<1>4. PICK n1 \in Nat, n2 \in Nat, n3 \in Nat :
          /\ Block(part1, n1, w, X, T) /\ Block(part2, n2, w, X, T) /\ Block(part3, n3, w, X, T)
          /\ n1 + n2 + n3 = area
  <2>1. "profiles" \in Titles /\ "outbounds" \in Titles /\ "logs" \in Titles
    BY DEF Titles
  <2>2. CASE pic.view.pane = "profiles"
    <3>1. Block(part1, h, w, X, T) /\ Block(part2, 1, w, X, T) /\ Block(part3, 1, w, X, T)
      BY <1>2, <1>3, <2>1, <2>2 DEF Focused
    <3> HIDE DEF part1, part2, part3
    <3> QED BY <1>1, <3>1
  <2>3. CASE pic.view.pane = "outbounds"
    <3>1. Block(part1, 1, w, X, T) /\ Block(part2, h, w, X, T) /\ Block(part3, 1, w, X, T)
      BY <1>2, <1>3, <2>1, <2>3 DEF Focused
    <3> HIDE DEF part1, part2, part3
    <3> QED BY <1>1, <3>1
  <2>4. CASE pic.view.pane = "logs"
    <3>1. Block(part1, 1, w, X, T) /\ Block(part2, 1, w, X, T) /\ Block(part3, h, w, X, T)
      BY <1>2, <1>3, <2>1, <2>4 DEF Focused
    <3> HIDE DEF part1, part2, part3
    <3> QED BY <1>1, <3>1
  <2> QED BY <2>2, <2>3, <2>4 DEF Sized, Titles
<1> HIDE DEF part1, part2, part3
<1> DEFINE upper == part1 \o part2
<1>5. PICK n \in Nat : n = n1 + n2 /\ n + n3 = area
  BY <1>4
<1>6. Block(upper, n, w, X, T)
  BY <1>4, <1>5, Above
<1> HIDE DEF upper
<1>7. Block(upper \o part3, n + n3, w, X, T)
  BY <1>4, <1>6, Above
<1> QED BY <1>5, <1>7 DEF RenderStacked, upper, part1, part2, part3, h, X, T

\* A pane whose lines are not broken has no more rows than its lines.
LEMMA NoSpill ==
    ASSUME NEW pic, pic.breaks = 0, NEW lines, NEW h \in Int PROVE Spill(pic, lines, h) = 0
<1> DEFINE drawn == {i \in 1..Inner(h) : i \in DOMAIN lines /\ lines[i][1] # "text"}
<1>1. Inner(h) \in Int
  BY DEF Inner, AtLeast
<1>2. IsFiniteSet(1..Inner(h))
  BY <1>1, FS_Interval
<1>3. IsFiniteSet(drawn)
  BY <1>2, FS_Subset
<1>4. Cardinality(drawn) \in Nat
  BY <1>3, FS_CardinalityType
<1>5. Spill(pic, lines, h) = 0 * Cardinality(drawn)
  BY DEF Spill
<1> HIDE DEF drawn
<1> QED BY <1>4, <1>5

\* So a screen whose lines are not broken.
LEMMA NothingSpills == ASSUME NEW pic, Sized(pic), pic.breaks = 0 PROVE ExtraRows(pic) = 0
<1> DEFINE area == Height(pic) - 2
           logs == GridLogs(area)
           h    == AtLeast(area - 2, 4)
<1>1. area \in Nat /\ (area * 2) \div 5 \in Nat
  BY DEF Sized, Height, AtLeast, MinimumHeight
<1>2. area - 2 \in Int /\ logs \in Int /\ area - logs \in Int /\ h \in Int
  BY <1>1 DEF GridLogs, AtLeast, AtMost
<1> HIDE DEF area, logs, h
<1>3. /\ SpillOf(pic, "profiles", area - logs) = 0 /\ SpillOf(pic, "outbounds", area - logs) = 0
      /\ SpillOf(pic, "logs", logs) = 0 /\ SpillOf(pic, pic.view.pane, h) = 0
  BY <1>2, NoSpill DEF SpillOf
<1>4. ExtraRows(pic) = 0 + IF HasRoom(Width(pic), area) THEN AtLeast(0, 0) + 0 ELSE 0
  BY <1>3 DEF ExtraRows, area, logs, h
<1> QED BY <1>4 DEF AtLeast

\* Every picture fits its window, and highlights what the keys act on.
LEMMA PictureFits == ASSUME NEW pic, Sized(pic), Aimed(pic) PROVE Fits(pic) /\ Points(pic)
<1> DEFINE w == Width(pic)
           area == Height(pic) - 2
           X == LinesOf(pic)
           T == Target(pic)
           body == IF HasRoom(w, area) THEN RenderGrid(pic, w, area) ELSE RenderStacked(pic, w, area)
<1>1. w \in Nat /\ w >= 3 /\ area \in Nat /\ area >= 6 /\ Height(pic) = 1 + area + 1
  BY DEF Sized, Width, Height, AtLeast, MinimumWidth, MinimumHeight
<1> HIDE DEF w, area
<1>2. Block(body, area, w, X, T)
  BY <1>1, GridFits, StackFits
<1>3. Truncated(pic.length, w) \in Nat /\ Truncated(pic.length, w) <= w
  BY <1>1 DEF Sized, Truncated, AtMost
<1>4. Block(StatusLine(pic, w), 1, w, X, T) /\ Block(FooterLine(pic, w), 1, w, X, T)
  BY <1>1, <1>3, Single DEF StatusLine, FooterLine
<1> HIDE DEF X, T, body
<1>5. Block(StatusLine(pic, w) \o body, 1 + area, w, X, T)
  BY <1>1, <1>2, <1>4, Above
<1>6. Block(StatusLine(pic, w) \o body \o FooterLine(pic, w), 1 + area + 1, w, X, T)
  BY <1>1, <1>4, <1>5, Above
<1>7. Render(pic) = StatusLine(pic, w) \o body \o FooterLine(pic, w)
  BY DEF Render, body, w, area
<1>8. Block(Render(pic), Height(pic), Width(pic), X, T)
  BY <1>1, <1>6, <1>7 DEF w
<1>9. \A i \in DOMAIN Render(pic) : Render(pic)[i].lit = Render(pic)[i].lines \cap T
  BY <1>8 DEF Block, Row
<1>10. Points(pic)
  BY <1>9 DEF Points, T
<1>11. ASSUME LargeEnough(pic.window) PROVE Width(pic) = pic.window.width /\ Height(pic) = pic.window.height
  BY <1>11 DEF LargeEnough, Sized, Width, Height, AtLeast, MinimumWidth, MinimumHeight
<1>12. /\ Len(Render(pic)) = Height(pic) /\ DOMAIN Render(pic) = 1..Height(pic)
       /\ \A i \in 1..Height(pic) : Render(pic)[i].width <= Width(pic)
  BY <1>8 DEF Block
<1>13. pic.breaks = 0 => RowsOf(pic) = Height(pic) + 0
  BY <1>12, NothingSpills DEF RowsOf
<1>14. Height(pic) \in Nat
  BY <1>1
<1>15. Fits(pic)
  BY <1>11, <1>12, <1>13, <1>14 DEF Fits
<1> QED BY <1>10, <1>15

(***************************************************************************)
(* Lists made of groups.  A set of naturals that has 0 and with each its   *)
(* successor has them all: the library states induction for an operator,   *)
(* this is the form it takes for a set.                                    *)
(***************************************************************************)
LEMMA SetInduction ==
    ASSUME NEW S \in SUBSET Nat, 0 \in S, \A n \in S : n + 1 \in S
    PROVE  S = Nat
<1> DEFINE R == OpToRel(<, Nat)
           T == Nat \ S
<1>1. SUFFICES ASSUME T # {} PROVE FALSE
  OBVIOUS
<1>2. IsWellFoundedOn(R, Nat)
  BY NatLessThanWellFounded
<1>3. PICK x \in T : \A y \in T : ~ (<<y, x>> \in R)
  <2> HIDE DEF R
  <2> QED BY ONLY <1>1, <1>2, WFMin, T \subseteq Nat
<1>4. x \in Nat /\ x # 0 /\ x - 1 \in Nat /\ x - 1 \notin S
  OBVIOUS
<1>5. <<x - 1, x>> \in R
  BY <1>4 DEF OpToRel
<1> QED BY <1>3, <1>4, <1>5

\* FlattenSeq's recursion has a solution, and so it computes it.
LEMMA FlattenUnfolds ==
    ASSUME NEW seqs, NEW N \in Nat, N # 0, Len(seqs) = N
    PROVE  \E f : /\ f = [i \in 1..N |-> IF i = 1 THEN seqs[i] ELSE f[i - 1] \o seqs[i]]
                  /\ FlattenSeq(seqs) = f[N]
<1> DEFINE Def(n, f) == f = [i \in 1..n |-> IF i = 1 THEN seqs[i] ELSE f[i - 1] \o seqs[i]]
           S == {n \in Nat : \E f : Def(n, f)}
<1>1. 0 \in S
  <2>1. Def(0, [i \in 1..0 |-> seqs[i]])
    OBVIOUS
  <2> QED BY <2>1
<1>2. ASSUME NEW n \in Nat, NEW f, Def(n, f) PROVE \E g : Def(n + 1, g)
  <2> DEFINE g == [i \in 1..(n + 1) |-> IF i = 1 THEN seqs[i] ELSE f[i - 1] \o seqs[i]]
  <2>1. \A i \in 1..n : g[i] = f[i]
    <3> SUFFICES ASSUME NEW i \in 1..n PROVE g[i] = f[i]
      OBVIOUS
    <3>1. i \in 1..(n + 1)
      OBVIOUS
    <3>2. f[i] = IF i = 1 THEN seqs[i] ELSE f[i - 1] \o seqs[i]
      BY <1>2, Zenon
    <3> QED BY <3>1, <3>2, Zenon
  <2>2. \A i \in 1..(n + 1) : i # 1 => g[i - 1] = f[i - 1]
    <3> HIDE DEF g
    <3> QED BY <2>1
  <2>3. \A i \in 1..(n + 1) : (IF i = 1 THEN seqs[i] ELSE f[i - 1] \o seqs[i])
                                = (IF i = 1 THEN seqs[i] ELSE g[i - 1] \o seqs[i])
    <3> HIDE DEF g
    <3> QED BY <2>2, Zenon
  <2>4. Def(n + 1, g)
    BY <2>3, Zenon
  <2> HIDE DEF g, Def
  <2> QED BY <2>4
<1>3. \A n \in S : n + 1 \in S
  <2> HIDE DEF Def
  <2> QED BY <1>2
<1>4. \E f : Def(N, f)
  <2>1. S \in SUBSET Nat
    OBVIOUS
  <2>2. S = Nat
    <3> HIDE DEF S
    <3> QED BY <1>1, <1>3, <2>1, SetInduction
  <2> HIDE DEF Def
  <2> QED BY <2>2
<1> QED BY <1>4 DEF FlattenSeq

\* The prefixes of a sequence of sequences, flattened: each is the one before and
\* the next sequence, and the last is FlattenSeq's.
Joins(f, S, seqs) ==
    /\ f[0] = <<>>
    /\ \A i \in 1..Len(seqs) : f[i] = f[i - 1] \o seqs[i]
    /\ \A i \in 0..Len(seqs) : f[i] \in Seq(S)
    /\ FlattenSeq(seqs) = f[Len(seqs)]

\* Every sequence of sequences has them.
LEMMA FlattenPrefixes ==
    \A S : \A seqs \in Seq(Seq(S)) : \E f : Joins(f, S, seqs)
<1> SUFFICES ASSUME NEW S, NEW seqs \in Seq(Seq(S)) PROVE \E f : Joins(f, S, seqs)
  OBVIOUS
<1>1. CASE Len(seqs) = 0
  <2> DEFINE f == [i \in {0} |-> <<>>]
  <2>1. FlattenSeq(seqs) = <<>>
    BY <1>1, EmptySeq DEF FlattenSeq
  <2>2. f[0] = <<>> /\ <<>> \in Seq(S)
    OBVIOUS
  <2> HIDE DEF f
  <2>3. \A i \in 1..Len(seqs) : f[i] = f[i - 1] \o seqs[i]
    BY <1>1
  <2>4. \A i \in 0..Len(seqs) : f[i] \in Seq(S)
    <3>1. \A i \in 0..Len(seqs) : i = 0
      BY <1>1
    <3> QED BY <2>2, <3>1
  <2>5. FlattenSeq(seqs) = f[Len(seqs)]
    BY <1>1, <2>1, <2>2
  <2> QED BY <2>2, <2>3, <2>4, <2>5 DEF Joins
<1>2. CASE Len(seqs) # 0
  <2> DEFINE N == Len(seqs)
  <2>1. N \in Nat /\ N # 0 /\ \A i \in 1..N : seqs[i] \in Seq(S)
    BY <1>2
  <2>2. PICK g : /\ g = [i \in 1..N |-> IF i = 1 THEN seqs[i] ELSE g[i - 1] \o seqs[i]]
                 /\ FlattenSeq(seqs) = g[N]
    BY <2>1, FlattenUnfolds
  <2> HIDE DEF N
  <2>3. \A i \in 1..N : g[i] = IF i = 1 THEN seqs[i] ELSE g[i - 1] \o seqs[i]
    BY <2>2, Zenon
  <2> DEFINE f == [i \in 0..N |-> IF i = 0 THEN <<>> ELSE g[i]]
  <2>4. f[0] = <<>> /\ \A i \in 1..N : f[i] = g[i]
    BY <2>1
  <2>5. f[N] = g[N]
    BY <2>1, <2>4
  <2> HIDE DEF f
  <2>6. \A i \in 1..N : f[i] = f[i - 1] \o seqs[i]
    <3> SUFFICES ASSUME NEW i \in 1..N PROVE f[i] = f[i - 1] \o seqs[i]
      OBVIOUS
    <3>1. CASE i = 1
      <4>1. f[i] = seqs[i] /\ f[i - 1] = <<>>
        BY <2>3, <2>4, <3>1
      <4> QED BY <2>1, <4>1, ConcatEmptySeq
    <3>2. CASE i # 1
      <4>1. i - 1 \in 1..N
        BY <2>1, <3>2
      <4> QED BY <2>3, <2>4, <3>2, <4>1
    <3> QED BY <3>1, <3>2
  <2>7. \A i \in 0..N : f[i] \in Seq(S)
    <3> DEFINE U == {n \in Nat : n <= N => f[n] \in Seq(S)}
    <3>1. 0 \in U
      <4>1. f[0] \in Seq(S)
        BY <2>4, EmptySeq
      <4> QED BY <4>1
    <3>2. ASSUME NEW n \in U PROVE n + 1 \in U
      <4>1. SUFFICES ASSUME n + 1 <= N PROVE f[n + 1] \in Seq(S)
        OBVIOUS
      <4>2. n + 1 \in 1..N /\ f[n] \in Seq(S) /\ (n + 1) - 1 = n
        BY <2>1, <4>1
      <4>3. f[n + 1] = f[n] \o seqs[n + 1] /\ seqs[n + 1] \in Seq(S)
        BY <2>1, <2>6, <4>2
      <4> QED BY <4>2, <4>3
    <3>3. U \in SUBSET Nat
      OBVIOUS
    <3>4. U = Nat
      <4> HIDE DEF U
      <4> QED BY <3>1, <3>2, <3>3, SetInduction
    <3> QED BY <2>1, <3>4
  <2> QED BY <2>2, <2>4, <2>5, <2>6, <2>7 DEF N, Joins
<1> QED BY <1>1, <1>2

(***************************************************************************)
(* The cursor over the outbounds                                           *)
(***************************************************************************)
IsChoice(line) == line[1] = "choice"

\* The items C of the first n groups, and their lines L: the items are distinct,
\* and pos says on which line each is; they come in the same order, and on no other
\* line.
PlacedAt(L, C, pos) ==
    /\ pos \in [1..Len(C) -> 1..Len(L)]
    /\ \A a \in 1..Len(C) : \A b \in 1..Len(C) : a < b => pos[a] < pos[b]
    /\ \A a \in 1..Len(C) : L[pos[a]] = C[a]
    /\ \A i \in 1..Len(L) : IsChoice(L[i]) => \E a \in 1..Len(C) : pos[a] = i

Listed(L, C, n) ==
    /\ \A a \in 1..Len(C) : \E g \in 1..n, k \in Nat : C[a] = Choice(g, k)
    /\ \A a \in 1..Len(C) : \A b \in 1..Len(C) : C[a] = C[b] => a = b
    /\ \E pos : PlacedAt(L, C, pos)

Line == {"group", "choice", "text"} \X Nat \X Nat

Items(g, m) == [k \in 1..m |-> Choice(g, k)]

\* The elements of a concatenation, counted from where they come.
LEMMA Concatenated ==
    \A S : \A s \in Seq(S), t \in Seq(S) :
           /\ s \o t \in Seq(S) /\ Len(s \o t) = Len(s) + Len(t)
           /\ \A i \in 1..Len(s) : (s \o t)[i] = s[i]
           /\ \A i \in 1..Len(t) : (s \o t)[Len(s) + i] = t[i]
<1> SUFFICES ASSUME NEW S, NEW s \in Seq(S), NEW t \in Seq(S)
             PROVE  /\ s \o t \in Seq(S) /\ Len(s \o t) = Len(s) + Len(t)
                    /\ \A i \in 1..Len(s) : (s \o t)[i] = s[i]
                    /\ \A i \in 1..Len(t) : (s \o t)[Len(s) + i] = t[i]
  OBVIOUS
<1>1. /\ s \o t \in Seq(S) /\ Len(s \o t) = Len(s) + Len(t)
      /\ \A i \in 1..(Len(s) + Len(t)) :
            (s \o t)[i] = IF i <= Len(s) THEN s[i] ELSE t[i - Len(s)]
  BY ConcatProperties
<1>2. Len(s) \in Nat /\ Len(t) \in Nat
  OBVIOUS
<1> DEFINE u == s \o t
<1> HIDE DEF u
<1>3. ASSUME NEW i \in 1..Len(s) PROVE u[i] = s[i]
  BY <1>1, <1>2 DEF u
<1>4. ASSUME NEW i \in 1..Len(t) PROVE u[Len(s) + i] = t[i]
  BY <1>1, <1>2 DEF u
<1> QED BY <1>1, <1>3, <1>4 DEF u

\* One more group: its title, then its items.
LEMMA GroupListed ==
    ASSUME NEW L \in Seq(Line), NEW C \in Seq(Line), NEW n \in Nat, NEW m \in Nat,
           Listed(L, C, n)
    PROVE  Listed(L \o (<<Group(n + 1)>> \o Items(n + 1, m)), C \o Items(n + 1, m), n + 1)
<1> DEFINE I  == Items(n + 1, m)
           B  == <<Group(n + 1)>> \o I
           LL == L \o B
           CC == C \o I
           l  == Len(L)
           c  == Len(C)
<1>1. /\ l \in Nat /\ c \in Nat
      /\ \A k \in 1..m : Choice(n + 1, k) \in Line
      /\ Group(n + 1) \in Line
  BY DEF Line, Choice, Group
<1>2. /\ I \in Seq(Line) /\ Len(I) = m /\ \A k \in 1..m : I[k] = Choice(n + 1, k)
  <2>1. I \in [1..m -> Line]
    BY <1>1 DEF Items
  <2> QED BY <2>1 DEF Items
<1> HIDE DEF I
<1>3. /\ B \in Seq(Line) /\ Len(B) = 1 + m
      /\ B[1] = Group(n + 1) /\ \A k \in 1..m : B[1 + k] = I[k]
  <2>1. <<Group(n + 1)>> \in Seq(Line) /\ Len(<<Group(n + 1)>>) = 1
        /\ <<Group(n + 1)>>[1] = Group(n + 1)
    BY <1>1
  <2> DEFINE T == <<Group(n + 1)>>
  <2> HIDE DEF T
  <2>2. T \in Seq(Line) /\ Len(T) = 1 /\ T[1] = Group(n + 1)
    BY <2>1 DEF T
  <2>3. /\ T \o I \in Seq(Line) /\ Len(T \o I) = Len(T) + Len(I)
        /\ \A i \in 1..Len(T) : (T \o I)[i] = T[i]
        /\ \A i \in 1..Len(I) : (T \o I)[Len(T) + i] = I[i]
    <3>1. T \in Seq(Line) /\ I \in Seq(Line)
      BY <1>2, <2>2
    <3> QED BY <3>1, Concatenated
  <2> QED BY <1>2, <2>2, <2>3 DEF T
<1> HIDE DEF B
<1>4. /\ Len(LL) = l + 1 + m
      /\ \A i \in 1..l : LL[i] = L[i]
      /\ LL[l + 1] = Group(n + 1)
      /\ \A k \in 1..m : LL[l + 1 + k] = Choice(n + 1, k)
  <2>1. /\ Len(L \o B) = Len(L) + Len(B)
        /\ \A i \in 1..Len(L) : (L \o B)[i] = L[i]
        /\ \A i \in 1..Len(B) : (L \o B)[Len(L) + i] = B[i]
    <3>1. L \in Seq(Line) /\ B \in Seq(Line)
      BY <1>3
    <3> QED BY <3>1, Concatenated
  <2>2. /\ Len(LL) = l + (1 + m)
        /\ \A i \in 1..l : LL[i] = L[i]
        /\ \A i \in 1..(1 + m) : LL[l + i] = B[i]
    BY <1>3, <2>1
  <2> HIDE DEF LL, l
  <2>3. LL[l + 1] = B[1] /\ l + (1 + m) = l + 1 + m
    BY <1>1, <2>2
  <2>4. ASSUME NEW k \in 1..m PROVE LL[l + 1 + k] = B[1 + k]
    <3>1. 1 + k \in 1..(1 + m) /\ l + (1 + k) = l + 1 + k
      BY <1>1
    <3> QED BY <2>2, <3>1
  <2> QED BY <1>2, <1>3, <2>2, <2>3, <2>4
<1>5. /\ Len(CC) = c + m
      /\ \A a \in 1..c : CC[a] = C[a]
      /\ \A a \in (c + 1)..(c + m) : a - c \in 1..m /\ CC[a] = Choice(n + 1, a - c)
  <2>1. /\ Len(CC) = c + m
        /\ \A i \in 1..(c + m) : CC[i] = IF i <= c THEN C[i] ELSE I[i - c]
    BY <1>2, ConcatProperties
  <2> HIDE DEF CC
  <2> QED BY <1>1, <1>2, <2>1
<1> HIDE DEF LL, CC, l, c
<1>6. \A a \in 1..(c + m) : \E g \in 1..(n + 1), k \in Nat : CC[a] = Choice(g, k)
  <2> SUFFICES ASSUME NEW a \in 1..(c + m)
               PROVE  \E g \in 1..(n + 1), k \in Nat : CC[a] = Choice(g, k)
    OBVIOUS
  <2>1. CASE a \in 1..c
    <3>1. PICK g \in 1..n, k \in Nat : C[a] = Choice(g, k)
      BY <2>1 DEF Listed, c
    <3>2. g \in 1..(n + 1)
      OBVIOUS
    <3> QED BY <1>5, <2>1, <3>1, <3>2
  <2>2. CASE a \in (c + 1)..(c + m)
    <3>1. n + 1 \in 1..(n + 1) /\ a - c \in Nat
      BY <1>5, <2>2
    <3> QED BY <1>5, <2>2, <3>1
  <2> QED BY <1>1, <2>1, <2>2
<1>7. \A a \in 1..(c + m) : \A b \in 1..(c + m) : CC[a] = CC[b] => a = b
  <2>1. \A a \in 1..c : \A b \in (c + 1)..(c + m) : CC[a] # CC[b]
    <3> SUFFICES ASSUME NEW a \in 1..c, NEW b \in (c + 1)..(c + m) PROVE CC[a] # CC[b]
      OBVIOUS
    <3>1. PICK g \in 1..n, k \in Nat : C[a] = Choice(g, k)
      BY DEF Listed, c
    <3>2. CC[a] = <<"choice", g, k>> /\ CC[b] = <<"choice", n + 1, b - c>>
      BY <1>5, <3>1 DEF Choice
    <3> QED BY <3>2
  <2>2. \A a \in 1..c : \A b \in 1..c : CC[a] = CC[b] => a = b
    BY <1>5 DEF Listed, c
  <2>3. \A a \in (c + 1)..(c + m) : \A b \in (c + 1)..(c + m) : CC[a] = CC[b] => a = b
    <3> SUFFICES ASSUME NEW a \in (c + 1)..(c + m), NEW b \in (c + 1)..(c + m), CC[a] = CC[b]
                 PROVE  a = b
      OBVIOUS
    <3>1. <<"choice", n + 1, a - c>> = <<"choice", n + 1, b - c>>
      BY <1>5 DEF Choice
    <3>2. a - c = b - c
      BY <3>1
    <3> QED BY <1>1, <3>2
  <2>4. \A a \in 1..(c + m) : a \in 1..c \/ a \in (c + 1)..(c + m)
    BY <1>1
  <2> QED BY <2>1, <2>2, <2>3, <2>4
<1>8. PICK old : PlacedAt(L, C, old)
  BY DEF Listed
<1> DEFINE pos == [a \in 1..(c + m) |-> IF a <= c THEN old[a] ELSE l + 1 + (a - c)]
<1>9. /\ \A a \in 1..c : old[a] \in 1..l /\ pos[a] = old[a]
      /\ \A a \in (c + 1)..(c + m) : pos[a] = l + 1 + (a - c)
  <2>1. ASSUME NEW a \in 1..c PROVE a \in 1..(c + m) /\ a <= c /\ old[a] \in 1..l
    BY <1>1, <1>8 DEF PlacedAt, l, c
  <2>2. ASSUME NEW a \in (c + 1)..(c + m) PROVE a \in 1..(c + m) /\ ~ a <= c
    BY <1>1
  <2> QED BY <2>1, <2>2
<1>10. ASSUME NEW a \in 1..(c + m)
       PROVE  (IF a <= c THEN old[a] ELSE l + 1 + (a - c)) \in 1..(l + 1 + m)
  <2> HIDE DEF pos
  <2>1. CASE a \in 1..c
    <3>1. a <= c
      BY <1>1, <2>1
    <3>2. old[a] \in 1..l
      BY <1>9, <2>1
    <3> QED BY <1>1, <3>1, <3>2
  <2>2. CASE a \in (c + 1)..(c + m)
    BY <1>1, <2>2
  <2> QED BY <1>1, <2>1, <2>2
<1>11. pos \in [1..(c + m) -> 1..(l + 1 + m)]
  BY <1>10
<1> HIDE DEF pos
<1>12. \A a \in 1..(c + m) : \A b \in 1..(c + m) : a < b => pos[a] < pos[b]
  <2> SUFFICES ASSUME NEW a \in 1..(c + m), NEW b \in 1..(c + m), a < b PROVE pos[a] < pos[b]
    OBVIOUS
  <2>1. CASE b \in 1..c
    <3>1. a \in 1..c
      BY <1>1, <2>1
    <3> QED BY <1>8, <1>9, <2>1, <3>1 DEF PlacedAt, c
  <2>2. CASE b \in (c + 1)..(c + m)
    BY <1>1, <1>9, <2>2
  <2> QED BY <1>1, <2>1, <2>2
<1>13. \A a \in 1..(c + m) : LL[pos[a]] = CC[a]
  <2> SUFFICES ASSUME NEW a \in 1..(c + m) PROVE LL[pos[a]] = CC[a]
    OBVIOUS
  <2>1. CASE a \in 1..c
    BY <1>4, <1>5, <1>8, <1>9, <2>1 DEF PlacedAt, c
  <2>2. CASE a \in (c + 1)..(c + m)
    BY <1>4, <1>5, <1>9, <2>2
  <2> QED BY <1>1, <2>1, <2>2
<1>14. \A i \in 1..(l + 1 + m) : IsChoice(LL[i]) => \E a \in 1..(c + m) : pos[a] = i
  <2> SUFFICES ASSUME NEW i \in 1..(l + 1 + m), IsChoice(LL[i])
               PROVE  \E a \in 1..(c + m) : pos[a] = i
    OBVIOUS
  <2>1. CASE i \in 1..l
    <3>1. PICK a \in 1..c : old[a] = i
      BY <1>4, <1>8, <2>1 DEF PlacedAt, l, c
    <3>2. a \in 1..(c + m)
      BY <1>1
    <3> QED BY <1>9, <3>1, <3>2
  <2>2. CASE i = l + 1
    BY <1>4, <2>2 DEF IsChoice, Group
  <2>3. CASE i \in (l + 2)..(l + 1 + m)
    <3> DEFINE a == c + (i - (l + 1))
    <3>1. a \in (c + 1)..(c + m) /\ a \in 1..(c + m) /\ l + 1 + (a - c) = i
      BY <1>1, <2>3
    <3> HIDE DEF a
    <3> QED BY <1>9, <3>1
  <2> QED BY <1>1, <2>1, <2>2, <2>3
<1>15. PlacedAt(LL, CC, pos)
  BY <1>4, <1>5, <1>11, <1>12, <1>13, <1>14 DEF PlacedAt
<1>16. Listed(LL, CC, n + 1)
  BY <1>5, <1>6, <1>7, <1>15 DEF Listed
<1> QED BY <1>16 DEF LL, CC, B, I

\* The line of item a has a - 1 items above it.
LEMMA ItemsAbove ==
    ASSUME NEW L, NEW C, NEW n, Listed(L, C, n), NEW pos, PlacedAt(L, C, pos),
           Len(L) \in Nat, Len(C) \in Nat, NEW a \in 1..Len(C)
    PROVE  Cardinality({i \in 1..(pos[a] - 1) : IsChoice(L[i])}) = a - 1
<1> DEFINE S == {i \in 1..(pos[a] - 1) : IsChoice(L[i])}
           f == [b \in 1..(a - 1) |-> pos[b]]
<1>1. ASSUME NEW b \in 1..(a - 1) PROVE b \in 1..Len(C) /\ b < a
  OBVIOUS
<1>2. \A b \in 1..Len(C) : pos[b] \in 1..Len(L)
  BY DEF PlacedAt
<1>3. \A b \in 1..Len(C) : IsChoice(C[b])
  BY DEF Listed, IsChoice, Choice
<1>4. ASSUME NEW b \in 1..Len(C), b < a PROVE pos[b] \in S
  <2>1. pos[b] < pos[a] /\ L[pos[b]] = C[b]
    BY <1>4 DEF PlacedAt
  <2> QED BY <1>2, <1>3, <2>1
<1>5. f \in [1..(a - 1) -> S]
  <2> HIDE DEF S
  <2> QED BY <1>1, <1>4
<1>6. ASSUME NEW b \in 1..(a - 1), NEW c \in 1..(a - 1), f[b] = f[c] PROVE b = c
  <2>1. pos[b] = pos[c] /\ pos[b] \in Int /\ pos[c] \in Int
    BY <1>1, <1>2, <1>6
  <2>2. ~ b < c /\ ~ c < b
    BY <1>1, <2>1 DEF PlacedAt
  <2> QED BY <2>2
<1>7. ASSUME NEW i \in S PROVE \E b \in 1..(a - 1) : f[b] = i
  <2>1. pos[a] \in 1..Len(L) /\ i \in 1..Len(L) /\ i < pos[a] /\ IsChoice(L[i])
    BY <1>2
  <2>2. PICK b \in 1..Len(C) : pos[b] = i
    BY <2>1 DEF PlacedAt
  <2>3. b # a /\ ~ a < b
    BY <2>1, <2>2 DEF PlacedAt
  <2>4. b \in 1..(a - 1)
    BY <2>3
  <2> QED BY <2>2, <2>4
<1> HIDE DEF S, f
<1>8. f \in Bijection(1..(a - 1), S)
  <2>1. \A b \in 1..(a - 1) : \A c \in 1..(a - 1) : f[b] = f[c] => b = c
    BY <1>6
  <2>2. \A i \in S : \E b \in 1..(a - 1) : f[b] = i
    BY <1>7
  <2> QED BY <1>5, <2>1, <2>2 DEF Bijection, Injection, Surjection, IsInjective
<1>9. ExistsBijection(1..(a - 1), S) /\ a - 1 \in Nat
  BY <1>8 DEF ExistsBijection
<1> QED BY <1>9, FS_CountingElements DEF S

\* outboundLines and outboundChoices list the same items, whatever the groups.
LEMMA GroupsListed ==
    ASSUME NEW groups \in Seq(Nat), groups # <<>>
    PROVE  /\ OutboundLines(groups) \in Seq(Line) /\ ChoiceList(groups) \in Seq(Line)
           /\ Listed(OutboundLines(groups), ChoiceList(groups), Len(groups))
<1> DEFINE N == Len(groups)
           lists == [g \in DOMAIN groups |-> [k \in 1..groups[g] |-> Choice(g, k)]]
           parts == [g \in DOMAIN groups |->
                        <<Group(g)>> \o [k \in 1..groups[g] |-> Choice(g, k)]]
<1>1. N \in Nat /\ DOMAIN groups = 1..N /\ \A g \in 1..N : groups[g] \in Nat
  OBVIOUS
<1>2. ASSUME NEW g \in 1..N
      PROVE  /\ lists[g] = Items(g, groups[g]) /\ Items(g, groups[g]) \in Seq(Line)
             /\ parts[g] = <<Group(g)>> \o Items(g, groups[g])
             /\ <<Group(g)>> \o Items(g, groups[g]) \in Seq(Line)
  <2>1. groups[g] \in Nat /\ g \in Nat
    BY <1>1
  <2>2. Items(g, groups[g]) \in Seq(Line)
    <3>1. Items(g, groups[g]) \in [1..groups[g] -> Line]
      BY <2>1 DEF Items, Line, Choice
    <3> QED BY <2>1, <3>1
  <2>3. <<Group(g)>> \in Seq(Line)
    BY <2>1 DEF Group, Line
  <2>4. <<Group(g)>> \o Items(g, groups[g]) \in Seq(Line)
    BY <2>2, <2>3, Concatenated
  <2>5. lists[g] = Items(g, groups[g]) /\ parts[g] = <<Group(g)>> \o Items(g, groups[g])
    BY <1>1 DEF Items
  <2> QED BY <2>2, <2>4, <2>5
<1>3. /\ lists \in Seq(Seq(Line)) /\ Len(lists) = N
      /\ parts \in Seq(Seq(Line)) /\ Len(parts) = N
  <2>1. lists \in [1..N -> Seq(Line)] /\ parts \in [1..N -> Seq(Line)]
    BY <1>1, <1>2
  <2> HIDE DEF lists, parts, N
  <2> QED BY <1>1, <2>1
<1>4. ChoiceList(groups) = FlattenSeq(lists) /\ OutboundLines(groups) = FlattenSeq(parts)
  BY DEF ChoiceList, OutboundLines
<1> HIDE DEF lists, parts, N
<1>5. PICK C : Joins(C, Line, lists)
  BY <1>3, FlattenPrefixes
<1>6. PICK L : Joins(L, Line, parts)
  BY <1>3, FlattenPrefixes
<1> DEFINE S == {n \in Nat : n <= N => Listed(L[n], C[n], n)}
<1>7. 0 \in S
  <2>1. PlacedAt(<<>>, <<>>, [i \in 1..0 |-> 1])
    BY DEF PlacedAt
  <2>2. Listed(<<>>, <<>>, 0)
    BY <2>1 DEF Listed
  <2> QED BY <1>5, <1>6, <2>2 DEF Joins
<1>8. ASSUME NEW n \in S PROVE n + 1 \in S
  <2>1. SUFFICES ASSUME n + 1 <= N PROVE Listed(L[n + 1], C[n + 1], n + 1)
    OBVIOUS
  <2>2. n \in Nat /\ n \in 0..N /\ n + 1 \in 1..N /\ (n + 1) - 1 = n /\ Listed(L[n], C[n], n)
    BY <1>1, <2>1
  <2> HIDE DEF S
  <2>3. L[n] \in Seq(Line) /\ C[n] \in Seq(Line) /\ groups[n + 1] \in Nat
    BY <1>1, <1>3, <1>5, <1>6, <2>2 DEF Joins
  <2>4. Listed(L[n] \o (<<Group(n + 1)>> \o Items(n + 1, groups[n + 1])),
               C[n] \o Items(n + 1, groups[n + 1]), n + 1)
    BY <2>2, <2>3, GroupListed
  <2>5. /\ C[n + 1] = C[n] \o Items(n + 1, groups[n + 1])
        /\ L[n + 1] = L[n] \o (<<Group(n + 1)>> \o Items(n + 1, groups[n + 1]))
    BY <1>2, <1>3, <1>5, <1>6, <2>2 DEF Joins
  <2> QED BY <2>4, <2>5
<1>9. S = Nat
  <2>1. S \in SUBSET Nat
    OBVIOUS
  <2> HIDE DEF S
  <2> QED BY <1>7, <1>8, <2>1, SetInduction
<1>10. Listed(L[N], C[N], N) /\ L[N] \in Seq(Line) /\ C[N] \in Seq(Line)
  <2>1. N \in S
    <3> HIDE DEF S
    <3> QED BY <1>1, <1>9
  <2>2. Listed(L[N], C[N], N)
    BY <1>1, <2>1
  <2> HIDE DEF S
  <2>3. N \in 0..N
    BY <1>1
  <2> QED BY <1>3, <1>5, <1>6, <2>2, <2>3 DEF Joins
<1>11. FlattenSeq(lists) = C[N] /\ FlattenSeq(parts) = L[N]
  BY <1>3, <1>5, <1>6 DEF Joins
<1> QED BY <1>4, <1>10, <1>11 DEF N

\* What outboundChoices lists is items.
LEMMA ItemsAreChoices ==
    ASSUME NEW groups \in Seq(Nat), NEW o \in Nat, o < Len(ChoiceList(groups))
    PROVE  IsChoice(ChoiceList(groups)[o + 1])
<1> DEFINE C == ChoiceList(groups)
<1>1. groups # <<>>
  BY DEF ChoiceList, FlattenSeq
<1>2. /\ C \in Seq(Line) /\ Listed(OutboundLines(groups), C, Len(groups))
  BY <1>1, GroupsListed
<1> HIDE DEF C
<1>3. o + 1 \in 1..Len(C)
  BY <1>2 DEF C
<1>4. IsChoice(C[o + 1])
  BY <1>2, <1>3 DEF Listed, IsChoice, Choice
<1> QED BY <1>4 DEF C

\* The line outboundLines marks is the one of the item the keys act on, and it marks
\* none when they act on none.
LEMMA CursorOnItem ==
    ASSUME NEW groups \in Seq(Nat), NEW v, v.outCursor \in Nat,
           v.choices = Len(ChoiceList(groups)), NEW i \in DOMAIN OutboundLines(groups)
    PROVE  /\ OutboundLines(groups)[i] \in Line
           /\ i - 1 = OutboundAt(v, groups) <=>
                  /\ v.outCursor < v.choices
                  /\ OutboundLines(groups)[i] = ChoiceList(groups)[v.outCursor + 1]
<1> DEFINE L == OutboundLines(groups)
           C == ChoiceList(groups)
           o == v.outCursor
           items(n) == {j \in 1..n : IsChoice(L[j])}
           hits == {j \in items(Len(L)) : Cardinality(items(j - 1)) = o}
<1>1. OutboundAt(v, groups) = IF hits = {} THEN -1 ELSE (CHOOSE j \in hits : TRUE) - 1
  BY DEF OutboundAt, IsChoice
<1>2. CASE groups = <<>>
  <2>1. L = <<Text(1)>>
    BY <1>2 DEF OutboundLines
  <2>2. Len(L) = 1 /\ i = 1 /\ L[1] = Text(1) /\ Text(1) \in Line /\ ~ IsChoice(L[1])
    BY <2>1 DEF Text, Line, IsChoice
  <2>3. v.choices = 0
    BY <1>2 DEF ChoiceList, FlattenSeq
  <2>4. hits = {}
    BY <2>2
  <2> HIDE DEF hits, L
  <2>5. OutboundAt(v, groups) = -1
    BY <1>1, <2>4
  <2> QED BY <2>2, <2>3, <2>5 DEF L
<1>3. CASE groups # <<>>
  <2>1. L \in Seq(Line) /\ C \in Seq(Line) /\ Listed(L, C, Len(groups))
    BY <1>3, GroupsListed
  <2>2. PICK pos : PlacedAt(L, C, pos)
    BY <2>1 DEF Listed
  <2> HIDE DEF L, C
  <2>3. /\ Len(L) \in Nat /\ Len(C) \in Nat /\ i \in 1..Len(L) /\ L[i] \in Line
        /\ v.choices = Len(C)
    BY <2>1 DEF L, C
  <2>4. \A a \in 1..Len(C) : /\ pos[a] \in 1..Len(L) /\ L[pos[a]] = C[a] /\ IsChoice(C[a])
                             /\ Cardinality(items(pos[a] - 1)) = a - 1
    <3>1. \A a \in 1..Len(C) : IsChoice(C[a])
      BY <2>1 DEF Listed, IsChoice, Choice
    <3>2. \A a \in 1..Len(C) : Cardinality(items(pos[a] - 1)) = a - 1
      BY <2>1, <2>2, <2>3, ItemsAbove
    <3> QED BY <2>2, <3>1, <3>2 DEF PlacedAt
  <2>5. \A j \in items(Len(L)) : \E a \in 1..Len(C) : pos[a] = j
    BY <2>2 DEF PlacedAt
  <2>6. \A a \in 1..Len(C) : pos[a] \in items(Len(L))
    BY <2>4
  <2> HIDE DEF items
  <2>7. CASE o < Len(C)
    <3> DEFINE a == o + 1
    <3>1. a \in 1..Len(C) /\ a - 1 = o
      BY <2>3, <2>7
    <3>2. hits = {pos[a]}
      <4>1. pos[a] \in hits
        BY <2>4, <2>6, <3>1
      <4>2. ASSUME NEW j \in hits PROVE j = pos[a]
        <5>1. PICK b \in 1..Len(C) : pos[b] = j
          BY <2>5
        <5>2. b - 1 = o
          BY <2>4, <5>1
        <5>3. b = a
          BY <3>1, <5>2
        <5> QED BY <5>1, <5>3
      <4> HIDE DEF hits
      <4> QED BY <4>1, <4>2
    <3> HIDE DEF hits, a
    <3>3. OutboundAt(v, groups) = pos[a] - 1
      BY <1>1, <3>2
    <3>4. i - 1 = OutboundAt(v, groups) <=> i = pos[a]
      BY <2>3, <2>4, <3>1, <3>3
    <3>5. i = pos[a] <=> L[i] = C[a]
      <4>1. i = pos[a] => L[i] = C[a]
        BY <2>4, <3>1
      <4>2. ASSUME L[i] = C[a] PROVE i = pos[a]
        <5>1. IsChoice(L[i])
          BY <2>4, <3>1, <4>2
        <5>2. PICK b \in 1..Len(C) : pos[b] = i
          BY <2>2, <2>3, <5>1 DEF PlacedAt
        <5>3. C[b] = C[a]
          BY <2>4, <4>2, <5>2
        <5>4. b = a
          BY <2>1, <3>1, <5>3 DEF Listed
        <5> QED BY <5>2, <5>4
      <4> QED BY <4>1, <4>2
    <3> QED BY <2>3, <2>7, <3>4, <3>5 DEF L, C, a
  <2>8. CASE ~ o < Len(C)
    <3>1. hits = {}
      <4> SUFFICES ASSUME NEW j \in hits PROVE FALSE
        OBVIOUS
      <4>1. PICK b \in 1..Len(C) : pos[b] = j
        BY <2>5
      <4>2. b - 1 = o
        BY <2>4, <4>1
      <4> QED BY <2>3, <2>8, <4>2
    <3> HIDE DEF hits
    <3>2. OutboundAt(v, groups) = -1
      BY <1>1, <3>1
    <3> QED BY <2>3, <2>8, <3>2 DEF L, C
  <2> QED BY <2>7, <2>8
<1> QED BY <1>2, <1>3

\* What a picture may show: any lists and cursors, and the groups its row of items
\* comes from.
Shows(pic) ==
    /\ pic.window.height \in Nat /\ pic.logs \in Nat
    /\ pic.view.profiles \in Nat /\ pic.view.cursor \in Nat
    /\ pic.view.outCursor \in Nat
    /\ pic.groups \in Seq(Nat) /\ pic.view.choices = Len(ChoiceList(pic.groups))

\* In each of its lists the cursor is on the line the keys act on.
LEMMA PicturesAim == ASSUME NEW pic, Shows(pic) PROVE Aimed(pic)
<1> DEFINE v == pic.view
           o == v.outCursor
           C == ChoiceList(pic.groups)
           T == Target(pic)
<1>1. ASSUME NEW i \in DOMAIN ProfileLines(v)
      PROVE  Focused(pic, "profiles") /\ i - 1 = ProfileAt(v) <=> ProfileLines(v)[i] \in T
  <2>1. /\ v.profiles \in Nat /\ v.cursor \in Nat /\ i \in Nat
        /\ ProfileLines(v)[i] = (IF v.profiles = 0 THEN <<"text", i, 0>> ELSE <<"profile", i, 0>>)
        /\ i >= 1 /\ (v.profiles # 0 => i <= v.profiles)
    BY DEF Shows, ProfileLines, Text, Profile
  <2>2. o < v.choices => IsChoice(C[o + 1])
    BY ItemsAreChoices DEF Shows
  <2>3. CASE Focused(pic, "profiles")
    <3>1. T = IF v.cursor < v.profiles THEN {<<"profile", v.cursor + 1, 0>>} ELSE {}
      BY <2>3 DEF Target, Profile, Focused
    <3> HIDE DEF T
    <3>2. CASE v.profiles = 0
      BY <2>1, <3>1, <3>2 DEF ProfileAt
    <3>3. CASE v.profiles # 0
      <4>1. i - 1 = ProfileAt(v) <=> i = v.cursor + 1
        BY <2>1, <3>3 DEF ProfileAt
      <4>2. ProfileLines(v)[i] \in T <=> v.cursor < v.profiles /\ i = v.cursor + 1
        BY <2>1, <3>1, <3>3
      <4>3. i = v.cursor + 1 => v.cursor < v.profiles
        BY <2>1, <3>3
      <4> QED BY <2>3, <4>1, <4>2, <4>3
    <3> QED BY <3>2, <3>3
  <2>4. CASE ~ Focused(pic, "profiles")
    <3>1. \A line \in T : line = C[o + 1] /\ o < v.choices
      BY <2>4 DEF Target
    <3>2. ~ IsChoice(ProfileLines(v)[i])
      BY <2>1 DEF IsChoice
    <3> QED BY <2>2, <2>4, <3>1, <3>2
  <2> QED BY <2>3, <2>4
<1>2. ASSUME NEW i \in DOMAIN OutboundLines(pic.groups)
      PROVE  Focused(pic, "outbounds") /\ i - 1 = OutboundAt(v, pic.groups)
                <=> OutboundLines(pic.groups)[i] \in T
  <2>1. /\ OutboundLines(pic.groups)[i] \in Line
        /\ i - 1 = OutboundAt(v, pic.groups)
              <=> o < v.choices /\ OutboundLines(pic.groups)[i] = C[o + 1]
    BY CursorOnItem DEF Shows
  <2>2. CASE Focused(pic, "outbounds")
    <3>1. T = IF o < v.choices THEN {C[o + 1]} ELSE {}
      BY <2>2 DEF Target, Focused
    <3> QED BY <2>1, <2>2, <3>1
  <2>3. CASE ~ Focused(pic, "outbounds")
    <3>1. \A line \in T : line = <<"profile", v.cursor + 1, 0>>
      BY <2>3 DEF Target, Profile
    <3>2. OutboundLines(pic.groups)[i] \notin T
      BY <2>1, <3>1 DEF Line
    <3> QED BY <2>3, <3>2
  <2> QED BY <2>2, <2>3
<1>3. ASSUME NEW i \in DOMAIN LogLines(pic.logs, pic.window.height)
      PROVE  Focused(pic, "logs") /\ i - 1 = -1
                <=> LogLines(pic.logs, pic.window.height)[i] \in T
  <2>1. /\ i \in Nat /\ i >= 1
        /\ LogLines(pic.logs, pic.window.height)[i][1] \in {"text", "log"}
    BY DEF Shows, LogLines, Text, Entry, AtLeast
  <2>2. o < v.choices => IsChoice(C[o + 1])
    BY ItemsAreChoices DEF Shows
  <2>3. \A line \in T : \/ line = C[o + 1] /\ o < v.choices
                        \/ line = <<"profile", v.cursor + 1, 0>>
    BY DEF Target, Profile
  <2>4. LogLines(pic.logs, pic.window.height)[i] \notin T
    BY <2>1, <2>2, <2>3 DEF IsChoice
  <2> QED BY <2>1, <2>4
<1> QED BY <1>1, <1>2, <1>3 DEF Aimed, Aims

(***************************************************************************)
(* The screen                                                              *)
(***************************************************************************)
\* Whatever the view, the window, the groups and the log, the picture fits and
\* points at what the keys act on.
LEMMA PicturesRight ==
    ASSUME NEW v, v.pane \in Titles, v.profiles \in Nat, v.cursor \in Nat,
           v.choices \in Nat, v.outCursor \in Nat, NEW pic \in Pictures(v)
    PROVE  Fits(pic) /\ Points(pic)
<1>1. /\ pic.view = v /\ pic.window \in [width : Nat, height : Nat]
      /\ pic.length \in Nat /\ pic.breaks \in Nat /\ pic.logs \in Nat /\ pic.groups \in Groupings(v)
  <2>1. /\ pic.view = v /\ pic.window \in Windows /\ pic.length \in Lengths
        /\ pic.breaks \in Breaks /\ pic.logs \in LogCounts /\ pic.groups \in Groupings(v)
    BY DEF Pictures
  <2>2. pic.logs \in 0..500
    BY <2>1, ScreenAssumption
  <2>3. pic.window \in [width : Nat, height : Nat]
    BY <2>1, ScreenAssumption
  <2>4. pic.length \in Nat /\ pic.breaks \in Nat
    BY <2>1, ScreenAssumption
  <2>5. pic.logs \in Nat
    BY <2>2
  <2> QED BY <2>1, <2>3, <2>4, <2>5
<1>2. pic.groups \in Seq(Nat) /\ v.choices = Len(ChoiceList(pic.groups))
  <2>1. PICK n \in 0..MaxGroups : pic.groups \in [1..n -> 0..v.choices]
    BY <1>1 DEF Groupings
  <2>2. pic.groups \in [1..n -> Nat] /\ n \in Nat
    BY <2>1, ScreenAssumption
  <2> QED BY <1>1, <2>2 DEF Groupings
<1>3. Sized(pic) /\ Shows(pic)
  BY <1>1, <1>2 DEF Sized, Shows
<1> QED BY <1>3, PicturesAim, PictureFits

\* No view has a picture that does not.
LEMMA ViewsRight == Misfits = {} /\ Misleading = {}
<1>1. ASSUME NEW pic \in AllPictures PROVE Fits(pic) /\ Points(pic)
  <2>1. PICK v \in Views : pic \in Pictures(v)
    BY DEF AllPictures
  <2>2. PICK n \in 0..(MaxStored + Cardinality(Ids)) : v \in ViewsWith(n)
    BY <2>1 DEF Views
  <2>3. v.pane \in Titles /\ v.outCursor \in Nat /\ v.choices \in Nat
    BY <2>2, BoundsAssumption DEF ViewsWith, Titles
  <2>4. v.profiles \in Nat /\ v.cursor \in Nat
    BY <2>2 DEF ViewsWith
  <2> QED BY <2>1, <2>3, <2>4, PicturesRight
<1> QED BY <1>1 DEF Misfits, Misleading

\* What is drawn is such a view.
LEMMA ScreenRight ==
    ASSUME TypeOK PROVE \A pic \in Pictures(View) : Fits(pic) /\ Points(pic)
<1>1. shown \in Seq(Ids \cup {NoId}) /\ Len(shown) \in Nat
  BY DEF TypeOK, Lists
<1>2. /\ View.pane \in Titles /\ View.profiles \in Nat /\ View.cursor \in Nat
      /\ View.choices \in Nat /\ View.outCursor \in Nat
  BY <1>1 DEF TypeOK, View, Titles
<1> QED BY <1>2, PicturesRight

\* In a window of at least 40x10 no row is wider than the window, and the rows are as
\* many as the window's if no line break is in what is shown, whatever the lists, the
\* cursors, the log and the lengths of the lines (render, renderGrid, renderStacked,
\* renderPane; dashboard.go:705-858).  Smaller windows are not claimed to hold the
\* screen, nor are lines with breaks: render draws 40x10 at least, and truncate keeps
\* the breaks (ExactWhateverItSays fails).
THEOREM EveryWindowFits == Spec => [](FitsWindow /\ \A pic \in Pictures(View) : Fits(pic))
<1>1. TypeOK => \A pic \in Pictures(View) : Fits(pic)
  BY ScreenRight
<1>2. FitsWindow
  BY ViewsRight DEF FitsWindow
<1> QED BY <1>1, <1>2, Typed, PTL

\* The highlighted line is the one the keys act on, and it is highlighted wherever it
\* is drawn, whatever number of groups, with any number of items or none, the core
\* reports (outboundLines, outboundChoices, renderPane; dashboard.go:705-745, 943-990).
THEOREM HighlightFollowsCursor ==
    Spec => [](HighlightIsTarget /\ \A pic \in Pictures(View) : Points(pic))
<1>1. TypeOK => \A pic \in Pictures(View) : Points(pic)
  BY ScreenRight
<1>2. HighlightIsTarget
  BY ViewsRight DEF HighlightIsTarget
<1> QED BY <1>1, <1>2, Typed, PTL
================================================================================
