--------------------------- MODULE StatusStreamProofs ---------------------------
(***************************************************************************)
(* What holds of WatchStatus for any set of states and any number of       *)
(* changes of the core.                                                    *)
(***************************************************************************)
EXTENDS StatusStream, SequenceTheorems, TLAPS

\* What the info goroutine reads of state is a state, or a mixture of two.
LEMMA ReadableSnapshots ==
    ASSUME TypeOK, pcState = "assign" => entry \in States
    PROVE  Readable \subseteq Snapshots
BY DEF Readable, Snapshots, TypeOK

\* A send that gives up on a full channel leaves at most one snapshot in it.
LEMMA SendBounded ==
    ASSUME TypeOK, NEW s \in Snapshots, TrySend(s)
    PROVE  out' \in Seq(Snapshots) /\ Len(out') <= 1
BY DEF TrySend, TypeOK

\* The types, with what each goroutine has in its hands, and what the
\* end of the channel means: only that goroutine closes it, and on its way out.
StreamInv ==
    /\ TypeOK
    /\ pcState \in {"assign", "emit"} => entry \in States
    /\ pcInfo = "emit" => snapshot \in Snapshots
    /\ closed => pcState = "ended"
    /\ pcState = "ended" => ~ stateUp
    /\ ended => closed

\* Before the first event the invariant holds.
LEMMA InitStream == Init => StreamInv
<1> SUFFICES ASSUME Init PROVE StreamInv
  OBVIOUS
<1>1. sent \in Seq(States) /\ out \in Seq(Snapshots) /\ Len(out) <= 1
  BY DEF Init
<1>2. changes \in 0 .. MaxChanges
  BY StatusAssumption DEF Init
<1>3. TypeOK
  BY <1>1, <1>2, StatusAssumption, Zenon DEF Init, TypeOK
<1> QED BY <1>3 DEF Init, StreamInv

\* Every step keeps it.
LEMMA StreamInductive == StreamInv /\ [Next]_vars => StreamInv'
<1> SUFFICES ASSUME StreamInv, [Next]_vars PROVE StreamInv'
  OBVIOUS
<1> USE StatusAssumption DEF StreamInv, TypeOK, core, ours, caller
<1>1. CASE UNCHANGED vars
  BY <1>1 DEF vars
<1>2. CASE CoreChanges
  BY <1>2 DEF CoreChanges
<1>3. CASE StateStreamEnds
  BY <1>3 DEF StateStreamEnds
<1>4. CASE InfoStreamEnds
  BY <1>4 DEF InfoStreamEnds
<1>5. CASE StateReceived
  BY <1>5 DEF StateReceived
<1>6. CASE StateAssigned
  BY <1>6 DEF StateAssigned
<1>7. CASE StateEmitted
  BY <1>7, SendBounded DEF StateEmitted, Snapshots
<1>8. CASE StateEnded
  BY <1>8 DEF StateEnded
<1>9. CASE InfoReceived
  BY <1>9, ReadableSnapshots DEF InfoReceived
<1>10. CASE InfoEmitted
  <2>1. CASE closed
    BY <1>10, <2>1 DEF InfoEmitted
  <2>2. CASE ~ closed
    BY <1>10, <2>2, SendBounded DEF InfoEmitted
  <2> QED BY <2>1, <2>2
<1>11. CASE InfoEnded
  BY <1>11 DEF InfoEnded
<1>12. CASE CallerReceives
  BY <1>12 DEF CallerReceives
<1>13. CASE CallerSeesEnd
  BY <1>13 DEF CallerSeesEnd
<1> QED BY <1>1, <1>2, <1>3, <1>4, <1>5, <1>6, <1>7, <1>8, <1>9, <1>10, <1>11, <1>12, <1>13
        DEF Next, StateGoroutine, InfoGoroutine, Caller

\* Every variable of the two goroutines and the channel keeps its type: the
\* channel never holds more than its capacity.
THEOREM Typed == Spec => []TypeOK
<1>1. StreamInv => TypeOK
  BY DEF StreamInv
<1> QED BY <1>1, InitStream, StreamInductive, PTL DEF Spec

\* The caller finds the channel closed only when the state stream has ended,
\* whatever the info stream does (grpc.go:121-137).
THEOREM EndIsReal == Spec => []NoFalseEnd
<1>1. StreamInv => NoFalseEnd
  BY DEF StreamInv, NoFalseEnd
<1> QED BY <1>1, InitStream, StreamInductive, PTL DEF Spec

(***************************************************************************)
(* Nothing the core reports gets lost before it reaches the variable state, *)
(* which is the safety half of Fresh: snapshots are dropped, entries not.  *)
(***************************************************************************)
\* What the state goroutine will have told the shared variable once it has
\* handled what is on its way.
LastReported ==
    CASE sent # <<>>                         -> sent[Len(sent)]
      [] sent = <<>> /\ pcState = "assign"   -> entry
      [] sent = <<>> /\ pcState # "assign"   -> state

NothingLost == stateUp => LastReported = engine

LostInv == StreamInv /\ NothingLost

\* An entry that is added is the last one.
LEMMA AddedIsLast ==
    \A s \in Seq(States) : \A x \in States :
        Append(s, x) # <<>> /\ Append(s, x)[Len(Append(s, x))] = x
<1> TAKE s \in Seq(States)
<1> TAKE x \in States
<1>1. Len(Append(s, x)) = Len(s) + 1 /\ Append(s, x)[Len(s) + 1] = x
  BY AppendProperties
<1> QED BY <1>1, AppendProperties

\* The entry that is taken is the last one, or the last one stays.
LEMMA TakenOrKept ==
    \A s \in Seq(States) : s # <<>> =>
        /\ Tail(s) = <<>>  => Head(s) = s[Len(s)]
        /\ Tail(s) # <<>> => Tail(s)[Len(Tail(s))] = s[Len(s)]
<1> TAKE s \in Seq(States)
<1> HAVE s # <<>>
<1>1. Len(Tail(s)) = Len(s) - 1 /\ Tail(s) \in Seq(States)
  BY HeadTailProperties
<1>2. \A i \in 1 .. Len(Tail(s)) : Tail(s)[i] = s[i + 1]
  BY HeadTailProperties
<1>3. Len(s) \in Nat /\ Len(s) # 0
  BY EmptySeq
<1>4. Tail(s) = <<>> => Head(s) = s[Len(s)]
  <2> SUFFICES ASSUME Tail(s) = <<>> PROVE Head(s) = s[Len(s)]
    OBVIOUS
  <2>1. Len(s) = 1
    BY <1>1, <1>3, EmptySeq
  <2>2. Head(s) = s[1]
    OBVIOUS
  <2> QED BY <2>1, <2>2
<1>5. Tail(s) # <<>> => Tail(s)[Len(Tail(s))] = s[Len(s)]
  BY <1>1, <1>2, <1>3, EmptySeq
<1> QED BY <1>4, <1>5

\* The first entry is the state the core is in.
LEMMA InitLost == Init => LostInv
BY InitStream DEF Init, LostInv, NothingLost, LastReported

\* No step loses the last entry.
LEMMA LostInductive == LostInv /\ [Next]_vars => LostInv'
<1> SUFFICES ASSUME LostInv, [Next]_vars PROVE NothingLost'
  BY StreamInductive DEF LostInv
<1> USE DEF LostInv, NothingLost, LastReported, core, ours, caller
<1>0. sent \in Seq(States) /\ engine' \in States
  BY StreamInductive DEF StreamInv, TypeOK
<1>1. CASE UNCHANGED vars
  BY <1>1 DEF vars
<1>2. CASE CoreChanges
  <2>1. CASE stateUp
    <3>1. sent' # <<>> /\ sent'[Len(sent')] = engine'
      BY <1>2, <2>1, <1>0, AddedIsLast DEF CoreChanges
    <3> QED BY <3>1
  <2>2. CASE ~ stateUp
    BY <1>2, <2>2 DEF CoreChanges
  <2> QED BY <2>1, <2>2
<1>3. CASE StateStreamEnds
  BY <1>3 DEF StateStreamEnds
<1>4. CASE InfoStreamEnds
  BY <1>4 DEF InfoStreamEnds
<1>5. CASE StateReceived
  BY <1>5, <1>0, TakenOrKept DEF StateReceived
<1>6. CASE StateAssigned
  BY <1>6 DEF StateAssigned
<1>7. CASE StateEmitted
  BY <1>7 DEF StateEmitted
<1>8. CASE StateEnded
  BY <1>8 DEF StateEnded
<1>9. CASE InfoReceived
  BY <1>9 DEF InfoReceived
<1>10. CASE InfoEmitted
  BY <1>10 DEF InfoEmitted
<1>11. CASE InfoEnded
  BY <1>11 DEF InfoEnded
<1>12. CASE CallerReceives
  BY <1>12 DEF CallerReceives
<1>13. CASE CallerSeesEnd
  BY <1>13 DEF CallerSeesEnd
<1> QED BY <1>1, <1>2, <1>3, <1>4, <1>5, <1>6, <1>7, <1>8, <1>9, <1>10, <1>11, <1>12, <1>13
        DEF Next, StateGoroutine, InfoGoroutine, Caller

\* While the state stream is open and its goroutine has handled all of it, the
\* next snapshot either goroutine assembles shows the state the core is in, in
\* one piece, however many snapshots have been dropped (grpc.go:105-139).
THEOREM NoStateIsLost ==
    Spec => [](/\ NothingLost
               /\ stateUp /\ sent = <<>> /\ pcState # "assign" => Readable = {engine})
<1>1. LostInv => NothingLost
  BY DEF LostInv
<1>2. NothingLost => (stateUp /\ sent = <<>> /\ pcState # "assign" => Readable = {engine})
  BY DEF NothingLost, LastReported, Readable
<1> QED BY <1>1, <1>2, InitLost, LostInductive, PTL DEF Spec
=================================================================================
