---------------------------- MODULE OperationsProofs ----------------------------
(***************************************************************************)
(* What a result of a call means, for any number of clients.  OkMeansDone  *)
(* needs a core that refuses with an error: an answer in the state         *)
(* "stopped" is a success to operationError, whatever its message says.    *)
(***************************************************************************)
EXTENDS Operations, TLAPS

\* The messages the answers to each request have.
Types(request) ==
    CASE request = "start"             -> {"pending", "failed", "empty", "problem", "alreadyStarted"}
      [] request = "restart"           -> {"pending", "failed", "empty", "problem"}
      [] request = "stop"              -> {"pending", "failed", "empty", "alreadyStopped"}
      [] request \in {"info", "listen"} -> {"pending", "failed", "empty"}
      [] request = "order"             -> {"pending", "failed", "ok", "refused", "problem"}
      [] OTHER                         -> {"pending"}

\* The calls that make each request.
Callers(request) ==
    CASE request = "start"             -> {"connect"}
      [] request = "restart"           -> {"connect", "restart"}
      [] request = "stop"              -> {"disconnect"}
      [] request \in {"info", "listen"} -> {"snapshot"}
      [] request = "order"             -> Orders
      [] OTHER                         -> Ops \cup {"none"}

\* What an answer says of the core and of the request.
AnswerInv(c) ==
    /\ answer[c].type \in Types(pc[c])
    /\ answer[c].type = "pending" => answer[c] = NoAnswer
    /\ answer[c].type = "failed"  => answer[c] = Failed
    /\ answer[c].type \in {"problem", "refused", "failed"} => lost[c]
    /\ answer[c].type \in {"empty", "ok", "alreadyStopped"} => did[c]
    /\ answer[c].type = "refused" => op[c] # "settings"
    /\ answer[c].type = "empty" /\ pc[c] = "listen" => answer[c].state \in during[c]

\* What the point a call has reached says of it.
CallInv(c) ==
    /\ op[c] \in Callers(pc[c])
    /\ pc[c] # "idle" => engine \in during[c]
    /\ pc[c] = "listen" => did[c]
    /\ pc[c] = "ok" /\ op[c] = "snapshot" => got[c] \in during[c] \cup {"stopped"}
    /\ pc[c] = "err" => lost[c]

\* What is left of a refusal when it is an error.
ErrorsOnly(c) ==
    Refusals \subseteq {"error"} =>
        /\ answer[c].type = "problem" => pc[c] = "start" /\ answer[c].state = "stopping"
        /\ pc[c] = "ok" => did[c]

ClientInv(c) == AnswerInv(c) /\ CallInv(c) /\ ErrorsOnly(c)

OperationsInv == TypeOK /\ \A c \in Clients : ClientInv(c)

\* A client that a step leaves alone keeps its invariant while the core goes on.
LEMMA Frame ==
    ASSUME TypeOK, NEW c \in Clients, ClientInv(c),
           op'[c] = op[c], pc'[c] = pc[c], answer'[c] = answer[c], got'[c] = got[c],
           did'[c] = did[c], lost'[c] = lost[c],
           during[c] \subseteq during'[c],
           pc[c] # "idle" => engine' \in during'[c]
    PROVE  ClientInv(c)'
<1>1. Types(pc[c])' = Types(pc[c]) /\ Callers(pc[c])' = Callers(pc[c])
  BY DEF Types, Callers
<1>2. AnswerInv(c)'
  BY <1>1 DEF ClientInv, AnswerInv, NoAnswer, Failed, Answer
<1>3. CallInv(c)'
  BY <1>1 DEF ClientInv, CallInv
<1>4. ErrorsOnly(c)'
  BY DEF ClientInv, ErrorsOnly
<1> QED BY <1>2, <1>3, <1>4 DEF ClientInv

\* The invariant holds before the first call.
LEMMA InitOperations == Init => OperationsInv
<1> SUFFICES ASSUME Init PROVE OperationsInv
  OBVIOUS
<1>1. TypeOK
  BY DEF Init, TypeOK, States, Answers, Answer, NoAnswer
<1>2. ASSUME NEW c \in Clients PROVE ClientInv(c)
  BY DEF Init, ClientInv, AnswerInv, CallInv, ErrorsOnly, Types, Callers, NoAnswer, Answer
<1> QED BY <1>1, <1>2 DEF OperationsInv

\* The answers are answers.
LEMMA AnswersTyped ==
    /\ Failed \in Answers /\ NoAnswer \in Answers
    /\ \A s \in States, t \in Infos : Answer(s, t) \in Answers
    /\ Answer("none", "ok") \in Answers /\ Answer("none", "refused") \in Answers
BY DEF Answers, Answer, Failed, NoAnswer, Infos, States

\* A core that starts the document of c, or refuses c, leaves the types right.
LEMMA LoadsTyped ==
    ASSUME TypeOK, NEW c \in Clients, Loads(c), UNCHANGED <<op, pc, got>>
    PROVE  TypeOK'
<1> PICK s \in {"starting", "started"} :
            Enters(s, c) /\ Does(c) /\ Answered(c, Answer(s, "empty"))
  BY DEF Loads
<1>1. answer' \in [Clients -> Answers]
  BY AnswersTyped DEF TypeOK, Answered, States, Infos
<1>2. engine' \in States /\ loaded' \in Clients /\ during' \in [Clients -> SUBSET States]
  BY DEF TypeOK, Enters, States
<1>3. did' \in [Clients -> BOOLEAN] /\ lost' \in [Clients -> BOOLEAN]
  BY DEF TypeOK, Does
<1> QED BY <1>1, <1>2, <1>3 DEF TypeOK

\* A refusal is an answer.
LEMMA RefusesTyped ==
    ASSUME TypeOK, NEW c \in Clients, NEW s \in States, Refuses(c, s)
    PROVE  /\ answer' \in [Clients -> Answers]
           /\ did' \in [Clients -> BOOLEAN] /\ lost' \in [Clients -> BOOLEAN]
BY AnswersTyped DEF TypeOK, Refuses, Answered, Infos

\* A call that reads its answer leaves the types right.
LEMMA ReadsTyped ==
    ASSUME TypeOK, NEW c \in Clients,
           NEW next \in {"restart", "listen", "ok", "err"}, Reads(c, next),
           got' \in [Clients -> States]
    PROVE  TypeOK'
<1>1. answer' \in [Clients -> Answers]
  BY AnswersTyped DEF TypeOK, Reads, Answered
<1> QED BY <1>1 DEF TypeOK, Reads

\* Every step keeps the types.
LEMMA TypesKept == OperationsInv /\ [Next]_vars => TypeOK'
<1> SUFFICES ASSUME OperationsInv, [Next]_vars PROVE TypeOK'
  OBVIOUS
<1>0. TypeOK
  BY DEF OperationsInv
<1>1. CASE UNCHANGED vars
  BY <1>0, <1>1 DEF TypeOK, vars, callVars
<1>2. ASSUME NEW c \in Clients, ServesStart(c) PROVE TypeOK'
  <2>1. CASE Loads(c)
    BY <1>0, <1>2, <2>1, LoadsTyped DEF ServesStart
  <2>2. CASE Refuses(c, engine) /\ UNCHANGED <<engine, loaded, during>>
    BY <1>0, <1>2, <2>2, RefusesTyped DEF ServesStart, TypeOK
  <2>3. CASE /\ engine \in {"starting", "started"}
             /\ Answered(c, Answer(engine, "alreadyStarted"))
             /\ UNCHANGED <<engine, loaded, during, did, lost>>
    BY <1>0, <1>2, <2>3, AnswersTyped DEF ServesStart, TypeOK, Answered, Infos
  <2>4. CASE /\ Answered(c, Answer(engine, "problem"))
             /\ lost' = [lost EXCEPT ![c] = TRUE]
             /\ UNCHANGED <<engine, loaded, during, did>>
    BY <1>0, <1>2, <2>4, AnswersTyped DEF ServesStart, TypeOK, Answered, Infos
  <2> QED BY <1>0, <1>2, <2>1, <2>2, <2>3, <2>4 DEF ServesStart
<1>3. ASSUME NEW c \in Clients, ServesRestart(c) PROVE TypeOK'
  <2>1. CASE Loads(c)
    BY <1>0, <1>3, <2>1, LoadsTyped DEF ServesRestart
  <2>2. CASE Refuses(c, "stopped") /\ Enters("stopped", Nobody)
    BY <1>0, <1>3, <2>2, RefusesTyped DEF ServesRestart, TypeOK, Enters, States
  <2> QED BY <1>0, <1>3, <2>1, <2>2 DEF ServesRestart
<1>4. ASSUME NEW c \in Clients, ServesStop(c) PROVE TypeOK'
  BY <1>0, <1>4 DEF TypeOK, States, Answers, Infos, Answer, Answered, Enters, Does, ServesStop, Asked
<1>5. ASSUME NEW c \in Clients, ServesInfo(c) PROVE TypeOK'
  BY <1>0, <1>5, AnswersTyped DEF TypeOK, Answered, Infos, Does, ServesInfo
<1>6. ASSUME NEW c \in Clients, ServesOrder(c) PROVE TypeOK'
  <2>1. CASE Does(c) /\ Answered(c, Answer("none", "ok"))
    BY <1>0, <1>6, <2>1, AnswersTyped DEF ServesOrder, TypeOK, Answered, Does
  <2>2. CASE /\ Answered(c, Answer("none", "refused"))
             /\ lost' = [lost EXCEPT ![c] = TRUE] /\ UNCHANGED did
    BY <1>0, <1>6, <2>2, AnswersTyped DEF ServesOrder, TypeOK, Answered
  <2>3. CASE Refuses(c, engine)
    BY <1>0, <1>6, <2>3, RefusesTyped DEF ServesOrder, TypeOK
  <2> QED BY <1>0, <1>6, <2>1, <2>2, <2>3 DEF ServesOrder
<1>7. ASSUME NEW c \in Clients, RequestFails(c) PROVE TypeOK'
  BY <1>0, <1>7, AnswersTyped DEF TypeOK, Answered, RequestFails
<1>8. ASSUME NEW c \in Clients, Returns(c) PROVE TypeOK'
  <2>1. CASE StartAnswered(c) \/ FinalAnswered(c) \/ InfoAnswered(c) \/ OrderAnswered(c)
    <3>1. got' \in [Clients -> States]
      BY <1>0, <2>1 DEF StartAnswered, FinalAnswered, InfoAnswered, OrderAnswered, TypeOK
    <3>2. PICK next \in {"restart", "listen", "ok", "err"} : Reads(c, next)
      BY <2>1 DEF StartAnswered, FinalAnswered, InfoAnswered, OrderAnswered, Result
    <3> QED BY <1>0, <3>1, <3>2, ReadsTyped
  <2>2. CASE ListenAnswered(c)
    <3>1. got' \in [Clients -> States]
      BY <1>0, <2>2 DEF ListenAnswered, StateFromCore, TypeOK, States
    <3> QED BY <1>0, <2>2, <3>1, ReadsTyped DEF ListenAnswered
  <2> QED BY <1>0, <1>8, <2>1, <2>2 DEF Returns
<1>9. ASSUME NEW c \in Clients, Done(c) PROVE TypeOK'
  BY <1>0, <1>9 DEF TypeOK, States, Done
<1>10. ASSUME NEW c \in Clients, NEW o \in Ops, Call(c, o) PROVE TypeOK'
  BY <1>0, <1>10 DEF TypeOK, Call, FirstRequest
<1>11. CASE EngineSettles
  BY <1>0, <1>11 DEF TypeOK, States, Enters, EngineSettles
<1> QED BY <1>1, <1>2, <1>3, <1>4, <1>5, <1>6, <1>7, <1>8, <1>9, <1>10, <1>11
        DEF Next, Serves

\* What the core does for one client, or by itself, keeps the invariant of each.
LEMMA ServesKeeps ==
    ASSUME OperationsInv, NEW c \in Clients, Serves(c), NEW d \in Clients
    PROVE  ClientInv(d)'
<1>1. TypeOK /\ ClientInv(c) /\ ClientInv(d)
  BY DEF OperationsInv
<1>2. CASE d # c
  <2>1. /\ op'[d] = op[d] /\ pc'[d] = pc[d] /\ answer'[d] = answer[d] /\ got'[d] = got[d]
        /\ did'[d] = did[d] /\ lost'[d] = lost[d]
        /\ \/ engine' = engine /\ during'[d] = during[d]
           \/ during'[d] = during[d] \cup {engine'}
    BY <1>1, <1>2 DEF TypeOK, Serves, ServesStart, ServesRestart, ServesStop, ServesInfo,
          ServesOrder, RequestFails, Loads, Refuses, Answered, Enters, Does
  <2>2. pc[d] # "idle" => engine' \in during'[d]
    BY <1>1, <2>1 DEF ClientInv, CallInv
  <2> QED BY <1>1, <2>1, <2>2, Frame
<1>3. CASE d = c
  <2> USE <1>1 DEF TypeOK, ClientInv, AnswerInv, CallInv, ErrorsOnly, Types, Callers
  <2>1. CASE ServesStart(c)
    BY <1>3, <2>1 DEF ServesStart, Asked, Loads, Refuses, Answered, Enters, Does, Answer, Failed
  <2>2. CASE ServesRestart(c)
    BY <1>3, <2>2 DEF ServesRestart, Asked, Loads, Refuses, Answered, Enters, Does, Answer, Failed
  <2>3. CASE ServesStop(c)
    BY <1>3, <2>3 DEF ServesStop, Asked, Answered, Enters, Does, Answer
  <2>4. CASE ServesInfo(c)
    BY <1>3, <2>4 DEF ServesInfo, Asked, Answered, Does, Answer
  <2>5. CASE ServesOrder(c)
    BY <1>3, <2>5 DEF ServesOrder, Asked, Refuses, Answered, Does, Answer, Failed
  <2>6. CASE RequestFails(c)
    BY <1>3, <2>6 DEF RequestFails, Answered, Answer, Failed
  <2> QED BY <2>1, <2>2, <2>3, <2>4, <2>5, <2>6 DEF Serves
<1> QED BY <1>2, <1>3

\* The core that settles touches no call.
LEMMA SettlesKeeps ==
    ASSUME OperationsInv, EngineSettles, NEW d \in Clients
    PROVE  ClientInv(d)'
<1>1. during'[d] = during[d] \cup {engine'} /\ TypeOK /\ ClientInv(d)
  BY DEF OperationsInv, EngineSettles, Enters, TypeOK
<1> QED BY <1>1, Frame DEF EngineSettles

\* A client that reads an answer, makes a call or is done with one keeps its own
\* invariant and touches no other client.
LEMMA ClientKeeps ==
    ASSUME OperationsInv, NEW c \in Clients, NEW d \in Clients,
           Returns(c) \/ Done(c) \/ \E o \in Ops : Call(c, o)
    PROVE  ClientInv(d)'
<1>1. TypeOK /\ ClientInv(c) /\ ClientInv(d)
  BY DEF OperationsInv
<1>2. CASE d # c
  <2>1. /\ op'[d] = op[d] /\ pc'[d] = pc[d] /\ answer'[d] = answer[d] /\ got'[d] = got[d]
        /\ did'[d] = did[d] /\ lost'[d] = lost[d]
        /\ engine' = engine /\ during'[d] = during[d]
    BY <1>1, <1>2 DEF TypeOK, Returns, StartAnswered, FinalAnswered, InfoAnswered,
          ListenAnswered, OrderAnswered, Reads, Answered, Done, Call
  <2> QED BY <1>1, <2>1, Frame DEF ClientInv, CallInv
<1>3. CASE d = c
  <2> USE <1>1 DEF TypeOK, ClientInv, AnswerInv, CallInv, ErrorsOnly, Types, Callers
  <2>1. CASE StartAnswered(c)
    BY <1>3, <2>1 DEF StartAnswered, Reads, Answered, Answer, Failed, NoAnswer, Accepted, Result
  <2>2. CASE FinalAnswered(c)
    BY <1>3, <2>2 DEF FinalAnswered, Reads, Answered, Answer, Failed, NoAnswer, Accepted, Result
  <2>3. CASE InfoAnswered(c)
    BY <1>3, <2>3 DEF InfoAnswered, Reads, Answered, Answer, Failed, NoAnswer
  <2>4. CASE ListenAnswered(c)
    BY <1>3, <2>4 DEF ListenAnswered, StateFromCore, Reads, Answered, Answer, Failed, NoAnswer
  <2>5. CASE OrderAnswered(c)
    BY <1>3, <2>5 DEF OrderAnswered, Reads, Answered, Answer, Failed, NoAnswer, Result, Orders
  <2>6. CASE Done(c)
    BY <1>3, <2>6 DEF Done, NoAnswer, Answer, Ops
  <2>7. CASE \E o \in Ops : Call(c, o)
    BY <1>3, <2>7 DEF Call, FirstRequest, Ops, Orders, NoAnswer, Answer
  <2> QED BY <2>1, <2>2, <2>3, <2>4, <2>5, <2>6, <2>7 DEF Returns
<1> QED BY <1>2, <1>3

\* The invariant is inductive.
LEMMA OperationsInductive == OperationsInv /\ [Next]_vars => OperationsInv'
<1> SUFFICES ASSUME OperationsInv, [Next]_vars PROVE OperationsInv'
  OBVIOUS
<1>1. TypeOK'
  BY TypesKept
<1>2. ASSUME NEW d \in Clients PROVE ClientInv(d)'
  <2>1. CASE UNCHANGED vars
    <3>1. TypeOK /\ ClientInv(d)
      BY DEF OperationsInv
    <3> QED BY <2>1, <3>1, Frame DEF vars, callVars, ClientInv, CallInv
  <2> QED BY <2>1, ServesKeeps, SettlesKeeps, ClientKeeps DEF Next
<1> QED BY <1>1, <1>2 DEF OperationsInv

\* So the invariant always holds.
LEMMA OperationsAlways == Spec => []OperationsInv
BY InitOperations, OperationsInductive, PTL DEF Spec

\* The types, for any clients and however the core refuses.
THEOREM Typed == Spec => []TypeOK
<1>1. OperationsInv => TypeOK
  BY DEF OperationsInv
<1> QED BY <1>1, OperationsAlways, PTL

\* A call that returns an error has had a request fail or refused (grpc.go:226),
\* for any clients and however the core refuses.
THEOREM ErrorsAreReal == Spec => []ErrorIsReal
<1>1. OperationsInv => ErrorIsReal
  BY DEF OperationsInv, ClientInv, CallInv, ErrorIsReal
<1> QED BY <1>1, OperationsAlways, PTL

\* A core that refuses with errors has done what a call without one asked for
\* (Connect, grpc.go:44), for any clients.
THEOREM OkIsDone == ASSUME Refusals \subseteq {"error"} PROVE Spec => []OkMeansDone
<1>1. OperationsInv => OkMeansDone
  BY DEF OperationsInv, ClientInv, CallInv, ErrorsOnly, OkMeansDone
<1> QED BY <1>1, OperationsAlways, PTL
=================================================================================
