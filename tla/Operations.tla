------------------------------- MODULE Operations -------------------------------
(***************************************************************************)
(* The unary calls of GRPCClient, internal/client/grpc.go, on a core that  *)
(* several clients - the TUI, a command, the GUI - control at once: which  *)
(* requests a call makes, and which answers it takes for success.          *)
(*                                                                         *)
(* A request reaches the core, is answered, and the answer is read, each a *)
(* step: between two of them the core may change, and the other clients    *)
(* may have it change.  Whether a document is worth starting is the core's *)
(* to say.                                                                 *)
(***************************************************************************)
CONSTANTS
    Clients,
    Nobody,  \* the core has no document
    Refusals \* how a core refuses what it was asked: with "error", a status of
             \* gRPC, or with "answer", a message that says so

ASSUME ClientsAssumption == Nobody \notin Clients
ASSUME RefusalsAssumption == Refusals \subseteq {"error", "answer"}

VARIABLES
    engine,  \* connection state of the core
    loaded,  \* whose document it runs, or is about to run
    op,      \* op[c]:     the call the client is in
    pc,      \* pc[c]:     the request it has made, or how the call has ended
    answer,  \* answer[c]: the answer to that request
    got,     \* got[c]:    the state in its Snapshot
    did,     \* did[c]:    the core has done what the call asks for
    during,  \* during[c]: the states the core has been in since the call began
    lost     \* lost[c]:   a request has failed, or was refused

callVars == <<op, pc, answer, got, did, during, lost>>
vars == <<engine, loaded, callVars>>

States  == {"stopped", "starting", "started", "stopping"}
Orders  == {"select", "test", "parse", "settings"}
Ops     == {"connect", "restart", "disconnect", "snapshot"} \cup Orders

\* An answer: a CoreInfoResponse with its state and the type of its message, a
\* response code, or an error of gRPC.
Infos   == {"empty", "alreadyStarted", "alreadyStopped", "problem"}
Answers == [state : States \cup {"none"}, type : Infos \cup {"ok", "refused", "failed", "pending"}]
Answer(s, t) == [state |-> s, type |-> t]
Failed       == Answer("none", "failed")
NoAnswer     == Answer("none", "pending")

TypeOK ==
    /\ engine \in States /\ loaded \in Clients \cup {Nobody}
    /\ op     \in [Clients -> Ops \cup {"none"}]
    /\ pc     \in [Clients -> {"idle", "start", "restart", "stop", "info", "listen", "order",
                               "ok", "err"}]
    /\ answer \in [Clients -> Answers]
    /\ got    \in [Clients -> States]
    /\ did    \in [Clients -> BOOLEAN]
    /\ during \in [Clients -> SUBSET States]
    /\ lost   \in [Clients -> BOOLEAN]

Init ==
    /\ engine = "stopped" /\ loaded = Nobody
    /\ op     = [c \in Clients |-> "none"]
    /\ pc     = [c \in Clients |-> "idle"]
    /\ answer = [c \in Clients |-> NoAnswer]
    /\ got    = [c \in Clients |-> "stopped"]
    /\ did    = [c \in Clients |-> FALSE]
    /\ during = [c \in Clients |-> {}]
    /\ lost   = [c \in Clients |-> FALSE]

(***************************************************************************)
(* The core                                                                *)
(***************************************************************************)
Asked(c, request) == pc[c] = request /\ answer[c] = NoAnswer

Answered(c, a) == answer' = [answer EXCEPT ![c] = a]

\* The core is in state s from now on, and runs the document of o.
Enters(s, o) ==
    /\ engine' = s /\ loaded' = o
    /\ during' = [c \in Clients |-> during[c] \cup {s}]

Does(c) == did' = [did EXCEPT ![c] = TRUE] /\ UNCHANGED lost

\* It refuses, and is in state s.
Refuses(c, s) ==
    /\ lost' = [lost EXCEPT ![c] = TRUE] /\ UNCHANGED did
    /\ \/ "error"  \in Refusals /\ Answered(c, Failed)
       \/ "answer" \in Refusals /\ Answered(c, Answer(s, "problem"))

\* The core starts the document of c, and answers before or after it has.
Loads(c) ==
    \E s \in {"starting", "started"} :
        Enters(s, c) /\ Does(c) /\ Answered(c, Answer(s, "empty"))

ServesStart(c) ==
    /\ Asked(c, "start")
    /\ \/ engine = "stopped" /\ Loads(c)
       \/ engine = "stopped" /\ Refuses(c, engine) /\ UNCHANGED <<engine, loaded, during>>
       \/ engine \in {"starting", "started"}
          /\ Answered(c, Answer(engine, "alreadyStarted"))
          /\ UNCHANGED <<engine, loaded, during, did, lost>>
       \/ engine = "stopping"
          /\ Answered(c, Answer(engine, "problem"))
          /\ lost' = [lost EXCEPT ![c] = TRUE]
          /\ UNCHANGED <<engine, loaded, during, did>>
    /\ UNCHANGED <<op, pc, got>>

\* A restart that fails has stopped what was running; one of a core that is not
\* running may be refused.
ServesRestart(c) ==
    /\ Asked(c, "restart")
    /\ \/ Loads(c)
       \/ Refuses(c, "stopped") /\ Enters("stopped", Nobody)
    /\ UNCHANGED <<op, pc, got>>

ServesStop(c) ==
    /\ Asked(c, "stop")
    /\ Does(c)
    /\ \/ engine \in {"starting", "started"}
          /\ \E s \in {"stopping", "stopped"} :
                Enters(s, Nobody) /\ Answered(c, Answer(s, "empty"))
       \/ engine \in {"stopping", "stopped"}
          /\ Answered(c, Answer(engine, "alreadyStopped"))
          /\ UNCHANGED <<engine, loaded, during>>
    /\ UNCHANGED <<op, pc, got>>

\* GetSystemInfo, and the first message of CoreInfoListener.
ServesInfo(c) ==
    /\ Asked(c, "info") \/ Asked(c, "listen")
    /\ Answered(c, Answer(engine, "empty"))
    /\ Does(c)
    /\ UNCHANGED <<engine, loaded, op, pc, got, during>>

\* A setting is refused as a start is; the other answers have a code for it.
ServesOrder(c) ==
    /\ Asked(c, "order")
    /\ \/ Does(c) /\ Answered(c, Answer("none", "ok"))
       \/ op[c] # "settings"
          /\ Answered(c, Answer("none", "refused"))
          /\ lost' = [lost EXCEPT ![c] = TRUE] /\ UNCHANGED did
       \/ op[c] = "settings" /\ Refuses(c, engine)
    /\ UNCHANGED <<engine, loaded, op, pc, got, during>>

\* The connection breaks, or the deadline of the call passes, before the answer
\* is there; the request may have been served or not.
RequestFails(c) ==
    /\ pc[c] \notin {"idle", "ok", "err"} /\ answer[c] # Failed
    /\ Answered(c, Failed)
    /\ lost' = [lost EXCEPT ![c] = TRUE]
    /\ UNCHANGED <<engine, loaded, op, pc, got, did, during>>

EngineSettles ==
    /\ \/ engine = "starting" /\ Enters("started", loaded)
       \/ engine = "starting" /\ Enters("stopped", Nobody)
       \/ engine = "stopping" /\ Enters("stopped", Nobody)
    /\ UNCHANGED <<op, pc, answer, got, did, lost>>

(***************************************************************************)
(* The calls                                                               *)
(***************************************************************************)
FirstRequest(o) == CASE o = "connect"    -> "start"
                     [] o = "restart"    -> "restart"
                     [] o = "disconnect" -> "stop"
                     [] o = "snapshot"   -> "info"
                     [] OTHER            -> "order"

Call(c, o) ==
    /\ pc[c] = "idle"
    /\ op'     = [op EXCEPT ![c] = o]
    /\ pc'     = [pc EXCEPT ![c] = FirstRequest(o)]
    /\ during' = [during EXCEPT ![c] = {engine}]
    /\ UNCHANGED <<engine, loaded, answer, got, did, lost>>

\* What a call does with an answer: return, or make its next request.
Reads(c, next) ==
    /\ pc' = [pc EXCEPT ![c] = next]
    /\ Answered(c, NoAnswer)
    /\ UNCHANGED <<engine, loaded, op, did, during, lost>>

Result(ok) == IF ok THEN "ok" ELSE "err"

\* (For a mutant of Accepted: the states decide, the message says nothing.)
AcceptedState(a) == a.state \in {"started", "stopped"}

\* operationError: the final states are success, whatever was asked for, and so are
\* the messages that only inform.
Accepted(a) ==
    \/ a.state \in {"started", "stopped"}
    \/ a.type \in {"alreadyStarted", "alreadyStopped", "empty"}

\* (For a mutant of StartAnswered: ALREADY_STARTED is as good as started.)
StartAnsweredOnce(c) ==
    /\ pc[c] = "start" /\ answer[c] # NoAnswer
    /\ Reads(c, Result(answer[c] # Failed /\ Accepted(answer[c])))
    /\ UNCHANGED got

\* Connect: a core that is started already is restarted with this document.
StartAnswered(c) ==
    /\ pc[c] = "start" /\ answer[c] # NoAnswer
    /\ IF answer[c] # Failed /\ answer[c].type = "alreadyStarted"
          THEN Reads(c, "restart")
          ELSE Reads(c, Result(answer[c] # Failed /\ Accepted(answer[c])))
    /\ UNCHANGED got

\* Connect, Restart and Disconnect at their last request.
FinalAnswered(c) ==
    /\ pc[c] \in {"restart", "stop"} /\ answer[c] # NoAnswer
    /\ Reads(c, Result(answer[c] # Failed /\ Accepted(answer[c])))
    /\ UNCHANGED got

\* Snapshot needs the system info; a state stream that cannot be read counts as stopped.
InfoAnswered(c) ==
    /\ pc[c] = "info" /\ answer[c] # NoAnswer
    /\ Reads(c, IF answer[c] = Failed THEN "err" ELSE "listen")
    /\ UNCHANGED got

\* stateFromCore: a state it does not know, or none at all, is stopped.
StateFromCore(a) ==
    IF a.state \in {"starting", "started", "stopping"} THEN a.state ELSE "stopped"

ListenAnswered(c) ==
    /\ pc[c] = "listen" /\ answer[c] # NoAnswer
    /\ got' = [got EXCEPT ![c] = StateFromCore(answer[c])]
    /\ Reads(c, "ok")

\* SelectOutbound, TestOutbound and Parse look at the code, ChangeSettings at no answer.
OrderAnswered(c) ==
    /\ pc[c] = "order" /\ answer[c] # NoAnswer
    /\ Reads(c, Result(answer[c] # Failed /\ (op[c] = "settings" \/ answer[c].type = "ok")))
    /\ UNCHANGED got

\* The caller has its result.
Done(c) ==
    /\ pc[c] \in {"ok", "err"}
    /\ op'     = [op EXCEPT ![c] = "none"]
    /\ pc'     = [pc EXCEPT ![c] = "idle"]
    /\ got'    = [got EXCEPT ![c] = "stopped"]
    /\ did'    = [did EXCEPT ![c] = FALSE]
    /\ during' = [during EXCEPT ![c] = {}]
    /\ lost'   = [lost EXCEPT ![c] = FALSE]
    /\ UNCHANGED <<engine, loaded, answer>>

Serves(c) ==
    \/ ServesStart(c) \/ ServesRestart(c) \/ ServesStop(c) \/ ServesInfo(c) \/ ServesOrder(c)
    \/ RequestFails(c)

Returns(c) ==
    \/ StartAnswered(c) \/ FinalAnswered(c) \/ InfoAnswered(c) \/ ListenAnswered(c)
    \/ OrderAnswered(c)

Next ==
    \/ \E c \in Clients : Serves(c) \/ Returns(c) \/ Done(c) \/ \E o \in Ops : Call(c, o)
    \/ EngineSettles

Spec == Init /\ [][Next]_vars

(***************************************************************************)
(* Properties                                                              *)
(***************************************************************************)
\* A call that returns no error has had its effect, whatever other clients did in
\* the meantime: Connect "replace[s] that already-running config with the requested
\* profile" (grpc.go:44-46), a disconnected core has been told to stop, a Snapshot
\* shows a state the core was in during the call, or stopped.
OkMeansDone ==
    \A c \in Clients : pc[c] = "ok" =>
        /\ did[c]
        /\ op[c] = "snapshot" => got[c] \in during[c] \cup {"stopped"}

\* A call returns an error only if a request has failed or was refused: "already-
\* started/stopped is informational" (grpc.go:226-227).
ErrorIsReal == \A c \in Clients : pc[c] = "err" => lost[c]
=================================================================================
