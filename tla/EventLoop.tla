----------------------------- MODULE EventLoop -----------------------------
(***************************************************************************)
(* The event loop of a task of the authorisation server (its handlers in   *)
(* authentication/api/main.py, messaging.py) around the sending of         *)
(* revocation messages.                                                    *)
(*                                                                         *)
(* Every handler is an async def without an await and every call it makes  *)
(* is synchronous: a task serves one request from beginning to end, and    *)
(* what arrives meanwhile, the load balancers' health checks included,     *)
(* waits.  The handler itself may be waiting, for Ory Hydra or Redis, which *)
(* it calls without a time-out (main.py:255 and 333, store.py), or, with a *)
(* revocation message to send, for S3, the directory and the client        *)
(* application; and the application may call this server, the same task or *)
(* another, before it answers.                                             *)
(***************************************************************************)
EXTENDS ClientCertificate, Sequences, SequencesExt

CONSTANTS
  Clients,          \* who makes requests, one at a time
  NoCaller          \* nobody

ASSUME CallersAssumption ==
  /\ NoCaller \notin Clients \cup Tasks
  /\ Clients \cap Tasks = {}

VARIABLES
  queue,            \* the callers that wait for each task, first come first
                    \* served; task v stands for the application v messages
  caller,           \* the caller whose request a task is serving
  waits             \* has the application v messages a call under way,
                    \* which it lets v wait for

loop == <<queue, caller, waits>>
loopVars == <<vars, loop>>

Callers == Clients \cup Tasks

Asking(c) == \E w \in Tasks : caller[w] = c \/ c \in ToSet(queue[w])

LoopInit ==
  /\ Init
  /\ queue = [w \in Tasks |-> <<>>]
  /\ caller = [w \in Tasks |-> NoCaller]
  /\ waits = [v \in Tasks |-> FALSE]

(* A request of caller c reaches task w, that of an application while the  *)
(* message of its task is with it.                                         *)
Arrive(c, w) ==
  /\ ~ Asking(c)
  /\ \/ c \in Clients /\ UNCHANGED waits
     \/ /\ c \in Tasks /\ step[c] = "request" /\ call[c] = "application"
        /\ waits' = [waits EXCEPT ![c] = TRUE]
  /\ queue' = [queue EXCEPT ![w] = Append(@, c)]
  /\ UNCHANGED <<vars, caller>>

(* The callers in cs get an answer, or lose their connection.              *)
Answered(cs) == waits' = [v \in Tasks |-> waits[v] /\ v \notin cs]

(* The loop takes the next request when the last one is done.              *)
Serve(w) ==
  /\ caller[w] = NoCaller /\ queue[w] # <<>>
  /\ queue' = [queue EXCEPT ![w] = Tail(@)]
  /\ caller' = [caller EXCEPT ![w] = Head(queue[w])]
  /\ UNCHANGED <<vars, waits>>

(* The handler ends.  Its caller is answered; if it was sending, the       *)
(* application has nobody left to answer.                                  *)
Over(w) ==
  /\ Answered({w, caller[w]})
  /\ caller' = [caller EXCEPT ![w] = NoCaller]
  /\ UNCHANGED queue

(* Task w serves a request and is not sending: it answers on the spot, or  *)
(* it waits for Hydra or Redis.                                            *)
Handling(w) == caller[w] # NoCaller /\ step[w] = "idle"

(* The handler ends, or a revocation has come to its message.              *)
Handle(w) ==
  /\ Handling(w)
  /\ \/ Over(w) /\ UNCHANGED vars
     \/ Send(w) /\ UNCHANGED loop

GoOn(w) == (Resolve(w) \/ FindAddress(w)) /\ UNCHANGED loop

NoSession(w) == ResolveFails(w) /\ Over(w)

(* The request is answered, by an application when its own call is.        *)
RequestAnswered(w) == ~ waits[w] /\ RequestEnds(w) /\ Over(w)

(* Slip: only the request to the directory has a time-out.                 *)
SlipNoTimeout(w) == call[w] = "directory" /\ RequestEnds(w) /\ Over(w)

(* timeout=10 and timeout=30.                                              *)
TimeOut(w) == RequestEnds(w) /\ Over(w)

(* The task is replaced, for a new version or for health checks it left    *)
(* waiting: what it was serving and what waited for it is cut off.         *)
Replace(w) ==
  /\ Restart(w)
  /\ Answered({w, caller[w]} \cup ToSet(queue[w]))
  /\ queue' = [queue EXCEPT ![w] = <<>>]
  /\ caller' = [caller EXCEPT ![w] = NoCaller]

LoopStep(w) ==
  Serve(w) \/ GoOn(w) \/ NoSession(w) \/ RequestAnswered(w) \/ TimeOut(w)

LoopNext ==
  \/ (StartRenewal \/ \E f \in Files : PutObject(f)) /\ UNCHANGED loop
  \/ \E w \in Tasks :
       \/ LoopStep(w) \/ Handle(w) \/ Replace(w)
       \/ \E c \in Callers : Arrive(c, w)

LoopSpec == LoopInit /\ [][LoopNext]_loopVars

(* The loop runs on, and what it waits for with a time-out ends: the calls *)
(* to S3, the directory and the application.  That a call without one      *)
(* returns is not assumed.  Nobody need ask, no application need answer    *)
(* and no task need be replaced.                                           *)
LoopFairSpec == LoopSpec /\ \A w \in Tasks : WF_loopVars(LoopStep(w))

(***************************************************************************)
(* Properties.                                                             *)
(***************************************************************************)

(* Every variable has its type; a task that sends does so for a caller.    *)
LoopTypeOK ==
  /\ TypeOK
  /\ queue \in [Tasks -> Seq(Callers)]
  /\ caller \in [Tasks -> Callers \cup {NoCaller}]
  /\ \A w \in Tasks : step[w] # "idle" => caller[w] # NoCaller
  /\ waits \in [Tasks -> BOOLEAN]

(* No handler waits for ever for Hydra or Redis, unless its task is        *)
(* replaced.                                                               *)
CallsReturn == \A w \in Tasks : Handling(w) ~> ~ Handling(w)

(* If Hydra and Redis answer, every caller's turn comes once no more tasks *)
(* are replaced, also when tasks and applications wait for each other in a *)
(* circle: the handler of main.py that is served before it has an end,     *)
(* because the calls of messaging.py time out.  (A caller whose task is    *)
(* replaced is cut off, and does not count as heard.)                      *)
EveryoneHeard ==
  CallsReturn =>
    \A c \in Callers :
      (\E w \in Tasks : c \in ToSet(queue[w])) /\ restarts = MaxRestarts
        ~> \E w \in Tasks : caller[w] = c
=============================================================================
