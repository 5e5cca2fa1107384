------------------------- MODULE AuthorizationFlow -------------------------
(***************************************************************************)
(* The front half of the authorisation code flow: the pushed authorisation *)
(* request, /authorize and /callback of authentication/api/main.py over    *)
(* the two Redis entries of authentication/api/store.py.                   *)
(*                                                                         *)
(* A flow is one pushed request and the user who follows it.  The request  *)
(* token and the state are fresh random values, so a flow's identifier     *)
(* stands for its request token, and StateOf(f) for the state of its       *)
(* request.  Redis commands are separate steps, between which time passes  *)
(* and the task may end; the commands of different flows interleave.  An   *)
(* entry keeps its deadline when it has expired, and then is not Readable. *)
(***************************************************************************)
EXTENDS Naturals

CONSTANTS
  Flows,            \* the pushed authorisation requests
  RedirectUris,     \* the redirect URIs clients ask for
  NoUri,            \* no redirect URI
  RequestTTL,       \* life of a stored request, 60 s in the code
  CallbackTTL,      \* life of a stored callback URL, 600 s in the code
  MaxTime           \* bound on the clock

ASSUME FlowAssumption ==
  /\ NoUri \notin RedirectUris
  /\ {RequestTTL, CallbackTTL, MaxTime} \subseteq Nat
  /\ RequestTTL <= CallbackTTL

VARIABLES
  now,              \* the clock
  requests,         \* Redis: the entry of each request token
  callbacks,        \* Redis: the entry of each "callback:" + state
  handler,          \* the next step of each flow's PAR handler
  uri,              \* the redirect_uri the client asked for
  user,             \* how far the user has come
  sentAt,           \* when /authorize last sent the user to log in
  arrived           \* the URI /callback sent the user on to

redis  == <<requests, callbacks>>
people == <<user, sentAt, arrived>>
vars   == <<now, requests, callbacks, handler, uri, user, sentAt,
            arrived>>

Entry == [set : BOOLEAN, value : Flows \cup RedirectUris \cup {NoUri},
          expires : BOOLEAN, deadline : Nat]

NoEntry == [set |-> FALSE, value |-> NoUri, expires |-> FALSE, deadline |-> 0]

(* SET: a new value, and no time to live.                                  *)
Set(v) == [set |-> TRUE, value |-> v, expires |-> FALSE, deadline |-> 0]

(* EXPIRE: a time to live from now, if the key exists.                     *)
Expire(e, ttl) ==
  IF e.set THEN [e EXCEPT !.expires = TRUE, !.deadline = now + ttl] ELSE e

(* GET returns the value.                                                  *)
Readable(e) == e.set /\ (e.expires => now < e.deadline)

(* Slip: a state without a jti, the same for all of a client's requests.   *)
SlipSharedState(f) == CHOOSE g \in Flows : TRUE

(* create_state_token: a jti of its own makes every state different.       *)
StateOf(f) == f

Init ==
  /\ now = 0
  /\ requests = [f \in Flows |-> NoEntry]
  /\ callbacks = [f \in Flows |-> NoEntry]
  /\ handler = [f \in Flows |-> "none"]
  /\ uri = [f \in Flows |-> NoUri]
  /\ user = [f \in Flows |-> "none"]
  /\ sentAt = [f \in Flows |-> 0]
  /\ arrived = [f \in Flows |-> NoUri]

Goto(f, from, to) ==
  /\ handler[f] = from
  /\ handler' = [handler EXCEPT ![f] = to]

(* POST /par is accepted: a client certificate and all parameters.         *)
Push(f) ==
  /\ Goto(f, "none", "set_request")
  /\ \E u \in RedirectUris : uri' = [uri EXCEPT ![f] = u]
  /\ UNCHANGED <<now, redis, people>>

SetRequest(f) ==
  /\ Goto(f, "set_request", "expire_request")
  /\ requests' = [requests EXCEPT ![f] = Set(StateOf(f))]
  /\ UNCHANGED <<now, callbacks, uri, people>>

(* Slip: the request is left without a time to live.                       *)
SlipNoExpire(f) ==
  /\ Goto(f, "expire_request", "set_callback")
  /\ UNCHANGED <<now, redis, uri, people>>

ExpireRequest(f) ==
  /\ Goto(f, "expire_request", "set_callback")
  /\ requests' = [requests EXCEPT ![f] = Expire(@, RequestTTL)]
  /\ UNCHANGED <<now, callbacks, uri, people>>

(* Slip: the arguments of store_callback_url the wrong way round.          *)
SlipSwapped(f) ==
  /\ Goto(f, "set_callback", "expire_callback")
  /\ callbacks' = [callbacks EXCEPT ![StateOf(f)] = Set(StateOf(f))]
  /\ UNCHANGED <<now, requests, uri, people>>

SetCallback(f) ==
  /\ Goto(f, "set_callback", "expire_callback")
  /\ callbacks' = [callbacks EXCEPT ![StateOf(f)] = Set(uri[f])]
  /\ UNCHANGED <<now, requests, uri, people>>

(* Slip: the callback URL lives as long as the request, not longer.        *)
SlipShortCallback(f) ==
  /\ Goto(f, "expire_callback", "reply")
  /\ callbacks' = [callbacks EXCEPT ![StateOf(f)] = Expire(@, RequestTTL)]
  /\ UNCHANGED <<now, requests, uri, people>>

ExpireCallback(f) ==
  /\ Goto(f, "expire_callback", "reply")
  /\ callbacks' = [callbacks EXCEPT ![StateOf(f)] = Expire(@, CallbackTTL)]
  /\ UNCHANGED <<now, requests, uri, people>>

Reply(f) ==
  /\ Goto(f, "reply", "replied")
  /\ UNCHANGED <<now, redis, uri, people>>

(* An exception, the end of the task, or a reply that is lost.             *)
HandlerEnds(f) ==
  /\ handler[f] \notin {"none", "replied", "ended"}
  /\ handler' = [handler EXCEPT ![f] = "ended"]
  /\ UNCHANGED <<now, redis, uri, people>>

(* GET /authorize, as often as the user opens it: the request is read and  *)
(* left in Redis.                                                          *)
Authorize(f) ==
  /\ handler[f] = "replied" /\ user[f] \in {"none", "login"}
  /\ Readable(requests[f])
  /\ user' = [user EXCEPT ![f] = "login"]
  /\ sentAt' = [sentAt EXCEPT ![f] = now]
  /\ UNCHANGED <<now, redis, handler, uri, arrived>>

(* "Request URI does not exist or has expired", 400.                       *)
AuthorizeRefused(f) ==
  /\ handler[f] = "replied" /\ user[f] = "none"
  /\ ~ Readable(requests[f])
  /\ user' = [user EXCEPT ![f] = "refused"]
  /\ UNCHANGED <<now, redis, handler, uri, sentAt, arrived>>

(* Login and consent at Hydra, which redirects to /callback with the state *)
(* it was given; the callback URL kept for that state is the way onwards.  *)
Callback(f) ==
  LET e == callbacks[requests[f].value] IN
  /\ user[f] = "login"
  /\ Readable(e)
  /\ user' = [user EXCEPT ![f] = "arrived"]
  /\ arrived' = [arrived EXCEPT ![f] = e.value]
  /\ UNCHANGED <<now, redis, handler, uri, sentAt>>

(* "Callback URL not found or expired for this state", 400.                *)
CallbackRefused(f) ==
  /\ user[f] = "login"
  /\ ~ Readable(callbacks[requests[f].value])
  /\ user' = [user EXCEPT ![f] = "lost"]
  /\ UNCHANGED <<now, redis, handler, uri, sentAt, arrived>>

Tick ==
  /\ now < MaxTime
  /\ now' = now + 1
  /\ UNCHANGED <<redis, handler, uri, people>>

HandlerStep(f) ==
  \/ Push(f) \/ SetRequest(f) \/ ExpireRequest(f) \/ SetCallback(f)
  \/ ExpireCallback(f) \/ Reply(f) \/ HandlerEnds(f)

UserStep(f) ==
  \/ Authorize(f) \/ AuthorizeRefused(f) \/ Callback(f) \/ CallbackRefused(f)

Next == Tick \/ \E f \in Flows : HandlerStep(f) \/ UserStep(f)

Spec == Init /\ [][Next]_vars

(***************************************************************************)
(* Properties.                                                             *)
(***************************************************************************)

(* Every variable has its type.                                            *)
TypeOK ==
  /\ now \in Nat
  /\ requests \in [Flows -> Entry] /\ callbacks \in [Flows -> Entry]
  /\ handler \in [Flows -> {"none", "set_request", "expire_request",
                  "set_callback", "expire_callback", "reply", "replied",
                  "ended"}]
  /\ uri \in [Flows -> RedirectUris \cup {NoUri}]
  /\ sentAt \in [Flows -> Nat]
  /\ user \in [Flows -> {"none", "login", "refused", "arrived", "lost"}]
  /\ arrived \in [Flows -> RedirectUris \cup {NoUri}]

(* A user whom /authorize sends to log in has the difference of the two    *)
(* lifetimes, nine minutes, to come back: the callback URL, stored after   *)
(* the request, outlives it by at least that (store.py, 60 and 600), also  *)
(* when the page is opened again and however slowly the PAR handler ran.   *)
LoginTimeLeft ==
  \A f \in Flows : user[f] = "login" =>
    LET e == callbacks[StateOf(f)] IN
    e.set /\ e.deadline > sentAt[f] + (CallbackTTL - RequestTTL)

(* So /callback turns away only users who took longer than that.           *)
LostOnlyWhenLate ==
  [][\A f \in Flows : CallbackRefused(f) =>
       now > sentAt[f] + (CallbackTTL - RequestTTL)]_vars

(* A user ends up at the redirect URI of the request that was followed,    *)
(* with several requests of the same client under way.                     *)
ArrivesWhereAsked ==
  \A f \in Flows : user[f] = "arrived" => arrived[f] = uri[f]

(* Once the client has its answer, both entries have a time to live, though *)
(* SET and EXPIRE are two commands; a handler that ends between them leaves *)
(* an entry for good, and no answer.                                       *)
AnsweredEntriesExpire ==
  \A f \in Flows : handler[f] = "replied" =>
    requests[f].expires /\ callbacks[StateOf(f)].expires
============================================================================
