---------------------- MODULE AuthorizationFlow_proofs ----------------------
(***************************************************************************)
(* Proofs about AuthorizationFlow for any number of flows and any lives of *)
(* the two entries, as long as the request's is not the longer one.        *)
(***************************************************************************)
EXTENDS AuthorizationFlow, TLAPS

(* The two entries of flow f as its handler fills them in: the callback    *)
(* URL's deadline is behind the request's by the difference of the lives.  *)
EntriesOf(f) ==
  /\ handler[f] \in {"expire_request", "set_callback", "expire_callback",
                     "reply", "replied"} =>
       requests[f].set /\ requests[f].value = f
  /\ handler[f] \in {"set_callback", "expire_callback", "reply", "replied"} =>
       requests[f].expires /\ requests[f].deadline <= now + RequestTTL
  /\ handler[f] \in {"expire_callback", "reply", "replied"} =>
       callbacks[f].set /\ callbacks[f].value = uri[f]
  /\ handler[f] \in {"reply", "replied"} =>
       /\ callbacks[f].expires
       /\ requests[f].deadline + (CallbackTTL - RequestTTL)
            <= callbacks[f].deadline

(* How far the user of flow f may have come.                               *)
UserOf(f) ==
  /\ user[f] # "none" => handler[f] = "replied"
  /\ user[f] = "login" => sentAt[f] < requests[f].deadline
  /\ user[f] = "arrived" => arrived[f] = uri[f]

FlowInv == TypeOK /\ \A f \in Flows : EntriesOf(f) /\ UserOf(f)

LEMMA ExpireType ==
  ASSUME NEW e \in Entry, NEW ttl \in Nat, now \in Nat
  PROVE  /\ Expire(e, ttl) \in Entry
         /\ Expire(e, ttl).set = e.set /\ Expire(e, ttl).value = e.value
         /\ e.set => /\ Expire(e, ttl).expires
                     /\ Expire(e, ttl).deadline = now + ttl
<1>1. now + ttl \in Nat
  OBVIOUS
<1>2. CASE e.set
  <2>1. Expire(e, ttl) = [e EXCEPT !.expires = TRUE, !.deadline = now + ttl]
    BY <1>2 DEF Expire
  <2>2. QED BY <1>1, <1>2, <2>1 DEF Entry
<1>3. CASE ~ e.set
  BY <1>3 DEF Expire
<1>4. QED BY <1>2, <1>3

LEMMA FlowInit == Init => FlowInv
BY DEF Init, FlowInv, TypeOK, EntriesOf, UserOf, NoEntry, Entry

(* The handler's steps change the entries of their own flow only, and no   *)
(* user is under way before its handler has replied.                       *)
LEMMA HandlerInv ==
  ASSUME FlowInv, NEW f \in Flows, HandlerStep(f)
  PROVE  FlowInv'
<1> USE FlowAssumption DEF FlowInv, redis, people, StateOf, Goto
<1>1. TypeOK'
  <2>1. CASE Push(f)
    BY <2>1 DEF Push, TypeOK
  <2>2. CASE SetRequest(f)
    BY <2>2 DEF SetRequest, TypeOK, Set, Entry
  <2>3. CASE ExpireRequest(f)
    <3>1. Expire(requests[f], RequestTTL) \in Entry
      BY ExpireType DEF TypeOK
    <3>2. QED BY <2>3, <3>1 DEF ExpireRequest, TypeOK
  <2>4. CASE SetCallback(f)
    <3>1. Set(uri[f]) \in Entry
      BY DEF TypeOK, Entry, Set
    <3>2. QED BY <2>4, <3>1 DEF SetCallback, TypeOK
  <2>5. CASE ExpireCallback(f)
    <3>1. Expire(callbacks[f], CallbackTTL) \in Entry
      BY ExpireType DEF TypeOK
    <3>2. QED BY <2>5, <3>1 DEF ExpireCallback, TypeOK
  <2>6. CASE Reply(f) \/ HandlerEnds(f)
    BY <2>6 DEF Reply, HandlerEnds, TypeOK
  <2>7. QED BY <2>1, <2>2, <2>3, <2>4, <2>5, <2>6 DEF HandlerStep
<1>2. ASSUME NEW g \in Flows, g # f
      PROVE  (EntriesOf(g) /\ UserOf(g))'
  <2>1. /\ UNCHANGED now
        /\ requests'[g] = requests[g] /\ callbacks'[g] = callbacks[g]
        /\ handler'[g] = handler[g] /\ uri'[g] = uri[g]
        /\ user'[g] = user[g] /\ sentAt'[g] = sentAt[g]
        /\ arrived'[g] = arrived[g]
    BY <1>2 DEF HandlerStep, Push, SetRequest, ExpireRequest, SetCallback,
       ExpireCallback, Reply, HandlerEnds, TypeOK
  <2>2. EntriesOf(g) /\ UserOf(g)
    OBVIOUS
  <2>3. QED BY <2>1, <2>2 DEF EntriesOf, UserOf
<1>3. EntriesOf(f)'
  <2>1. EntriesOf(f) /\ now \in Nat /\ requests[f] \in Entry
        /\ callbacks[f] \in Entry
    BY DEF TypeOK
  <2>2. CASE Push(f) \/ SetRequest(f) \/ HandlerEnds(f)
    BY <2>2 DEF Push, SetRequest, HandlerEnds, TypeOK, EntriesOf, Set
  <2>3. CASE ExpireRequest(f)
    <3>1. handler'[f] = "set_callback" /\ now' = now
          /\ requests'[f] = Expire(requests[f], RequestTTL)
      BY <2>3 DEF ExpireRequest, TypeOK
    <3>2. requests[f].set /\ requests[f].value = f
      BY <2>3, <2>1 DEF ExpireRequest, EntriesOf
    <3>3. QED BY <2>1, <3>1, <3>2 DEF EntriesOf, Expire, Entry
  <2>4. CASE SetCallback(f)
    <3>1. handler'[f] = "expire_callback" /\ callbacks'[f] = Set(uri[f])
          /\ UNCHANGED <<now, requests, uri>>
      BY <2>4 DEF SetCallback, TypeOK
    <3>2. QED BY <2>1, <2>4, <3>1 DEF EntriesOf, Set, SetCallback
  <2>5. CASE ExpireCallback(f)
    <3>1. handler'[f] = "reply" /\ UNCHANGED <<now, requests, uri>>
          /\ callbacks'[f] = Expire(callbacks[f], CallbackTTL)
      BY <2>5 DEF ExpireCallback, TypeOK
    <3>2. callbacks[f].set /\ callbacks[f].value = uri[f]
          /\ requests[f].set /\ requests[f].expires /\ requests[f].value = f
          /\ requests[f].deadline <= now + RequestTTL
      BY <2>1, <2>5 DEF EntriesOf, ExpireCallback
    <3>3. callbacks'[f].deadline = now + CallbackTTL
          /\ callbacks'[f].set /\ callbacks'[f].expires
          /\ callbacks'[f].value = uri[f]
      BY <2>1, <3>1, <3>2 DEF Expire, Entry
    <3>4. requests[f].deadline \in Nat
      BY <2>1 DEF Entry
    <3>5. QED BY <2>1, <3>1, <3>2, <3>3, <3>4 DEF EntriesOf
  <2>6. CASE Reply(f)
    BY <2>1, <2>6 DEF Reply, EntriesOf, TypeOK
  <2>7. QED BY <2>2, <2>3, <2>4, <2>5, <2>6 DEF HandlerStep
<1>4. UserOf(f)'
  <2>1. user[f] = "none" /\ user' = user
    BY DEF HandlerStep, Push, SetRequest, ExpireRequest, SetCallback,
       ExpireCallback, Reply, HandlerEnds, UserOf
  <2>2. QED BY <2>1 DEF UserOf
<1>5. QED BY <1>1, <1>2, <1>3, <1>4

LEMMA UserInv ==
  ASSUME FlowInv, NEW f \in Flows, UserStep(f)
  PROVE  FlowInv'
<1> USE FlowAssumption DEF FlowInv, redis
<1>1. UNCHANGED <<now, requests, callbacks, handler, uri>>
  BY DEF UserStep, Authorize, AuthorizeRefused, Callback, CallbackRefused
<1>2. \A g \in Flows \ {f} : /\ user'[g] = user[g] /\ sentAt'[g] = sentAt[g]
                             /\ arrived'[g] = arrived[g]
  BY DEF UserStep, Authorize, AuthorizeRefused, Callback, CallbackRefused,
     TypeOK
<1>3. user[f] = "login" =>
        requests[f].value = f /\ callbacks[f] \in Entry
        /\ callbacks[f].value = uri[f]
  BY DEF EntriesOf, UserOf, TypeOK
<1>4. TypeOK'
  BY <1>1, <1>3 DEF UserStep, Authorize, AuthorizeRefused, Callback,
     CallbackRefused, TypeOK
<1>5. \A g \in Flows : EntriesOf(g)'
  BY <1>1 DEF EntriesOf
<1>6. \A g \in Flows \ {f} : UserOf(g)'
  BY <1>1, <1>2 DEF UserOf
<1>7. UserOf(f)'
  <2>1. CASE Authorize(f)
    <3>1. handler[f] = "replied" /\ user'[f] = "login" /\ sentAt'[f] = now
          /\ Readable(requests[f]) /\ requests[f].expires
      BY <2>1 DEF Authorize, TypeOK, EntriesOf
    <3>2. QED BY <1>1, <3>1 DEF UserOf, Readable
  <2>2. CASE Callback(f)
    BY <1>1, <1>3, <2>2 DEF Callback, UserOf, TypeOK
  <2>3. CASE AuthorizeRefused(f) \/ CallbackRefused(f)
    BY <1>1, <2>3 DEF AuthorizeRefused, CallbackRefused, UserOf, TypeOK
  <2>4. QED BY <2>1, <2>2, <2>3 DEF UserStep
<1>8. QED BY <1>4, <1>5, <1>6, <1>7

LEMMA TickInv == ASSUME FlowInv, Tick PROVE FlowInv'
<1> USE FlowAssumption DEF FlowInv, Tick, redis, people
<1>1. TypeOK'
  BY DEF TypeOK
<1>2. ASSUME NEW f \in Flows PROVE (EntriesOf(f) /\ UserOf(f))'
  <2>1. now \in Nat /\ requests[f].deadline \in Nat
    BY DEF TypeOK, Entry
  <2>2. QED BY <2>1 DEF EntriesOf, UserOf
<1>3. QED BY <1>1, <1>2

THEOREM FlowInvariance == Spec => []FlowInv
<1>1. Init => FlowInv
  BY FlowInit
<1>2. FlowInv /\ [Next]_vars => FlowInv'
  <2> SUFFICES ASSUME FlowInv, [Next]_vars PROVE FlowInv'
    OBVIOUS
  <2>1. CASE UNCHANGED vars
    BY <2>1 DEF vars, redis, people, FlowInv, TypeOK, EntriesOf, UserOf
  <2>2. CASE Next
    BY <2>2, HandlerInv, UserInv, TickInv DEF Next
  <2>3. QED BY <2>1, <2>2
<1>3. QED BY <1>1, <1>2, PTL DEF Spec

(* A user sent to log in has CallbackTTL - RequestTTL to come back.        *)
THEOREM LoginHasTime == Spec => []LoginTimeLeft
<1>1. ASSUME FlowInv PROVE LoginTimeLeft
  <2> SUFFICES ASSUME NEW f \in Flows, user[f] = "login"
               PROVE  callbacks[f].set /\ callbacks[f].deadline
                        > sentAt[f] + (CallbackTTL - RequestTTL)
    BY DEF LoginTimeLeft, StateOf
  <2>1. /\ sentAt[f] \in Nat /\ requests[f].deadline \in Nat
        /\ callbacks[f].deadline \in Nat /\ RequestTTL \in Nat
        /\ CallbackTTL \in Nat
    BY <1>1, FlowAssumption DEF FlowInv, TypeOK, Entry
  <2>2. /\ callbacks[f].set /\ sentAt[f] < requests[f].deadline
        /\ requests[f].deadline + (CallbackTTL - RequestTTL)
             <= callbacks[f].deadline
    BY <1>1 DEF FlowInv, EntriesOf, UserOf
  <2>3. QED BY <2>1, <2>2
<1>2. FlowInv => LoginTimeLeft
  BY <1>1
<1>3. QED BY <1>2, FlowInvariance, PTL

(* /callback turns away only users who took longer.                        *)
THEOREM LostMeansLate == Spec => LostOnlyWhenLate
<1> DEFINE A == \A f \in Flows : CallbackRefused(f) =>
                  now > sentAt[f] + (CallbackTTL - RequestTTL)
<1>1. ASSUME FlowInv, LoginTimeLeft PROVE A
  <2> SUFFICES ASSUME NEW f \in Flows, CallbackRefused(f)
               PROVE  now > sentAt[f] + (CallbackTTL - RequestTTL)
    OBVIOUS
  <2>1. /\ requests[f].value = f /\ callbacks[f].expires
        /\ ~ Readable(callbacks[f])
    BY <1>1 DEF FlowInv, EntriesOf, UserOf, CallbackRefused
  <2>2. callbacks[f].set /\ callbacks[f].deadline
                        > sentAt[f] + (CallbackTTL - RequestTTL)
    BY <1>1 DEF LoginTimeLeft, StateOf, CallbackRefused
  <2>3. /\ sentAt[f] \in Nat /\ now \in Nat
        /\ callbacks[f].deadline \in Nat /\ RequestTTL \in Nat
        /\ CallbackTTL \in Nat
    BY <1>1, FlowAssumption DEF FlowInv, TypeOK, Entry
  <2>4. QED BY <2>1, <2>2, <2>3 DEF Readable
<1>2. FlowInv /\ LoginTimeLeft => [A]_vars
  BY <1>1
<1>3. QED
  BY <1>2, FlowInvariance, LoginHasTime, PTL DEF LostOnlyWhenLate

(* A user arrives at the redirect URI of its own request.                  *)
THEOREM ArrivesRight == Spec => []ArrivesWhereAsked
<1>1. FlowInv => ArrivesWhereAsked
  BY DEF FlowInv, UserOf, ArrivesWhereAsked
<1>2. QED BY <1>1, FlowInvariance, PTL

(* Type correctness.                                                       *)
THEOREM FlowTypes == Spec => []TypeOK
<1>1. FlowInv => TypeOK
  BY DEF FlowInv
<1>2. QED BY <1>1, FlowInvariance, PTL

(* Once the client has its answer, neither entry stays in Redis for good.  *)
THEOREM AnswerMeansExpiry == Spec => []AnsweredEntriesExpire
<1>1. FlowInv => AnsweredEntriesExpire
  BY DEF FlowInv, EntriesOf, AnsweredEntriesExpire, StateOf
<1>2. QED BY <1>1, FlowInvariance, PTL
============================================================================
