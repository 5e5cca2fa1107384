------------------------- MODULE AuthServer_proofs -------------------------
(***************************************************************************)
(* Proofs about AuthServer for any number of workers, keys and requests.   *)
(***************************************************************************)
EXTENDS AuthServer, TLAPS

IInv ==
  /\ TypeOK
  /\ InHand
  /\ FiledUnderItsOwner
  /\ RecordedBeforeReply
  /\ ConfirmedIsRevoked
  /\ NotifiedIsRevoked

(* Putting a permission adds its token to the recorded ones, to the marked *)
(* ones if it is revoked, and changes nothing else (write_permission).     *)
LEMMA PutRecords ==
  ASSUME NEW p \in Row, log \in [Keys -> Seq(Row)],
         log' = write_permission(p)
  PROVE  /\ log' \in [Keys -> Seq(Row)]
         /\ \A k \in Keys : Len(log[k]) <= Len(log'[k])
         /\ \A k \in Keys : \A i \in 1..Len(log'[k]) :
              \/ i \in 1..Len(log[k]) /\ log'[k][i] = log[k][i]
              \/ k = p.key /\ log'[k][i] = p
         /\ \A t : Recorded(t)' <=> (Recorded(t) \/ t = p.token)
         /\ \A t : Marked(t)' <=> (Marked(t) \/ (t = p.token /\ p.revoked))
<1> USE DEF write_permission
<1>0. p.key \in Keys /\ p.token \in Nat /\ p.revoked \in BOOLEAN
  BY DEF Row
<1>1. \A k \in Keys : log[k] \in Seq(Row) /\ Len(log[k]) \in Nat
  OBVIOUS
<1>2. \A k \in Keys : log'[k] = IF k = p.key THEN Append(log[k], p) ELSE log[k]
  OBVIOUS
<1>3. \A k \in Keys : /\ log'[k] \in Seq(Row) /\ Len(log'[k]) \in Nat
                      /\ Len(log[k]) <= Len(log'[k])
                      /\ \A i \in 1..Len(log[k]) : log'[k][i] = log[k][i]
  BY <1>1, <1>2
<1>4. log' \in [Keys -> Seq(Row)]
  BY <1>3
<1>5. \A k \in Keys : \A i \in 1..Len(log'[k]) :
        \/ i \in 1..Len(log[k]) /\ log'[k][i] = log[k][i]
        \/ k = p.key /\ log'[k][i] = p
  BY <1>0, <1>1, <1>2
<1>6. /\ Len(log'[p.key]) \in 1..Len(log'[p.key])
      /\ log'[p.key][Len(log'[p.key])] = p
  BY <1>0, <1>1, <1>2
<1> HIDE DEF write_permission
<1>7. ASSUME NEW t PROVE Recorded(t)' <=> (Recorded(t) \/ t = p.token)
  <2>1. ASSUME Recorded(t) PROVE Recorded(t)'
    <3>1. PICK k \in Keys : \E i \in 1..Len(log[k]) : log[k][i].token = t
      BY <2>1 DEF Recorded
    <3>2. PICK i \in 1..Len(log[k]) : log[k][i].token = t
      BY <3>1
    <3>3. i \in 1..Len(log'[k]) /\ log'[k][i].token = t
      BY <1>1, <1>3, <3>2
    <3>4. QED BY <3>3 DEF Recorded
  <2>2. t = p.token => Recorded(t)'
    BY <1>0, <1>6 DEF Recorded
  <2>3. Recorded(t)' => Recorded(t) \/ t = p.token
    BY <1>5 DEF Recorded
  <2>4. QED BY <2>1, <2>2, <2>3
<1>8. ASSUME NEW t
      PROVE  Marked(t)' <=> (Marked(t) \/ (t = p.token /\ p.revoked))
  <2>1. ASSUME Marked(t) PROVE Marked(t)'
    <3>1. PICK k \in Keys : \E i \in 1..Len(log[k]) :
                              log[k][i].token = t /\ log[k][i].revoked
      BY <2>1 DEF Marked
    <3>2. PICK i \in 1..Len(log[k]) : log[k][i].token = t /\ log[k][i].revoked
      BY <3>1
    <3>3. /\ i \in 1..Len(log'[k]) 
          /\ log'[k][i].token = t /\ log'[k][i].revoked
      BY <1>1, <1>3, <3>2
    <3>4. QED BY <3>3 DEF Marked
  <2>2. t = p.token /\ p.revoked => Marked(t)'
    BY <1>0, <1>6 DEF Marked
  <2>3. Marked(t)' => Marked(t) \/ (t = p.token /\ p.revoked)
    BY <1>5 DEF Marked
  <2>4. QED BY <2>1, <2>2, <2>3
<1>9. QED BY <1>3, <1>4, <1>5, <1>7, <1>8
(* A step that leaves the log alone leaves what is recorded and marked.    *)
LEMMA SameLogSameRecords ==
  ASSUME UNCHANGED log
  PROVE  \A t : (Recorded(t)' <=> Recorded(t)) /\ (Marked(t)' <=> Marked(t))
BY DEF Recorded, Marked

LEMMA InitInv == Init => IInv
<1> SUFFICES ASSUME Init PROVE IInv
  OBVIOUS
<1>1. TypeOK
  BY NoKeyAssumption, MaxRequestsAssumption
     DEF Init, TypeOK, Tokens, Steps, NoRequest, NoPermission, Permission
<1>2. InHand
  BY DEF Init, InHand, HandOf
<1>3. FiledUnderItsOwner /\ RecordedBeforeReply /\ ConfirmedIsRevoked
      /\ NotifiedIsRevoked
  BY DEF Init, FiledUnderItsOwner, RecordedBeforeReply, ConfirmedIsRevoked,
         NotifiedIsRevoked
<1>4. QED BY <1>1, <1>2, <1>3 DEF IInv

(* Accepting a request.                                                    *)
LEMMA AcceptInv ==
  ASSUME IInv, NEW w \in Workers, AskCode(w) \/ AskRefresh(w) \/ AskRevoke(w)
  PROVE  IInv'
<1> USE DEF IInv
<1>0. PICK op \in {"code", "refresh", "revoke"}, k \in Keys \cup {NoKey},
           t \in Int, step \in {"post_token", "query"} :
             Accept(w, op, k, t, step) /\ (step = "post_token" => k \in Keys)
  <2>1. CASE AskCode(w)
    BY <2>1 DEF AskCode
  <2>2. CASE AskRefresh(w)
    BY <2>2 DEF AskRefresh, TypeOK, Tokens
  <2>3. CASE AskRevoke(w)
    <3>1. PICK t \in held : \E s \in {t, -t} :
            Accept(w, "revoke", NoKey, s, "query")
      BY <2>3 DEF AskRevoke
    <3>2. t \in Int /\ -t \in Int
      BY DEF TypeOK, Tokens
    <3>3. QED BY <3>1, <3>2
  <2>4. QED BY <2>1, <2>2, <2>3
<1> USE DEF Accept, hydra, dynamo, clients
<1>1. TypeOK'
  <2>1. requests' \in 0..MaxRequests
    BY <1>0, MaxRequestsAssumption DEF TypeOK
  <2>2. /\ pc' \in [Workers -> Steps]
        /\ req' \in [Workers -> [op : {"none", "code", "refresh", "revoke"},
                                 key : Keys \cup {NoKey}, token : Int]]
    BY <1>0 DEF TypeOK, Steps
  <2>3. QED BY <1>0, <2>1, <2>2 DEF TypeOK, Tokens
<1>2. \A u : (Recorded(u)' <=> Recorded(u)) /\ (Marked(u)' <=> Marked(u))
  BY <1>0, SameLogSameRecords
<1>3. InHand'
  BY <1>0, <1>2 DEF InHand, HandOf, Tokens, TypeOK
<1>4. FiledUnderItsOwner' /\ RecordedBeforeReply' /\ ConfirmedIsRevoked'
      /\ NotifiedIsRevoked'
  BY <1>0, <1>2 DEF FiledUnderItsOwner, RecordedBeforeReply, 
     ConfirmedIsRevoked, NotifiedIsRevoked, Tokens
<1>5. QED BY <1>1, <1>3, <1>4
(* Whatever ends a handler keeps the invariant, as long as no token comes  *)
(* back to life and clients only learn what is on record.                  *)
LEMMA FinishInv ==
  ASSUME IInv, NEW w \in Workers, Finish(w),
         UNCHANGED <<owner, family, log, indexed>>, live' \subseteq live,
         \A t \in held' : t \in held \/ (t \in Tokens /\ Recorded(t)),
         \A t \in confirmed' : t \in confirmed
                      \/ (t \in Tokens /\ Marked(t) /\ t \notin live),
         UNCHANGED notified
  PROVE  IInv'
<1> USE DEF IInv, Finish
<1>1. TypeOK'
  <2>1. /\ pc' \in [Workers -> Steps]
        /\ req' \in [Workers -> [op : {"none", "code", "refresh", "revoke"},
                                 key : Keys \cup {NoKey}, token : Int]]
        /\ perm' \in [Workers -> Permission]
    BY DEF TypeOK, Steps, Permission, NoRequest, NoPermission
  <2>2. QED BY <2>1 DEF TypeOK, Tokens
<1>2. \A u : (Recorded(u)' <=> Recorded(u)) /\ (Marked(u)' <=> Marked(u))
  BY SameLogSameRecords
<1>3. InHand'
  BY <1>2 DEF InHand, HandOf, Tokens, TypeOK
<1>4. FiledUnderItsOwner' /\ RecordedBeforeReply' /\ ConfirmedIsRevoked'
      /\ NotifiedIsRevoked'
  BY <1>2 DEF FiledUnderItsOwner, RecordedBeforeReply,
     ConfirmedIsRevoked, NotifiedIsRevoked, Tokens
<1>5. QED BY <1>1, <1>3, <1>4

LEMMA EndingsInv ==
  ASSUME IInv, NEW w \in Workers,
         \/ HydraRefuses(w) \/ ReplyToken(w) \/ QueryFindsNothing(w)
         \/ PostRevokeFails(w) \/ ReplySuccess(w) \/ Fail(w)
  PROVE  IInv'
<1> USE DEF hydra, dynamo, clients
<1>1. CASE HydraRefuses(w)
  <2>1. live' \subseteq live
    BY <1>1 DEF HydraRefuses
  <2>2. QED BY <1>1, <2>1, FinishInv DEF HydraRefuses
<1>2. CASE ReplyToken(w)
  <2>1. perm[w].token \in Tokens /\ Recorded(perm[w].token)
    BY <1>2 DEF ReplyToken, IInv, InHand, HandOf
  <2>2. QED BY <1>2, <2>1, FinishInv DEF ReplyToken
<1>3. CASE QueryFindsNothing(w)
  BY <1>3, FinishInv DEF QueryFindsNothing
<1>4. CASE PostRevokeFails(w)
  <2>1. live' \subseteq live
    BY <1>4 DEF PostRevokeFails, HydraRevokes
  <2>2. QED BY <1>4, <2>1, FinishInv DEF PostRevokeFails
<1>5. CASE ReplySuccess(w)
  <2>1. /\ perm[w].token \in Tokens
        /\ Marked(perm[w].token) /\ perm[w].token \notin live
    BY <1>5 DEF ReplySuccess, IInv, InHand, HandOf
  <2>2. QED BY <1>5, <2>1, FinishInv DEF ReplySuccess
<1>6. CASE Fail(w)
  BY <1>6, FinishInv DEF Fail
<1>7. QED BY <1>1, <1>2, <1>3, <1>4, <1>5, <1>6

LEMMA HydraIssuesInv ==
  ASSUME IInv, NEW w \in Workers, HydraIssues(w)
  PROVE  IInv'
<1> DEFINE n == Len(owner) + 1
<1> USE DEF IInv
<1>1. /\ Len(owner) \in Nat /\ Tokens' = Tokens \cup {n} /\ n \notin Tokens
      /\ Len(owner') = n /\ owner'[n] = req[w].key /\ req[w].key \in Keys
      /\ owner' \in Seq(Keys)
      /\ \A t \in Tokens : owner'[t] = owner[t]
  <2>1. owner \in Seq(Keys) /\ Len(owner) \in Nat
    BY DEF TypeOK
  <2>2. req[w].key \in Keys /\ owner' = Append(owner, req[w].key)
    BY DEF HydraIssues, InHand, HandOf
  <2>3. /\ owner' \in Seq(Keys) /\ Len(owner') = n /\ owner'[n] = req[w].key
        /\ \A t \in 1..Len(owner) : owner'[t] = owner[t]
    BY <2>1, <2>2
  <2>4. 1..n = 1..Len(owner) \cup {n} /\ n \notin 1..Len(owner)
    BY <2>1
  <2>5. QED BY <2>1, <2>2, <2>3, <2>4 DEF Tokens
<1>2. live' \subseteq live \cup {n} /\ live' \subseteq Tokens'
  BY <1>1 DEF HydraIssues, TypeOK
<1>3. family' \in Seq(Nat) /\ Len(family') = Len(owner')
  <2>1. /\ family \in Seq(Nat) /\ Len(family) = Len(owner) /\ n \in Nat
        /\ live \subseteq 1..Len(family)
    BY <1>1 DEF TypeOK, Tokens
  <2>2. \E g \in Nat : family' = Append(family, g)
    <3>1. CASE req[w].op = "code" /\ family' = Append(family, n)
      BY <3>1, <2>1
    <3>2. CASE req[w].token \in live
               /\ family' = Append(family, family[req[w].token])
      <4>1. \A i \in 1..Len(family) : family[i] \in Nat
        BY <2>1
      <4>2. family[req[w].token] \in Nat
        BY <3>2, <2>1, <4>1
      <4>3. QED BY <3>2, <4>2
    <3>3. QED BY <3>1, <3>2 DEF HydraIssues
  <2>3. QED BY <1>1, <2>1, <2>2
<1>4. /\ perm' = [perm EXCEPT ![w] = [key |-> req[w].key, token |-> n,
                                      revoked |-> FALSE]]
      /\ pc' = [pc EXCEPT ![w] = "put_permission"]
      /\ UNCHANGED <<req, requests, dynamo, clients>>
  BY DEF HydraIssues, Goto, token_to_permission
<1>5. TypeOK'
  <2>1. UNCHANGED <<log, indexed, held, confirmed, notified, req, requests>>
    BY <1>4 DEF dynamo, clients
  <2>2. pc' \in [Workers -> Steps]
    BY <1>4 DEF TypeOK, Steps
  <2>3. [key |-> req[w].key, token |-> n, revoked |-> FALSE] \in Permission
    BY <1>1 DEF Permission
  <2>4. perm' \in [Workers -> Permission]
    BY <1>4, <2>3 DEF TypeOK
  <2>5. /\ held' \subseteq Tokens' /\ confirmed' \subseteq Tokens'
        /\ notified' \subseteq Tokens'
    BY <1>1, <2>1 DEF TypeOK
  <2>6. /\ log' \in [Keys -> Seq(Row)] /\ indexed' \in [Keys -> Nat]
        /\ \A k \in Keys : indexed'[k] <= Len(log'[k])
        /\ req' \in [Workers -> [op : {"none", "code", "refresh", "revoke"},
                                 key : Keys \cup {NoKey}, token : Int]]
        /\ requests' \in 0..MaxRequests
    BY <2>1 DEF TypeOK
  <2>7. QED BY <1>1, <1>2, <1>3, <2>2, <2>4, <2>5, <2>6 DEF TypeOK
<1>6. \A u : (Recorded(u)' <=> Recorded(u)) /\ (Marked(u)' <=> Marked(u))
  BY <1>4, SameLogSameRecords DEF dynamo
<1>7. ~ Recorded(n)
  BY <1>1 DEF Recorded, FiledUnderItsOwner
<1>8. InHand'
  <2> SUFFICES ASSUME NEW v \in Workers
               PROVE  HandOf(v)'
    BY DEF InHand
  <2>1. CASE v = w
    <3>1. \A u \in Workers : pc[u] = "put_permission" => perm[u].token \in Tokens
      BY DEF InHand, HandOf
    <3>2. QED BY <2>1, <3>1, <1>1, <1>4, <1>6, <1>7 DEF TypeOK, HandOf
  <2>2. CASE v # w
    <3>1. HandOf(v) /\ pc'[v] = pc[v] /\ perm'[v] = perm[v] /\ req'[v] = req[v]
      BY <2>2, <1>4 DEF InHand, TypeOK
    <3>2. perm'[w].token = n
      BY <1>4 DEF TypeOK
    <3>3. \A t \in Tokens : t \notin live => t \notin live'
      BY <1>1, <1>2
    <3>4. \A u \in Workers \ {w} : pc'[u] = pc[u] /\ perm'[u] = perm[u]
      BY <1>4 DEF TypeOK
    <3>5. QED BY <3>1, <3>2, <3>3, <3>4, <1>1, <1>6 DEF HandOf
  <2>3. QED BY <2>1, <2>2
<1>9. FiledUnderItsOwner' /\ RecordedBeforeReply' /\ ConfirmedIsRevoked'
      /\ NotifiedIsRevoked'
  <2>1. UNCHANGED <<log, held, confirmed, notified>>
    BY <1>4 DEF dynamo, clients
  <2>2. FiledUnderItsOwner'
    BY <2>1, <1>1 DEF FiledUnderItsOwner
  <2>3. RecordedBeforeReply'
    BY <2>1, <1>6 DEF RecordedBeforeReply
  <2>4. \A t \in Tokens : t \notin live => t \notin live'
    BY <1>1, <1>2
  <2>5. ConfirmedIsRevoked' /\ NotifiedIsRevoked'
    BY <2>1, <2>4, <1>6 DEF ConfirmedIsRevoked, NotifiedIsRevoked, TypeOK
  <2>6. QED BY <2>2, <2>3, <2>5
<1>10. QED BY <1>5, <1>8, <1>9
(* The worker that stores is the only one with that token in hand, so the  *)
(* others' tokens stay unrecorded.                                         *)
LEMMA StorePermissionInv ==
  ASSUME IInv, NEW w \in Workers, StorePermission(w)
  PROVE  IInv'
<1> DEFINE p == perm[w]
<1> USE DEF IInv
<1>1. /\ p \in Row /\ p.token \in Tokens /\ owner[p.token] = p.key
      /\ ~ p.revoked /\ log' = write_permission(p)
      /\ pc[w] = "put_permission" /\ pc' = [pc EXCEPT ![w] = "reply_token"]
      /\ UNCHANGED <<owner, family, live, indexed, held, confirmed, notified,
                     req, perm, requests>>
  BY DEF StorePermission, Goto, InHand, HandOf, TypeOK, Permission, Row,
         hydra, clients
<1>2. /\ log' \in [Keys -> Seq(Row)]
      /\ \A k \in Keys : Len(log[k]) <= Len(log'[k])
      /\ \A k \in Keys : \A i \in 1..Len(log'[k]) :
           \/ i \in 1..Len(log[k]) /\ log'[k][i] = log[k][i]
           \/ k = p.key /\ log'[k][i] = p
      /\ \A t : Recorded(t)' <=> (Recorded(t) \/ t = p.token)
      /\ \A t : Marked(t)' <=> Marked(t)
  <2>1. log \in [Keys -> Seq(Row)]
    BY DEF TypeOK
  <2>2. QED BY <1>1, <2>1, PutRecords
<1>3. TypeOK'
  <2>1. \A k \in Keys : indexed[k] <= Len(log'[k])
    <3>1. \A k \in Keys : Len(log[k]) \in Nat /\ Len(log'[k]) \in Nat
      BY <1>2 DEF TypeOK
    <3>2. QED BY <3>1, <1>2 DEF TypeOK
  <2>2. QED BY <1>1, <1>2, <2>1 DEF TypeOK, Tokens, Steps
<1>4. InHand'
  <2> SUFFICES ASSUME NEW v \in Workers
               PROVE  HandOf(v)'
    BY DEF InHand
  <2>1. HandOf(v) /\ HandOf(w) /\ Tokens' = Tokens
    BY <1>1 DEF InHand, Tokens
  <2>2. CASE v = w
    BY <2>1, <2>2, <1>1, <1>2 DEF HandOf, TypeOK
  <2>3. CASE v # w
    <3>1. pc'[v] = pc[v]
      BY <2>3, <1>1 DEF TypeOK
    <3>2. \A u \in Workers :
            pc'[u] = "put_permission" => pc[u] = "put_permission"
      BY <1>1 DEF TypeOK
    <3>3. pc[v] = "put_permission" => perm[v].token # p.token
      BY <2>1, <2>3, <1>1 DEF HandOf
    <3>4. QED BY <2>1, <2>3, <3>1, <3>2, <3>3, <1>1, <1>2 DEF HandOf
  <2>4. QED BY <2>2, <2>3
<1>5. FiledUnderItsOwner'
  <2> SUFFICES ASSUME NEW k \in Keys, NEW i \in 1..Len(log'[k])
               PROVE  /\ log'[k][i].token \in Tokens
                      /\ owner[log'[k][i].token] = k /\ log'[k][i].key = k
    BY <1>1 DEF FiledUnderItsOwner, Tokens
  <2>1. CASE i \in 1..Len(log[k]) /\ log'[k][i] = log[k][i]
    BY <2>1 DEF FiledUnderItsOwner
  <2>2. CASE k = p.key /\ log'[k][i] = p
    BY <2>2, <1>1
  <2>3. QED BY <2>1, <2>2, <1>2
<1>6. RecordedBeforeReply' /\ ConfirmedIsRevoked' /\ NotifiedIsRevoked'
  BY <1>1, <1>2 DEF RecordedBeforeReply, ConfirmedIsRevoked, NotifiedIsRevoked
<1>7. QED BY <1>3, <1>4, <1>5, <1>6

LEMMA MarkRevokedInv ==
  ASSUME IInv, NEW w \in Workers, MarkRevoked(w)
  PROVE  IInv'
<1> DEFINE p == perm[w]
<1> USE DEF IInv
<1>1. /\ p \in Row /\ p.token \in Tokens /\ owner[p.token] = p.key
      /\ p.revoked /\ Recorded(p.token) /\ log' = write_permission(p)
      /\ pc[w] = "put_revoked" /\ pc' = [pc EXCEPT ![w] = "post_revoke"]
      /\ UNCHANGED <<owner, family, live, indexed, held, confirmed, notified,
                     req, perm, requests>>
  BY DEF MarkRevoked, Goto, InHand, HandOf, TypeOK, Permission, Row,
         hydra, clients
<1>2. /\ log' \in [Keys -> Seq(Row)]
      /\ \A k \in Keys : Len(log[k]) <= Len(log'[k])
      /\ \A k \in Keys : \A i \in 1..Len(log'[k]) :
           \/ i \in 1..Len(log[k]) /\ log'[k][i] = log[k][i]
           \/ k = p.key /\ log'[k][i] = p
      /\ \A t : Recorded(t)' <=> Recorded(t)
      /\ \A t : Marked(t)' <=> (Marked(t) \/ t = p.token)
  <2>1. log \in [Keys -> Seq(Row)]
    BY DEF TypeOK
  <2>2. QED BY <1>1, <2>1, PutRecords
<1>3. TypeOK'
  <2>1. \A k \in Keys : indexed[k] <= Len(log'[k])
    <3>1. \A k \in Keys : Len(log[k]) \in Nat /\ Len(log'[k]) \in Nat
      BY <1>2 DEF TypeOK
    <3>2. QED BY <3>1, <1>2 DEF TypeOK
  <2>2. QED BY <1>1, <1>2, <2>1 DEF TypeOK, Tokens, Steps
<1>4. InHand'
  <2> SUFFICES ASSUME NEW v \in Workers
               PROVE  HandOf(v)'
    BY DEF InHand
  <2>1. HandOf(v) /\ HandOf(w) /\ Tokens' = Tokens
    BY <1>1 DEF InHand, Tokens
  <2>2. CASE v = w
    BY <2>1, <2>2, <1>1, <1>2 DEF HandOf, TypeOK
  <2>3. CASE v # w
    <3>1. pc'[v] = pc[v]
      BY <2>3, <1>1 DEF TypeOK
    <3>2. \A u \in Workers :
            pc'[u] = "put_permission" => pc[u] = "put_permission"
      BY <1>1 DEF TypeOK
    <3>3. QED BY <2>1, <2>3, <3>1, <3>2, <1>1, <1>2 DEF HandOf
  <2>4. QED BY <2>2, <2>3
<1>5. FiledUnderItsOwner'
  <2> SUFFICES ASSUME NEW k \in Keys, NEW i \in 1..Len(log'[k])
               PROVE  /\ log'[k][i].token \in Tokens
                      /\ owner[log'[k][i].token] = k /\ log'[k][i].key = k
    BY <1>1 DEF FiledUnderItsOwner, Tokens
  <2>1. CASE i \in 1..Len(log[k]) /\ log'[k][i] = log[k][i]
    BY <2>1 DEF FiledUnderItsOwner
  <2>2. CASE k = p.key /\ log'[k][i] = p
    BY <2>2, <1>1
  <2>3. QED BY <2>1, <2>2, <1>2
<1>6. RecordedBeforeReply' /\ ConfirmedIsRevoked' /\ NotifiedIsRevoked'
  BY <1>1, <1>2 DEF RecordedBeforeReply, ConfirmedIsRevoked, NotifiedIsRevoked
<1>7. QED BY <1>3, <1>4, <1>5, <1>6

(* The items a query returns are on record for the token it asks about.    *)
LEMMA QueryReturnsRecorded ==
  ASSUME TypeOK, FiledUnderItsOwner, NEW t,
         NEW p \in get_permission_by_token(t)
  PROVE  /\ p \in Row /\ p.token = t /\ t \in Tokens /\ Recorded(t)
         /\ p.key = owner[t] /\ p.key \in Keys
<1>1. PICK k \in Keys : p \in Seen(indexed, k) /\ p.token = t
  BY DEF get_permission_by_token
<1>2. PICK i \in indexed[k]..Len(log[k]) : i > 0 /\ p = log[k][i]
  BY <1>1 DEF Seen
<1>3. i \in 1..Len(log[k]) /\ log[k] \in Seq(Row)
  BY <1>2 DEF TypeOK
<1>4. p \in Row
  BY <1>2, <1>3
<1>5. QED BY <1>1, <1>2, <1>3, <1>4 DEF FiledUnderItsOwner, Recorded
(* The steps of a revocation that read the index, or call out: the log and *)
(* the clients' knowledge change only by what is already on record.        *)
LEMMA QueryFindsInv ==
  ASSUME IInv, NEW w \in Workers, QueryFinds(w)
  PROVE  IInv'
<1> USE DEF IInv
<1>1. PICK p \in get_permission_by_token(req[w].token) :
        perm' = [perm EXCEPT ![w] = [p EXCEPT !.revoked = TRUE]]
  BY DEF QueryFinds
<1>2. /\ p \in Row /\ p.token \in Tokens /\ Recorded(p.token)
      /\ p.key = owner[p.token] /\ p.key \in Keys
  BY QueryReturnsRecorded
<1>3. /\ pc' = [pc EXCEPT ![w] = "put_revoked"]
      /\ UNCHANGED <<owner, family, live, log, indexed, held, confirmed,
                     notified, req, requests>>
  BY DEF QueryFinds, Goto, hydra, dynamo, clients
<1>4. TypeOK'
  <2>1. [p EXCEPT !.revoked = TRUE] \in Permission
    BY <1>2 DEF Row, Permission
  <2>2. QED BY <2>1, <1>1, <1>3 DEF TypeOK, Tokens, Steps
<1>5. \A u : (Recorded(u)' <=> Recorded(u)) /\ (Marked(u)' <=> Marked(u))
  BY <1>3, SameLogSameRecords
<1>6. InHand'
  <2> SUFFICES ASSUME NEW v \in Workers
               PROVE  HandOf(v)'
    BY DEF InHand
  <2>1. CASE v = w
    <3>1. /\ perm'[w].token = p.token /\ perm'[w].key = p.key
          /\ perm'[w].revoked = TRUE /\ pc'[w] = "put_revoked"
      BY <1>1, <1>2, <1>3 DEF TypeOK, Row
    <3>2. QED BY <2>1, <3>1, <1>2, <1>3, <1>5 DEF HandOf, Tokens
  <2>2. CASE v # w
    BY <2>2, <1>1, <1>3, <1>5 DEF InHand, HandOf, Tokens, TypeOK
  <2>3. QED BY <2>1, <2>2
<1>7. FiledUnderItsOwner' /\ RecordedBeforeReply' /\ ConfirmedIsRevoked'
      /\ NotifiedIsRevoked'
  BY <1>3, <1>5 DEF FiledUnderItsOwner, RecordedBeforeReply,
     ConfirmedIsRevoked, NotifiedIsRevoked, Tokens
<1>8. QED BY <1>4, <1>6, <1>7

LEMMA PostRevokeInv ==
  ASSUME IInv, NEW w \in Workers, PostRevoke(w)
  PROVE  IInv'
<1> USE DEF IInv
<1>1. /\ live' \subseteq live /\ perm[w].token \notin live'
      /\ pc[w] = "post_revoke" /\ pc' = [pc EXCEPT ![w] = "send_message"]
      /\ UNCHANGED <<owner, family, log, indexed, held, confirmed,
                     notified, req, perm, requests>>
  BY DEF PostRevoke, HydraRevokes, Goto, dynamo, clients
<1>2. TypeOK'
  BY <1>1 DEF TypeOK, Tokens, Steps
<1>3. \A u : (Recorded(u)' <=> Recorded(u)) /\ (Marked(u)' <=> Marked(u))
  BY <1>1, SameLogSameRecords
<1>4. InHand'
  BY <1>1, <1>3 DEF InHand, HandOf, Tokens, TypeOK
<1>5. FiledUnderItsOwner' /\ RecordedBeforeReply' /\ ConfirmedIsRevoked'
      /\ NotifiedIsRevoked'
  BY <1>1, <1>3 DEF FiledUnderItsOwner, RecordedBeforeReply,
     ConfirmedIsRevoked, NotifiedIsRevoked, Tokens
<1>6. QED BY <1>2, <1>4, <1>5

LEMMA SendMessageInv ==
  ASSUME IInv, NEW w \in Workers, SendMessage(w)
  PROVE  IInv'
<1> USE DEF IInv
<1>1. /\ notified' \subseteq notified \cup {perm[w].token}
      /\ pc[w] = "send_message" /\ pc' = [pc EXCEPT ![w] = "reply_success"]
      /\ UNCHANGED <<owner, family, live, log, indexed, held, confirmed,
                     req, perm, requests>>
  BY DEF SendMessage, Goto, hydra, dynamo
<1>2. /\ perm[w].token \in Tokens /\ Marked(perm[w].token)
      /\ perm[w].token \notin live
  BY <1>1 DEF InHand, HandOf
<1>3. TypeOK'
  BY <1>1, <1>2 DEF TypeOK, Tokens, Steps
<1>4. \A u : (Recorded(u)' <=> Recorded(u)) /\ (Marked(u)' <=> Marked(u))
  BY <1>1, SameLogSameRecords
<1>5. InHand'
  BY <1>1, <1>4 DEF InHand, HandOf, Tokens, TypeOK
<1>6. FiledUnderItsOwner' /\ RecordedBeforeReply' /\ ConfirmedIsRevoked'
      /\ NotifiedIsRevoked'
  BY <1>1, <1>2, <1>4 DEF FiledUnderItsOwner, RecordedBeforeReply,
     ConfirmedIsRevoked, NotifiedIsRevoked, Tokens
<1>7. QED BY <1>3, <1>5, <1>6

LEMMA IndexCatchUpInv ==
  ASSUME IInv, NEW k \in Keys, IndexCatchUp(k)
  PROVE  IInv'
<1> USE DEF IInv, IndexCatchUp
<1> USE DEF hydra, clients
<1>1. TypeOK'
  <2>1. /\ indexed' \in [Keys -> Nat]
        /\ \A j \in Keys : indexed'[j] <= Len(log[j])
    BY DEF TypeOK
  <2>2. QED BY <2>1 DEF TypeOK, Tokens
<1>2. \A u : (Recorded(u)' <=> Recorded(u)) /\ (Marked(u)' <=> Marked(u))
  BY SameLogSameRecords
<1>3. InHand'
  BY <1>2 DEF InHand, HandOf, Tokens
<1>4. FiledUnderItsOwner' /\ RecordedBeforeReply' /\ ConfirmedIsRevoked'
      /\ NotifiedIsRevoked'
  BY <1>2 DEF FiledUnderItsOwner, RecordedBeforeReply,
     ConfirmedIsRevoked, NotifiedIsRevoked, Tokens
<1>5. QED BY <1>1, <1>3, <1>4

LEMMA StutterInv == ASSUME IInv, UNCHANGED vars PROVE IInv'
<1> USE DEF IInv
<1>1. TypeOK'
  BY DEF vars, TypeOK, Tokens
<1>2. \A u : (Recorded(u)' <=> Recorded(u)) /\ (Marked(u)' <=> Marked(u))
  BY SameLogSameRecords DEF vars
<1>3. InHand'
  BY <1>2 DEF vars, InHand, HandOf, Tokens
<1>4. FiledUnderItsOwner' /\ RecordedBeforeReply'
  BY <1>2 DEF vars, FiledUnderItsOwner, RecordedBeforeReply, Tokens
<1>5. ConfirmedIsRevoked' /\ NotifiedIsRevoked'
  BY <1>2 DEF vars, ConfirmedIsRevoked, NotifiedIsRevoked
<1>6. QED BY <1>1, <1>3, <1>4, <1>5

LEMMA NextInv == ASSUME IInv, [Next]_vars PROVE IInv'
<1>1. CASE UNCHANGED vars
  BY <1>1, StutterInv
<1>2. ASSUME NEW w \in Workers,
             AskCode(w) \/ AskRefresh(w) \/ AskRevoke(w)
      PROVE  IInv'
  BY <1>2, AcceptInv
<1>3. ASSUME NEW w \in Workers, TokenStep(w)
      PROVE  IInv'
  BY <1>3, EndingsInv, HydraIssuesInv, StorePermissionInv DEF TokenStep
<1>4. ASSUME NEW w \in Workers, RevokeStep(w)
      PROVE  IInv'
  BY <1>4, EndingsInv, QueryFindsInv, MarkRevokedInv, PostRevokeInv,
     SendMessageInv DEF RevokeStep
<1>5. ASSUME NEW w \in Workers, Fail(w)
      PROVE  IInv'
  BY <1>5, EndingsInv
<1>6. ASSUME NEW k \in Keys, IndexCatchUp(k)
      PROVE  IInv'
  BY <1>6, IndexCatchUpInv
<1>7. QED BY <1>1, <1>2, <1>3, <1>4, <1>5, <1>6 DEF Next

(* The inductive invariant holds of every behaviour.                       *)
THEOREM Invariance == Spec => []IInv
<1>1. Init => IInv
  BY InitInv
<1>2. IInv /\ [Next]_vars => IInv'
  BY NextInv
<1>3. QED BY <1>1, <1>2, PTL DEF Spec
(* Type correctness.                                                       *)
THEOREM TypeCorrect == Spec => []TypeOK
<1>1. IInv => TypeOK
  BY DEF IInv
<1>2. QED BY <1>1, Invariance, PTL

(* "Token revoked" is only ever said of a dead token marked as revoked.    *)
THEOREM RevocationIsReal == Spec => []ConfirmedIsRevoked
<1>1. IInv => ConfirmedIsRevoked
  BY DEF IInv
<1>2. QED BY <1>1, Invariance, PTL

(* And so is the message to the application.                               *)
THEOREM NotificationIsReal == Spec => []NotifiedIsRevoked
<1>1. IInv => NotifiedIsRevoked
  BY DEF IInv
<1>2. QED BY <1>1, Invariance, PTL

(* What workers have in hand never goes stale in a way that matters.       *)
THEOREM HandsAgree == Spec => []InHand
<1>1. IInv => InHand
  BY DEF IInv
<1>2. QED BY <1>1, Invariance, PTL

(* Only StorePermission and MarkRevoked write to the table.                *)
LEMMA LogChanges ==
  ASSUME [Next]_vars
  PROVE  \/ UNCHANGED log
         \/ \E w \in Workers : StorePermission(w) \/ MarkRevoked(w)
BY DEF Next, vars, AskCode, AskRefresh, AskRevoke, Accept, TokenStep, RevokeStep,
       HydraRefuses, HydraIssues, ReplyToken, QueryFinds, QueryFindsNothing,
       PostRevoke, PostRevokeFails, SendMessage, ReplySuccess, Fail,
       IndexCatchUp, dynamo

(* A put replaces the item of its key and of no other.                     *)
LEMMA PutItem ==
  ASSUME NEW p \in Row, log \in [Keys -> Seq(Row)],
         log' = write_permission(p), NEW k \in Keys
  PROVE  /\ k = p.key => Item(k)' = p
         /\ k # p.key => log'[k] = log[k] /\ Item(k)' = Item(k)
<1>1. p.key \in Keys
  BY DEF Row
<1>2. log'[k] = IF k = p.key THEN Append(log[k], p) ELSE log[k]
  BY <1>1 DEF write_permission
<1>3. log[k] \in Seq(Row)
  OBVIOUS
<1>4. QED BY <1>2, <1>3 DEF Item

(* No late or repeated write of a revocation undoes one.                   *)
THEOREM RevokedUntilNewToken == Spec => UnrevokedOnlyByNewToken
<1> DEFINE A == \A k \in Keys :
                  (log[k] # <<>> /\ Item(k).revoked /\ ~ Item(k)'.revoked)
                    => ~ Recorded(Item(k)'.token)
<1>1. ASSUME IInv, [Next]_vars PROVE A
  <2> SUFFICES ASSUME NEW k \in Keys, Item(k).revoked, ~ Item(k)'.revoked
               PROVE  ~ Recorded(Item(k)'.token)
    OBVIOUS
  <2>1. CASE UNCHANGED log
    BY <2>1 DEF Item
  <2>2. ASSUME NEW w \in Workers, StorePermission(w)
        PROVE  ~ Recorded(Item(k)'.token)
    <3>1. /\ perm[w] \in Row /\ ~ Recorded(perm[w].token)
          /\ log' = write_permission(perm[w]) /\ log \in [Keys -> Seq(Row)]
      BY <1>1, <2>2 DEF IInv, InHand, HandOf, StorePermission, TypeOK,
                        Permission, Row
    <3>2. QED BY <3>1, PutItem
  <2>3. ASSUME NEW w \in Workers, MarkRevoked(w)
        PROVE  ~ Recorded(Item(k)'.token)
    <3>1. /\ perm[w] \in Row /\ perm[w].revoked
          /\ log' = write_permission(perm[w]) /\ log \in [Keys -> Seq(Row)]
      BY <1>1, <2>3 DEF IInv, InHand, HandOf, MarkRevoked, TypeOK,
                        Permission, Row
    <3>2. QED BY <3>1, PutItem
  <2>4. QED BY <1>1, <2>1, <2>2, <2>3, LogChanges
<1>2. IInv /\ [Next]_vars => [A]_vars
  BY <1>1
<1>3. QED BY <1>2, Invariance, PTL DEF Spec, UnrevokedOnlyByNewToken
============================================================================
