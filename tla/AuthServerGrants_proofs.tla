---------------------- MODULE AuthServerGrants_proofs ----------------------
(***************************************************************************)
(* How the tokens of a grant follow one another, at Hydra and in the       *)
(* table, for any number of overlapping workers, however far the index     *)
(* lags, and whichever clients refresh with a grant's tokens.              *)
(***************************************************************************)
EXTENDS AuthServer_proofs

(* How Hydra numbers grants, and what a client refreshes with.             *)
GrantInv ==
  /\ \A t \in Tokens : family[t] \in 1..t
  /\ \A u \in live : \A v \in Tokens : family[v] = family[u] => v <= u
  /\ \A w \in Workers :
       pc[w] = "post_token" /\ req[w].op = "refresh" => req[w].token \in held

(* Every step but HydraIssues only takes tokens out of use.                *)
LEMMA HydraQuiet ==
  ASSUME NEW w \in Workers,
         \/ AskCode(w) \/ AskRefresh(w) \/ AskRevoke(w) \/ Fail(w)
         \/ HydraRefuses(w) \/ StorePermission(w) \/ ReplyToken(w)
         \/ RevokeStep(w)
  PROVE  UNCHANGED <<owner, family>> /\ live' \subseteq live
         /\ held \subseteq held'
BY DEF AskCode, AskRefresh, AskRevoke, Accept, Fail, HydraRefuses,
       StorePermission, ReplyToken, RevokeStep, QueryFinds, QueryFindsNothing,
       MarkRevoked, PostRevoke, PostRevokeFails, HydraRevokes, SendMessage,
       ReplySuccess, hydra, clients

(* A worker comes to post a refresh only by accepting it from a holder.    *)
LEMMA RefreshIsHeld ==
  ASSUME TypeOK, NEW w \in Workers,
         \/ AskCode(w) \/ AskRefresh(w) \/ AskRevoke(w) \/ Fail(w)
         \/ HydraRefuses(w) \/ StorePermission(w) \/ ReplyToken(w)
         \/ RevokeStep(w),
         NEW v \in Workers, pc'[v] = "post_token", req'[v].op = "refresh"
  PROVE  \/ pc[v] = "post_token" /\ req'[v] = req[v]
         \/ req'[v].token \in held
<1>1. CASE AskCode(w) \/ AskRevoke(w)
  <2>1. PICK op, k, t, step : /\ Accept(w, op, k, t, step)
                              /\ op \in {"code", "revoke"}
    BY <1>1 DEF AskCode, AskRevoke
  <2>2. /\ req' = [req EXCEPT ![w] = [op |-> op, key |-> k, token |-> t]]
        /\ pc' = [pc EXCEPT ![w] = step]
        /\ op # "refresh"
    BY <2>1 DEF Accept
  <2>3. v # w
    <3>1. v = w => req'[v].op = op
      BY <2>2 DEF TypeOK
    <3>2. QED BY <3>1, <2>2
  <2>4. QED BY <2>2, <2>3 DEF TypeOK
<1>2. CASE AskRefresh(w)
  <2>1. PICK t \in held, k \in Keys : Accept(w, "refresh", k, t, "post_token")
    BY <1>2 DEF AskRefresh
  <2>2. /\ req' = [req EXCEPT ![w] =
                     [op |-> "refresh", key |-> k, token |-> t]]
        /\ pc' = [pc EXCEPT ![w] = "post_token"]
    BY <2>1 DEF Accept
  <2>3. CASE v = w
    <3>1. req'[v] = [op |-> "refresh", key |-> k, token |-> t]
      BY <2>2, <2>3 DEF TypeOK
    <3>2. QED BY <2>1, <3>1
  <2>4. CASE v # w
    BY <2>2, <2>4 DEF TypeOK
  <2>5. QED BY <2>3, <2>4
<1>3. CASE Fail(w) \/ HydraRefuses(w) \/ StorePermission(w) \/ ReplyToken(w)
  BY <1>3 DEF TypeOK, Fail, HydraRefuses, StorePermission, ReplyToken,
     Finish, Goto
<1>4. CASE RevokeStep(w)
  BY <1>4 DEF TypeOK, RevokeStep, QueryFinds, QueryFindsNothing, MarkRevoked,
     PostRevoke, PostRevokeFails, SendMessage, ReplySuccess, Finish, Goto
<1>5. QED BY <1>1, <1>2, <1>3, <1>4

(* What Hydra issues, spelled out.                                         *)
LEMMA IssuedToken ==
  ASSUME IInv, NEW w \in Workers, HydraIssues(w)
  PROVE  LET n == Len(owner) + 1 IN
         /\ n \in Nat /\ n \notin Tokens /\ Tokens' = Tokens \cup {n}
         /\ \A t \in Tokens : t < n
         /\ \A t \in Tokens : owner'[t] = owner[t] /\ family'[t] = family[t]
         /\ owner'[n] = req[w].key
         /\ \/ req[w].op = "code" /\ family'[n] = n /\ live' = live \cup {n}
            \/ /\ req[w].op = "refresh" /\ req[w].token \in live
               /\ family'[n] = family[req[w].token]
               /\ live' = (live \ {req[w].token}) \cup {n}
<1> DEFINE n == Len(owner) + 1
<1>1. /\ owner \in Seq(Keys) /\ family \in Seq(Nat)
      /\ Len(family) = Len(owner) /\ Len(owner) \in Nat
      /\ req[w].key \in Keys /\ live \subseteq 1..Len(family)
  BY DEF IInv, TypeOK, Tokens, InHand, HandOf, HydraIssues
<1>2. /\ n \in Nat /\ n \notin Tokens /\ Tokens' = Tokens \cup {n}
      /\ \A t \in Tokens : t < n /\ owner'[t] = owner[t]
      /\ owner'[n] = req[w].key
  BY <1>1 DEF HydraIssues, Tokens
<1>3. CASE req[w].op = "code" /\ family' = Append(family, n)
           /\ live' = live \cup {n}
  BY <1>1, <1>2, <1>3 DEF Tokens
<1>4. CASE /\ req[w].op = "refresh" /\ req[w].token \in live
           /\ family' = Append(family, family[req[w].token])
           /\ live' = (live \ {req[w].token}) \cup {n}
  <2>1. \A i \in 1..Len(family) : family[i] \in Nat
    BY <1>1
  <2>2. family[req[w].token] \in Nat
    BY <2>1, <1>1, <1>4
  <2>3. QED BY <1>1, <1>2, <1>4, <2>2 DEF Tokens
<1>5. QED BY <1>3, <1>4 DEF HydraIssues

LEMMA GrantNext ==
  ASSUME IInv, GrantInv, [Next]_vars
  PROVE  GrantInv'
<1>1. CASE UNCHANGED vars \/ \E k \in Keys : IndexCatchUp(k)
  BY <1>1 DEF vars, IndexCatchUp, hydra, clients, GrantInv, Tokens
<1>2. ASSUME NEW w \in Workers,
             \/ AskCode(w) \/ AskRefresh(w) \/ AskRevoke(w) \/ Fail(w)
             \/ HydraRefuses(w) \/ StorePermission(w) \/ ReplyToken(w)
             \/ RevokeStep(w)
      PROVE  GrantInv'
  <2>1. UNCHANGED <<owner, family>> /\ live' \subseteq live
        /\ held \subseteq held'
    BY <1>2, HydraQuiet
  <2>2. ASSUME NEW v \in Workers, pc'[v] = "post_token",
               req'[v].op = "refresh"
        PROVE  req'[v].token \in held'
    <3>1. \/ pc[v] = "post_token" /\ req'[v] = req[v]
          \/ req'[v].token \in held
      BY <1>2, <2>2, RefreshIsHeld DEF IInv
    <3>2. QED BY <2>1, <2>2, <3>1 DEF GrantInv
  <2>3. QED BY <2>1, <2>2 DEF GrantInv, Tokens
<1>3. ASSUME NEW w \in Workers, HydraIssues(w)
      PROVE  GrantInv'
  <2> DEFINE n == Len(owner) + 1
             r == req[w].token
  <2>1. /\ n \in Nat /\ n \notin Tokens /\ Tokens' = Tokens \cup {n}
        /\ \A t \in Tokens : t < n
        /\ \A t \in Tokens : family'[t] = family[t]
        /\ \/ req[w].op = "code" /\ family'[n] = n /\ live' = live \cup {n}
           \/ /\ req[w].op = "refresh" /\ r \in live
              /\ family'[n] = family[r] /\ live' = (live \ {r}) \cup {n}
    BY <1>3, IssuedToken
  <2>2. live \subseteq Tokens /\ Tokens \subseteq Nat /\ held \subseteq Tokens
    BY DEF IInv, TypeOK, Tokens
  <2>3. /\ \A t \in Tokens : family[t] \in 1..t
        /\ \A u \in live : \A v \in Tokens : family[v] = family[u] => v <= u
    BY DEF GrantInv
  <2>4. \A t \in Tokens' : family'[t] \in 1..t
    <3>1. \A t \in Tokens : family'[t] \in 1..t
      BY <2>1, <2>3
    <3>2. family'[n] \in 1..n
      <4>1. CASE family'[n] = n
        BY <4>1, <2>1
      <4>2. CASE r \in live /\ family'[n] = family[r]
        <5>1. r \in Tokens /\ r < n /\ r \in Nat /\ family[r] \in 1..r
          BY <4>2, <2>1, <2>2, <2>3
        <5>2. QED BY <5>1, <4>2, <2>1
      <4>3. QED BY <2>1, <4>1, <4>2
    <3>3. QED BY <2>1, <3>1, <3>2
  <2>5. ASSUME NEW u \in live', NEW v \in Tokens', family'[v] = family'[u]
        PROVE  v <= u
    <3>1. CASE u = n
      <4>1. n \in Nat /\ (v = n \/ (v \in Nat /\ v < n))
        BY <2>1, <2>2
      <4>2. QED BY <3>1, <4>1
    <3>2. CASE u # n /\ v # n
      <4>1. u \in live /\ u \in Tokens /\ v \in Tokens
        BY <3>2, <2>1, <2>2
      <4>2. family[v] = family[u]
        BY <4>1, <2>1, <2>5
      <4>3. QED BY <4>1, <4>2, <2>3
    <3>3. CASE u # n /\ v = n
      <4>1. u \in live /\ u \in Tokens /\ family'[u] = family[u]
            /\ family[u] < n /\ family[u] \in Nat
        <5>1. u \in live /\ u \in Tokens
          BY <3>3, <2>1, <2>2
        <5>2. family[u] \in 1..u /\ u < n /\ u \in Nat /\ family'[u] = family[u]
          BY <5>1, <2>1, <2>2, <2>3
        <5>3. QED BY <5>1, <5>2, <2>1
      <4>2. CASE family'[n] = n
        <5>1. family[u] = n /\ n \in Nat
          BY <4>1, <4>2, <3>3, <2>1, <2>5
        <5>2. QED BY <4>1, <5>1
      <4>3. CASE r \in live /\ family'[n] = family[r]
                 /\ live' = (live \ {r}) \cup {n}
        <5>1. family[r] = family[u] /\ r \in Tokens /\ u # r
          BY <4>1, <4>3, <3>3, <2>2, <2>5
        <5>2. r <= u /\ u <= r
          BY <5>1, <4>1, <4>3, <2>3
        <5>3. r \in Nat /\ u \in Nat
          BY <5>1, <4>1, <2>2
        <5>4. r = u
          BY <5>2, <5>3
        <5>5. QED BY <5>1, <5>4
      <4>4. QED BY <2>1, <4>2, <4>3
    <3>4. QED BY <3>1, <3>2, <3>3
  <2>6. \A v \in Workers : pc'[v] = "post_token" =>
          pc[v] = "post_token" /\ req'[v] = req[v] /\ held' = held
    BY <1>3 DEF HydraIssues, Goto, IInv, TypeOK, clients
  <2>7. \A v \in Workers :
          pc'[v] = "post_token" /\ req'[v].op = "refresh" =>
            req'[v].token \in held'
    BY <2>6 DEF GrantInv
  <2>8. QED BY <2>4, <2>5, <2>7 DEF GrantInv
<1>4. QED
  BY <1>1, <1>2, <1>3 DEF Next, TokenStep

(* A permission about to be stored is of the newest token of its grant, so *)
(* it is newer than all those on record.                                   *)
PendingIsNewest ==
  \A w \in Workers : pc[w] = "put_permission" =>
    \A v \in Tokens : family[v] = family[perm[w].token] => v <= perm[w].token

OrderInv == GrantInv /\ PendingIsNewest /\ GrantGoesForward

LEMMA OrderInit == Init => OrderInv
BY DEF Init, OrderInv, GrantInv, PendingIsNewest, GrantGoesForward, Tokens

(* Only what Hydra has just issued comes to be stored.                     *)
LEMMA PendingIsIssued ==
  ASSUME TypeOK, NEW w \in Workers,
         \/ AskCode(w) \/ AskRefresh(w) \/ AskRevoke(w) \/ Fail(w)
         \/ HydraRefuses(w) \/ StorePermission(w) \/ ReplyToken(w)
         \/ RevokeStep(w),
         NEW v \in Workers, pc'[v] = "put_permission"
  PROVE  pc[v] = "put_permission" /\ perm'[v] = perm[v]
<1>1. CASE AskCode(w) \/ AskRefresh(w) \/ AskRevoke(w)
  BY <1>1 DEF AskCode, AskRefresh, AskRevoke, Accept, TypeOK
<1>2. CASE Fail(w) \/ HydraRefuses(w) \/ StorePermission(w) \/ ReplyToken(w)
  BY <1>2 DEF TypeOK, Fail, HydraRefuses, StorePermission, ReplyToken,
     Finish, Goto
<1>3. CASE RevokeStep(w)
  BY <1>3 DEF TypeOK, RevokeStep, QueryFinds, QueryFindsNothing, MarkRevoked,
     PostRevoke, PostRevokeFails, SendMessage, ReplySuccess, Finish, Goto
<1>4. QED BY <1>1, <1>2, <1>3

(* A grant goes on only from a token its client holds, which is on record, *)
(* and which is its newest: no other token of it can be waiting to be      *)
(* stored at that moment.                                                  *)
LEMMA PendingNext ==
  ASSUME IInv, OrderInv, [Next]_vars
  PROVE  PendingIsNewest'
<1>1. CASE UNCHANGED vars \/ \E k \in Keys : IndexCatchUp(k)
  BY <1>1 DEF vars, IndexCatchUp, hydra, OrderInv, PendingIsNewest, Tokens
<1>2. ASSUME NEW w \in Workers,
             \/ AskCode(w) \/ AskRefresh(w) \/ AskRevoke(w) \/ Fail(w)
             \/ HydraRefuses(w) \/ StorePermission(w) \/ ReplyToken(w)
             \/ RevokeStep(w)
      PROVE  PendingIsNewest'
  <2>1. UNCHANGED <<owner, family>>
    BY <1>2, HydraQuiet
  <2>2. \A v \in Workers : pc'[v] = "put_permission" =>
          pc[v] = "put_permission" /\ perm'[v] = perm[v]
    BY <1>2, PendingIsIssued DEF IInv
  <2>3. QED BY <2>1, <2>2 DEF OrderInv, PendingIsNewest, Tokens
<1>3. ASSUME NEW w \in Workers, HydraIssues(w)
      PROVE  PendingIsNewest'
  <2> DEFINE n == Len(owner) + 1
             r == req[w].token
  <2>1. /\ n \in Nat /\ n \notin Tokens /\ Tokens' = Tokens \cup {n}
        /\ \A t \in Tokens : t < n /\ family'[t] = family[t]
        /\ \/ family'[n] = n
           \/ /\ req[w].op = "refresh" /\ r \in live
              /\ family'[n] = family[r]
    BY <1>3, IssuedToken
  <2>2. /\ pc[w] = "post_token" /\ perm'[w].token = n
        /\ \A v \in Workers \ {w} : pc'[v] = pc[v] /\ perm'[v] = perm[v]
    BY <1>3 DEF HydraIssues, Goto, token_to_permission, IInv, TypeOK
  <2>3. Tokens \subseteq Nat /\ live \subseteq Tokens
    BY DEF IInv, TypeOK, Tokens
  <2>4. \A v \in Tokens' : v <= n
    BY <2>1, <2>3
  <2>5. ASSUME NEW v \in Workers \ {w}, pc[v] = "put_permission"
        PROVE  family'[n] # family[perm[v].token]
    <3> DEFINE p == perm[v].token
    <3>1. p \in Tokens /\ ~ Recorded(p)
      BY <2>5 DEF IInv, InHand, HandOf
    <3>2. CASE family'[n] = n
      <4>1. family[p] \in 1..p /\ p < n /\ p \in Nat
        BY <2>1, <2>3, <3>1 DEF OrderInv, GrantInv
      <4>2. QED BY <2>1, <3>2, <4>1
    <3>3. CASE req[w].op = "refresh" /\ r \in live /\ family'[n] = family[r]
      <4>1. r \in held /\ Recorded(r) /\ r \in Tokens
        BY <2>2, <2>3, <3>3 DEF OrderInv, GrantInv, IInv, RecordedBeforeReply
      <4>2. ASSUME family[r] = family[p] PROVE FALSE
        <5>1. p <= r
          BY <3>1, <3>3, <4>2 DEF OrderInv, GrantInv
        <5>2. r <= p
          BY <2>5, <4>1, <4>2 DEF OrderInv, PendingIsNewest
        <5>3. r \in Nat /\ p \in Nat
          BY <2>3, <3>1, <4>1
        <5>4. r = p
          BY <5>1, <5>2, <5>3
        <5>5. QED BY <3>1, <4>1, <5>4
      <4>3. QED BY <3>3, <4>2
    <3>4. QED BY <2>1, <3>2, <3>3
  <2>6. ASSUME NEW v \in Workers, pc'[v] = "put_permission",
               NEW u \in Tokens', family'[u] = family'[perm'[v].token]
        PROVE  u <= perm'[v].token
    <3>1. CASE v = w
      BY <2>2, <2>4, <3>1
    <3>2. CASE v # w
      <4>1. /\ pc[v] = "put_permission" /\ perm'[v] = perm[v]
            /\ perm[v].token \in Tokens
        BY <2>2, <2>6, <3>2 DEF IInv, InHand, HandOf
      <4>2. family'[perm[v].token] = family[perm[v].token]
        BY <2>1, <4>1
      <4>3. u # n
        BY <2>5, <2>6, <3>2, <4>1, <4>2
      <4>4. u \in Tokens /\ family[u] = family[perm[v].token]
        BY <2>1, <2>6, <4>1, <4>2, <4>3
      <4>5. QED BY <4>1, <4>4 DEF OrderInv, PendingIsNewest
    <3>3. QED BY <3>1, <3>2
  <2>7. QED BY <2>6 DEF PendingIsNewest
<1>4. QED
  BY <1>1, <1>2, <1>3 DEF Next, TokenStep

(* One more item that is revoked, or whose token is newer than those of    *)
(* its grant on record.                                                    *)
LEMMA PutForward ==
  ASSUME IInv, GrantGoesForward, UNCHANGED family,
         NEW p \in Row, log' = write_permission(p),
         \/ p.revoked
         \/ \A i \in 1..Len(log[p.key]) :
              family[log[p.key][i].token] = family[p.token]
                => log[p.key][i].token < p.token
  PROVE  GrantGoesForward'
<1> SUFFICES ASSUME NEW k \in Keys, NEW j \in 1..Len(log'[k]),
                    NEW i \in 1..j-1, ~ log'[k][j].revoked,
                    family[log'[k][i].token] = family[log'[k][j].token]
             PROVE  log'[k][i].token < log'[k][j].token
  BY DEF GrantGoesForward
<1>1. /\ log[k] \in Seq(Row) /\ Len(log[k]) \in Nat /\ p.key \in Keys
      /\ log'[k] = IF k = p.key THEN Append(log[k], p) ELSE log[k]
  <2>1. log \in [Keys -> Seq(Row)] /\ p.key \in Keys
    BY DEF IInv, TypeOK, Row
  <2>2. log'[k] = IF k = p.key THEN Append(log[k], p) ELSE log[k]
    BY <2>1 DEF write_permission
  <2>3. QED BY <2>1, <2>2
<1>2. CASE j \in 1..Len(log[k])
  <2>1. /\ i \in 1..Len(log[k]) /\ log'[k][i] = log[k][i]
        /\ log'[k][j] = log[k][j]
    BY <1>1, <1>2
  <2>2. QED BY <1>2, <2>1 DEF GrantGoesForward
<1>3. CASE k = p.key /\ j = Len(log[k]) + 1
  <2>1. i \in 1..Len(log[k]) /\ log'[k][i] = log[k][i] /\ log'[k][j] = p
    BY <1>1, <1>3
  <2>2. QED BY <1>3, <2>1
<1>4. QED BY <1>1, <1>2, <1>3

LEMMA ForwardNext ==
  ASSUME IInv, OrderInv, [Next]_vars
  PROVE  GrantGoesForward'
<1>1. CASE UNCHANGED log
  <2>1. ASSUME NEW k \in Keys, NEW i \in 1..Len(log[k])
        PROVE  family'[log[k][i].token] = family[log[k][i].token]
    <3>1. log[k][i].token \in Tokens
      BY DEF IInv, FiledUnderItsOwner
    <3>2. CASE UNCHANGED family
      BY <3>2
    <3>3. CASE \E w \in Workers : HydraIssues(w)
      BY <3>1, <3>3, IssuedToken
    <3>4. QED
      BY <3>2, <3>3, HydraQuiet
         DEF Next, vars, TokenStep, IndexCatchUp, hydra
  <2>2. \A k \in Keys : Len(log[k]) \in Nat
    BY DEF IInv, TypeOK
  <2>3. QED BY <1>1, <2>1, <2>2 DEF OrderInv, GrantGoesForward
<1>2. ASSUME NEW w \in Workers, StorePermission(w)
      PROVE  GrantGoesForward'
  <2> DEFINE p == perm[w]
  <2>1. /\ p \in Row /\ ~ Recorded(p.token) /\ log' = write_permission(p)
        /\ UNCHANGED family /\ pc[w] = "put_permission" /\ p.token \in Tokens
    BY <1>2 DEF IInv, InHand, HandOf, StorePermission, TypeOK, Permission, Row,
       hydra
  <2>2. ASSUME NEW i \in 1..Len(log[p.key]),
               family[log[p.key][i].token] = family[p.token]
        PROVE  log[p.key][i].token < p.token
    <3>1. p.key \in Keys
      BY <2>1 DEF Row
    <3>2. log[p.key][i].token \in Tokens
      BY <3>1 DEF IInv, FiledUnderItsOwner
    <3>3. log[p.key][i].token <= p.token
      BY <2>1, <2>2, <3>2 DEF OrderInv, PendingIsNewest
    <3>4. log[p.key][i].token # p.token
      BY <2>1, <3>1 DEF Recorded
    <3>5. log[p.key][i].token \in Nat /\ p.token \in Nat
      BY <2>1, <3>2 DEF Tokens
    <3>6. QED BY <3>3, <3>4, <3>5
  <2>3. QED BY <2>1, <2>2, PutForward DEF OrderInv
<1>3. ASSUME NEW w \in Workers, MarkRevoked(w)
      PROVE  GrantGoesForward'
  <2>1. /\ perm[w] \in Row /\ perm[w].revoked /\ UNCHANGED family
        /\ log' = write_permission(perm[w])
    BY <1>3 DEF IInv, InHand, HandOf, MarkRevoked, TypeOK, Permission, Row,
       hydra
  <2>2. QED BY <2>1, PutForward DEF OrderInv
<1>4. QED BY <1>1, <1>2, <1>3, LogChanges

(* What holds of grants for any number of overlapping workers and however  *)
(* far the index lags.                                                     *)
THEOREM OrderInvariance == Spec => [](IInv /\ OrderInv)
<1>1. Init => OrderInv
  BY OrderInit
<1>2. IInv /\ OrderInv /\ [Next]_vars => OrderInv'
  BY GrantNext, PendingNext, ForwardNext DEF OrderInv
<1>3. QED BY <1>1, <1>2, Invariance, PTL DEF Spec

(* No handler that comes late undoes a revocation or brings an older       *)
(* permission of a grant back into use.                                    *)
THEOREM GrantsGoForward == Spec => []GrantGoesForward
<1>1. OrderInv => GrantGoesForward
  BY DEF OrderInv
<1>2. QED BY <1>1, OrderInvariance, PTL

(* The table keeps an item for every token in a client's hands, and no     *)
(* item of the grant from before it in force: the item that was put for    *)
(* the token is its key's last, or those put after it are revoked, of      *)
(* another grant or of newer tokens.                                       *)
THEOREM HeldTokensHaveRows == Spec => []RowOfHeldToken
<1>1. ASSUME IInv, OrderInv PROVE RowOfHeldToken
  <2> SUFFICES ASSUME NEW t \in held
               PROVE  /\ log[owner[t]] # <<>>
                      /\ LET p == Item(owner[t]) IN
                           ~ p.revoked /\ family[p.token] = family[t]
                             => p.token >= t
    BY DEF RowOfHeldToken
  <2> DEFINE k == owner[t]
             n == Len(log[k])
  <2>1. PICK m \in Keys : \E i \in 1..Len(log[m]) : log[m][i].token = t
    BY <1>1 DEF IInv, RecordedBeforeReply, Recorded
  <2>2. PICK i \in 1..Len(log[m]) : log[m][i].token = t
    BY <2>1
  <2>3. m = k
    BY <1>1, <2>2 DEF IInv, FiledUnderItsOwner
  <2>4. /\ n \in Nat /\ n \in 1..n /\ i \in 1..n /\ log[k] # <<>>
        /\ Item(k) = log[k][n]
    BY <1>1, <2>2, <2>3 DEF IInv, TypeOK, Item
  <2>5. Item(k).token \in Nat /\ t \in Nat
    <3>1. Item(k).token \in Tokens /\ t \in Tokens
      BY <1>1, <2>3, <2>4 DEF IInv, FiledUnderItsOwner, TypeOK
    <3>2. QED BY <3>1 DEF Tokens
  <2>6. CASE i = n
    BY <2>2, <2>3, <2>4, <2>5, <2>6
  <2>7. CASE i # n
    <3>1. i \in 1..n-1
      BY <2>4, <2>7
    <3>2. ~ Item(k).revoked /\ family[t] = family[Item(k).token]
            => t < Item(k).token
      BY <1>1, <2>2, <2>3, <2>4, <3>1 DEF OrderInv, GrantGoesForward
    <3>3. QED BY <2>4, <2>5, <3>2
  <2>8. QED BY <2>6, <2>7
<1>2. QED BY <1>1, OrderInvariance, PTL

(* What a confirmed or announced revocation guarantees when requests       *)
(* overlap: all that can still work of its grant is one newer token.       *)
THEOREM RevocationLeavesNewer == Spec => []OnlyNewerTokenWorks
<1>1. ASSUME IInv, OrderInv PROVE OnlyNewerTokenWorks
  <2> SUFFICES ASSUME NEW t \in confirmed \cup notified,
                      NEW u \in live, NEW v \in live,
                      family[u] = family[t], family[v] = family[t]
               PROVE  u = v /\ t < u
    BY DEF OnlyNewerTokenWorks
  <2>1. /\ t \in Tokens /\ u \in Tokens /\ v \in Tokens /\ t \notin live
        /\ Tokens \subseteq Nat
    <3>1. t \notin live
      BY <1>1 DEF IInv, ConfirmedIsRevoked, NotifiedIsRevoked
    <3>2. t \in Tokens /\ u \in Tokens /\ v \in Tokens
      BY <1>1 DEF IInv, TypeOK
    <3>3. QED BY <3>1, <3>2 DEF Tokens
  <2>2. t <= u /\ v <= u /\ u <= v
    BY <1>1, <2>1 DEF OrderInv, GrantInv
  <2>3. t # u
    BY <2>1
  <2>4. t \in Nat /\ u \in Nat /\ v \in Nat
    BY <2>1
  <2>5. QED BY <2>2, <2>3, <2>4
<1>2. QED BY <1>1, OrderInvariance, PTL

(* A grant whose newest token was revoked: nothing of it can work, and the *)
(* item of the table that marks the token is followed only by newer ones.  *)
LEMMA NewestEndsGrant ==
  ASSUME IInv, OrderInv, NEW t \in confirmed \cup notified, NewestOfGrant(t)
  PROVE  GrantOver(t)
<1>1. t \in Tokens /\ t \notin live /\ Marked(t) /\ Tokens \subseteq Nat
  <2>1. t \in Tokens
    BY DEF IInv, TypeOK
  <2>2. t \notin live /\ Marked(t)
    BY DEF IInv, ConfirmedIsRevoked, NotifiedIsRevoked
  <2>3. QED BY <2>1, <2>2 DEF Tokens
<1>2. ASSUME NEW u \in live, family[u] = family[t] PROVE FALSE
  <2>1. u \in Tokens
    BY DEF IInv, TypeOK
  <2>2. t <= u /\ u <= t
    BY <1>1, <1>2, <2>1 DEF OrderInv, GrantInv, NewestOfGrant
  <2>3. t \in Nat /\ u \in Nat
    BY <1>1, <2>1
  <2>4. t = u
    BY <2>2, <2>3
  <2>5. QED BY <1>1, <2>4
<1>3. ASSUME family[Item(owner[t]).token] = family[t], ~ Item(owner[t]).revoked
      PROVE  FALSE
  <2> DEFINE k == owner[t]
             n == Len(log[k])
  <2>1. PICK m \in Keys : \E i \in 1..Len(log[m]) :
          log[m][i].token = t /\ log[m][i].revoked
    BY <1>1 DEF Marked
  <2>2. PICK i \in 1..Len(log[m]) : log[m][i].token = t /\ log[m][i].revoked
    BY <2>1
  <2>3. m = k
    BY <2>2 DEF IInv, FiledUnderItsOwner
  <2>4. n \in Nat /\ n \in 1..n /\ Item(k) = log[k][n]
    BY <2>2, <2>3 DEF IInv, TypeOK, Item
  <2>5. Item(k).token \in Tokens
    BY <2>3, <2>4 DEF IInv, FiledUnderItsOwner
  <2>6. i # n
    BY <1>3, <2>2, <2>3, <2>4
  <2>7. i \in 1..n-1
    BY <2>2, <2>3, <2>4, <2>6
  <2>8. t < Item(k).token
    BY <1>3, <2>2, <2>3, <2>4, <2>7 DEF OrderInv, GrantGoesForward
  <2>9. Item(k).token <= t
    BY <1>3, <2>5 DEF NewestOfGrant
  <2>10. Item(k).token \in Nat /\ t \in Nat
    BY <1>1, <2>5
  <2>11. QED BY <2>8, <2>9, <2>10
<1>4. QED BY <1>2, <1>3 DEF GrantOver

(* Revoking the newest token of a grant ends it, whatever else runs.       *)
THEOREM NewestRevocationIsFull == Spec => []RevokingNewestEndsGrant
<1>1. IInv /\ OrderInv => RevokingNewestEndsGrant
  BY NewestEndsGrant DEF RevokingNewestEndsGrant
<1>2. QED BY <1>1, OrderInvariance, PTL

(* A grant that is over gets no new token, and what a client was told      *)
(* stays told.                                                             *)
LEMMA NewestStays ==
  ASSUME IInv, OrderInv, [Next]_vars,
         NEW t \in confirmed \cup notified, NewestOfGrant(t)
  PROVE  t \in (confirmed \cup notified)' /\ NewestOfGrant(t)'
<1>1. t \in (confirmed \cup notified)'
  BY DEF Next, vars, AskCode, AskRefresh, AskRevoke, Accept, TokenStep,
     RevokeStep, HydraRefuses, HydraIssues, StorePermission, ReplyToken,
     QueryFinds, QueryFindsNothing, MarkRevoked, PostRevoke, PostRevokeFails,
     SendMessage, ReplySuccess, Fail, IndexCatchUp, clients
<1>2. t \in Tokens /\ \A u \in live : family[u] # family[t]
  BY NewestEndsGrant DEF IInv, TypeOK, GrantOver
<1>3. CASE UNCHANGED <<owner, family>>
  BY <1>1, <1>3 DEF NewestOfGrant, Tokens
<1>4. ASSUME NEW w \in Workers, HydraIssues(w)
      PROVE  NewestOfGrant(t)'
  <2> DEFINE n == Len(owner) + 1
             r == req[w].token
  <2>1. /\ n \in Nat /\ Tokens' = Tokens \cup {n}
        /\ \A u \in Tokens : u < n /\ family'[u] = family[u]
        /\ family'[n] = n \/ (r \in live /\ family'[n] = family[r])
    BY <1>4, IssuedToken
  <2>2. family[t] \in 1..t /\ t < n /\ t \in Nat
    BY <1>2, <2>1 DEF OrderInv, GrantInv, Tokens
  <2>3. family'[n] # family'[t]
    BY <1>2, <2>1, <2>2
  <2>4. QED BY <1>2, <2>1, <2>3 DEF NewestOfGrant
<1>5. UNCHANGED <<owner, family>> \/ \E w \in Workers : HydraIssues(w)
  <2>1. CASE UNCHANGED vars \/ \E k \in Keys : IndexCatchUp(k)
    BY <2>1 DEF vars, IndexCatchUp, hydra
  <2>2. ASSUME NEW w \in Workers,
               \/ AskCode(w) \/ AskRefresh(w) \/ AskRevoke(w) \/ Fail(w)
               \/ HydraRefuses(w) \/ StorePermission(w) \/ ReplyToken(w)
               \/ RevokeStep(w)
        PROVE  UNCHANGED <<owner, family>>
    BY <2>2, HydraQuiet
  <2>3. QED BY <2>1, <2>2 DEF Next, TokenStep
<1>6. QED BY <1>1, <1>3, <1>4, <1>5

(* And it is over for good: whatever workers, Hydra and the index do from  *)
(* then on, no token of the grant works again and the table's item for the *)
(* account and client the token was issued to never says again that the    *)
(* grant is not revoked.                                                   *)
THEOREM GrantOverForGood ==
  ASSUME NEW t
  PROVE  Spec => []( (t \in confirmed \cup notified /\ NewestOfGrant(t))
                       => []GrantOver(t) )
<1> DEFINE R == t \in confirmed \cup notified /\ NewestOfGrant(t)
           G == GrantOver(t)
<1>1. IInv /\ OrderInv => (R => G)
  BY NewestEndsGrant
<1>2. IInv /\ OrderInv /\ [Next]_vars => (R => R')
  BY NewestStays
<1> HIDE DEF R, G
<1>3. Spec => [](R => []G)
  BY <1>1, <1>2, OrderInvariance, PTL DEF Spec
<1>4. QED BY <1>3 DEF R, G
============================================================================
