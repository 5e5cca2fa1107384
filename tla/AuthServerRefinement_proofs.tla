-------------------- MODULE AuthServerRefinement_proofs --------------------
(***************************************************************************)
(* The refinements around the authorisation server.                        *)
(*                                                                         *)
(* Upwards: it implements the permission ledger.  Every step of a handler, *)
(* of Hydra or of DynamoDB is one step of the ledger or leaves the ledger  *)
(* as it is; the refinement mapping reads the ledger's records off the     *)
(* items put in the table: one more item is one more record, one more      *)
(* mark, or a record marked again.                                         *)
(*                                                                         *)
(* Downwards: with the permissions endpoint and the evidence page          *)
(* (PermissionReads) it is still AuthServer, so what holds of the table    *)
(* says what these two may show.                                           *)
(***************************************************************************)
EXTENDS AuthServerGrants_proofs, PermissionReads

LEMMA LedgerInit == Init => Ledger!Init
BY DEF Init, Ledger!Init, TokensFiled, TokensMarked

(* A token on record is filed under its own key, marked or not.            *)
LEMMA FiledByKey ==
  ASSUME IInv, NEW t
  PROVE  /\ Recorded(t) => t \in TokensFiled[owner[t]] /\ owner[t] \in Keys
         /\ Marked(t) => t \in TokensMarked[owner[t]] /\ owner[t] \in Keys
BY DEF IInv, FiledUnderItsOwner, Recorded, Marked, TokensFiled, TokensMarked

LEMMA FiledIsRecorded ==
  ASSUME NEW k \in Keys, NEW t, t \in TokensFiled[k]
  PROVE  Recorded(t)
BY DEF Recorded, TokensFiled

(* What the ledger records changes only with the log.                      *)
LEMMA SameLogSameFiles ==
  ASSUME UNCHANGED log
  PROVE  UNCHANGED <<TokensFiled, TokensMarked>>
BY DEF TokensFiled, TokensMarked

(* One more item is one more token on record, and marked if it is revoked. *)
LEMMA PutFiles ==
  ASSUME NEW p \in Row, log \in [Keys -> Seq(Row)],
         log' = write_permission(p)
  PROVE  \A k \in Keys :
           /\ TokensFiled[k]' =
                IF k = p.key THEN TokensFiled[k] \cup {p.token}
                             ELSE TokensFiled[k]
           /\ TokensMarked[k]' =
                IF k = p.key /\ p.revoked THEN TokensMarked[k] \cup {p.token}
                                          ELSE TokensMarked[k]
<1> TAKE k \in Keys
<1>1. p.key \in Keys /\ p.revoked \in BOOLEAN
  BY DEF Row
<1>2. log[k] \in Seq(Row) /\ Len(log[k]) \in Nat
  OBVIOUS
<1>3. log'[k] = IF k = p.key THEN Append(log[k], p) ELSE log[k]
  BY <1>1 DEF write_permission
<1>4. CASE k # p.key
  BY <1>3, <1>4 DEF TokensFiled, TokensMarked
<1>5. CASE k = p.key
  <2>1. /\ Len(log'[k]) = Len(log[k]) + 1
        /\ \A i \in 1..Len(log[k]) : log'[k][i] = log[k][i]
        /\ log'[k][Len(log[k]) + 1] = p
    BY <1>2, <1>3, <1>5
  <2>2. 1..Len(log'[k]) = (1..Len(log[k])) \cup {Len(log[k]) + 1}
    BY <1>2, <2>1
  <2>3. TokensFiled[k]' = TokensFiled[k] \cup {p.token}
    BY <2>1, <2>2 DEF TokensFiled
  <2>4. {j \in 1..Len(log'[k]) : log'[k][j].revoked} =
          {j \in 1..Len(log[k]) : log[k][j].revoked}
            \cup (IF p.revoked THEN {Len(log[k]) + 1} ELSE {})
    BY <2>1, <2>2
  <2>5. TokensMarked[k]' =
          TokensMarked[k] \cup (IF p.revoked THEN {p.token} ELSE {})
    <3> DEFINE old == {j \in 1..Len(log[k]) : log[k][j].revoked}
               new == {j \in 1..Len(log'[k]) : log'[k][j].revoked}
    <3>1. /\ TokensMarked[k]' = {log'[k][i].token : i \in new}
          /\ TokensMarked[k] = {log[k][i].token : i \in old}
      BY DEF TokensMarked
    <3>2. \A i \in old : log'[k][i].token = log[k][i].token
      BY <2>1
    <3>3. {log'[k][i].token : i \in old} = {log[k][i].token : i \in old}
      BY <3>2
    <3>4. new = old \cup (IF p.revoked THEN {Len(log[k]) + 1} ELSE {})
      BY <2>4
    <3>5. log'[k][Len(log[k]) + 1].token = p.token
      BY <2>1
    <3> HIDE DEF old, new
    <3>6. QED BY <3>1, <3>3, <3>4, <3>5
  <2>6. QED BY <1>1, <1>5, <2>3, <2>5
<1>6. QED BY <1>4, <1>5

(* Steps the ledger does not see.                                          *)
LEMMA LedgerStutters ==
  ASSUME NEW w \in Workers,
         \/ AskCode(w) \/ AskRefresh(w) \/ AskRevoke(w)
         \/ QueryFinds(w) \/ QueryFindsNothing(w) \/ Fail(w)
  PROVE  UNCHANGED Ledger!ledgerVars
<1>1. UNCHANGED <<owner, live, log, held, confirmed, notified>>
  BY DEF AskCode, AskRefresh, AskRevoke, Accept, QueryFinds,
         QueryFindsNothing, Fail, hydra, dynamo, clients
<1>2. QED BY <1>1, SameLogSameFiles DEF Ledger!ledgerVars

(* Hydra taking tokens out of use, asked to or not.                        *)
LEMMA LedgerWithdraws ==
  ASSUME NEW w \in Workers,
         HydraRefuses(w) \/ PostRevoke(w) \/ PostRevokeFails(w)
  PROVE  [Ledger!Next]_Ledger!ledgerVars
<1>1. /\ live' \subseteq live
      /\ UNCHANGED <<owner, log, held, confirmed, notified>>
  BY DEF HydraRefuses, PostRevoke, PostRevokeFails, HydraRevokes, dynamo,
         clients
<1>2. live \ live' \in SUBSET live /\ live' = live \ (live \ live')
  BY <1>1
<1>3. Ledger!Withdraw(live \ live')
  BY <1>1, <1>2, SameLogSameFiles DEF Ledger!Withdraw, Ledger!records
<1>4. QED BY <1>2, <1>3 DEF Ledger!Next

LEMMA LedgerIssues ==
  ASSUME IInv, NEW w \in Workers, HydraIssues(w)
  PROVE  Ledger!Next
<1>1. req[w].key \in Keys
  BY DEF HydraIssues, IInv, InHand, HandOf
<1>2. PICK replaced \in SUBSET live :
        live' = (live \ replaced) \cup {Len(owner) + 1}
  <2>1. CASE live' = live \cup {Len(owner) + 1}
    <3>1. live' = (live \ {}) \cup {Len(owner) + 1} /\ {} \in SUBSET live
      BY <2>1
    <3>2. QED BY <3>1
  <2>2. CASE /\ req[w].token \in live
             /\ live' = (live \ {req[w].token}) \cup {Len(owner) + 1}
    <3>1. {req[w].token} \in SUBSET live
      BY <2>2
    <3>2. QED BY <2>2, <3>1
  <2>3. QED BY <2>1, <2>2 DEF HydraIssues
<1>3. Ledger!Issue(req[w].key, replaced)
  <2>1. UNCHANGED <<log, held, confirmed, notified>>
    BY DEF HydraIssues, dynamo, clients
  <2>2. QED
    BY <1>2, <2>1, SameLogSameFiles DEF HydraIssues, Ledger!Issue,
       Ledger!records
<1>4. QED BY <1>1, <1>2, <1>3 DEF Ledger!Next

LEMMA LedgerWrites ==
  ASSUME IInv, NEW w \in Workers, StorePermission(w) \/ MarkRevoked(w)
  PROVE  Ledger!Next
<1> DEFINE p == perm[w]
<1>1. /\ p \in Row /\ p.token \in 1..Len(owner) /\ owner[p.token] = p.key
      /\ log' = write_permission(p)
      /\ UNCHANGED <<owner, live, held, confirmed, notified>>
  BY DEF StorePermission, MarkRevoked, IInv, InHand, HandOf, TypeOK, Tokens,
         Permission, Row, hydra, clients
<1>2. /\ TokensFiled' = [TokensFiled EXCEPT ![owner[p.token]] = @ \cup {p.token}]
      /\ TokensMarked' = IF p.revoked
           THEN [TokensMarked EXCEPT ![owner[p.token]] = @ \cup {p.token}]
           ELSE TokensMarked
  <2>1. \A k \in Keys :
          /\ TokensFiled'[k] =
               IF k = p.key THEN TokensFiled[k] \cup {p.token} ELSE TokensFiled[k]
          /\ TokensMarked'[k] =
               IF k = p.key /\ p.revoked THEN TokensMarked[k] \cup {p.token}
                                         ELSE TokensMarked[k]
    BY <1>1, PutFiles DEF IInv, TypeOK
  <2>2. /\ TokensFiled = [k \in Keys |-> TokensFiled[k]]
        /\ TokensFiled' = [k \in Keys |-> TokensFiled'[k]]
        /\ TokensMarked = [k \in Keys |-> TokensMarked[k]]
        /\ TokensMarked' = [k \in Keys |-> TokensMarked'[k]]
    BY DEF TokensFiled, TokensMarked
  <2>3. QED BY <1>1, <2>1, <2>2 DEF Row
<1>3. CASE StorePermission(w)
  <2>1. ~ p.revoked /\ ~ Recorded(p.token)
    BY <1>3 DEF StorePermission, IInv, InHand, HandOf
  <2>2. ~ Ledger!Recorded(p.token)
    BY <1>1, <2>1, FiledIsRecorded DEF Ledger!Recorded, Row
  <2>3. Ledger!Record(p.token)
    BY <1>1, <1>2, <2>1, <2>2 DEF Ledger!Record
  <2>4. QED BY <1>1, <2>3 DEF Ledger!Next
<1>4. CASE MarkRevoked(w)
  <2>1. p.revoked /\ Recorded(p.token)
    BY <1>4 DEF MarkRevoked, IInv, InHand, HandOf
  <2>2. /\ Ledger!Recorded(p.token)
        /\ TokensFiled' = TokensFiled
    <3>1. p.token \in TokensFiled[owner[p.token]]
      BY <2>1, FiledByKey
    <3>2. TokensFiled[owner[p.token]] \cup {p.token} = TokensFiled[owner[p.token]]
      BY <3>1
    <3>3. QED BY <1>2, <3>1, <3>2 DEF Ledger!Recorded, TokensFiled
  <2>3. Ledger!Mark(p.token)
    BY <1>1, <1>2, <2>1, <2>2 DEF Ledger!Mark
  <2>4. QED BY <1>1, <2>3 DEF Ledger!Next
<1>5. QED BY <1>3, <1>4

(* What reaches a client, or is lost on the way to it.                     *)
LEMMA LedgerAnswers ==
  ASSUME IInv, NEW w \in Workers,
         ReplyToken(w) \/ SendMessage(w) \/ ReplySuccess(w)
  PROVE  [Ledger!Next]_Ledger!ledgerVars
<1> DEFINE t == perm[w].token
<1> USE DEF hydra, dynamo, IInv, InHand, HandOf, Tokens
<1>1. UNCHANGED TokensFiled /\ UNCHANGED TokensMarked
  BY SameLogSameFiles DEF ReplyToken, SendMessage, ReplySuccess
<1>2. CASE ReplyToken(w)
  <2>1. t \in 1..Len(owner) /\ Ledger!Recorded(t)
    BY <1>2, FiledByKey DEF ReplyToken, Ledger!Recorded
  <2>2. Ledger!HandOut(t) \/ UNCHANGED Ledger!ledgerVars
    BY <1>1, <1>2, <2>1
       DEF ReplyToken, Ledger!HandOut, Ledger!ledgerVars, Ledger!records
  <2>3. QED BY <2>1, <2>2 DEF Ledger!Next
<1>3. CASE SendMessage(w)
  <2>1. t \in 1..Len(owner) /\ Ledger!Revoked(t)
    BY <1>3, FiledByKey DEF SendMessage, Ledger!Revoked
  <2>2. Ledger!Notify(t) \/ UNCHANGED Ledger!ledgerVars
    BY <1>1, <1>3, <2>1
       DEF SendMessage, Ledger!Notify, Ledger!ledgerVars, Ledger!records
  <2>3. QED BY <2>1, <2>2 DEF Ledger!Next
<1>4. CASE ReplySuccess(w)
  <2>1. t \in 1..Len(owner) /\ Ledger!Revoked(t)
    BY <1>4, FiledByKey DEF ReplySuccess, Ledger!Revoked
  <2>2. Ledger!Confirm(t) \/ UNCHANGED Ledger!ledgerVars
    BY <1>1, <1>4, <2>1
       DEF ReplySuccess, Ledger!Confirm, Ledger!ledgerVars, Ledger!records
  <2>3. QED BY <2>1, <2>2 DEF Ledger!Next
<1>5. QED BY <1>2, <1>3, <1>4

LEMMA LedgerStep ==
  ASSUME IInv, [Next]_vars
  PROVE  [Ledger!Next]_Ledger!ledgerVars
<1>1. CASE UNCHANGED vars
  BY <1>1, SameLogSameFiles DEF vars, Ledger!ledgerVars
<1>2. ASSUME NEW w \in Workers,
             AskCode(w) \/ AskRefresh(w) \/ AskRevoke(w) \/ Fail(w)
      PROVE  [Ledger!Next]_Ledger!ledgerVars
  BY <1>2, LedgerStutters
<1>3. ASSUME NEW w \in Workers, TokenStep(w)
      PROVE  [Ledger!Next]_Ledger!ledgerVars
  BY <1>3, LedgerWithdraws, LedgerIssues, LedgerWrites, LedgerAnswers
     DEF TokenStep
<1>4. ASSUME NEW w \in Workers, RevokeStep(w)
      PROVE  [Ledger!Next]_Ledger!ledgerVars
  BY <1>4, LedgerStutters, LedgerWithdraws, LedgerWrites, LedgerAnswers
     DEF RevokeStep
<1>5. ASSUME NEW k \in Keys, IndexCatchUp(k)
      PROVE  UNCHANGED Ledger!ledgerVars
  BY <1>5, SameLogSameFiles DEF IndexCatchUp, hydra, clients, Ledger!ledgerVars
<1>6. QED BY <1>1, <1>2, <1>3, <1>4, <1>5 DEF Next

(* The service keeps the promises of the permission ledger.                *)
THEOREM LedgerImplemented == Spec => ImplementsLedger
<1>1. Init => Ledger!Init
  BY LedgerInit
<1>2. IInv /\ [Next]_vars => [Ledger!Next]_Ledger!ledgerVars
  BY LedgerStep
<1>3. QED
  BY <1>1, <1>2, Invariance, PTL DEF Spec, ImplementsLedger, Ledger!Spec

(***************************************************************************)
(* The endpoints that read.                                                *)
(***************************************************************************)

(* Reading disturbs nothing: whatever holds of the authorisation server    *)
(* holds of it with the two read endpoints and their indexes.              *)
THEOREM ReadsImplementAuthServer == ReadSpec => Spec
<1>1. ReadInit => Init
  BY DEF ReadInit
<1>2. [ReadNext]_readVars => [Next]_vars
  BY DEF ReadNext, readVars, EvidenceCatchUp
<1>3. QED BY <1>1, <1>2, PTL DEF ReadSpec, Spec

EvidencedOK ==
  /\ evidenced \in [Keys -> Nat]
  /\ \A k \in Keys : evidenced[k] <= Len(log[k])

ReadInv == IInv /\ OrderInv /\ EvidencedOK

(* Items are added to the table's history and stay where they are.         *)
LEMMA LogGrows ==
  ASSUME IInv, [Next]_vars, NEW k \in Keys
  PROVE  /\ Len(log[k]) <= Len(log'[k])
         /\ \A i \in 1..Len(log[k]) : log'[k][i] = log[k][i]
         /\ Len(log[k]) \in Nat /\ Len(log'[k]) \in Nat
<1>1. log[k] \in Seq(Row)
  BY DEF IInv, TypeOK
<1>2. CASE UNCHANGED log
  BY <1>1, <1>2
<1>3. ASSUME NEW w \in Workers, StorePermission(w) \/ MarkRevoked(w)
      PROVE  /\ Len(log[k]) <= Len(log'[k])
             /\ \A i \in 1..Len(log[k]) : log'[k][i] = log[k][i]
             /\ Len(log'[k]) \in Nat
  <2>1. log' = write_permission(perm[w]) /\ log \in [Keys -> Seq(Row)]
    BY <1>3 DEF StorePermission, MarkRevoked, IInv, TypeOK
  <2>2. perm[w] \in Row
    BY <1>3 DEF StorePermission, MarkRevoked, IInv, TypeOK, InHand, HandOf,
       Permission, Row
  <2>3. log'[k] = IF k = perm[w].key THEN Append(log[k], perm[w]) ELSE log[k]
    BY <2>1, <2>2 DEF write_permission, Row
  <2>4. QED BY <1>1, <2>2, <2>3
<1>4. QED BY <1>1, <1>2, <1>3, LogChanges

LEMMA ReadInvariance == ReadSpec => []ReadInv
<1>1. ReadInit => EvidencedOK
  BY DEF ReadInit, Init, EvidencedOK
<1>2. IInv /\ EvidencedOK /\ [ReadNext]_readVars => EvidencedOK'
  <2> SUFFICES ASSUME IInv, EvidencedOK, [ReadNext]_readVars
               PROVE  EvidencedOK'
    OBVIOUS
  <2>1. CASE UNCHANGED evidenced /\ [Next]_vars
    <3>1. \A k \in Keys : /\ Len(log[k]) <= Len(log'[k])
                          /\ Len(log[k]) \in Nat /\ Len(log'[k]) \in Nat
      BY <2>1, LogGrows
    <3>2. QED BY <2>1, <3>1 DEF EvidencedOK
  <2>2. ASSUME NEW k \in Keys, EvidenceCatchUp(k)
        PROVE  EvidencedOK'
    <3>1. \A j \in Keys : Len(log[j]) \in Nat
      BY DEF IInv, TypeOK
    <3>2. QED BY <2>2, <3>1 DEF EvidencedOK, EvidenceCatchUp, vars
  <2>3. QED BY <2>1, <2>2 DEF ReadNext, readVars
<1>3. QED
  BY <1>1, <1>2, ReadsImplementAuthServer, OrderInvariance, PTL
     DEF ReadSpec, ReadInv

(* Of a token whose mark every copy of an index has reached, the index     *)
(* shows no item that is not revoked: such an item would come after the    *)
(* mark and yet not be of a newer token.                                   *)
LEMMA SeenIsRevoked ==
  ASSUME IInv, GrantGoesForward,
         NEW settled \in [Keys -> Nat],
         \A k \in Keys : settled[k] <= Len(log[k]),
         NEW t, MarkReached(settled, t),
         NEW k \in Keys, NEW p \in Seen(settled, k), p.token = t
  PROVE  p.revoked
<1>0. PICK m \in Keys : \E i \in 1..settled[m] :
        log[m][i].token = t /\ log[m][i].revoked
  BY DEF MarkReached
<1>1. PICK i \in 1..settled[m] : log[m][i].token = t /\ log[m][i].revoked
  BY <1>0
<1>2. PICK j \in settled[k]..Len(log[k]) : j > 0 /\ p = log[k][j]
  BY DEF Seen
<1>3. Len(log[k]) \in Nat /\ Len(log[m]) \in Nat
  BY DEF IInv, TypeOK
<1>4. i \in 1..Len(log[m]) /\ j \in 1..Len(log[k])
  BY <1>1, <1>2, <1>3
<1>5. m = k /\ t \in Tokens
  <2>1. log[m][i].token \in Tokens /\ owner[log[m][i].token] = m
    BY <1>4 DEF IInv, FiledUnderItsOwner
  <2>2. owner[log[k][j].token] = k
    BY <1>4 DEF IInv, FiledUnderItsOwner
  <2>3. QED BY <1>1, <1>2, <2>1, <2>2
<1>6. i <= j /\ i \in Nat /\ j \in Nat
  BY <1>1, <1>2, <1>3, <1>5
<1>7. CASE i = j
  BY <1>1, <1>2, <1>5, <1>7
<1>8. CASE i # j
  <2>1. i \in 1..j-1
    BY <1>4, <1>6, <1>8
  <2>2. ~ log[k][j].revoked => t < t
    BY <1>1, <1>2, <1>4, <1>5, <2>1 DEF GrantGoesForward
  <2>3. t \in Nat
    BY <1>5 DEF Tokens
  <2>4. QED BY <1>2, <2>2, <2>3
<1>9. QED BY <1>7, <1>8

LEMMA ShownIsRevoked ==
  ASSUME ReadInv, NEW t
  PROVE  /\ MarkReached(indexed, t) => \A p \in get_permissions(t) : p.revoked
         /\ MarkReached(evidenced, t) => \A p \in evidence(t) : p.revoked
<1>1. /\ indexed \in [Keys -> Nat] /\ evidenced \in [Keys -> Nat]
      /\ \A k \in Keys : indexed[k] <= Len(log[k])
      /\ \A k \in Keys : evidenced[k] <= Len(log[k])
      /\ IInv /\ GrantGoesForward
  BY DEF ReadInv, IInv, TypeOK, OrderInv, EvidencedOK
<1>2. ASSUME MarkReached(indexed, t), NEW p \in get_permissions(t)
      PROVE  p.revoked
  <2>1. PICK k \in Keys : p \in Seen(indexed, k) /\ p.token = t
    BY DEF get_permissions, get_permission_by_token
  <2>2. QED BY <1>1, <1>2, <2>1, SeenIsRevoked
<1>3. ASSUME MarkReached(evidenced, t), NEW p \in evidence(t)
      PROVE  p.revoked
  <2>1. PICK k \in Keys : p \in Seen(evidenced, k) /\ p.token = t
    BY DEF evidence, evidenceId
  <2>2. QED BY <1>1, <1>3, <2>1, SeenIsRevoked
<1>4. QED BY <1>2, <1>3

(* Once an index has a revocation it shows nothing to the contrary.        *)
THEOREM NoUnrevokedAnswer == ReadSpec => []ShownOnceIndexed
<1>1. ReadInv => ShownOnceIndexed
  BY ShownIsRevoked DEF ShownOnceIndexed
<1>2. QED BY <1>1, ReadInvariance, PTL

(* And so for ever: the mark of a token that every copy of an index has    *)
(* reached stays reached.                                                  *)
LEMMA ReachedForGood ==
  ASSUME ReadInv, [ReadNext]_readVars, NEW t
  PROVE  /\ MarkReached(indexed, t) => MarkReached(indexed, t)'
         /\ MarkReached(evidenced, t) => MarkReached(evidenced, t)'
<1> USE DEF ReadInv, IInv
<1>1. [Next]_vars
  BY DEF ReadNext, readVars, EvidenceCatchUp
<1>2. \A k \in Keys : \A i \in 1..Len(log[k]) : log'[k][i] = log[k][i]
  BY <1>1, LogGrows
<1>3. \A k \in Keys : /\ indexed[k] \in Nat /\ indexed'[k] \in Nat
                      /\ indexed[k] <= indexed'[k]
                      /\ indexed[k] <= Len(log[k])
  <2>1. IInv'
    BY <1>1, NextInv
  <2>2. UNCHANGED indexed \/ \E k \in Keys : IndexCatchUp(k)
    BY <1>1 DEF Next, vars, AskCode, AskRefresh, AskRevoke, Accept, TokenStep,
       RevokeStep, HydraRefuses, HydraIssues, StorePermission, ReplyToken,
       QueryFinds, QueryFindsNothing, MarkRevoked, PostRevoke,
       PostRevokeFails, SendMessage, ReplySuccess, Fail, dynamo
  <2>3. /\ indexed \in [Keys -> Nat] /\ indexed' \in [Keys -> Nat]
        /\ \A k \in Keys : indexed[k] <= Len(log[k])
    BY <2>1 DEF TypeOK
  <2>4. CASE UNCHANGED indexed
    BY <2>3, <2>4
  <2>5. ASSUME NEW m \in Keys, IndexCatchUp(m)
        PROVE  \A k \in Keys : indexed[k] <= indexed'[k]
    BY <2>3, <2>5 DEF IndexCatchUp
  <2>6. QED BY <2>2, <2>3, <2>4, <2>5
<1>4. \A k \in Keys : /\ evidenced[k] \in Nat /\ evidenced'[k] \in Nat
                      /\ evidenced[k] <= evidenced'[k]
                      /\ evidenced[k] <= Len(log[k])
  BY DEF EvidencedOK, ReadNext, readVars, EvidenceCatchUp
<1>5. \A k \in Keys : Len(log[k]) \in Nat
  BY DEF TypeOK
<1>6. ASSUME MarkReached(indexed, t)
      PROVE  MarkReached(indexed, t)'
  BY <1>2, <1>3, <1>5, <1>6 DEF MarkReached
<1>7. ASSUME MarkReached(evidenced, t)
      PROVE  MarkReached(evidenced, t)'
  BY <1>2, <1>4, <1>5, <1>7 DEF MarkReached
<1>8. QED BY <1>6, <1>7

(* The safety half of RevocationBecomesVisible: the moment after which a   *)
(* permission is never again shown as not revoked is the one at which the  *)
(* index has its mark.                                                     *)
THEOREM VisibleForGood ==
  ASSUME NEW t
  PROVE  ReadSpec =>
           /\ [](MarkReached(indexed, t) =>
                   [](\A p \in get_permissions(t) : p.revoked))
           /\ [](MarkReached(evidenced, t) =>
                   [](\A p \in evidence(t) : p.revoked))
<1> DEFINE R1 == MarkReached(indexed, t)
           R2 == MarkReached(evidenced, t)
           Q1 == \A p \in get_permissions(t) : p.revoked
           Q2 == \A p \in evidence(t) : p.revoked
<1>1. ReadInv => (R1 => Q1) /\ (R2 => Q2)
  BY ShownIsRevoked
<1>2. ReadInv /\ [ReadNext]_readVars => (R1 => R1') /\ (R2 => R2')
  BY ReachedForGood
<1> HIDE DEF R1, R2, Q1, Q2
<1>3. ReadSpec => [](R1 => []Q1) /\ [](R2 => []Q2)
  BY <1>1, <1>2, ReadInvariance, PTL DEF ReadSpec
<1>4. QED BY <1>3 DEF R1, R2, Q1, Q2

(* The safety half of LinkOutlivesRevocation: once the page of a token's   *)
(* evidence id is found it goes on being found, until another permission   *)
(* of the same account and client has been put after the token's.          *)
LEMMA LinkStays ==
  ASSUME ReadInv, [ReadNext]_readVars, NEW t,
         ~ EvidenceMissing(t) \/ Replaced(t)
  PROVE  (~ EvidenceMissing(t) \/ Replaced(t))'
<1> USE DEF ReadInv, IInv
<1>1. [Next]_vars
  BY DEF ReadNext, readVars, EvidenceCatchUp
<1>2. \A k \in Keys : /\ Len(log[k]) <= Len(log'[k])
                      /\ \A i \in 1..Len(log[k]) : log'[k][i] = log[k][i]
                      /\ Len(log[k]) \in Nat /\ Len(log'[k]) \in Nat
  BY <1>1, LogGrows
<1>3. \A k \in Keys : /\ evidenced[k] \in Nat /\ evidenced'[k] \in Nat
                      /\ evidenced[k] <= evidenced'[k]
                      /\ evidenced[k] <= Len(log[k])
  BY DEF EvidencedOK, ReadNext, readVars, EvidenceCatchUp
<1>4. CASE Replaced(t)
  <2>1. PICK k \in Keys : \E i, j \in 1..Len(log[k]) :
          i < j /\ log[k][i].token = t /\ log[k][j].token # t
    BY <1>4 DEF Replaced
  <2>2. \E i, j \in 1..Len(log'[k]) :
          i < j /\ log'[k][i].token = t /\ log'[k][j].token # t
    BY <1>2, <2>1
  <2>3. QED BY <2>2 DEF Replaced
<1>5. CASE ~ EvidenceMissing(t)
  <2>1. PICK k \in Keys : /\ evidenced[k] # 0
                         /\ \A p \in Seen(evidenced, k) : p.token = t
    BY <1>5 DEF EvidenceMissing, evidenceId
  <2>2. \A j \in evidenced[k]..Len(log[k]) : log[k][j].token = t
    BY <1>3, <2>1 DEF Seen
  <2>3. CASE \A j \in evidenced'[k]..Len(log'[k]) : log'[k][j].token = t
    <3>1. \A p \in Seen(evidenced, k)' : p.token = t
      BY <2>3 DEF Seen
    <3>2. evidenced'[k] # 0
      BY <1>3, <2>1
    <3>3. QED BY <3>1, <3>2 DEF EvidenceMissing, evidenceId
  <2>4. CASE \E j \in evidenced'[k]..Len(log'[k]) : log'[k][j].token # t
    <3>1. PICK j \in evidenced'[k]..Len(log'[k]) : log'[k][j].token # t
      BY <2>4
    <3>2. /\ Len(log[k]) \in 1..Len(log'[k]) /\ j \in 1..Len(log'[k])
          /\ log'[k][Len(log[k])].token = t
      BY <1>2, <1>3, <2>1, <2>2
    <3>3. Len(log[k]) < j
      BY <1>2, <1>3, <2>1, <2>2, <3>1
    <3>4. Replaced(t)'
      BY <3>1, <3>2, <3>3 DEF Replaced
    <3>5. QED BY <3>4
  <2>5. QED BY <2>3, <2>4
<1>6. QED BY <1>4, <1>5

THEOREM LinkWorksForGood ==
  ASSUME NEW t
  PROVE  ReadSpec => [](~ EvidenceMissing(t)
                          => [](~ EvidenceMissing(t) \/ Replaced(t)))
<1> DEFINE M == EvidenceMissing(t)
           R == Replaced(t)
<1>1. ReadInv /\ [ReadNext]_readVars => ((~ M \/ R) => (~ M \/ R)')
  BY LinkStays
<1> HIDE DEF M, R
<1>2. ReadSpec => [](~ M => [](~ M \/ R))
  BY <1>1, ReadInvariance, PTL DEF ReadSpec
<1>3. QED BY <1>2 DEF M, R
============================================================================
