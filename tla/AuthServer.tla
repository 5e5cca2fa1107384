---------------------------- MODULE AuthServer ----------------------------
(***************************************************************************)
(* The token and revocation endpoints of the authorisation server          *)
(* (authentication/api/main.py, permissions.py, messaging.py), with the    *)
(* parties they call: Ory Hydra, the DynamoDB table of permissions and its *)
(* refresh-token-index, and the client application that is notified.       *)
(*                                                                         *)
(* A worker is one running copy of the FastAPI application.  A handler is  *)
(* an async def without an await, so a worker serves one request at a      *)
(* time, and what interleaves with it is the rest of the world and any     *)
(* other worker: the service runs one task, and two while a new version is *)
(* rolled out.  A handler is cut into steps at its external calls; pc names *)
(* the call it is about to make.                                           *)
(*                                                                         *)
(* Refresh tokens are numbered in the order Hydra issues them.  Of access  *)
(* tokens only this matters here: a client may ask to revoke one, and no   *)
(* permission has it as its refreshToken.  -t is the one issued with t.    *)
(***************************************************************************)
EXTENDS Integers, Sequences

CONSTANTS
  Workers,          \* the running copies of the application
  Accounts,         \* the account holders (the subjects of Hydra's tokens)
  Clients,          \* the client applications, as their certificates name them
  NoKey,            \* the key of no permission
  MaxRequests       \* bound on the requests the workers accept

(* The table's primary key: an account and a client.                       *)
Keys == Accounts \X Clients

ASSUME NoKeyAssumption == NoKey \notin Keys
ASSUME MaxRequestsAssumption == MaxRequests \in Nat

VARIABLES
  owner,            \* owner[t]: the account refresh token t is of and the
                    \* client it was issued to
  family,           \* Hydra: family[t] is the first token of t's grant
  live,             \* Hydra: the refresh tokens it still accepts
  log,              \* DynamoDB: log[k] lists the items put for key k; the
                    \* last one is the table's item
  indexed,          \* DynamoDB: every copy of refresh-token-index has
                    \* reached the item log[k][indexed[k]]
  held,             \* clients: the refresh tokens they have received
  confirmed,        \* clients: tokens whose revocation was answered success
  notified,         \* client applications: tokens in the messages received
  pc, req, perm,    \* workers: next call, request, permission in hand
  requests          \* number of requests accepted so far

hydra   == <<owner, family, live>>
dynamo  == <<log, indexed>>
clients == <<held, confirmed, notified>>
vars    == <<owner, family, live, log, indexed, held, confirmed, notified,
             pc, req, perm, requests>>

Tokens == 1..Len(owner)

(* A Permission, down to the fields that decide what happens to it.        *)
Permission == [key : Keys \cup {NoKey}, token : Nat, revoked : BOOLEAN]

(* An item of the table.                                                   *)
Row == [key : Keys, token : Nat, revoked : BOOLEAN]

NoPermission == [key |-> NoKey, token |-> 0, revoked |-> FALSE]

NoRequest == [op |-> "none", key |-> NoKey, token |-> 0]

(* token_to_permission: the account and client of the token Hydra issued   *)
(* and of the certificate, not revoked.                                    *)
token_to_permission(k, t) == [key |-> k, token |-> t, revoked |-> FALSE]

(* put_item replaces the whole item of the permission's key.               *)
write_permission(p) == [log EXCEPT ![p.key] = Append(@, p)]

(* Slip: an index that keeps the items since replaced.                     *)
SlipAllItems(settled, k) == {log[k][i] : i \in 1..Len(log[k])}

(* A query of an index reads one of its copies: of key k it may see the    *)
(* item settled[k], which every copy has reached, the newest, or any       *)
(* between.                                                                *)
Seen(settled, k) ==
  {log[k][i] : i \in {j \in settled[k]..Len(log[k]) : j > 0}}

(* The items a query of the index for refresh token t may return first.    *)
get_permission_by_token(t) ==
  UNION {{p \in Seen(indexed, k) : p.token = t} : k \in Keys}

(* The query may also return nothing.                                      *)
MayFindNothing(t) ==
  \A k \in Keys : indexed[k] = 0 \/ \E p \in Seen(indexed, k) : p.token # t

Init ==
  /\ owner = <<>> /\ family = <<>> /\ live = {}
  /\ log = [k \in Keys |-> <<>>]
  /\ indexed = [k \in Keys |-> 0]
  /\ held = {} /\ confirmed = {} /\ notified = {}
  /\ pc = [w \in Workers |-> "idle"]
  /\ req = [w \in Workers |-> NoRequest]
  /\ perm = [w \in Workers |-> NoPermission]
  /\ requests = 0

(***************************************************************************)
(* Requests.  A client asks with a token it has received.                  *)
(***************************************************************************)

Accept(w, op, k, t, step) ==
  /\ pc[w] = "idle"
  /\ requests < MaxRequests
  /\ requests' = requests + 1
  /\ req' = [req EXCEPT ![w] = [op |-> op, key |-> k, token |-> t]]
  /\ pc' = [pc EXCEPT ![w] = step]
  /\ UNCHANGED <<hydra, dynamo, clients, perm>>

(* grant_type=authorization_code, after the account holder consented.      *)
AskCode(w) == \E k \in Keys : Accept(w, "code", k, 0, "post_token")

(* grant_type=refresh_token.  The permission is filed under the client of  *)
(* the certificate, which nothing compares with the client the token was   *)
(* issued to: Hydra knows only one client, this service.                   *)
AskRefresh(w) ==
  \E t \in held, k \in Keys :
    /\ k[1] = owner[t][1]
    /\ Accept(w, "refresh", k, t, "post_token")

(* POST /authorize/revoke with a refresh token or with an access token.    *)
AskRevoke(w) ==
  \E t \in held : \E presented \in {t, -t} :
    Accept(w, "revoke", NoKey, presented, "query")

(* A handler ends: with its reply, with an error reply, or with its task.  *)
Finish(w) ==
  /\ pc' = [pc EXCEPT ![w] = "idle"]
  /\ req' = [req EXCEPT ![w] = NoRequest]
  /\ perm' = [perm EXCEPT ![w] = NoPermission]
  /\ UNCHANGED requests

Goto(w, step) ==
  /\ pc' = [pc EXCEPT ![w] = step]
  /\ UNCHANGED <<req, requests>>

Family(t) == {u \in Tokens : family[u] = family[t]}

(***************************************************************************)
(* The token endpoint.                                                     *)
(***************************************************************************)

(* Hydra answers anything but 200, or is not reached.  Presented with a    *)
(* token it has rotated, it may take the whole grant out of use.           *)
HydraRefuses(w) ==
  /\ pc[w] = "post_token"
  /\ \/ UNCHANGED live
     \/ /\ req[w].op = "refresh" /\ req[w].token \notin live
        /\ live' = live \ Family(req[w].token)
  /\ Finish(w)
  /\ UNCHANGED <<owner, family, dynamo, clients>>

(* Hydra issues the next refresh token, for a new grant or in place of the *)
(* one presented; the handler makes the permission it will store.          *)
HydraIssues(w) ==
  LET t == Len(owner) + 1 IN
  /\ pc[w] = "post_token"
  /\ owner' = Append(owner, req[w].key)
  /\ \/ /\ req[w].op = "code"
        /\ family' = Append(family, t)
        /\ live' = live \cup {t}
     \/ /\ req[w].op = "refresh" /\ req[w].token \in live
        /\ family' = Append(family, family[req[w].token])
        /\ live' = (live \ {req[w].token}) \cup {t}
  /\ perm' = [perm EXCEPT ![w] = token_to_permission(req[w].key, t)]
  /\ Goto(w, "put_permission")
  /\ UNCHANGED <<dynamo, clients>>

(* Slip: a refresh leaves the stored permission as it is.                  *)
SlipStoredOnce(w) ==
  /\ pc[w] = "put_permission"
  /\ log' = IF req[w].op = "code" THEN write_permission(perm[w]) ELSE log
  /\ Goto(w, "reply_token")
  /\ UNCHANGED <<hydra, indexed, clients, perm>>

StorePermission(w) ==
  /\ pc[w] = "put_permission"
  /\ log' = write_permission(perm[w])
  /\ Goto(w, "reply_token")
  /\ UNCHANGED <<hydra, indexed, clients, perm>>

(* Slip: the reply carries the refresh token of the request.               *)
SlipReplyOldToken(w) ==
  /\ pc[w] = "reply_token"
  /\ held' = held \cup {req[w].token}
  /\ Finish(w)
  /\ UNCHANGED <<hydra, dynamo, confirmed, notified>>

(* The reply leaves the server; it may be lost before it gets there.       *)
ReplyToken(w) ==
  /\ pc[w] = "reply_token"
  /\ \/ held' = held \cup {perm[w].token}
     \/ UNCHANGED held
  /\ Finish(w)
  /\ UNCHANGED <<hydra, dynamo, confirmed, notified>>

(***************************************************************************)
(* The revocation endpoint.                                                *)
(***************************************************************************)

(* Slip: the permission is written back without its revocation time.       *)
SlipRevokedNotSet(w) ==
  /\ pc[w] = "query"
  /\ \E p \in get_permission_by_token(req[w].token) :
       perm' = [perm EXCEPT ![w] = p]
  /\ Goto(w, "put_revoked")
  /\ UNCHANGED <<hydra, dynamo, clients>>

QueryFinds(w) ==
  /\ pc[w] = "query"
  /\ \E p \in get_permission_by_token(req[w].token) :
       perm' = [perm EXCEPT ![w] = [p EXCEPT !.revoked = TRUE]]
  /\ Goto(w, "put_revoked")
  /\ UNCHANGED <<hydra, dynamo, clients>>

(* "Permission not found" is answered with 400.                            *)
QueryFindsNothing(w) ==
  /\ pc[w] = "query"
  /\ MayFindNothing(req[w].token)
  /\ Finish(w)
  /\ UNCHANGED <<hydra, dynamo, clients>>

(* Slip: the application is told before Hydra is asked.                    *)
SlipSendFirst(w) ==
  /\ pc[w] = "put_revoked"
  /\ log' = write_permission(perm[w])
  /\ Goto(w, "send_message")
  /\ UNCHANGED <<hydra, indexed, clients, perm>>

MarkRevoked(w) ==
  /\ pc[w] = "put_revoked"
  /\ log' = write_permission(perm[w])
  /\ Goto(w, "post_revoke")
  /\ UNCHANGED <<hydra, indexed, clients, perm>>

(* Hydra's effect when it is asked to revoke t: t no longer works.  Asked  *)
(* about a token it has rotated it may do nothing or end the whole grant.  *)
HydraRevokes(t) ==
  \/ live' = live \ {t}
  \/ t \notin live /\ live' = live \ Family(t)

(* Slip: Hydra's status code is not looked at.                             *)
SlipStatusIgnored(w) ==
  /\ pc[w] = "post_revoke"
  /\ HydraRevokes(perm[w].token) \/ UNCHANGED live
  /\ Goto(w, "send_message")
  /\ UNCHANGED <<owner, family, dynamo, clients, perm>>

PostRevoke(w) ==
  /\ pc[w] = "post_revoke"
  /\ HydraRevokes(perm[w].token)
  /\ Goto(w, "send_message")
  /\ UNCHANGED <<owner, family, dynamo, clients, perm>>

(* Slip: the mark is taken back when Hydra did not answer 200.             *)
SlipMarkTakenBack(w) ==
  /\ pc[w] = "post_revoke"
  /\ HydraRevokes(perm[w].token) \/ UNCHANGED live
  /\ log' = write_permission([perm[w] EXCEPT !.revoked = FALSE])
  /\ Finish(w)
  /\ UNCHANGED <<owner, family, indexed, clients>>

(* Any answer but 200, or no answer: the revocation may have been applied. *)
PostRevokeFails(w) ==
  /\ pc[w] = "post_revoke"
  /\ HydraRevokes(perm[w].token) \/ UNCHANGED live
  /\ Finish(w)
  /\ UNCHANGED <<owner, family, dynamo, clients>>

(* The message reaches the application or not; the handler goes on.        *)
SendMessage(w) ==
  /\ pc[w] = "send_message"
  /\ \/ notified' = notified \cup {perm[w].token}
     \/ UNCHANGED notified
  /\ Goto(w, "reply_success")
  /\ UNCHANGED <<hydra, dynamo, held, confirmed, perm>>

ReplySuccess(w) ==
  /\ pc[w] = "reply_success"
  /\ \/ confirmed' = confirmed \cup {perm[w].token}
     \/ UNCHANGED confirmed
  /\ Finish(w)
  /\ UNCHANGED <<hydra, dynamo, held, notified>>

(***************************************************************************)
(* What may happen at any call: an exception before it takes effect ends   *)
(* the handler with an error reply, and so does the end of the task.  One  *)
(* raised after it took effect is the same end, one step later.            *)
(***************************************************************************)

Fail(w) ==
  /\ pc[w] # "idle"
  /\ Finish(w)
  /\ UNCHANGED <<hydra, dynamo, clients>>

(* DynamoDB brings its index one item closer to the table.                 *)
IndexCatchUp(k) ==
  /\ indexed[k] < Len(log[k])
  /\ indexed' = [indexed EXCEPT ![k] = @ + 1]
  /\ UNCHANGED <<hydra, log, clients, pc, req, perm, requests>>

TokenStep(w) ==
  HydraRefuses(w) \/ HydraIssues(w) \/ StorePermission(w) \/ ReplyToken(w)

RevokeStep(w) ==
  \/ QueryFinds(w) \/ QueryFindsNothing(w) \/ MarkRevoked(w)
  \/ PostRevoke(w) \/ PostRevokeFails(w) \/ SendMessage(w)
  \/ ReplySuccess(w)

Next ==
  \/ \E w \in Workers :
       \/ AskCode(w) \/ AskRefresh(w) \/ AskRevoke(w)
       \/ TokenStep(w) \/ RevokeStep(w) \/ Fail(w)
  \/ \E k \in Keys : IndexCatchUp(k)

Spec == Init /\ [][Next]_vars

(* The index catches up.  Nothing is assumed of the handlers: main.py      *)
(* posts to Hydra without a time-out, and tasks are stopped.               *)
Fairness == \A k \in Keys : WF_vars(IndexCatchUp(k))

(***************************************************************************)
(* Properties.                                                             *)
(***************************************************************************)

Recorded(t) == \E k \in Keys : \E i \in 1..Len(log[k]) : log[k][i].token = t

Marked(t) == \E k \in Keys : \E i \in 1..Len(log[k]) :
               log[k][i].token = t /\ log[k][i].revoked

Steps == {"idle", "post_token", "put_permission", "reply_token", "query",
          "put_revoked", "post_revoke", "send_message", "reply_success"}

(* Every variable has its type.                                            *)
TypeOK ==
  /\ owner \in Seq(Keys)
  /\ family \in Seq(Nat) /\ Len(family) = Len(owner)
  /\ live \subseteq Tokens
  /\ log \in [Keys -> Seq(Row)]
  /\ indexed \in [Keys -> Nat]
  /\ \A k \in Keys : indexed[k] <= Len(log[k])
  /\ held \subseteq Tokens /\ confirmed \subseteq Tokens
  /\ notified \subseteq Tokens
  /\ pc \in [Workers -> Steps]
  /\ req \in [Workers -> [op : {"none", "code", "refresh", "revoke"},
                          key : Keys \cup {NoKey}, token : Int]]
  /\ perm \in [Workers -> Permission]
  /\ requests \in 0..MaxRequests

Item(k) == log[k][Len(log[k])]

(* The items of the table, now and before, are of issued tokens and filed  *)
(* under the account and client of their token.                            *)
FiledUnderItsOwner ==
  \A k \in Keys : \A i \in 1..Len(log[k]) :
    /\ log[k][i].token \in Tokens
    /\ owner[log[k][i].token] = k /\ log[k][i].key = k

(* An item was put for every token a client holds.                         *)
RecordedBeforeReply == \A t \in held : Recorded(t)

(* For a token in a client's hands the table always has an item of that    *)
(* account and client, and never an older permission of its grant still in *)
(* force: it is the token's own, a newer one's, one of a further grant, or *)
(* revoked.  (main.py stores the permission before it replies, on every    *)
(* refresh anew; permissions.py keeps one item per account and client.)    *)
RowOfHeldToken ==
  \A t \in held :
    /\ log[owner[t]] # <<>>
    /\ LET p == Item(owner[t]) IN
         ~ p.revoked /\ family[p.token] = family[t] => p.token >= t

(* What worker w has in hand at each of its steps.                         *)
HandOf(w) ==
  LET p == perm[w] IN
    /\ pc[w] = "post_token" => req[w].key \in Keys
    /\ pc[w] \in {"put_permission", "put_revoked"} =>
         p.token \in Tokens /\ p.key \in Keys /\ owner[p.token] = p.key
    /\ pc[w] = "put_permission" =>
         /\ ~ p.revoked /\ ~ Recorded(p.token)
         /\ \A v \in Workers \ {w} :
              pc[v] = "put_permission" => perm[v].token # p.token
    /\ pc[w] \in {"reply_token", "put_revoked"} => Recorded(p.token)
    /\ pc[w] = "put_revoked" => p.revoked
    /\ pc[w] \in {"post_revoke", "send_message", "reply_success"} =>
         Marked(p.token)
    /\ pc[w] \in {"reply_token", "post_revoke", "send_message",
                  "reply_success"} => p.token \in Tokens
    /\ pc[w] \in {"send_message", "reply_success"} => p.token \notin live

(* What a worker has in hand agrees with the table and with Hydra, whatever *)
(* the others did since it was read: a permission about to be stored is of *)
(* a token nobody has recorded or will record, one about to be marked is   *)
(* on record, and after Hydra's 200 its token is dead.                     *)
InHand == \A w \in Workers : HandOf(w)

(* A client that was told "Token revoked" holds a token Hydra no longer    *)
(* accepts, whose permission was written as revoked.                       *)
ConfirmedIsRevoked == \A t \in confirmed : Marked(t) /\ t \notin live

(* An application that receives the revocation message of a token can rely *)
(* on it: the token is dead at Hydra and the revocation is on record.      *)
NotifiedIsRevoked == \A t \in notified : Marked(t) /\ t \notin live

(* A revoked item of the table is put back to "not revoked" only by the    *)
(* permission of a token never recorded before: no late or repeated write  *)
(* of a revocation undoes one.                                             *)
UnrevokedOnlyByNewToken ==
  [][\A k \in Keys :
       (log[k] # <<>> /\ Item(k).revoked /\ ~ Item(k)'.revoked)
         => ~ Recorded(Item(k)'.token)]_vars

(* However workers overlap and the index lags, an item that is not revoked *)
(* is of a newer token than every item of its grant put before it: a       *)
(* handler that comes late, with a permission it read or was issued some   *)
(* steps ago, neither undoes a revocation nor puts an older permission of  *)
(* the grant back in use.                                                  *)
GrantGoesForward ==
  \A k \in Keys : \A j \in 1..Len(log[k]) : \A i \in 1..j-1 :
    ~ log[k][j].revoked /\ family[log[k][i].token] = family[log[k][j].token]
      => log[k][i].token < log[k][j].token

(* Of a grant with a token whose revocation was confirmed, or announced to *)
(* the application, at most one token works, whatever ran beside the       *)
(* revocation, and it is one issued after the token that was revoked.      *)
OnlyNewerTokenWorks ==
  \A t \in confirmed \cup notified : \A u, v \in live :
    family[u] = family[t] /\ family[v] = family[t] => u = v /\ t < u

NewestOfGrant(t) == \A u \in Tokens : family[u] = family[t] => u <= t

(* No token of t's grant works, and if the table's item for the account    *)
(* and client t was issued to is of that grant, it is revoked.             *)
GrantOver(t) ==
  /\ \A u \in live : family[u] # family[t]
  /\ LET p == Item(owner[t]) IN family[p.token] = family[t] => p.revoked

(* A client that revokes the newest token of a grant, and is told so, has  *)
(* ended the grant at Hydra and in its own item of the table, whatever     *)
(* else was under way: what goes wrong when workers overlap needs a newer  *)
(* token of the same grant.  (An item the grant has under another client,  *)
(* which refreshed with the same token, keeps saying it is not revoked.)   *)
RevokingNewestEndsGrant ==
  \A t \in confirmed \cup notified : NewestOfGrant(t) => GrantOver(t)

(* The tokens the items ever put for a key name, and those of revoked ones. *)
TokensFiled == [k \in Keys |-> {log[k][i].token : i \in 1..Len(log[k])}]

TokensMarked ==
  [k \in Keys |-> {log[k][i].token :
                     i \in {j \in 1..Len(log[k]) : log[k][j].revoked}}]

(* The service keeps the promises of the permission ledger, whose records  *)
(* are the items ever put in the table, without their order, their         *)
(* repetitions and the index.                                              *)
Ledger == INSTANCE PermissionLedger
            WITH recorded <- TokensFiled, marked <- TokensMarked

ImplementsLedger == Ledger!Spec

(* Once a revocation is confirmed, the permission of that grant stays      *)
(* marked as revoked (main.py's "Marks stored permission as revoked"):     *)
(* only another grant puts an unrevoked one in its place.                  *)
RevokedGrantStaysRevoked ==
  [][\A k \in Keys :
       (log[k] # <<>> /\ Item(k).token \in confirmed /\ Item(k).revoked
         /\ ~ Item(k)'.revoked)
       => family'[Item(k)'.token] # family[Item(k).token]]_vars

(* A client can revoke the refresh token it holds and Hydra accepts        *)
(* (main.py: "Supports both access and refresh token revocation"): its     *)
(* permission is the table's item for its account and client, unless they  *)
(* were given a further grant, whose permission took its place.            *)
LiveTokenCanBeRevoked ==
  \A t \in held \cap live :
    LET current == Item(owner[t]).token
    IN  current = t \/ family[current] # family[t]

(* A revocation request that presents the access token of a refresh token  *)
(* still in use is not answered "Permission not found" (main.py: "Supports *)
(* both access and refresh token revocation").                             *)
AccessTokenIsKnown ==
  [][\A w \in Workers :
       QueryFindsNothing(w) /\ req[w].token < 0
         => 0 - req[w].token \notin live]_vars
============================================================================
