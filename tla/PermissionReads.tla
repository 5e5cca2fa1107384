-------------------------- MODULE PermissionReads --------------------------
(***************************************************************************)
(* What the permissions endpoint and the evidence page show                *)
(* (authentication/api/main.py, evidence.py, permissions.py) while tokens  *)
(* are issued and revoked as in AuthServer.                                *)
(*                                                                         *)
(* Both make one query, of an index of the table each, and change nothing. *)
(***************************************************************************)
EXTENDS AuthServer

VARIABLE
  evidenced         \* DynamoDB: every copy of evidence-id-index has reached
                    \* the item log[k][evidenced[k]]

readVars == <<vars, evidenced>>

(* Slip: a permission that is read and written back gets another id.       *)
SlipNewId(p) == IF p.revoked THEN 0 - p.token ELSE p.token

(* Every permission token_to_permission makes has an id of its own, which  *)
(* revoke_permission writes back with the rest.                            *)
evidenceId(p) == p.token

(* The permissions endpoint's answers for refresh token t, 404 if none.    *)
get_permissions(t) == get_permission_by_token(t)

(* The permissions the page of evidence id e may show.                     *)
evidence(e) ==
  UNION {{p \in Seen(evidenced, k) : evidenceId(p) = e} : k \in Keys}

(* The page may say "Permission not found".                                *)
EvidenceMissing(e) ==
  \A k \in Keys : \/ evidenced[k] = 0
                  \/ \E p \in Seen(evidenced, k) : evidenceId(p) # e

ReadInit == Init /\ evidenced = [k \in Keys |-> 0]

EvidenceCatchUp(k) ==
  /\ evidenced[k] < Len(log[k])
  /\ evidenced' = [evidenced EXCEPT ![k] = @ + 1]
  /\ UNCHANGED vars

ReadNext ==
  \/ Next /\ UNCHANGED evidenced
  \/ \E k \in Keys : EvidenceCatchUp(k)

ReadSpec ==
  /\ ReadInit /\ [][ReadNext]_readVars
  /\ Fairness /\ \A k \in Keys : WF_readVars(EvidenceCatchUp(k))

(***************************************************************************)
(* Properties.                                                             *)
(***************************************************************************)

(* Once a client was told its token is revoked, or its application         *)
(* received the message that says so, there comes a time after which       *)
(* neither the permissions endpoint nor the evidence page ever again shows *)
(* that token's permission as not revoked, however far the indexes lag.    *)
RevocationBecomesVisible ==
  \A t \in 1..MaxRequests :
    t \in confirmed \cup notified
      ~> [](\A p \in get_permissions(t) \cup evidence(t) : p.revoked)

(* Every copy of the index has reached an item that marks t as revoked.    *)
MarkReached(settled, t) ==
  \E k \in Keys : \E i \in 1..settled[k] :
    log[k][i].token = t /\ log[k][i].revoked

(* From the moment every copy of an index has the revocation of a token,   *)
(* no answer made from that index shows the token's permission as not      *)
(* revoked, whatever other handlers go on to write: on the permissions     *)
(* endpoint and on the evidence page, each with an index of its own.       *)
ShownOnceIndexed ==
  \A t \in Tokens :
    /\ MarkReached(indexed, t) => \A p \in get_permissions(t) : p.revoked
    /\ MarkReached(evidenced, t) => \A p \in evidence(t) : p.revoked

(* Another permission of the same account and client was put in its place. *)
Replaced(t) ==
  \E k \in Keys : \E i, j \in 1..Len(log[k]) :
    i < j /\ log[k][i].token = t /\ log[k][j].token # t

(* An evidence link comes to work some time after the permission was       *)
(* recorded and goes on working, through a revocation too, until a refresh *)
(* or a further grant replaces the permission (models.py, evidenceId).     *)
LinkOutlivesRevocation ==
  \A t \in 1..MaxRequests :
    Recorded(t) ~> [](~ EvidenceMissing(t) \/ Replaced(t))
============================================================================
