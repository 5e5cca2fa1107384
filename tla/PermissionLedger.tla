------------------------- MODULE PermissionLedger -------------------------
(***************************************************************************)
(* What the authorisation server promises about permissions, with no word  *)
(* of workers, handlers, DynamoDB, its index or Hydra's answers.           *)
(*                                                                         *)
(* A ledger knows, per key, the (account, client) pair, which refresh      *)
(* tokens are on record and which of them are marked as revoked.  Tokens   *)
(* are numbered in the order they are issued.  A token reaches its client  *)
(* only once it is recorded under the key it was issued for, and a         *)
(* revocation is announced or confirmed only once the record is marked and *)
(* the token no longer works.                                              *)
(***************************************************************************)
EXTENDS Naturals, Sequences

CONSTANT Keys       \* the (account, client) pairs

VARIABLES
  owner,            \* owner[t]: the key refresh token t was issued for
  live,             \* the tokens a client can still refresh with
  recorded,         \* recorded[k]: the tokens on record for key k
  marked,           \* marked[k]: those of them recorded as revoked
  held,             \* the tokens that reached their client
  confirmed,        \* the tokens whose revocation was answered "success"
  notified          \* the tokens whose revocation the application was told of

ledgerVars == <<owner, live, recorded, marked, held, confirmed, notified>>
records    == <<recorded, marked>>

Recorded(t) == t \in recorded[owner[t]]

Revoked(t) == t \in marked[owner[t]] /\ t \notin live

Init ==
  /\ owner = <<>>
  /\ live = {}
  /\ recorded = [k \in Keys |-> {}]
  /\ marked = [k \in Keys |-> {}]
  /\ held = {}
  /\ confirmed = {}
  /\ notified = {}

(* A new token for key k; a rotation takes the token it replaces out of    *)
(* use in the same step.                                                   *)
Issue(k, replaced) ==
  /\ replaced \subseteq live
  /\ owner' = Append(owner, k)
  /\ live' = (live \ replaced) \cup {Len(owner) + 1}
  /\ UNCHANGED <<records, held, confirmed, notified>>

(* An issued token is filed under the key it was issued for.               *)
Record(t) ==
  /\ t \in 1..Len(owner)
  /\ ~ Recorded(t)
  /\ recorded' = [recorded EXCEPT ![owner[t]] = @ \cup {t}]
  /\ UNCHANGED <<owner, live, marked, held, confirmed, notified>>

(* The record of a token is marked as revoked.                             *)
Mark(t) ==
  /\ t \in 1..Len(owner)
  /\ Recorded(t)
  /\ marked' = [marked EXCEPT ![owner[t]] = @ \cup {t}]
  /\ UNCHANGED <<owner, live, recorded, held, confirmed, notified>>

Withdraw(ts) ==
  /\ live' = live \ ts
  /\ UNCHANGED <<owner, records, held, confirmed, notified>>

HandOut(t) ==
  /\ Recorded(t)
  /\ held' = held \cup {t}
  /\ UNCHANGED <<owner, live, records, confirmed, notified>>

Notify(t) ==
  /\ Revoked(t)
  /\ notified' = notified \cup {t}
  /\ UNCHANGED <<owner, live, records, held, confirmed>>

Confirm(t) ==
  /\ Revoked(t)
  /\ confirmed' = confirmed \cup {t}
  /\ UNCHANGED <<owner, live, records, held, notified>>

Next ==
  \/ \E k \in Keys, replaced \in SUBSET live : Issue(k, replaced)
  \/ \E ts \in SUBSET live : Withdraw(ts)
  \/ \E t \in 1..Len(owner) :
       Record(t) \/ Mark(t) \/ HandOut(t) \/ Notify(t) \/ Confirm(t)

Spec == Init /\ [][Next]_ledgerVars
============================================================================
