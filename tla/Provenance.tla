----------------------------- MODULE Provenance -----------------------------
(***************************************************************************)
(* The signing material of provenance records: the three files that        *)
(* resource/cdk/scripts/upload-certificates.sh puts in S3 and SSM one      *)
(* after the other, and the requests for meter data that read them one     *)
(* after the other (resource/api/provenance.py, keystores.py).             *)
(*                                                                         *)
(* A set is a root CA, a bundle issued under it and the bundle's key.      *)
(* Sets are numbered as they are issued, and a stored file is known by the *)
(* set it belongs to.  Every deployment context has a key of its own,      *)
(* while root and bundle are one object each, which all of them read.  A   *)
(* run of the script uploads the newest set for one context.  One operator *)
(* runs it at a time; a run may stop after any of its steps (set -e), and  *)
(* the same set may be uploaded again, for the same context or another.    *)
(***************************************************************************)
EXTENDS Naturals

CONSTANTS
  Requests,         \* requests for meter data
  Contexts,         \* deployment contexts: dev, prod
  MaxSets           \* bound on the sets of signing material

ASSUME ProvenanceAssumption == MaxSets \in Nat

VARIABLES
  root, bundle,           \* S3: the set each object is of, 0 if not stored
  key,                    \* SSM: the same, for the key of each context
  latest,                 \* the newest set, if any
  script, target,         \* the next step of the script, and its context
  context,                \* the deployment each request is sent to
  step,                   \* each request's next step
  got,                    \* the files each request has read
  began                   \* history: the set of its context's key when each
                          \* request began

stores   == <<root, bundle, key>>
upload   == <<root, bundle, key, latest, script, target>>
handlers == <<context, step, got, began>>
vars     == <<root, bundle, key, latest, script, target, context, step, got,
              began>>

NoFiles == [root |-> 0, bundle |-> 0, key |-> 0]

(* The bucket is there, and nothing has been uploaded to it.               *)
Init ==
  /\ root = 0 /\ bundle = 0 /\ key = [c \in Contexts |-> 0] /\ latest = 0
  /\ script = "idle" /\ target \in Contexts
  /\ context \in [Requests -> Contexts]
  /\ step = [r \in Requests |-> "new"]
  /\ got = [r \in Requests |-> NoFiles]
  /\ began = [r \in Requests |-> 0]

(***************************************************************************)
(* upload-certificates.sh.                                                 *)
(***************************************************************************)

(* The three files exist: those of a new set, or of the last one again.    *)
StartUpload ==
  /\ script = "idle" /\ script' = "root"
  /\ latest' \in {latest, latest + 1} \cap 1..MaxSets
  /\ target' \in Contexts
  /\ UNCHANGED <<stores, handlers>>

UploadRoot ==
  /\ script = "root" /\ script' = "bundle"
  /\ root' = latest
  /\ UNCHANGED <<bundle, key, latest, target, handlers>>

(* Slip: the key goes up before the bundle.                                *)
SlipKeyFirst ==
  /\ script = "bundle" /\ script' = "key"
  /\ key' = [key EXCEPT ![target] = latest]
  /\ UNCHANGED <<root, bundle, latest, target, handlers>>

UploadBundle ==
  /\ script = "bundle" /\ script' = "key"
  /\ bundle' = latest
  /\ UNCHANGED <<root, key, latest, target, handlers>>

(* get-parameter, then put-parameter with or without --overwrite, under    *)
(* the name of the context.                                                *)
UploadKey ==
  /\ script = "key" /\ script' = "idle"
  /\ key' = [key EXCEPT ![target] = latest]
  /\ UNCHANGED <<root, bundle, latest, target, handlers>>

(* A command fails and ends the script.                                    *)
UploadStops ==
  /\ script # "idle" /\ script' = "idle"
  /\ UNCHANGED <<stores, latest, target, handlers>>

(***************************************************************************)
(* create_provenance_records, as part of a request for consumption data.   *)
(***************************************************************************)

Goto(r, from, to) ==
  /\ step[r] = from
  /\ step' = [step EXCEPT ![r] = to]

Begin(r) ==
  /\ Goto(r, "new", "read_root")
  /\ began' = [began EXCEPT ![r] = key[context[r]]]
  /\ UNCHANGED <<upload, context, got>>

ReadRoot(r) ==
  /\ root # 0
  /\ Goto(r, "read_root", "read_bundle")
  /\ got' = [got EXCEPT ![r].root = root]
  /\ UNCHANGED <<upload, context, began>>

(* Slip: the bundle is kept from the first time it was read.               *)
SlipBundleCached(r) ==
  /\ Goto(r, "read_bundle", "read_key")
  /\ got' = [got EXCEPT ![r].bundle = 1]
  /\ UNCHANGED <<upload, context, began>>

ReadBundle(r) ==
  /\ bundle # 0
  /\ Goto(r, "read_bundle", "read_key")
  /\ got' = [got EXCEPT ![r].bundle = bundle]
  /\ UNCHANGED <<upload, context, began>>

ReadKey(r) ==
  /\ key[context[r]] # 0
  /\ Goto(r, "read_key", "sign")
  /\ got' = [got EXCEPT ![r].key = key[context[r]]]
  /\ UNCHANGED <<upload, context, began>>

(* The record is signed and goes out with the data; nothing verifies it.   *)
Sign(r) ==
  /\ Goto(r, "sign", "served")
  /\ UNCHANGED <<upload, context, got, began>>

(* A store is not reached, has no such file, or the files are refused: the *)
(* request fails.                                                          *)
Fail(r) ==
  /\ step[r] \notin {"new", "served", "failed"}
  /\ step' = [step EXCEPT ![r] = "failed"]
  /\ UNCHANGED <<upload, context, got, began>>

ScriptStep ==
  StartUpload \/ UploadRoot \/ UploadBundle \/ UploadKey \/ UploadStops

RequestStep(r) ==
  \/ Begin(r) \/ ReadRoot(r) \/ ReadBundle(r) \/ ReadKey(r) \/ Sign(r)
  \/ Fail(r)

Next == ScriptStep \/ \E r \in Requests : RequestStep(r)

Spec == Init /\ [][Next]_vars

(***************************************************************************)
(* Properties.                                                             *)
(***************************************************************************)

(* Every variable has its type; the script writes the root first and the   *)
(* key last, so that a stored key's set is stored whole or overwritten.    *)
TypeOK ==
  /\ latest \in 0..MaxSets
  /\ root \in 0..latest /\ bundle \in 0..root
  /\ key \in [Contexts -> 0..bundle]
  /\ script \in {"idle", "root", "bundle", "key"} /\ target \in Contexts
  /\ context \in [Requests -> Contexts]
  /\ step \in [Requests -> {"new", "read_root", "read_bundle", "read_key",
                            "sign", "served", "failed"}]
  /\ got \in [Requests -> [root : 0..latest, bundle : 0..latest,
                           key : 0..latest]]
  /\ began \in [Requests -> 0..latest]

(* A record is never signed with a file older than the set last uploaded   *)
(* in full for the context of the request when the request began, whatever *)
(* runs for this context or another failed or overlapped it: nothing is    *)
(* kept between requests (keystores.py caches the AWS clients only).       *)
NothingOlder ==
  \A r \in Requests : step[r] = "served" =>
    /\ began[r] <= got[r].root /\ began[r] <= got[r].bundle
    /\ began[r] <= got[r].key

(* When a record mixes sets: never if the newest set had been uploaded in  *)
(* full for its context when the request began, unless the upload of a     *)
(* newer one has begun since, for any context.  Otherwise it may: a run    *)
(* for dev leaves prod with root and bundle of the new set and the key of  *)
(* the old one until it is repeated for prod.                              *)
SignedWithLatest ==
  \A r \in Requests : step[r] = "served" /\ began[r] = latest =>
    got[r] = [root |-> latest, bundle |-> latest, key |-> latest]
=============================================================================
