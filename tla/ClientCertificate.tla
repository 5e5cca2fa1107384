------------------------- MODULE ClientCertificate -------------------------
(***************************************************************************)
(* Sending a revocation message with the client certificate of the         *)
(* authorisation server (authentication/api/messaging.py, keystores.py).   *)
(* A task looks up the application's address in the directory and posts    *)
(* the message to it; for each of the two calls it makes a session with    *)
(* the certificate bundle and its key, two objects of the certificates     *)
(* bucket, each downloaded at its first use and then kept for the life of  *)
(* the task (lru_cache).                                                   *)
(*                                                                         *)
(* The objects are replaced by hand, in any order, while tasks run, and a  *)
(* renewal may be given up half done for the next one.  Renewals are       *)
(* numbered, and a file is known by the renewal it belongs to; before the  *)
(* first one the bucket is empty.                                          *)
(***************************************************************************)
EXTENDS Integers

CONSTANTS
  Tasks,            \* the running copies of the application
  MaxRenewals,      \* bound on the renewals of the certificate
  MaxRestarts       \* bound on the replacements of tasks

ASSUME CertificateAssumption == MaxRenewals \in Nat /\ MaxRestarts \in Nat

VARIABLES
  stored,           \* S3: the renewal each object is of, 0 for no object
  latest,           \* the last renewal begun
  cache,            \* each task's downloaded files, 0 for not downloaded
  step,             \* each task's next step: a file to resolve or a request
  call,             \* whom each task's session is for
  accepted,         \* the renewal whose pair the directory accepted
  began,            \* what was InPlace when a task began
  restarts

bucket == <<stored, latest>>
sending == <<step, call, accepted>>
vars == <<stored, latest, cache, step, call, accepted, began, restarts>>

Files == {"bundle", "key"}

(* Each of the two objects is of this renewal or of a later one.           *)
InPlace == IF stored["bundle"] <= stored["key"] THEN stored["bundle"]
                                                ELSE stored["key"]

Init ==
  /\ stored = [f \in Files |-> 0] /\ latest = 0
  /\ cache = [w \in Tasks |-> [f \in Files |-> 0]]
  /\ step = [w \in Tasks |-> "idle"]
  /\ call = [w \in Tasks |-> "none"]
  /\ accepted = [w \in Tasks |-> 0]
  /\ began = [w \in Tasks |-> 0]
  /\ restarts = 0

(***************************************************************************)
(* The renewal of the certificate.                                         *)
(***************************************************************************)

(* A new certificate is there to be uploaded, whether or not both objects  *)
(* of the last one ever were.                                              *)
StartRenewal ==
  /\ latest < MaxRenewals
  /\ latest' = latest + 1
  /\ UNCHANGED <<stored, cache, sending, began, restarts>>

PutObject(f) ==
  /\ stored[f] # latest
  /\ stored' = [stored EXCEPT ![f] = latest]
  /\ UNCHANGED <<latest, cache, sending, began, restarts>>

(***************************************************************************)
(* The sending of a message.                                               *)
(***************************************************************************)

(* send_revocation_message calls fetch_application_url, which makes a      *)
(* session: get_mtls_cert_paths resolves the bundle and then the key.      *)
Send(w) ==
  /\ step[w] = "idle"
  /\ step' = [step EXCEPT ![w] = "bundle"]
  /\ call' = [call EXCEPT ![w] = "directory"]
  /\ UNCHANGED <<bucket, cache, accepted, began, restarts>>

After(f) == IF f = "bundle" THEN "key" ELSE "request"

(* Slip: the downloads are not kept.                                       *)
SlipNotCached(w) ==
  \E f \in Files :
    /\ step[w] = f /\ stored[f] # 0
    /\ cache' = [cache EXCEPT ![w][f] = stored[f]]
    /\ step' = [step EXCEPT ![w] = After(f)]
    /\ UNCHANGED <<bucket, call, accepted, began, restarts>>

(* A file is downloaded unless the task has it already.                    *)
Resolve(w) ==
  \E f \in Files :
    /\ step[w] = f
    /\ \/ cache[w][f] # 0 /\ UNCHANGED cache
       \/ /\ cache[w][f] = 0 /\ stored[f] # 0
          /\ cache' = [cache EXCEPT ![w][f] = stored[f]]
    /\ step' = [step EXCEPT ![w] = After(f)]
    /\ UNCHANGED <<bucket, call, accepted, began, restarts>>

(* The sending ends; the caller goes on whatever the result.               *)
End(w) ==
  /\ step' = [step EXCEPT ![w] = "idle"]
  /\ call' = [call EXCEPT ![w] = "none"]
  /\ accepted' = [accepted EXCEPT ![w] = 0]
  /\ UNCHANGED <<bucket, began, restarts>>

(* Slip: a download that failed is kept like one that did not.             *)
SlipFailureCached(w) ==
  \E f \in Files :
    /\ step[w] = f /\ cache[w][f] = 0
    /\ cache' = [cache EXCEPT ![w][f] = -1]
    /\ End(w)

(* Slip: a download that failed is tried again.                            *)
SlipTriedForever(w) == step[w] \in Files /\ cache[w][step[w]] = 0 /\ UNCHANGED vars

(* S3 does not answer or has no such object.  The exception is caught in   *)
(* the function that asked for the session; nothing is cached for f.       *)
ResolveFails(w) ==
  /\ \E f \in Files : step[w] = f /\ cache[w][f] = 0
  /\ End(w)
  /\ UNCHANGED cache

(* A certificate whose key does not belong to it is refused by the TLS     *)
(* library before anything is sent.                                        *)
Matching(w) == cache[w]["bundle"] = cache[w]["key"]

(* The directory answers with the application's address, and               *)
(* deliver_message makes a session of its own.                             *)
FindAddress(w) ==
  /\ step[w] = "request" /\ call[w] = "directory" /\ Matching(w)
  /\ accepted' = [accepted EXCEPT ![w] = cache[w]["key"]]
  /\ call' = [call EXCEPT ![w] = "application"]
  /\ step' = [step EXCEPT ![w] = "bundle"]
  /\ UNCHANGED <<bucket, cache, began, restarts>>

(* The call fails or times out after 10 or 30 s, the document names no     *)
(* address, or the application has been asked and whatever it answered.    *)
RequestEnds(w) ==
  /\ step[w] = "request"
  /\ End(w)
  /\ UNCHANGED cache

(* Slip: the downloads outlive the task.                                   *)
SlipFilesSurvive(w) ==
  /\ restarts < MaxRestarts
  /\ restarts' = restarts + 1
  /\ step' = [step EXCEPT ![w] = "idle"]
  /\ call' = [call EXCEPT ![w] = "none"]
  /\ accepted' = [accepted EXCEPT ![w] = 0]
  /\ began' = [began EXCEPT ![w] = InPlace]
  /\ UNCHANGED <<bucket, cache>>

(* A task is replaced by a new one, which has downloaded nothing.          *)
Restart(w) ==
  /\ restarts < MaxRestarts
  /\ restarts' = restarts + 1
  /\ cache' = [cache EXCEPT ![w] = [f \in Files |-> 0]]
  /\ step' = [step EXCEPT ![w] = "idle"]
  /\ call' = [call EXCEPT ![w] = "none"]
  /\ accepted' = [accepted EXCEPT ![w] = 0]
  /\ began' = [began EXCEPT ![w] = InPlace]
  /\ UNCHANGED bucket

SendStep(w) ==
  Resolve(w) \/ ResolveFails(w) \/ FindAddress(w) \/ RequestEnds(w)

Next ==
  \/ StartRenewal
  \/ \E f \in Files : PutObject(f)
  \/ \E w \in Tasks : Send(w) \/ SendStep(w) \/ Restart(w)

Spec == Init /\ [][Next]_vars

(***************************************************************************)
(* Properties.                                                             *)
(***************************************************************************)

(* Every variable has its type, and no object is of a renewal to come.     *)
TypeOK ==
  /\ latest \in 0..MaxRenewals
  /\ stored \in [Files -> 0..latest]
  /\ cache \in [Tasks -> [Files -> Nat]]
  /\ step \in [Tasks -> Files \cup {"idle", "request"}]
  /\ call \in [Tasks -> {"none", "directory", "application"}]
  /\ accepted \in [Tasks -> Nat]
  /\ began \in [Tasks -> Nat]
  /\ restarts \in 0..MaxRestarts

(* The message is posted with the very pair the directory has accepted,    *)
(* although deliver_message makes a session of its own and the objects may *)
(* have been replaced, one or both, since the address was looked up.       *)
PostsAsAccepted ==
  \A w \in Tasks :
    step[w] = "request" /\ call[w] = "application" =>
      \A f \in Files : cache[w][f] = accepted[w] /\ accepted[w] # 0

(* A task uses no file of a renewal before the older of the two objects    *)
(* that were stored when it began.  So one that begins when both are of    *)
(* the last renewal never holds half of an old pair: restarting every task *)
(* when both objects are up is enough to complete a renewal.               *)
NoFileOlderThanTask ==
  \A w \in Tasks : \A f \in Files :
    cache[w][f] # 0 => began[w] <= cache[w][f] /\ cache[w][f] <= latest

(* The revocation endpoint waits for the sending: it always comes to an    *)
(* end, with or without a usable certificate.                              *)
SendingEnds == \A w \in Tasks : step[w] # "idle" ~> step[w] = "idle"
=============================================================================
