---------------------------- MODULE TrustStores ----------------------------
(***************************************************************************)
(* The CA bundles the two load balancers verify client certificates with   *)
(* (resource/cdk, authentication/cdk, resource/cdk/scripts).               *)
(*                                                                         *)
(* Per environment, the resource stack owns a bucket, uploads the bundle   *)
(* of the checkout to it as bundle.pem and makes a trust store from that   *)
(* object; the authentication stack makes a trust store of its own from    *)
(* the same object.  A trust store is a copy: it changes when it is made   *)
(* and when it is modified, never with the object.  The script             *)
(* renew_truststores.sh modifies the authentication ones.                  *)
(*                                                                         *)
(* The bundles of an environment are numbered in the order they come out;  *)
(* 0 stands for no file, no object or no trust store.                      *)
(***************************************************************************)
EXTENDS Integers

CONSTANTS
  Envs,             \* the environments, dev and prod
  NoEnv,            \* no environment
  Runs,             \* the runs of the script
  MaxBundles,       \* bound on the bundles of an environment
  MaxDeploys        \* bound on the deployments of resource stacks

ASSUME TrustAssumption ==
  NoEnv \notin Envs /\ MaxBundles \in Nat \ {0} /\ MaxDeploys \in Nat

VARIABLES
  issued,           \* the newest bundle of each environment
  file,             \* the bundle in the checkout that is deployed from
  object,           \* S3: the bundle under the key bundle.pem
  trust,            \* ELB: each application's trust store
  stack,            \* the resource stack of each environment
  staged,           \* the bundle its deployment was synthesised with
  asset,            \* the bundle its last complete deployment was made with
  todo,             \* what its deployment has still to do
  deploys,
  at, left, env,    \* script: next step, environments to do, the one at hand
  listed,           \* script: the object whose version id was listed
  renewed           \* environments a run has renewed, as long as their
                    \* object and trust store are the same

checkout   == <<issued, file>>
deployment == <<stack, staged, asset, todo, deploys>>
script     == <<at, left, env, listed>>
vars       == <<issued, file, object, trust, stack, staged, asset, todo,
                deploys, at, left, env, listed, renewed>>

Apps == {"resource", "authentication"}

Init ==
  /\ issued = [e \in Envs |-> 1] /\ file = issued
  /\ object = [e \in Envs |-> 0]
  /\ trust = [a \in Apps |-> [e \in Envs |-> 0]]
  /\ stack = [e \in Envs |-> "none"]
  /\ staged = [e \in Envs |-> 0] /\ asset = [e \in Envs |-> 0]
  /\ todo = [e \in Envs |-> {}]
  /\ deploys = 0
  /\ at = [r \in Runs |-> "idle"]
  /\ left = [r \in Runs |-> {}]
  /\ env = [r \in Runs |-> NoEnv]
  /\ listed = [r \in Runs |-> 0]
  /\ renewed = [r \in Runs |-> {}]

(* The CA publishes a bundle, and it is put in the checkout.               *)
NewBundle(e) ==
  /\ issued[e] < MaxBundles
  /\ issued' = [issued EXCEPT ![e] = @ + 1]
  /\ file' = [file EXCEPT ![e] = issued'[e]]
  /\ UNCHANGED <<object, trust, deployment, script, renewed>>

(* A checkout without the file: the stack falls back to another key.       *)
FileMissing(e) ==
  /\ file[e] # 0
  /\ file' = [file EXCEPT ![e] = 0]
  /\ UNCHANGED <<issued, object, trust, deployment, script, renewed>>

(***************************************************************************)
(* The deployment of the resource stack.  CloudFormation carries out what  *)
(* differs from the deployed stack, in any order the stack's dependencies  *)
(* leave open; the trust store names the bucket, not the upload.           *)
(***************************************************************************)

(* The object of environment e becomes b; what was renewed from another    *)
(* one no longer counts.                                                   *)
SetObject(e, b) ==
  /\ object' = [object EXCEPT ![e] = b]
  /\ renewed' = [r \in Runs |->
                   IF b = object[e] THEN renewed[r] ELSE renewed[r] \ {e}]

(* The key the trust store is given: nothing is ever put under the other.  *)
truststore_key(b) == IF b = 0 THEN "truststore.pem" ELSE "bundle.pem"

(* Slip: without the file, a placeholder is put under its key.             *)
SlipPlaceholder(e, b) ==
  {c \in {"upload", "trust_store", "placeholder"} :
    \/ c = "upload" /\ b # 0 /\ b # asset[e]
    \/ c = "placeholder" /\ b = 0
    \/ c = "trust_store" /\ stack[e] = "none"}

(* What deploying with bundle b has to do.                                 *)
Changes(e, b) ==
  {c \in {"upload", "trust_store"} :
    \/ c = "upload" /\ b # 0 /\ b # asset[e]
    \/ c = "trust_store" /\ \/ stack[e] = "none"
                            \/ truststore_key(b) # truststore_key(asset[e])}

Deploy(e) ==
  /\ stack[e] \in {"none", "deployed"} /\ deploys < MaxDeploys
  /\ deploys' = deploys + 1
  /\ stack' = [stack EXCEPT ![e] = IF @ = "none" THEN "creating" ELSE "updating"]
  /\ staged' = [staged EXCEPT ![e] = file[e]]
  /\ todo' = [todo EXCEPT ![e] = Changes(e, file[e])]
  /\ UNCHANGED <<checkout, object, trust, asset, script, renewed>>

Upload(e) ==
  /\ "upload" \in todo[e]
  /\ SetObject(e, staged[e])
  /\ todo' = [todo EXCEPT ![e] = @ \ {"upload"}]
  /\ UNCHANGED <<checkout, trust, stack, staged, asset, deploys, script>>

(* Slip: a trust store is made before there is anything to put in it.      *)
SlipEmptyTrustStore(e) ==
  /\ "trust_store" \in todo[e]
  /\ trust' = [trust EXCEPT !["resource"][e] = object[e]]
  /\ todo' = [todo EXCEPT ![e] = @ \ {"trust_store"}]
  /\ UNCHANGED <<checkout, object, stack, staged, asset, deploys, script,
                 renewed>>

(* The trust store is made of the object under its key, if it is there.    *)
MakeTrustStore(e) ==
  /\ "trust_store" \in todo[e]
  /\ truststore_key(staged[e]) = "bundle.pem" /\ object[e] # 0
  /\ trust' = [trust EXCEPT !["resource"][e] = object[e]]
  /\ todo' = [todo EXCEPT ![e] = @ \ {"trust_store"}]
  /\ UNCHANGED <<checkout, object, stack, staged, asset, deploys, script,
                 renewed>>

DeployDone(e) ==
  /\ stack[e] \in {"creating", "updating"} /\ todo[e] = {}
  /\ stack' = [stack EXCEPT ![e] = "deployed"]
  /\ asset' = [asset EXCEPT ![e] = staged[e]]
  /\ UNCHANGED <<checkout, object, trust, staged, todo, deploys, script,
                 renewed>>

(* The stack is gone, and with it the bucket, emptied first.               *)
Remove(e) ==
  /\ stack' = [stack EXCEPT ![e] = "none"]
  /\ trust' = [trust EXCEPT !["resource"][e] = 0]
  /\ SetObject(e, 0)
  /\ asset' = [asset EXCEPT ![e] = 0]
  /\ todo' = [todo EXCEPT ![e] = {}]
  /\ UNCHANGED <<checkout, staged, deploys, script>>

(* A change of the stack fails, the trust store's for want of its object   *)
(* or another: a new stack is removed, an old one gets its bundle back.    *)
CreateFails(e) == stack[e] = "creating" /\ Remove(e)

UpdateFails(e) ==
  /\ stack[e] = "updating"
  /\ stack' = [stack EXCEPT ![e] = "deployed"]
  /\ SetObject(e, asset[e])
  /\ todo' = [todo EXCEPT ![e] = {}]
  /\ UNCHANGED <<checkout, trust, staged, asset, deploys, script>>

Destroy(e) == stack[e] = "deployed" /\ Remove(e)

(* The authentication stack makes its trust store of the same object; a    *)
(* later deployment leaves it as it is.                                    *)
DeployAuthentication(e) ==
  /\ trust["authentication"][e] = 0 /\ object[e] # 0
  /\ trust' = [trust EXCEPT !["authentication"][e] = object[e]]
  /\ UNCHANGED <<checkout, object, deployment, script, renewed>>

(* The authentication stack and its trust store are gone, whatever a run   *)
(* of the script has found before.                                         *)
DestroyAuthentication(e) ==
  /\ trust["authentication"][e] # 0
  /\ trust' = [trust EXCEPT !["authentication"][e] = 0]
  /\ renewed' = [r \in Runs |-> renewed[r] \ {e}]
  /\ UNCHANGED <<checkout, object, deployment, script>>

(***************************************************************************)
(* renew_truststores.sh.                                                   *)
(***************************************************************************)

(* The loop goes on with the next environment: with continue or because    *)
(* the body is done.                                                       *)
NextEnv(r, e) ==
  /\ left' = [left EXCEPT ![r] = @ \ {e}]
  /\ at' = [at EXCEPT ![r] = "list"]
  /\ env' = [env EXCEPT ![r] = NoEnv]
  /\ listed' = [listed EXCEPT ![r] = 0]

(* The environments are those named, in the order named, or all.           *)
Start(r) ==
  /\ at[r] = "idle"
  /\ \E es \in SUBSET Envs \ {{}} : left' = [left EXCEPT ![r] = es]
  /\ at' = [at EXCEPT ![r] = "list"]
  /\ UNCHANGED <<checkout, object, trust, deployment, env, listed, renewed>>

(* list-object-versions shows an object.                                   *)
ListVersions(r) ==
  /\ at[r] = "list"
  /\ \E e \in left[r] :
       /\ object[e] # 0
       /\ env' = [env EXCEPT ![r] = e]
       /\ listed' = [listed EXCEPT ![r] = object[e]]
  /\ at' = [at EXCEPT ![r] = "find"]
  /\ UNCHANGED <<checkout, object, trust, deployment, left, renewed>>

(* It shows none, or the command failed: "Skipping".                       *)
SkipUnlisted(r) ==
  /\ at[r] = "list"
  /\ \E e \in left[r] : NextEnv(r, e)
  /\ UNCHANGED <<checkout, object, trust, deployment, renewed>>

(* describe-trust-stores finds the trust store by its name, or not.        *)
FindTrustStore(r) ==
  /\ at[r] = "find"
  /\ \/ /\ trust["authentication"][env[r]] # 0
        /\ at' = [at EXCEPT ![r] = "modify"]
        /\ UNCHANGED <<left, env, listed>>
     \/ NextEnv(r, env[r])
  /\ UNCHANGED <<checkout, object, trust, deployment, renewed>>

(* Slip: a bucket that keeps versions.                                     *)
SlipVersioned(e, shown) == shown

(* What the version id of the object that was listed stands for later: the *)
(* bucket has no versioning, every object's version id is "null", and it   *)
(* is the id of the object that is there.                                  *)
Version(e, shown) == object[e]

Modify(r) ==
  /\ at[r] = "modify" /\ object[env[r]] # 0
  /\ trust["authentication"][env[r]] # 0
  /\ trust' = [trust EXCEPT
                 !["authentication"][env[r]] = Version(env[r], listed[r])]
  /\ renewed' = [renewed EXCEPT ![r] = @ \cup {env[r]}]
  /\ NextEnv(r, env[r])
  /\ UNCHANGED <<checkout, object, deployment>>

(* set -e: the run ends, whatever is left.                                 *)
ModifyFails(r) ==
  /\ at[r] = "modify"
  /\ at' = [at EXCEPT ![r] = "failed"]
  /\ left' = [left EXCEPT ![r] = {}]
  /\ env' = [env EXCEPT ![r] = NoEnv]
  /\ listed' = [listed EXCEPT ![r] = 0]
  /\ UNCHANGED <<checkout, object, trust, deployment, renewed>>

Done(r) ==
  /\ at[r] = "list" /\ left[r] = {}
  /\ at' = [at EXCEPT ![r] = "done"]
  /\ UNCHANGED <<checkout, object, trust, deployment, left, env, listed,
                 renewed>>

StackStep(e) ==
  \/ Deploy(e) \/ Upload(e) \/ MakeTrustStore(e) \/ DeployDone(e)
  \/ CreateFails(e) \/ UpdateFails(e) \/ Destroy(e)

ScriptStep(r) ==
  \/ Start(r) \/ ListVersions(r) \/ SkipUnlisted(r) \/ FindTrustStore(r)
  \/ Modify(r) \/ ModifyFails(r) \/ Done(r)

Next ==
  \/ \E e \in Envs :
       \/ NewBundle(e) \/ FileMissing(e) \/ StackStep(e)
       \/ DeployAuthentication(e) \/ DestroyAuthentication(e)
  \/ \E r \in Runs : ScriptStep(r)

Spec == Init /\ [][Next]_vars

(***************************************************************************)
(* Properties.                                                             *)
(***************************************************************************)

(* The bundles environment e knows.                                        *)
Bundles(e) == {file[e], object[e], staged[e], asset[e], trust["resource"][e],
               trust["authentication"][e]}

(* Every variable has its type, and no bundle is one not yet published.    *)
TypeOK ==
  /\ issued \in [Envs -> Nat]
  /\ file \in [Envs -> Nat] /\ object \in [Envs -> Nat]
  /\ staged \in [Envs -> Nat] /\ asset \in [Envs -> Nat]
  /\ trust \in [Apps -> [Envs -> Nat]]
  /\ \A e \in Envs : Bundles(e) \subseteq 0..issued[e]
  /\ stack \in [Envs -> {"none", "creating", "updating", "deployed"}]
  /\ todo \in [Envs -> SUBSET {"upload", "trust_store"}]
  /\ deploys \in 0..MaxDeploys
  /\ at \in [Runs -> {"idle", "list", "find", "modify", "failed", "done"}]
  /\ left \in [Runs -> SUBSET Envs] /\ renewed \in [Runs -> SUBSET Envs]
  /\ env \in [Runs -> Envs \cup {NoEnv}]
  /\ \A r \in Runs : at[r] \in {"find", "modify"} => env[r] \in Envs
  /\ listed \in [Runs -> Nat]

(* A resource stack that is deployed verifies clients against a bundle,    *)
(* and its bucket has one under the key the other stack and the script     *)
(* read.  That the trust store does not wait for the upload, and that the  *)
(* key is another one when the file is missing, can make a deployment fail *)
(* but never complete without a bundle (truststore.py, s3_bucket.py).      *)
DeployedIsWhole ==
  \A e \in Envs : stack[e] = "deployed" =>
    trust["resource"][e] # 0 /\ object[e] # 0 /\ asset[e] = object[e]

(* An environment that a run of the script reported as updated stays up to *)
(* date until its object changes or its stack is removed: no other run,     *)
(* begun before that change and ended after it, puts an older bundle back. *)
RenewedStaysCurrent ==
  \A r \in Runs : \A e \in renewed[r] : trust["authentication"][e] = object[e]

(* What the listener of application a in environment e admits: mutual TLS  *)
(* in mode verify, with the trust store of its stack.                      *)
Verifies(a, e, b) == trust[a][e] = b

(* A deployment of the resource stack puts the bundle it was made with     *)
(* into the trust store (README.md: "The cdk deployments will upload these *)
(* certificates into the truststores if they are available").              *)
DeployedBundleIsTrusted ==
  \A e \in Envs : stack[e] = "deployed" => Verifies("resource", e, asset[e])
============================================================================
