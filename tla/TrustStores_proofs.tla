------------------------ MODULE TrustStores_proofs ------------------------
(***************************************************************************)
(* Proofs about TrustStores for any number of environments, deployments,   *)
(* bundles and overlapping runs of the script.                             *)
(***************************************************************************)
EXTENDS TrustStores, TLAPS

(* How far the deployment of environment e has come.                       *)
Progress(e) ==
  /\ stack[e] = "none" =>
       object[e] = 0 /\ asset[e] = 0 /\ todo[e] = {}
  /\ stack[e] = "creating" =>
       /\ asset[e] = 0
       /\ "upload" \in todo[e] => object[e] = 0 /\ staged[e] # 0
       /\ "upload" \notin todo[e] => object[e] = staged[e]
       /\ "trust_store" \notin todo[e] =>
            trust["resource"][e] # 0 /\ staged[e] # 0
  /\ stack[e] = "updating" =>
       /\ asset[e] # 0 /\ trust["resource"][e] # 0 /\ object[e] # 0
       /\ "upload" \in todo[e] => staged[e] # 0
       /\ "trust_store" \in todo[e] => staged[e] = 0
       /\ todo[e] = {} => object[e] = staged[e]
  /\ stack[e] = "deployed" =>
       /\ trust["resource"][e] # 0 /\ object[e] # 0 /\ asset[e] = object[e]
       /\ todo[e] = {}

TrustInv ==
  /\ TypeOK
  /\ \A e \in Envs : Progress(e)
  /\ RenewedStaysCurrent

LEMMA TrustInit == Init => TrustInv
BY TrustAssumption
   DEF Init, TrustInv, TypeOK, Bundles, Progress, RenewedStaysCurrent, Apps

(* What has been renewed survives a change of the object of e, as long as  *)
(* the authentication trust stores stay as they are.                       *)
LEMMA SetObjectKeepsRenewed ==
  ASSUME TrustInv, NEW e \in Envs, NEW b \in Nat, SetObject(e, b),
         \A d \in Envs : trust'["authentication"][d] = trust["authentication"][d]
  PROVE  /\ RenewedStaysCurrent' /\ renewed' \in [Runs -> SUBSET Envs]
         /\ object' \in [Envs -> Nat] /\ object'[e] = b
         /\ \A d \in Envs \ {e} : object'[d] = object[d]
<1>1. /\ renewed \in [Runs -> SUBSET Envs] /\ object \in [Envs -> Nat]
  BY DEF TrustInv, TypeOK
<1>2. /\ object' \in [Envs -> Nat] /\ object'[e] = b
      /\ \A d \in Envs \ {e} : object'[d] = object[d]
  BY <1>1 DEF SetObject
<1>3. /\ renewed' \in [Runs -> SUBSET Envs]
      /\ \A r \in Runs : \A d \in renewed'[r] :
           d \in renewed[r] /\ (d = e => b = object[e])
  BY <1>1 DEF SetObject
<1>4. ASSUME NEW r \in Runs, NEW d \in renewed'[r]
      PROVE  trust'["authentication"][d] = object'[d]
  <2>1. d \in renewed[r] /\ d \in Envs /\ (d = e => b = object[e])
    BY <1>1, <1>3
  <2>2. trust["authentication"][d] = object[d]
    BY <2>1 DEF TrustInv, RenewedStaysCurrent
  <2>3. object'[d] = object[d]
    BY <1>2, <2>1
  <2>4. QED BY <2>1, <2>2, <2>3
<1>5. QED BY <1>2, <1>3, <1>4 DEF RenewedStaysCurrent

(* The published bundles only grow.                                        *)
LEMMA CheckoutInv ==
  ASSUME TrustInv, NEW e \in Envs, NewBundle(e) \/ FileMissing(e)
  PROVE  TrustInv'
<1> USE DEF TrustInv
<1>1. UNCHANGED <<object, trust, stack, staged, asset, todo, deploys, at, left,
                  env, listed, renewed>>
  BY DEF NewBundle, FileMissing, deployment, script
<1>2. /\ issued' \in [Envs -> Nat] /\ file' \in [Envs -> Nat]
      /\ \A d \in Envs : 0..issued[d] \subseteq 0..issued'[d]
      /\ \A d \in Envs : file'[d] \in {file[d], issued'[d], 0}
  <2>1. issued \in [Envs -> Nat] /\ file \in [Envs -> Nat]
    BY DEF TypeOK
  <2>2. CASE NewBundle(e)
    <3>1. /\ issued' = [issued EXCEPT ![e] = @ + 1]
          /\ file' = [file EXCEPT ![e] = issued'[e]]
      BY <2>2 DEF NewBundle
    <3>2. /\ issued' \in [Envs -> Nat]
          /\ \A d \in Envs : issued'[d] \in {issued[d], issued[d] + 1}
      BY <2>1, <3>1
    <3>3. /\ file' \in [Envs -> Nat]
          /\ \A d \in Envs : file'[d] \in {file[d], issued'[d]}
      BY <2>1, <3>1, <3>2
    <3>4. \A d \in Envs : 0..issued[d] \subseteq 0..issued'[d]
      BY <2>1, <3>2
    <3>5. QED BY <3>2, <3>3, <3>4
  <2>3. CASE FileMissing(e)
    BY <2>1, <2>3 DEF FileMissing
  <2>4. QED BY <2>2, <2>3
<1>3. ASSUME NEW d \in Envs
      PROVE  Bundles(d)' \subseteq 0..issued'[d]
  <2>1. Bundles(d)' \subseteq Bundles(d) \cup {issued'[d], 0}
    BY <1>1, <1>2 DEF Bundles
  <2>2. Bundles(d) \subseteq 0..issued[d] /\ issued'[d] \in 0..issued'[d]
        /\ 0 \in 0..issued'[d]
    BY <1>2 DEF TypeOK
  <2>3. QED BY <1>2, <2>1, <2>2
<1>4. TypeOK'
  BY <1>1, <1>2, <1>3 DEF TypeOK
<1>5. QED BY <1>1, <1>4 DEF Progress, RenewedStaysCurrent

(* A step that shows an environment only bundles it knows already keeps    *)
(* them published.                                                         *)
LEMMA StayPublished ==
  ASSUME TypeOK, UNCHANGED issued, NEW e \in Envs,
         \A d \in Envs : Bundles(d)' \subseteq Bundles(d) \cup {0}
  PROVE  \A d \in Envs : Bundles(d)' \subseteq 0..issued'[d]
<1> TAKE d \in Envs
<1>1. Bundles(d) \subseteq 0..issued[d] /\ issued[d] \in Nat
  BY DEF TypeOK
<1>2. 0 \in 0..issued[d]
  BY <1>1
<1>3. QED BY <1>1, <1>2

(* The steps of a deployment that leave the object alone.                  *)
LEMMA DeployInv ==
  ASSUME TrustInv, NEW e \in Envs,
         Deploy(e) \/ MakeTrustStore(e) \/ DeployDone(e)
  PROVE  TrustInv'
<1> USE TrustAssumption DEF TrustInv
<1>1. UNCHANGED <<issued, file, object, at, left, env, listed, renewed>>
  BY DEF Deploy, MakeTrustStore, DeployDone, checkout, script
<1>2. /\ stack' \in [Envs -> {"none", "creating", "updating", "deployed"}]
      /\ staged' \in [Envs -> Nat] /\ asset' \in [Envs -> Nat]
      /\ todo' \in [Envs -> SUBSET {"upload", "trust_store"}]
      /\ trust' \in [Apps -> [Envs -> Nat]]
      /\ deploys' \in 0..MaxDeploys
      /\ trust'["authentication"] = trust["authentication"]
  <2>1. CASE Deploy(e)
    BY <2>1 DEF Deploy, Changes, TypeOK
  <2>2. CASE MakeTrustStore(e)
    BY <2>2 DEF MakeTrustStore, TypeOK, Apps
  <2>3. CASE DeployDone(e)
    BY <2>3 DEF DeployDone, TypeOK
  <2>4. QED BY <2>1, <2>2, <2>3
<1>3. \A d \in Envs : Bundles(d)' \subseteq Bundles(d) \cup {0}
  <2>1. CASE Deploy(e)
    BY <1>1, <2>1 DEF Deploy, Bundles, TypeOK
  <2>2. CASE MakeTrustStore(e)
    BY <1>1, <2>2 DEF MakeTrustStore, Bundles, TypeOK, Apps
  <2>3. CASE DeployDone(e)
    BY <1>1, <2>3 DEF DeployDone, Bundles, TypeOK
  <2>4. QED BY <2>1, <2>2, <2>3
<1>4. TypeOK'
  BY <1>1, <1>2, <1>3, StayPublished DEF TypeOK
<1>5. ASSUME NEW d \in Envs PROVE Progress(d)'
  <2>0. Progress(d) /\ Progress(e)
    OBVIOUS
  <2>1. CASE Deploy(e)
    <3>1. CASE d # e
      BY <1>1, <2>0, <2>1, <3>1 DEF Deploy, Progress, TypeOK
    <3>2. CASE d = e /\ stack[e] = "none"
      BY <1>1, <2>0, <2>1, <3>2 DEF Deploy, Changes, Progress, TypeOK
    <3>3. CASE d = e /\ stack[e] = "deployed"
      <4>1. /\ stack'[e] = "updating" /\ staged'[e] = file[e]
            /\ todo'[e] = Changes(e, file[e])
            /\ UNCHANGED <<object, asset, trust>>
        BY <2>1, <3>3 DEF Deploy, TypeOK
      <4>2. asset[e] # 0 /\ object[e] # 0 /\ asset[e] = object[e]
            /\ trust["resource"][e] # 0
        BY <2>0, <3>3 DEF Progress
      <4>3. /\ "upload" \in Changes(e, file[e]) <=>
                  file[e] # 0 /\ file[e] # asset[e]
            /\ "trust_store" \in Changes(e, file[e]) <=> file[e] = 0
        BY <3>3, <4>2 DEF Changes, truststore_key
      <4>4. QED BY <3>3, <4>1, <4>2, <4>3 DEF Progress
    <3>4. QED BY <2>1, <3>1, <3>2, <3>3 DEF Deploy
  <2>2. CASE MakeTrustStore(e)
    BY <1>1, <2>0, <2>2
       DEF MakeTrustStore, truststore_key, Progress, TypeOK, Apps
  <2>3. CASE DeployDone(e)
    BY <1>1, <2>0, <2>3 DEF DeployDone, Progress, TypeOK
  <2>4. QED BY <2>1, <2>2, <2>3
<1>6. RenewedStaysCurrent'
  BY <1>1, <1>2 DEF RenewedStaysCurrent
<1>7. QED BY <1>4, <1>5, <1>6

(* The steps that put an object, put the old one back or remove it.        *)
LEMMA ObjectInv ==
  ASSUME TrustInv, NEW e \in Envs,
         \/ Upload(e) \/ CreateFails(e) \/ UpdateFails(e) \/ Destroy(e)
  PROVE  TrustInv'
<1> USE DEF TrustInv
<1>1. UNCHANGED <<issued, file, at, left, env, listed, deploys, staged>>
  BY DEF Upload, CreateFails, UpdateFails, Destroy, Remove, checkout, script
<1>2. /\ trust' \in [Apps -> [Envs -> Nat]]
      /\ \A d \in Envs :
           /\ trust'["authentication"][d] = trust["authentication"][d]
           /\ trust'["resource"][d] \in {trust["resource"][d], 0}
           /\ d # e => trust'["resource"][d] = trust["resource"][d]
      /\ stack' \in [Envs -> {"none", "creating", "updating", "deployed"}]
      /\ asset' \in [Envs -> Nat]
      /\ todo' \in [Envs -> SUBSET {"upload", "trust_store"}]
      /\ \A d \in Envs : asset'[d] \in {asset[d], 0}
      /\ \A d \in Envs \ {e} :
           stack'[d] = stack[d] /\ asset'[d] = asset[d] /\ todo'[d] = todo[d]
  <2>1. CASE Upload(e)
    BY <2>1 DEF Upload, TypeOK
  <2>2. CASE Remove(e)
    BY <2>2 DEF Remove, TypeOK, Apps
  <2>3. CASE UpdateFails(e)
    BY <2>3 DEF UpdateFails, TypeOK
  <2>4. QED BY <2>1, <2>2, <2>3 DEF CreateFails, Destroy
<1>3. PICK b \in {staged[e], asset[e], 0} : SetObject(e, b)
  BY DEF Upload, CreateFails, UpdateFails, Destroy, Remove
<1>4. b \in Nat
  BY <1>3 DEF TypeOK
<1>5. /\ RenewedStaysCurrent' /\ renewed' \in [Runs -> SUBSET Envs]
      /\ object' \in [Envs -> Nat] /\ object'[e] = b
      /\ \A d \in Envs \ {e} : object'[d] = object[d]
  BY <1>2, <1>3, <1>4, SetObjectKeepsRenewed
<1>6. \A d \in Envs : Bundles(d)' \subseteq Bundles(d) \cup {0}
  <2> TAKE d \in Envs
  <2>1. object'[d] \in {object[d], staged[d], asset[d], 0}
    BY <1>3, <1>5
  <2>2. QED BY <1>1, <1>2, <2>1 DEF Bundles
<1>7. TypeOK'
  BY <1>1, <1>2, <1>5, <1>6, StayPublished DEF TypeOK
<1>8. ASSUME NEW d \in Envs \ {e} PROVE Progress(d)'
  BY <1>1, <1>2, <1>5 DEF Progress
<1>9. Progress(e)'
  <2>0. Progress(e)
    OBVIOUS
  <2>1. CASE Upload(e)
    BY <1>1, <1>5, <2>0, <2>1 DEF Upload, SetObject, Progress, TypeOK
  <2>2. CASE Remove(e)
    BY <1>1, <2>2 DEF Remove, SetObject, Progress, TypeOK
  <2>3. CASE UpdateFails(e)
    BY <1>1, <2>0, <2>3 DEF UpdateFails, SetObject, Progress, TypeOK
  <2>4. QED BY <2>1, <2>2, <2>3 DEF CreateFails, Destroy
<1>10. QED BY <1>5, <1>7, <1>8, <1>9

(* So does the step to the next environment.                               *)
LEMMA NextEnvTypes ==
  ASSUME TypeOK, NEW r \in Runs, NEW e, NextEnv(r, e)
  PROVE  /\ at' \in [Runs -> {"idle", "list", "find", "modify", "failed", "done"}]
         /\ left' \in [Runs -> SUBSET Envs]
         /\ env' \in [Runs -> Envs \cup {NoEnv}]
         /\ \A q \in Runs : at'[q] \in {"find", "modify"} => env'[q] \in Envs
         /\ listed' \in [Runs -> Nat]
<1> USE DEF TypeOK
<1>1. at' = [at EXCEPT ![r] = "list"] /\ env' = [env EXCEPT ![r] = NoEnv]
  BY DEF NextEnv
<1>2. left' \in [Runs -> SUBSET Envs] /\ listed' \in [Runs -> Nat]
  BY DEF NextEnv
<1>3. \A q \in Runs : at'[q] \in {"find", "modify"} => env'[q] \in Envs
  BY <1>1
<1>4. QED BY <1>1, <1>2, <1>3

(* The script keeps its own place.                                         *)
LEMMA ScriptTypes ==
  ASSUME TypeOK, NEW r \in Runs, ScriptStep(r)
  PROVE  /\ at' \in [Runs -> {"idle", "list", "find", "modify", "failed", "done"}]
         /\ left' \in [Runs -> SUBSET Envs]
         /\ env' \in [Runs -> Envs \cup {NoEnv}]
         /\ \A q \in Runs : at'[q] \in {"find", "modify"} => env'[q] \in Envs
         /\ listed' \in [Runs -> Nat]
<1> USE DEF TypeOK
<1>1. CASE Start(r)
  BY <1>1 DEF Start
<1>2. CASE ListVersions(r)
  <2>1. PICK e \in left[r] :
          /\ env' = [env EXCEPT ![r] = e]
          /\ listed' = [listed EXCEPT ![r] = object[e]]
    BY <1>2 DEF ListVersions
  <2>2. e \in Envs /\ object[e] \in Nat
    OBVIOUS
  <2>3. at' = [at EXCEPT ![r] = "find"] /\ UNCHANGED left
    BY <1>2 DEF ListVersions
  <2>4. QED BY <2>1, <2>2, <2>3
<1>3. CASE SkipUnlisted(r)
  <2>1. PICK e \in left[r] : NextEnv(r, e)
    BY <1>3 DEF SkipUnlisted
  <2>2. QED BY <2>1, NextEnvTypes
<1>4. CASE FindTrustStore(r)
  <2>1. CASE NextEnv(r, env[r])
    BY <2>1, NextEnvTypes
  <2>2. CASE /\ at' = [at EXCEPT ![r] = "modify"]
             /\ UNCHANGED <<left, env, listed>>
    <3>1. env[r] \in Envs
      BY <1>4 DEF FindTrustStore
    <3>2. \A q \in Runs : at'[q] \in {"find", "modify"} => env'[q] \in Envs
      BY <2>2, <3>1
    <3>3. QED BY <2>2, <3>2
  <2>3. QED BY <1>4, <2>1, <2>2 DEF FindTrustStore
<1>5. CASE Modify(r)
  BY <1>5, NextEnvTypes DEF Modify
<1>6. CASE ModifyFails(r)
  <2>1. /\ at' = [at EXCEPT ![r] = "failed"]
        /\ env' = [env EXCEPT ![r] = NoEnv]
    BY <1>6 DEF ModifyFails
  <2>2. left' \in [Runs -> SUBSET Envs] /\ listed' \in [Runs -> Nat]
    BY <1>6 DEF ModifyFails
  <2>3. \A q \in Runs : at'[q] \in {"find", "modify"} => env'[q] \in Envs
    BY <2>1
  <2>4. QED BY <2>1, <2>2, <2>3
<1>7. CASE Done(r)
  BY <1>7 DEF Done
<1>8. QED BY <1>1, <1>2, <1>3, <1>4, <1>5, <1>6, <1>7 DEF ScriptStep

(* A step that sets an authentication trust store to the object there is   *)
(* keeps it published and what was renewed current.                        *)
LEMMA CopyInv ==
  ASSUME TrustInv, NEW e \in Envs,
         trust' = [trust EXCEPT !["authentication"][e] = object[e]],
         UNCHANGED <<issued, file, object, stack, staged, asset, todo>>,
         \A r \in Runs : renewed'[r] \subseteq renewed[r] \cup {e},
         renewed' \in [Runs -> SUBSET Envs]
  PROVE  /\ trust' \in [Apps -> [Envs -> Nat]]
         /\ \A d \in Envs : Bundles(d)' \subseteq Bundles(d) \cup {0}
         /\ \A d \in Envs : Progress(d)'
         /\ RenewedStaysCurrent'
<1>1. /\ trust \in [Apps -> [Envs -> Nat]] /\ object \in [Envs -> Nat]
      /\ renewed \in [Runs -> SUBSET Envs]
  BY DEF TrustInv, TypeOK
<1>2. /\ trust' \in [Apps -> [Envs -> Nat]]
      /\ trust'["resource"] = trust["resource"]
      /\ trust'["authentication"][e] = object[e]
      /\ \A d \in Envs \ {e} :
           trust'["authentication"][d] = trust["authentication"][d]
  BY <1>1 DEF Apps
<1>3. \A d \in Envs : Bundles(d)' \subseteq Bundles(d) \cup {0}
  <2> TAKE d \in Envs
  <2>1. trust'["authentication"][d] \in {trust["authentication"][d], object[d]}
    BY <1>2
  <2>2. QED BY <1>2, <2>1 DEF Bundles
<1>4. ASSUME NEW d \in Envs PROVE Progress(d)'
  <2>1. Progress(d)
    BY DEF TrustInv
  <2>2. QED BY <1>2, <2>1 DEF Progress
<1>5. ASSUME NEW r \in Runs, NEW d \in renewed'[r]
      PROVE  trust'["authentication"][d] = object'[d]
  <2>1. CASE d = e
    BY <1>2, <2>1
  <2>2. CASE d # e
    <3>1. d \in renewed[r] /\ d \in Envs \ {e}
      BY <1>1, <2>2
    <3>2. trust["authentication"][d] = object[d]
      BY <3>1 DEF TrustInv, RenewedStaysCurrent
    <3>3. QED BY <1>2, <3>1, <3>2
  <2>3. QED BY <2>1, <2>2
<1>6. QED BY <1>2, <1>3, <1>4, <1>5 DEF RenewedStaysCurrent

LEMMA RenewInv ==
  ASSUME TrustInv, \/ \E e \in Envs : DeployAuthentication(e)
                   \/ \E r \in Runs : ScriptStep(r)
  PROVE  TrustInv'
<1> USE DEF TrustInv
<1>1. UNCHANGED <<issued, file, object, stack, staged, asset, todo, deploys>>
  BY DEF DeployAuthentication, ScriptStep, Start, ListVersions, SkipUnlisted,
     FindTrustStore, Modify, ModifyFails, Done, checkout, deployment
<1>2. ASSUME NEW e \in Envs, DeployAuthentication(e)
      PROVE  TrustInv'
  <2>1. /\ trust' = [trust EXCEPT !["authentication"][e] = object[e]]
        /\ UNCHANGED <<at, left, env, listed, renewed>>
    BY <1>2 DEF DeployAuthentication, script
  <2>2. renewed' \in [Runs -> SUBSET Envs]
    BY <2>1 DEF TypeOK
  <2>3. /\ trust' \in [Apps -> [Envs -> Nat]]
        /\ \A d \in Envs : Bundles(d)' \subseteq Bundles(d) \cup {0}
        /\ \A d \in Envs : Progress(d)'
        /\ RenewedStaysCurrent'
    BY <1>1, <2>1, <2>2, CopyInv
  <2>4. \A d \in Envs : Bundles(d)' \subseteq 0..issued'[d]
    BY <1>1, <2>3, StayPublished
  <2>5. QED BY <1>1, <2>1, <2>3, <2>4 DEF TypeOK
<1>3. ASSUME NEW r \in Runs, Modify(r)
      PROVE  TrustInv'
  <2> DEFINE e == env[r]
  <2>1. e \in Envs
    BY <1>3, TrustAssumption DEF Modify, TypeOK, Apps
  <2>2. /\ trust' = [trust EXCEPT !["authentication"][e] = object[e]]
        /\ renewed' = [renewed EXCEPT ![r] = @ \cup {e}]
    BY <1>3 DEF Modify, Version
  <2>3. /\ renewed' \in [Runs -> SUBSET Envs]
        /\ \A q \in Runs : renewed'[q] \subseteq renewed[q] \cup {e}
    BY <2>1, <2>2 DEF TypeOK
  <2>4. /\ trust' \in [Apps -> [Envs -> Nat]]
        /\ \A d \in Envs : Bundles(d)' \subseteq Bundles(d) \cup {0}
        /\ \A d \in Envs : Progress(d)'
        /\ RenewedStaysCurrent'
    BY <1>1, <2>1, <2>2, <2>3, CopyInv
  <2>5. \A d \in Envs : Bundles(d)' \subseteq 0..issued'[d]
    BY <1>1, <2>1, <2>4, StayPublished
  <2>6. /\ at' \in [Runs -> {"idle", "list", "find", "modify", "failed", "done"}]
        /\ left' \in [Runs -> SUBSET Envs]
        /\ env' \in [Runs -> Envs \cup {NoEnv}]
        /\ \A q \in Runs : at'[q] \in {"find", "modify"} => env'[q] \in Envs
        /\ listed' \in [Runs -> Nat]
    BY <1>3, ScriptTypes DEF ScriptStep
  <2>7. QED BY <1>1, <2>3, <2>4, <2>5, <2>6 DEF TypeOK
<1>4. ASSUME NEW r \in Runs,
             \/ Start(r) \/ ListVersions(r) \/ SkipUnlisted(r)
             \/ FindTrustStore(r) \/ ModifyFails(r) \/ Done(r)
      PROVE  TrustInv'
  <2>1. UNCHANGED <<trust, renewed>>
    BY <1>4 DEF Start, ListVersions, SkipUnlisted, FindTrustStore, ModifyFails,
       Done
  <2>2. /\ at' \in [Runs -> {"idle", "list", "find", "modify", "failed", "done"}]
        /\ left' \in [Runs -> SUBSET Envs]
        /\ env' \in [Runs -> Envs \cup {NoEnv}]
        /\ \A q \in Runs : at'[q] \in {"find", "modify"} => env'[q] \in Envs
        /\ listed' \in [Runs -> Nat]
    BY <1>4, ScriptTypes DEF ScriptStep
  <2>3. \A d \in Envs : Bundles(d)' = Bundles(d)
    BY <1>1, <2>1 DEF Bundles
  <2>4. TypeOK'
    BY <1>1, <2>1, <2>2, <2>3 DEF TypeOK
  <2>5. QED BY <1>1, <2>1, <2>4 DEF Progress, RenewedStaysCurrent
<1>5. QED BY <1>2, <1>3, <1>4 DEF ScriptStep

LEMMA DestroyAuthenticationInv ==
  ASSUME TrustInv, NEW e \in Envs, DestroyAuthentication(e)
  PROVE  TrustInv'
<1> USE DEF TrustInv
<1>1. /\ trust' = [trust EXCEPT !["authentication"][e] = 0]
      /\ renewed' = [r \in Runs |-> renewed[r] \ {e}]
      /\ UNCHANGED <<issued, file, object, stack, staged, asset, todo, deploys,
                     at, left, env, listed>>
  BY DEF DestroyAuthentication, checkout, deployment, script
<1>2. /\ trust \in [Apps -> [Envs -> Nat]] /\ renewed \in [Runs -> SUBSET Envs]
  BY DEF TypeOK
<1>3. /\ trust' \in [Apps -> [Envs -> Nat]]
      /\ trust'["resource"] = trust["resource"]
      /\ trust'["authentication"][e] = 0
      /\ \A d \in Envs \ {e} :
           trust'["authentication"][d] = trust["authentication"][d]
  BY <1>1, <1>2 DEF Apps
<1>4. /\ renewed' \in [Runs -> SUBSET Envs]
      /\ \A r \in Runs : renewed'[r] = renewed[r] \ {e}
  BY <1>1, <1>2
<1>5. \A d \in Envs : Bundles(d)' \subseteq Bundles(d) \cup {0}
  <2> TAKE d \in Envs
  <2>1. trust'["authentication"][d] \in {trust["authentication"][d], 0}
    BY <1>3
  <2>2. QED BY <1>1, <1>3, <2>1 DEF Bundles
<1>6. \A d \in Envs : Bundles(d)' \subseteq 0..issued'[d]
  BY <1>1, <1>5, StayPublished
<1>7. TypeOK'
  BY <1>1, <1>3, <1>4, <1>6 DEF TypeOK
<1>8. ASSUME NEW d \in Envs PROVE Progress(d)'
  <2>1. Progress(d)
    OBVIOUS
  <2>2. QED BY <1>1, <1>3, <2>1 DEF Progress
<1>9. ASSUME NEW r \in Runs, NEW d \in renewed'[r]
      PROVE  trust'["authentication"][d] = object'[d]
  <2>1. d \in renewed[r] /\ d \in Envs \ {e}
    BY <1>2, <1>4
  <2>2. trust["authentication"][d] = object[d]
    BY <2>1 DEF RenewedStaysCurrent
  <2>3. QED BY <1>1, <1>3, <2>1, <2>2
<1>10. QED BY <1>7, <1>8, <1>9 DEF RenewedStaysCurrent

(* The invariant that the properties below follow from.                    *)
THEOREM TrustInvariance == Spec => []TrustInv
<1>1. TrustInv /\ [Next]_vars => TrustInv'
  <2> SUFFICES ASSUME TrustInv, [Next]_vars PROVE TrustInv'
    OBVIOUS
  <2>1. CASE UNCHANGED vars
    BY <2>1 DEF vars, TrustInv, TypeOK, Bundles, Progress, RenewedStaysCurrent
  <2>2. CASE Next
    BY <2>2, CheckoutInv, DeployInv, ObjectInv, RenewInv, DestroyAuthenticationInv
       DEF Next, StackStep
  <2>3. QED BY <2>1, <2>2
<1>2. QED BY <1>1, TrustInit, PTL DEF Spec

(* Type correctness.                                                       *)
THEOREM TrustTypes == Spec => []TypeOK
<1>1. TrustInv => TypeOK
  BY DEF TrustInv
<1>2. QED BY <1>1, TrustInvariance, PTL

(* No deployment completes without a bundle to verify clients against.     *)
THEOREM NeverWithoutBundle == Spec => []DeployedIsWhole
<1>1. TrustInv => DeployedIsWhole
  BY DEF TrustInv, Progress, DeployedIsWhole
<1>2. QED BY <1>1, TrustInvariance, PTL

(* However many runs of the script and deployments overlap, none puts an   *)
(* older bundle back over one that was renewed.                            *)
THEOREM NoOldBundleBack == Spec => []RenewedStaysCurrent
<1>1. TrustInv => RenewedStaysCurrent
  BY DEF TrustInv
<1>2. QED BY <1>1, TrustInvariance, PTL
============================================================================
