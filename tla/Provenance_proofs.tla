-------------------------- MODULE Provenance_proofs --------------------------
(***************************************************************************)
(* Proofs about Provenance for any number of requests, of deployment       *)
(* contexts and of sets of signing material.                               *)
(***************************************************************************)
EXTENDS Provenance, TLAPS

(* What the script has written when it is at one of its steps.             *)
ScriptInv ==
  /\ script \in {"bundle", "key"} => root = latest
  /\ script = "key" => bundle = latest

(* The files request r has read are of sets no older than the one of its   *)
(* context's key when it began, and that one no newer than what is stored. *)
ReadInv(r) ==
  /\ began[r] <= key[context[r]]
  /\ step[r] \in {"read_bundle", "read_key", "sign", "served"} =>
       began[r] <= got[r].root
  /\ step[r] \in {"read_key", "sign", "served"} => began[r] <= got[r].bundle
  /\ step[r] \in {"sign", "served"} => began[r] <= got[r].key

ProvInv == TypeOK /\ ScriptInv /\ \A r \in Requests : ReadInv(r)

LEMMA ProvInit == Init => ProvInv
BY ProvenanceAssumption
   DEF Init, ProvInv, TypeOK, ScriptInv, ReadInv, NoFiles

(* A step of the script replaces a stored file by one at least as new.     *)
LEMMA ScriptStepInv == ASSUME ProvInv, ScriptStep PROVE ProvInv'
<1> USE ProvenanceAssumption DEF ProvInv, stores, handlers
<1>1. UNCHANGED <<context, step, got, began>>
  BY DEF ScriptStep, StartUpload, UploadRoot, UploadBundle, UploadKey,
     UploadStops
<1>2. /\ latest' \in 0..MaxSets /\ latest <= latest' /\ latest \in Nat
      /\ root' \in 0..latest' /\ bundle' \in 0..root' /\ bundle <= bundle'
      /\ script' \in {"idle", "root", "bundle", "key"}
      /\ target' \in Contexts
      /\ ScriptInv'
  BY DEF ScriptStep, StartUpload, UploadRoot, UploadBundle, UploadKey,
     UploadStops, TypeOK, ScriptInv
<1>0. /\ key' \in [Contexts -> 0..bundle']
      /\ \A c \in Contexts : key[c] <= key'[c]
  <2>1. \A c \in Contexts : key[c] \in 0..bundle
    BY DEF TypeOK
  <2>2. bundle \in Nat /\ bundle' \in Nat
    BY <1>2 DEF TypeOK
  <2>3. CASE UploadKey
    <3>1. latest \in 0..bundle' /\ bundle' = bundle /\ bundle = latest
      BY <2>3 DEF UploadKey, TypeOK, ScriptInv
    <3>2. key' = [key EXCEPT ![target] = latest]
      BY <2>3 DEF UploadKey
    <3>3. QED BY <2>1, <2>2, <3>1, <3>2 DEF TypeOK
  <2>4. CASE key' = key
    <3>1. 0..bundle \subseteq 0..bundle'
      BY <1>2, <2>2
    <3>2. key' \in [Contexts -> 0..bundle']
      BY <2>4, <3>1 DEF TypeOK
    <3>3. \A c \in Contexts : key[c] <= key'[c]
      BY <2>1, <2>2, <2>4
    <3>4. QED BY <3>2, <3>3
  <2>5. QED BY <2>3, <2>4
          DEF ScriptStep, StartUpload, UploadRoot, UploadBundle, UploadStops
<1>3. TypeOK'
  <2>1. 0..latest \subseteq 0..latest'
    BY <1>2 DEF TypeOK
  <2>2. got \in [Requests -> [root : 0..latest', bundle : 0..latest',
                              key : 0..latest']]
    BY <2>1 DEF TypeOK
  <2>3. began \in [Requests -> 0..latest']
    BY <2>1 DEF TypeOK
  <2>4. QED BY <1>0, <1>1, <1>2, <2>2, <2>3 DEF TypeOK
<1>4. ASSUME NEW r \in Requests PROVE ReadInv(r)'
  <2>1. /\ ReadInv(r) /\ context[r] \in Contexts /\ began[r] \in Nat
        /\ key[context[r]] \in Nat /\ key'[context[r]] \in Nat
    BY <1>0, <1>2 DEF TypeOK
  <2>2. began[r] <= key'[context[r]]
    BY <1>0, <2>1 DEF ReadInv
  <2>3. QED BY <1>1, <2>1, <2>2 DEF ReadInv
<1>5. QED BY <1>2, <1>3, <1>4

LEMMA RequestStepInv ==
  ASSUME ProvInv, NEW r \in Requests, RequestStep(r)
  PROVE  ProvInv'
<1> USE DEF ProvInv, upload, Goto
<1>1. UNCHANGED <<root, bundle, key, latest, script, target, context>>
  BY DEF RequestStep, Begin, ReadRoot, ReadBundle, ReadKey, Sign, Fail
<1>2. \A q \in Requests \ {r} :
        step'[q] = step[q] /\ got'[q] = got[q] /\ began'[q] = began[q]
  BY DEF RequestStep, Begin, ReadRoot, ReadBundle, ReadKey, Sign, Fail, TypeOK
<1>3. {root, bundle, key[context[r]]} \subseteq 0..latest
  <2>1. key[context[r]] \in 0..bundle
    BY DEF TypeOK
  <2>2. QED BY <2>1 DEF TypeOK
<1>4. TypeOK'
  <2>1. got' \in [Requests -> [root : 0..latest, bundle : 0..latest,
                               key : 0..latest]]
    BY <1>3 DEF RequestStep, Begin, ReadRoot, ReadBundle, ReadKey, Sign,
       Fail, TypeOK
  <2>2. began' \in [Requests -> 0..latest]
    BY <1>3 DEF RequestStep, Begin, ReadRoot, ReadBundle, ReadKey, Sign,
       Fail, TypeOK
  <2>3. step' \in [Requests -> {"new", "read_root", "read_bundle",
                                "read_key", "sign", "served", "failed"}]
    BY DEF RequestStep, Begin, ReadRoot, ReadBundle, ReadKey, Sign, Fail,
       TypeOK
  <2>4. QED BY <1>1, <2>1, <2>2, <2>3 DEF TypeOK
<1>5. ReadInv(r)'
  <2>1. /\ began[r] <= key[context[r]] /\ key[context[r]] <= bundle
        /\ bundle <= root
        /\ began[r] \in Nat /\ key[context[r]] \in Nat /\ bundle \in Nat
        /\ root \in Nat
    <3>1. context[r] \in Contexts /\ key[context[r]] \in 0..bundle
      BY DEF TypeOK
    <3>2. QED BY <3>1 DEF TypeOK, ReadInv
  <2>2. CASE Begin(r)
    BY <1>1, <2>1, <2>2 DEF Begin, ReadInv, TypeOK
  <2>3. CASE ReadRoot(r)
    <3>1. began[r] <= root
      BY <2>1
    <3>2. QED BY <1>1, <2>1, <2>3, <3>1 DEF ReadRoot, ReadInv, TypeOK
  <2>4. CASE ReadBundle(r)
    <3>1. began[r] <= bundle
      BY <2>1
    <3>2. QED BY <1>1, <2>1, <2>4, <3>1 DEF ReadBundle, ReadInv, TypeOK
  <2>5. CASE ReadKey(r)
    BY <1>1, <2>1, <2>5 DEF ReadKey, ReadInv, TypeOK
  <2>6. CASE Sign(r) \/ Fail(r)
    BY <1>1, <2>6 DEF Sign, Fail, ReadInv, TypeOK
  <2>7. QED BY <2>2, <2>3, <2>4, <2>5, <2>6 DEF RequestStep
<1>6. ASSUME NEW q \in Requests \ {r} PROVE ReadInv(q)'
  BY <1>1, <1>2 DEF ReadInv
<1>7. ScriptInv'
  BY <1>1 DEF ScriptInv
<1>8. QED BY <1>4, <1>5, <1>6, <1>7

(* The invariant that the properties below follow from.                    *)
THEOREM ProvInvariance == Spec => []ProvInv
<1>1. Init => ProvInv
  BY ProvInit
<1>2. ProvInv /\ [Next]_vars => ProvInv'
  <2> SUFFICES ASSUME ProvInv, [Next]_vars PROVE ProvInv'
    OBVIOUS
  <2>1. CASE Next
    BY <2>1, ScriptStepInv, RequestStepInv DEF Next
  <2>2. CASE UNCHANGED vars
    BY <2>2 DEF vars, ProvInv, TypeOK, ScriptInv, ReadInv
  <2>3. QED BY <2>1, <2>2
<1>3. QED BY <1>1, <1>2, PTL DEF Spec

(* Whatever the script and the requests do in between, no record is signed *)
(* with a file older than the set that was complete for its context when   *)
(* the request began, though every context's run overwrites the root and   *)
(* the bundle of all.                                                      *)
THEOREM NeverOlder == Spec => []NothingOlder
<1>1. ProvInv => NothingOlder
  BY DEF ProvInv, ReadInv, NothingOlder
<1>2. QED BY <1>1, ProvInvariance, PTL

(* So a record is of one set whenever its context was up to date when the  *)
(* request began and no newer set has been put up since, whichever context *)
(* a run is for.                                                           *)
THEOREM WholeBetweenUploads == Spec => []SignedWithLatest
<1>1. ProvInv => SignedWithLatest
  <2> SUFFICES ASSUME ProvInv, NEW r \in Requests, step[r] = "served",
                      began[r] = latest
               PROVE  got[r] = [root |-> latest, bundle |-> latest,
                                key |-> latest]
    BY DEF SignedWithLatest
  <2>1. /\ got[r] \in [root : 0..latest, bundle : 0..latest,
                        key : 0..latest]
        /\ latest \in Nat
    BY DEF ProvInv, TypeOK
  <2>2. latest <= got[r].root /\ latest <= got[r].bundle
        /\ latest <= got[r].key
    BY DEF ProvInv, ReadInv
  <2>3. got[r].root = latest /\ got[r].bundle = latest
        /\ got[r].key = latest
    BY <2>1, <2>2
  <2>4. QED BY <2>1, <2>3
<1>2. QED BY <1>1, ProvInvariance, PTL

(* Type correctness.                                                       *)
THEOREM ProvenanceTypes == Spec => []TypeOK
<1>1. ProvInv => TypeOK
  BY DEF ProvInv
<1>2. QED BY <1>1, ProvInvariance, PTL
=============================================================================
