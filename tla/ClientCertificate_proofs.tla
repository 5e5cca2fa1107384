---------------------- MODULE ClientCertificate_proofs ----------------------
(***************************************************************************)
(* Proofs about ClientCertificate, alone and within EventLoop, for any     *)
(* number of tasks, clients, renewals and restarts.                        *)
(***************************************************************************)
EXTENDS EventLoop, TLAPS

(* What task w relies on while it sends: the session it makes for the      *)
(* application finds both files downloaded, and they are those accepted.   *)
TaskInv(w) ==
  /\ began[w] <= InPlace
  /\ call[w] = "application" =>
       \A f \in Files : cache[w][f] = accepted[w] /\ accepted[w] # 0
  /\ call[w] = "directory" /\ step[w] \in {"key", "request"} =>
       cache[w]["bundle"] # 0
  /\ call[w] = "directory" /\ step[w] = "request" => cache[w]["key"] # 0
  /\ step[w] # "idle" => call[w] # "none"

CertInv ==
  /\ TypeOK /\ NoFileOlderThanTask
  /\ \A w \in Tasks : TaskInv(w)

LEMMA CertInit == Init => CertInv
BY CertificateAssumption
   DEF Init, CertInv, TypeOK, NoFileOlderThanTask, TaskInv, InPlace, Files

(* No object goes back to an earlier renewal.                              *)
LEMMA RenewalInv ==
  ASSUME CertInv, StartRenewal \/ \E f \in Files : PutObject(f)
  PROVE  CertInv'
<1> USE CertificateAssumption DEF CertInv
<1>1. UNCHANGED <<cache, sending, began, restarts>>
  BY DEF StartRenewal, PutObject
<1>2. /\ latest \in Nat /\ latest' \in 0..MaxRenewals /\ latest <= latest'
      /\ stored' \in [Files -> 0..latest']
      /\ \A f \in Files : stored[f] <= stored'[f]
  <2>1. latest \in 0..MaxRenewals /\ stored \in [Files -> 0..latest]
    BY DEF TypeOK
  <2>2. CASE StartRenewal
    BY <2>1, <2>2 DEF StartRenewal
  <2>3. ASSUME NEW f \in Files, PutObject(f)
        PROVE  /\ latest' = latest /\ stored' \in [Files -> 0..latest]
               /\ \A g \in Files : stored[g] <= stored'[g]
    BY <2>1, <2>3 DEF PutObject
  <2>4. QED BY <2>1, <2>2, <2>3
<1>3. InPlace \in Int /\ InPlace' \in Int /\ InPlace <= InPlace'
  <2>1. \A f \in Files : stored[f] \in Nat /\ stored'[f] \in Nat
    BY <1>2 DEF TypeOK
  <2>2. QED BY <1>2, <2>1 DEF InPlace, Files
<1>4. TypeOK'
  BY <1>1, <1>2 DEF TypeOK, sending
<1>5. NoFileOlderThanTask'
  <2>1. \A w \in Tasks : \A f \in Files : cache[w][f] \in Nat
    BY DEF TypeOK
  <2>2. QED BY <1>1, <1>2, <2>1 DEF NoFileOlderThanTask
<1>6. ASSUME NEW w \in Tasks PROVE TaskInv(w)'
  <2>1. TaskInv(w) /\ began[w] \in Nat
    BY DEF TypeOK
  <2>2. began[w] <= InPlace'
    BY <1>3, <2>1 DEF TaskInv
  <2>3. QED BY <1>1, <2>1, <2>2 DEF TaskInv, sending
<1>7. QED BY <1>4, <1>5, <1>6

(* A step of task w leaves what the others rely on.                        *)
LEMMA OtherTasks ==
  ASSUME CertInv, NEW w \in Tasks,
         Send(w) \/ SendStep(w) \/ Restart(w),
         NEW v \in Tasks \ {w}
  PROVE  /\ TaskInv(v)'
         /\ cache'[v] = cache[v] /\ began'[v] = began[v]
<1>1. /\ UNCHANGED bucket
      /\ cache'[v] = cache[v] /\ began'[v] = began[v] /\ step'[v] = step[v]
      /\ call'[v] = call[v] /\ accepted'[v] = accepted[v]
  BY DEF Send, SendStep, Resolve, ResolveFails, FindAddress, RequestEnds,
     Restart, End, CertInv, TypeOK
<1>2. InPlace' = InPlace
  BY <1>1 DEF bucket, InPlace
<1>3. QED BY <1>1, <1>2 DEF CertInv, TaskInv

LEMMA TaskStepInv ==
  ASSUME CertInv, NEW w \in Tasks, Send(w) \/ SendStep(w) \/ Restart(w)
  PROVE  CertInv'
<1> USE CertificateAssumption DEF CertInv
<1>1. UNCHANGED bucket /\ InPlace' = InPlace
  BY DEF Send, SendStep, Resolve, ResolveFails, FindAddress, RequestEnds,
     Restart, End, bucket, InPlace
<1>2. InPlace \in Nat /\ InPlace <= latest
      /\ \A f \in Files : /\ stored[f] \in Nat
                         /\ InPlace <= stored[f] /\ stored[f] <= latest
  BY DEF TypeOK, InPlace, Files
<1>3. TypeOK' /\ TaskInv(w)'
      /\ \A f \in Files : cache'[w][f] # 0 =>
           began'[w] <= cache'[w][f] /\ cache'[w][f] <= latest
  <2> USE DEF TypeOK, TaskInv, Files, bucket
  <2>1. CASE Send(w)
    BY <2>1, <1>1 DEF Send, NoFileOlderThanTask
  <2>2. ASSUME NEW f \in Files, step[w] = f,
               \/ cache[w][f] # 0 /\ UNCHANGED cache
               \/ /\ cache[w][f] = 0 /\ stored[f] # 0
                  /\ cache' = [cache EXCEPT ![w][f] = stored[f]],
               step' = [step EXCEPT ![w] = After(f)],
               UNCHANGED <<bucket, call, accepted, began, restarts>>
        PROVE  /\ TypeOK' /\ TaskInv(w)'
               /\ \A g \in Files : cache'[w][g] # 0 =>
                    began'[w] <= cache'[w][g] /\ cache'[w][g] <= latest
    <3>1. /\ cache'[w][f] # 0
          /\ \A g \in Files \ {f} : cache'[w][g] = cache[w][g]
          /\ cache' \in [Tasks -> [Files -> Nat]]
      <4>1. cache \in [Tasks -> [Files -> Nat]] /\ stored[f] \in Nat
        OBVIOUS
      <4>2. CASE cache[w][f] # 0 /\ UNCHANGED cache
        BY <4>1, <4>2
      <4>3. CASE /\ stored[f] # 0
                 /\ cache' = [cache EXCEPT ![w][f] = stored[f]]
        BY <4>1, <4>3
      <4>4. QED BY <2>2, <4>2, <4>3
    <3>2. \/ cache'[w][f] = cache[w][f] /\ cache[w][f] # 0
          \/ cache'[w][f] = stored[f] /\ cache[w][f] = 0 /\ stored[f] # 0
      BY <2>2
    <3>3. \A g \in Files : cache'[w][g] # 0 =>
            began[w] <= cache'[w][g] /\ cache'[w][g] <= latest
      BY <3>1, <3>2, <1>2 DEF NoFileOlderThanTask
    <3>4. TypeOK'
      BY <2>2, <3>1 DEF After
    <3>5. TaskInv(w)'
      <4>1. call' = call /\ accepted' = accepted /\ began' = began
        BY <2>2
      <4>2. step'[w] = After(f)
        BY <2>2
      <4>3. call[w] = "application" =>
              \A g \in Files : cache'[w][g] = accepted[w] /\ accepted[w] # 0
        BY <2>2, <3>1, <3>2
      <4>4. CASE f = "bundle"
        BY <4>1, <4>2, <4>3, <4>4, <3>1, <1>1, <2>2 DEF After
      <4>5. CASE f = "key"
        BY <4>1, <4>2, <4>3, <4>5, <3>1, <1>1, <2>2 DEF After
      <4>6. QED BY <4>4, <4>5
    <3>6. QED BY <2>2, <3>3, <3>4, <3>5
  <2>3. CASE ResolveFails(w) \/ RequestEnds(w)
    <3>1. End(w) /\ UNCHANGED cache
      BY <2>3 DEF ResolveFails, RequestEnds
    <3>2. TypeOK'
      BY <3>1 DEF End
    <3>3. /\ step'[w] = "idle" /\ call'[w] = "none"
          /\ cache'[w] = cache[w] /\ began'[w] = began[w]
      BY <3>1 DEF End
    <3>4. QED BY <3>2, <3>3, <1>1 DEF NoFileOlderThanTask
  <2>4. CASE FindAddress(w)
    BY <2>4, <1>1 DEF FindAddress, Matching, NoFileOlderThanTask
  <2>5. CASE Restart(w)
    BY <2>5, <1>1, <1>2 DEF Restart
  <2>6. QED BY <2>1, <2>2, <2>3, <2>4, <2>5 DEF SendStep, Resolve
<1>4. NoFileOlderThanTask'
  <2>1. latest' = latest
    BY <1>1 DEF bucket
  <2>2. QED BY <1>3, <2>1, OtherTasks DEF NoFileOlderThanTask
<1>5. QED BY <1>3, <1>4, OtherTasks

(* The invariant, and with it the types of all variables.                  *)
THEOREM CertificateInvariant == Spec => []CertInv
<1>1. CertInv /\ [Next]_vars => CertInv'
  <2> SUFFICES ASSUME CertInv, [Next]_vars PROVE CertInv'
    OBVIOUS
  <2>1. CASE UNCHANGED vars
    BY <2>1 DEF vars, CertInv, TypeOK, NoFileOlderThanTask, TaskInv, InPlace
  <2>2. QED BY <2>1, RenewalInv, TaskStepInv DEF Next
<1>2. QED BY <1>1, CertInit, PTL DEF Spec

(* Two sessions, one certificate: whatever is uploaded between the look-up *)
(* of the address and the delivery, the message is posted with the pair    *)
(* the directory has accepted (messaging.py, keystores.py).                *)
THEOREM OnePairPerSending == Spec => []PostsAsAccepted
<1>1. CertInv => PostsAsAccepted
  BY DEF CertInv, TaskInv, PostsAsAccepted
<1>2. QED BY <1>1, CertificateInvariant, PTL

(* A task never uses a file older than both objects that were stored when  *)
(* the task began.                                                         *)
THEOREM RestartIsEnough == Spec => []NoFileOlderThanTask
<1>1. CertInv => NoFileOlderThanTask
  BY DEF CertInv
<1>2. QED BY <1>1, CertificateInvariant, PTL

(* Type correctness.                                                       *)
THEOREM CertificateTypes == Spec => []TypeOK
<1>1. CertInv => TypeOK
  BY DEF CertInv
<1>2. QED BY <1>1, CertificateInvariant, PTL

(***************************************************************************)
(* The sending within the event loop.                                      *)
(***************************************************************************)

LEMMA LoopStepIsStep == LoopNext => [Next]_vars
<1> SUFFICES ASSUME LoopNext PROVE Next \/ UNCHANGED vars
  OBVIOUS
<1>1. CASE StartRenewal \/ \E f \in Files : PutObject(f)
  BY <1>1 DEF Next
<1>2. ASSUME NEW w \in Tasks, LoopStep(w)
      PROVE  Next \/ UNCHANGED vars
  <2>1. SendStep(w) \/ UNCHANGED vars
    BY <1>2 DEF LoopStep, Serve, GoOn, NoSession, RequestAnswered, TimeOut,
       SendStep
  <2>2. QED BY <2>1 DEF Next
<1>3. ASSUME NEW w \in Tasks, Handle(w) \/ Replace(w)
      PROVE  Next \/ UNCHANGED vars
  BY <1>3 DEF Handle, Replace, Next
<1>4. ASSUME NEW w \in Tasks, NEW c \in Callers, Arrive(c, w)
      PROVE  UNCHANGED vars
  BY <1>4 DEF Arrive
<1>5. QED BY <1>1, <1>2, <1>3, <1>4 DEF LoopNext

(* A task that serves one request at a time sends as ClientCertificate     *)
(* says: what is proved of the sending holds within the loop.              *)
THEOREM LoopSends == LoopSpec => Spec
<1>1. LoopInit => Init
  BY DEF LoopInit
<1>2. [LoopNext]_loopVars => [Next]_vars
  BY LoopStepIsStep DEF loopVars
<1>3. QED BY <1>1, <1>2, PTL DEF LoopSpec, Spec

LoopInv == CertInv /\ LoopTypeOK

LEMMA LoopInitInv == LoopInit => LoopInv
<1> SUFFICES ASSUME LoopInit PROVE LoopInv
  OBVIOUS
<1>1. CertInv
  BY CertInit DEF LoopInit
<1>2. QED BY <1>1 DEF LoopInit, Init, LoopInv, LoopTypeOK, CertInv

(* The callers that come and whose turn it is.                             *)
LEMMA QueueTypes ==
  ASSUME LoopInv, CertInv', NEW w \in Tasks,
         Serve(w) \/ \E c \in Callers : Arrive(c, w)
  PROVE  LoopTypeOK'
<1>1. /\ queue \in [Tasks -> Seq(Callers)] /\ queue[w] \in Seq(Callers)
      /\ caller \in [Tasks -> Callers \cup {NoCaller}]
      /\ waits \in [Tasks -> BOOLEAN]
      /\ \A v \in Tasks : step[v] # "idle" => caller[v] # NoCaller
      /\ \A c \in Callers : c # NoCaller
  BY CallersAssumption DEF LoopInv, LoopTypeOK, Callers
<1>2. UNCHANGED step
  BY DEF Serve, Arrive, vars
<1>3. CASE \E c \in Callers : Arrive(c, w)
  <2>1. PICK c \in Callers : Arrive(c, w)
    BY <1>3
  <2>2. /\ queue' = [queue EXCEPT ![w] = Append(@, c)] /\ caller' = caller
        /\ waits' \in [Tasks -> BOOLEAN]
    BY <2>1, <1>1 DEF Arrive
  <2>3. queue' \in [Tasks -> Seq(Callers)]
    BY <1>1, <2>2
  <2>4. QED BY <1>1, <1>2, <2>2, <2>3 DEF LoopTypeOK, CertInv
<1>4. CASE Serve(w)
  <2>1. /\ queue' = [queue EXCEPT ![w] = Tail(@)] /\ queue[w] # <<>>
        /\ caller' = [caller EXCEPT ![w] = Head(queue[w])] /\ waits' = waits
    BY <1>4 DEF Serve
  <2>2. Tail(queue[w]) \in Seq(Callers) /\ Head(queue[w]) \in Callers
    BY <1>1, <2>1
  <2>3. /\ queue' \in [Tasks -> Seq(Callers)]
        /\ caller' \in [Tasks -> Callers \cup {NoCaller}]
        /\ \A v \in Tasks : step'[v] # "idle" => caller'[v] # NoCaller
    BY <1>1, <1>2, <2>1, <2>2
  <2>4. QED BY <1>1, <2>1, <2>3 DEF LoopTypeOK, CertInv
<1>5. QED BY <1>3, <1>4

(* The handler has come to its message, or goes on sending it.             *)
LEMMA SendingTypes ==
  ASSUME LoopInv, CertInv', NEW w \in Tasks, UNCHANGED loop,
         \/ GoOn(w)
         \/ Handling(w) /\ Send(w)
  PROVE  LoopTypeOK'
<1>1. /\ step \in [Tasks -> Files \cup {"idle", "request"}]
      /\ caller[w] # NoCaller
      /\ \A v \in Tasks : step[v] # "idle" => caller[v] # NoCaller
  BY DEF LoopInv, LoopTypeOK, TypeOK, GoOn, Handling, Resolve, FindAddress,
     Files
<1>2. \A v \in Tasks \ {w} : step'[v] = step[v]
  BY <1>1 DEF GoOn, Resolve, FindAddress, Send
<1>3. QED BY <1>1, <1>2 DEF LoopInv, LoopTypeOK, CertInv, loop

(* The handler ends, or its task is replaced.                              *)
LEMMA OverTypes ==
  ASSUME LoopInv, CertInv', NEW w \in Tasks, NEW cut, Answered(cut),
         caller' = [caller EXCEPT ![w] = NoCaller],
         UNCHANGED queue \/ queue' = [queue EXCEPT ![w] = <<>>],
         step' = [step EXCEPT ![w] = "idle"]
  PROVE  LoopTypeOK'
<1>1. /\ queue \in [Tasks -> Seq(Callers)]
      /\ caller \in [Tasks -> Callers \cup {NoCaller}]
      /\ waits \in [Tasks -> BOOLEAN]
      /\ step \in [Tasks -> Files \cup {"idle", "request"}]
      /\ \A v \in Tasks : step[v] # "idle" => caller[v] # NoCaller
  BY DEF LoopInv, LoopTypeOK, TypeOK
<1>2. queue' \in [Tasks -> Seq(Callers)]
  <2>1. <<>> \in Seq(Callers)
    OBVIOUS
  <2>2. QED BY <1>1, <2>1
<1>3. /\ caller' \in [Tasks -> Callers \cup {NoCaller}]
      /\ \A v \in Tasks : step'[v] # "idle" => caller'[v] # NoCaller
  BY <1>1
<1>4. waits' \in [Tasks -> BOOLEAN]
  BY <1>1 DEF Answered
<1>5. QED BY <1>2, <1>3, <1>4 DEF LoopTypeOK, CertInv

(* The invariant of the loop.                                              *)
THEOREM LoopInvariant == LoopSpec => []LoopInv
<1>1. LoopInv /\ [LoopNext]_loopVars => LoopInv'
  <2> SUFFICES ASSUME LoopInv, [LoopNext]_loopVars PROVE LoopTypeOK' /\ CertInv'
    BY DEF LoopInv
  <2>1. CertInv'
    <3>1. CertInv /\ [Next]_vars
      BY LoopStepIsStep DEF LoopInv, loopVars
    <3>2. CASE UNCHANGED vars
      BY <3>1, <3>2 DEF vars, CertInv, TypeOK, NoFileOlderThanTask, TaskInv,
         InPlace
    <3>3. QED BY <3>1, <3>2, RenewalInv, TaskStepInv DEF Next
  <2>2. CASE UNCHANGED loopVars
    BY <2>1, <2>2 DEF loopVars, vars, loop, LoopInv, LoopTypeOK, CertInv
  <2>3. CASE (StartRenewal \/ \E f \in Files : PutObject(f)) /\ UNCHANGED loop
    BY <2>1, <2>3 DEF StartRenewal, PutObject, sending, loop, LoopInv,
       LoopTypeOK, CertInv
  <2>4. ASSUME NEW w \in Tasks, LoopStep(w) \/ Handle(w)
        PROVE  LoopTypeOK'
    <3>1. CASE Serve(w)
      BY <2>1, <3>1, QueueTypes
    <3>2. CASE GoOn(w) \/ (Handling(w) /\ Send(w) /\ UNCHANGED loop)
      BY <2>1, <3>2, SendingTypes DEF GoOn
    <3>3. CASE (ResolveFails(w) \/ RequestEnds(w)) /\ Over(w)
      <4>1. step' = [step EXCEPT ![w] = "idle"]
        BY <3>3 DEF ResolveFails, RequestEnds, End
      <4>2. QED BY <2>1, <3>3, <4>1, OverTypes DEF Over
    <3>4. CASE Handling(w) /\ Over(w) /\ UNCHANGED vars
      <4>1. step' = [step EXCEPT ![w] = "idle"]
        BY <3>4 DEF Handling, vars, LoopInv, LoopTypeOK, TypeOK
      <4>2. QED BY <2>1, <3>4, <4>1, OverTypes DEF Over
    <3>5. QED BY <2>4, <3>1, <3>2, <3>3, <3>4 DEF LoopStep, NoSession,
             RequestAnswered, TimeOut, Handle
  <2>5. ASSUME NEW w \in Tasks, Replace(w)
        PROVE  LoopTypeOK'
    BY <2>1, <2>5, OverTypes DEF Replace, Restart
  <2>6. ASSUME NEW w \in Tasks, NEW c \in Callers, Arrive(c, w)
        PROVE  LoopTypeOK'
    BY <2>1, <2>6, QueueTypes
  <2>7. QED BY <2>1, <2>2, <2>3, <2>4, <2>5, <2>6 DEF LoopNext
<1>2. QED BY <1>1, LoopInitInv, PTL DEF LoopSpec

(* Type correctness of the loop.                                           *)
THEOREM LoopTypes == LoopSpec => []LoopTypeOK
<1>1. LoopInv => LoopTypeOK
  BY DEF LoopInv
<1>2. QED BY <1>1, LoopInvariant, PTL

(* The message is posted with the pair the directory accepted, and no file *)
(* is older than its task, within the loop as well.                        *)
THEOREM LoopCertificates == LoopSpec => [](PostsAsAccepted /\ NoFileOlderThanTask)
BY LoopSends, OnePairPerSending, RestartIsEnough, PTL
=============================================================================
