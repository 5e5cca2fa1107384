------------------------ MODULE ResourceAccess_proofs ------------------------
(***************************************************************************)
(* Proofs about ResourceAccess for any number of requests, clients, tokens *)
(* and key rotations, any lifetime and any disagreement of the clocks.     *)
(***************************************************************************)
EXTENDS ResourceAccess, TLAPS

(* No token is signed with a key that SSM does not hold yet.               *)
TokenKeys == \A t \in 1..Len(tokens) : tokens[t].key <= signingKey

(* No token is from the future, and each has its lifetime.                 *)
TokenTimes ==
  \A t \in 1..Len(tokens) :
    tokens[t].iat <= now /\ tokens[t].exp = tokens[t].iat + Lifetime

(* A token is revoked after it was issued, so what is left of its lifetime *)
(* then is no more than the whole of it.                                   *)
LifeLeft == \A v \in revoked : tokens[v.token].exp <= v.at + Lifetime

(* What request r has passed at each of its steps.                         *)
Passed(r) ==
  /\ step[r] \in {"fetch", "decode"} => token[r] # 0
  /\ step[r] \in {"expiry", "binding", "200"} => token[r] > 0
  /\ step[r] \in {"role", "fetch"} => keyThen[r] <= signingKey
  /\ step[r] \in {"role", "fetch", "decode"} => arrived[r] <= clock
  /\ step[r] = "decode" =>
       /\ token[r] > 0 => tokens[token[r]].key <= jwk[r]
       /\ jwk[r] <= signingKey /\ keyThen[r] <= jwk[r]
  /\ step[r] \in {"expiry", "binding", "200"} =>
       /\ keyThen[r] <= tokens[token[r]].key
       /\ arrived[r] < tokens[token[r]].exp

AccessInv ==
  /\ TypeOK
  /\ TokenKeys /\ TokenTimes /\ LifeLeft
  /\ \A r \in Requests : Passed(r)

LEMMA AccessInit == Init => AccessInv
BY AccessAssumption
   DEF Init, AccessInv, TypeOK, TokenKeys, TokenTimes, LifeLeft, Passed,
       NoCertificate, Steps, Foreign

(* A new token is signed with the current key; the tokens of the requests  *)
(* under way stay as they are.                                             *)
LEMMA IssueInv == ASSUME AccessInv, Issue PROVE AccessInv'
<1> USE AccessAssumption DEF AccessInv, handler
<1>1. PICK c \in Providers, g \in Nat \ {0} :
        tokens' = Append(tokens, create_enhanced_access_token(c, g))
  <2>1. PICK c \in Providers : \E g \in 1..gen[c] :
          tokens' = Append(tokens, create_enhanced_access_token(c, g))
    BY DEF Issue
  <2>2. gen[c] \in Nat
    BY DEF TypeOK
  <2>3. QED BY <2>1, <2>2
<1>2. create_enhanced_access_token(c, g) \in AccessToken
  BY <1>1 DEF create_enhanced_access_token, get_key, AccessToken, TypeOK
<1>3. /\ tokens' \in Seq(AccessToken) /\ Len(tokens') = Len(tokens) + 1
      /\ \A t \in 1..Len(tokens) : tokens'[t] = tokens[t]
      /\ tokens'[Len(tokens) + 1].key = signingKey
      /\ tokens'[Len(tokens) + 1].iat = now
      /\ tokens'[Len(tokens) + 1].exp = now + Lifetime
  BY <1>1, <1>2 DEF TypeOK, create_enhanced_access_token, get_key
<1>4. UNCHANGED <<now, skew, gen, signingKey, revoked, step, cert, token, jwk,
                  keyThen, arrived>>
  BY DEF Issue
<1>5. TypeOK'
  <2>1. Len(tokens) \in Nat
    BY DEF TypeOK
  <2>2. revoked' \subseteq [token : 1..Len(tokens'), at : Nat]
    BY <1>3, <1>4, <2>1 DEF TypeOK
  <2>3. token' \in [Requests -> Foreign..Len(tokens')]
    <3>1. Foreign..Len(tokens) \subseteq Foreign..Len(tokens')
      BY <1>3, <2>1 DEF Foreign
    <3>2. QED BY <1>4, <3>1 DEF TypeOK
  <2>4. QED BY <1>3, <1>4, <2>2, <2>3 DEF TypeOK
<1>6. TokenKeys' /\ TokenTimes'
  <2>1. ASSUME NEW t \in 1..Len(tokens) + 1
        PROVE  /\ tokens'[t].key <= signingKey /\ tokens'[t].iat <= now
               /\ tokens'[t].exp = tokens'[t].iat + Lifetime
    <3>1. CASE t \in 1..Len(tokens)
      BY <3>1, <1>3 DEF TokenKeys, TokenTimes
    <3>2. CASE t = Len(tokens) + 1
      BY <3>2, <1>3 DEF TypeOK
    <3>3. Len(tokens) \in Nat
      BY DEF TypeOK
    <3>4. QED BY <3>1, <3>2, <3>3
  <2>2. QED BY <2>1, <1>3, <1>4 DEF TokenKeys, TokenTimes
<1>7. LifeLeft'
  BY <1>3, <1>4 DEF LifeLeft, TypeOK
<1>8. ASSUME NEW r \in Requests PROVE Passed(r)'
  <2>1. token[r] \in Foreign..Len(tokens) /\ Passed(r)
    BY DEF TypeOK
  <2>2. token[r] > 0 => tokens'[token[r]] = tokens[token[r]]
    BY <1>3, <2>1 DEF Foreign, TypeOK
  <2>3. clock' = clock
    BY <1>4 DEF clock
  <2>4. QED BY <1>4, <2>1, <2>2, <2>3 DEF Passed
<1>9. QED BY <1>5, <1>6, <1>7, <1>8

LEMMA OtherWorldInv ==
  ASSUME AccessInv, Revoke \/ RenewCertificate \/ RotateKey \/ Tick
  PROVE  AccessInv'
<1> USE AccessAssumption DEF AccessInv, handler
<1>1. UNCHANGED <<tokens, step, cert, token, jwk, keyThen, arrived, skew>>
  BY DEF Revoke, RenewCertificate, RotateKey, Tick
<1>2. signingKey' \in Nat \ {0} /\ signingKey <= signingKey'
  BY DEF Revoke, RenewCertificate, RotateKey, Tick, TypeOK
<1>3. TypeOK'
  <2>1. now' \in Nat /\ now <= now'
    BY DEF Revoke, RenewCertificate, RotateKey, Tick, TypeOK
  <2>2. gen' \in [Clients -> Nat \ {0}]
    <3>1. CASE RenewCertificate
      <4>1. PICK c \in Clients : gen' = [gen EXCEPT ![c] = @ + 1]
        BY <3>1 DEF RenewCertificate
      <4>2. gen[c] + 1 \in Nat \ {0}
        BY DEF TypeOK
      <4>3. QED BY <4>1, <4>2 DEF TypeOK
    <3>2. CASE ~ RenewCertificate
      BY <3>2 DEF Revoke, RotateKey, Tick, TypeOK
    <3>3. QED BY <3>1, <3>2
  <2>3. revoked' \subseteq [token : 1..Len(tokens), at : Nat]
    BY DEF Revoke, RenewCertificate, RotateKey, Tick, TypeOK
  <2>4. QED BY <1>1, <1>2, <2>1, <2>2, <2>3 DEF TypeOK
<1>4. TokenKeys'
  <2>1. ASSUME NEW t \in 1..Len(tokens)
        PROVE  tokens[t].key <= signingKey'
    <3>1. tokens[t] \in AccessToken /\ signingKey \in Nat
      BY DEF TypeOK
    <3>2. tokens[t].key \in Nat /\ tokens[t].key <= signingKey
      BY <3>1 DEF AccessToken, TokenKeys
    <3>3. QED BY <1>2, <3>1, <3>2
  <2>2. QED BY <1>1, <2>1 DEF TokenKeys
<1>5. ASSUME NEW r \in Requests PROVE Passed(r)'
  <2>1. clock \in Int /\ clock' \in Int /\ clock <= clock'
    BY <1>1 DEF clock, Revoke, RenewCertificate, RotateKey, Tick, TypeOK
  <2>2. Passed(r) /\ arrived[r] \in Int /\ keyThen[r] \in Nat
        /\ jwk[r] \in Nat /\ signingKey \in Nat
    BY DEF TypeOK
  <2>3. QED BY <1>1, <1>2, <2>1, <2>2 DEF Passed
<1>6. TokenTimes'
  <2>1. now' \in Nat /\ now <= now' /\ now \in Nat
    BY DEF Revoke, RenewCertificate, RotateKey, Tick, TypeOK
  <2>2. \A t \in 1..Len(tokens) : tokens[t].iat \in Nat
    <3>1. \A t \in 1..Len(tokens) : tokens[t] \in AccessToken
      BY DEF TypeOK
    <3>2. QED BY <3>1 DEF AccessToken
  <2>3. QED BY <1>1, <2>1, <2>2 DEF TokenTimes
<1>7. LifeLeft'
  <2>1. CASE Revoke
    <3>1. PICK t \in 1..Len(tokens) :
            revoked' = revoked \cup {[token |-> t, at |-> now]}
      BY <2>1 DEF Revoke
    <3>2. tokens[t].iat <= now /\ tokens[t].exp = tokens[t].iat + Lifetime
      BY <3>1 DEF TokenTimes
    <3>3. tokens[t] \in AccessToken /\ now \in Nat /\ Lifetime \in Nat
      BY <3>1 DEF TypeOK
    <3>4. tokens[t].iat \in Nat
      BY <3>3 DEF AccessToken
    <3>5. tokens[t].exp <= now + Lifetime
      BY <3>2, <3>3, <3>4
    <3>6. QED BY <1>1, <3>1, <3>5 DEF LifeLeft
  <2>2. CASE ~ Revoke
    BY <1>1, <2>2 DEF RenewCertificate, RotateKey, Tick, LifeLeft
  <2>3. QED BY <2>1, <2>2
<1>8. QED BY <1>3, <1>4, <1>5, <1>6, <1>7

LEMMA HandlerInv ==
  ASSUME AccessInv, NEW r \in Requests, HandlerStep(r)
  PROVE  AccessInv'
<1> USE AccessAssumption DEF AccessInv, world, Goto
<1>1. UNCHANGED <<now, skew, gen, signingKey, tokens, revoked>>
  BY DEF HandlerStep, ArriveWithoutCertificate, Arrive, RoleMissing,
     TokenMissing, RolePresent, FetchKey, FetchFails, Decode,
     DecodeForeign, CheckExpiry, CheckBinding
<1>2. \A q \in Requests \ {r} :
        step'[q] = step[q] /\ cert'[q] = cert[q] /\ token'[q] = token[q]
        /\ jwk'[q] = jwk[q] /\ keyThen'[q] = keyThen[q]
        /\ arrived'[q] = arrived[q]
  BY DEF HandlerStep, ArriveWithoutCertificate, Arrive, RoleMissing,
     TokenMissing, RolePresent, FetchKey, FetchFails, Decode,
     DecodeForeign, CheckExpiry, CheckBinding, TypeOK
<1>0. clock \in Int /\ clock' = clock
  BY <1>1 DEF clock, TypeOK
<1>3. TypeOK' /\ Passed(r)'
  <2>1. CASE Arrive(r)
    <3>1. PICK c \in Clients : \E g \in 1..gen[c] :
            cert' = [cert EXCEPT ![r] = [client |-> c, gen |-> g]]
      BY <2>1 DEF Arrive
    <3>2. gen[c] \in Nat
      BY DEF TypeOK
    <3>3. cert' \in [Requests -> Certificate \cup {NoCertificate}]
      BY <3>1, <3>2 DEF TypeOK, Certificate
    <3>4. token' \in [Requests -> Foreign..Len(tokens)] /\ step'[r] = "role"
          /\ step' \in [Requests -> Steps] /\ jwk' = jwk
          /\ keyThen' \in [Requests -> Nat] /\ keyThen'[r] = signingKey
          /\ arrived' \in [Requests -> Int] /\ arrived'[r] = clock
      BY <1>0, <2>1 DEF Arrive, TypeOK, Steps
    <3>5. TypeOK'
      BY <1>1, <3>3, <3>4 DEF TypeOK
    <3>6. keyThen'[r] <= signingKey' /\ arrived'[r] <= clock'
      BY <1>1, <1>0, <3>4 DEF TypeOK
    <3>7. QED BY <3>4, <3>5, <3>6 DEF Passed
  <2>2. CASE ArriveWithoutCertificate(r) \/ RoleMissing(r) \/ TokenMissing(r)
             \/ FetchFails(r)
    BY <1>1, <2>2 DEF ArriveWithoutCertificate, RoleMissing, TokenMissing,
       FetchFails, TypeOK, Steps, Passed
  <2>3. CASE RolePresent(r)
    BY <1>1, <1>0, <2>3 DEF RolePresent, TypeOK, Steps, Passed
  <2>4. CASE FetchKey(r)
    <3>1. token[r] > 0 => tokens[token[r]].key <= signingKey
      BY DEF TokenKeys, TypeOK, Foreign
    <3>2. QED BY <1>1, <1>0, <2>4, <3>1
            DEF FetchKey, get_key, TypeOK, Steps, Passed
  <2>5. CASE Decode(r)
    <3>1. step[r] = "decode" /\ token[r] \in 1..Len(tokens)
      BY <2>5 DEF Decode, Passed, TypeOK, Foreign
    <3>2. tokens[token[r]] \in AccessToken
      BY <3>1 DEF TypeOK
    <3>3. tokens[token[r]].exp \in Nat /\ arrived[r] \in Int
      BY <3>2 DEF AccessToken, TypeOK
    <3>4. UNCHANGED <<cert, token, jwk, keyThen, arrived>>
      BY <2>5 DEF Decode
    <3>5. CASE /\ Decodes(tokens[token[r]], jwk[r])
               /\ step' = [step EXCEPT ![r] = "expiry"]
      <4>1. keyThen[r] <= tokens[token[r]].key
        BY <3>1, <3>5 DEF Decodes, Passed
      <4>2. arrived[r] < tokens[token[r]].exp
        BY <1>0, <3>1, <3>3, <3>5 DEF Decodes, Passed
      <4>3. QED BY <1>1, <3>1, <3>4, <3>5, <4>1, <4>2
              DEF TypeOK, Steps, Passed
    <3>6. CASE step' = [step EXCEPT ![r] = "401"]
      BY <1>1, <3>4, <3>6 DEF TypeOK, Steps, Passed
    <3>7. QED BY <2>5, <3>5, <3>6 DEF Decode
  <2>6. CASE DecodeForeign(r)
    BY <1>1, <2>6 DEF DecodeForeign, TypeOK, Steps, Passed
  <2>7. CASE CheckExpiry(r) \/ CheckBinding(r)
    <3>1. /\ step[r] \in {"expiry", "binding"}
          /\ step' \in [Requests -> Steps]
          /\ step'[r] \in {"binding", "200", "401"}
          /\ UNCHANGED <<cert, token, jwk, keyThen, arrived>>
      BY <2>7 DEF CheckExpiry, CheckBinding, TypeOK, Steps
    <3>2. QED BY <1>1, <3>1 DEF TypeOK, Passed
  <2>8. QED BY <2>1, <2>2, <2>3, <2>4, <2>5, <2>6, <2>7 DEF HandlerStep
<1>4. TokenKeys' /\ TokenTimes' /\ LifeLeft'
  BY <1>1 DEF TokenKeys, TokenTimes, LifeLeft
<1>5. ASSUME NEW q \in Requests \ {r} PROVE Passed(q)'
  BY <1>1, <1>2, <1>0 DEF Passed
<1>6. QED BY <1>3, <1>4, <1>5

(* The invariant that the properties below follow from.                    *)
THEOREM AccessInvariance == Spec => []AccessInv
<1>1. Init => AccessInv
  BY AccessInit
<1>2. AccessInv /\ [Next]_vars => AccessInv'
  <2> SUFFICES ASSUME AccessInv, [Next]_vars PROVE AccessInv'
    OBVIOUS
  <2>1. CASE WorldStep
    BY <2>1, IssueInv, OtherWorldInv DEF WorldStep
  <2>2. CASE \E r \in Requests : HandlerStep(r)
    BY <2>2, HandlerInv
  <2>3. CASE UNCHANGED vars
    BY <2>3 DEF vars, AccessInv, TypeOK, TokenKeys, TokenTimes, LifeLeft,
       Passed, clock
  <2>4. QED BY <2>1, <2>2, <2>3 DEF Next
<1>3. QED BY <1>1, <1>2, PTL DEF Spec

(* A provider's own, current token is turned away only if the clocks       *)
(* disagree or the key was replaced, for any interleaving of rotations     *)
(* with the steps of the request.                                          *)
THEOREM NoGroundlessRefusal == Spec => RefusedForCause
<1>1. AccessInv /\ [Next]_vars =>
        [\A r \in Requests :
           step[r] # "new" /\ token[r] > 0 /\ step'[r] = "401"
             => step[r] = "401" \/ Cause(r)]_vars
  <2> SUFFICES ASSUME AccessInv, [Next]_vars, NEW r \in Requests,
                      step[r] # "new", token[r] > 0, step'[r] = "401",
                      step[r] # "401"
               PROVE  Cause(r)
    OBVIOUS
  <2> USE DEF AccessInv, TypeOK, Goto
  <2>1. PICK q \in Requests : HandlerStep(q)
    BY DEF Next, WorldStep, Issue, Revoke, RenewCertificate, RotateKey,
       Tick, handler, vars
  <2>2. q = r /\ (Decode(r) \/ CheckExpiry(r) \/ CheckBinding(r))
    <3>1. q = r
      BY <2>1 DEF HandlerStep, ArriveWithoutCertificate, Arrive,
         RoleMissing, TokenMissing, RolePresent, FetchKey, FetchFails,
         Decode, DecodeForeign, CheckExpiry, CheckBinding
    <3>2. ~ ArriveWithoutCertificate(r) /\ ~ TokenMissing(r)
          /\ ~ DecodeForeign(r)
      BY DEF ArriveWithoutCertificate, TokenMissing, DecodeForeign, Foreign
    <3>3. ~ Arrive(r) /\ ~ RoleMissing(r) /\ ~ RolePresent(r)
          /\ ~ FetchKey(r) /\ ~ FetchFails(r)
      BY DEF Arrive, RoleMissing, RolePresent, FetchKey, FetchFails
    <3>4. QED BY <2>1, <3>1, <3>2, <3>3 DEF HandlerStep
  <2>3. tokens[token[r]] \in AccessToken /\ clock \in Int
    BY AccessAssumption DEF clock
  <2>4. CASE Decode(r)
    <3>1. ~ Decodes(tokens[token[r]], jwk[r]) /\ step[r] = "decode"
      BY <2>4 DEF Decode
    <3>2. tokens[token[r]].key <= jwk[r] /\ jwk[r] <= signingKey
      BY <3>1 DEF Passed
    <3>3. /\ tokens[token[r]].key \in Nat /\ jwk[r] \in Nat
          /\ tokens[token[r]].iat \in Nat /\ tokens[token[r]].exp \in Nat
          /\ signingKey \in Nat
      BY <2>3 DEF AccessToken
    <3>4. CASE tokens[token[r]].key # jwk[r]
      <4>1. tokens[token[r]].key < signingKey
        BY <3>2, <3>3, <3>4
      <4>2. QED BY <4>1 DEF Cause
    <3>5. CASE ~ clock < tokens[token[r]].exp
      <4>1. tokens[token[r]].exp <= clock
        BY <2>3, <3>3, <3>5
      <4>2. QED BY <4>1 DEF Cause
    <3>6. CASE ~ tokens[token[r]].iat <= clock
      <4>1. tokens[token[r]].iat > clock
        BY <2>3, <3>3, <3>6
      <4>2. QED BY <4>1 DEF Cause
    <3>7. QED BY <3>1, <3>4, <3>5, <3>6 DEF Decodes
  <2>5. CASE CheckExpiry(r) \/ CheckBinding(r)
    <3>1. \/ tokens[token[r]].client # cert[r].client
          \/ tokens[token[r]].exp < clock
          \/ tokens[token[r]].iat > clock
          \/ tokens[token[r]].gen # cert[r].gen
      BY <2>5 DEF CheckExpiry, CheckBinding, check_certificate
    <3>2. tokens[token[r]].exp \in Nat
      BY <2>3 DEF AccessToken
    <3>3. tokens[token[r]].exp < clock => tokens[token[r]].exp <= clock
      BY <2>3, <3>2
    <3>4. QED BY <3>1, <3>3 DEF Cause
  <2>6. QED BY <2>2, <2>4, <2>5
<1>2. QED BY <1>1, AccessInvariance, PTL DEF Spec, RefusedForCause

(* A confirmed revocation takes effect here within a lifetime: a token let *)
(* through was alive for jwt.decode after its request arrived, and had no  *)
(* more than a lifetime left when it was revoked (LifeLeft).               *)
THEOREM RevocationReachesData == Spec => []RevokedServedBriefly
<1>1. AccessInv => RevokedServedBriefly
  <2> SUFFICES ASSUME AccessInv, NEW r \in Requests, NEW v \in revoked,
                      step[r] = "200", v.token = token[r]
               PROVE  arrived[r] < v.at + Lifetime
    BY DEF RevokedServedBriefly
  <2>1. arrived[r] < tokens[token[r]].exp
    BY DEF AccessInv, Passed
  <2>2. tokens[token[r]].exp <= v.at + Lifetime
    BY DEF AccessInv, LifeLeft
  <2>3. tokens[token[r]].exp \in Nat /\ v.at \in Nat
    <3>1. v \in [token : 1..Len(tokens), at : Nat]
      BY DEF AccessInv, TypeOK
    <3>2. tokens[v.token] \in AccessToken
      BY <3>1 DEF AccessInv, TypeOK
    <3>3. QED BY <3>1, <3>2 DEF AccessToken
  <2>4. arrived[r] \in Int /\ Lifetime \in Nat
    BY AccessAssumption DEF AccessInv, TypeOK
  <2>5. QED BY <2>1, <2>2, <2>3, <2>4
<1>2. QED BY <1>1, AccessInvariance, PTL

(* Replacing the signing key shuts out the tokens of the old one from the  *)
(* next request on, however the fetch of the key and the replacement of it *)
(* interleave.                                                             *)
THEOREM NoTokenOfOldKey == Spec => []RetiredKeyIsRefused
<1>1. AccessInv => RetiredKeyIsRefused
  BY DEF AccessInv, Passed, RetiredKeyIsRefused
<1>2. QED BY <1>1, AccessInvariance, PTL

(* Type correctness.                                                       *)
THEOREM AccessTypes == Spec => []TypeOK
<1>1. AccessInv => TypeOK
  BY DEF AccessInv
<1>2. QED BY <1>1, AccessInvariance, PTL
=============================================================================
