--------------------------- MODULE ResourceAccess ---------------------------
(***************************************************************************)
(* What stands between a request and the meter data: the dependency        *)
(* require_mtls_and_token of resource/api/main.py and check_token of       *)
(* resource/api/auth.py, among everything that changes while they run: the *)
(* clock, the clients' certificates, the signing key of the authorisation  *)
(* server, and the tokens it issues and revokes.                           *)
(*                                                                         *)
(* A certificate is an application and a generation: a renewed certificate *)
(* has the same application and another thumbprint.  Versions of the       *)
(* signing key are numbered; the authorisation server publishes the        *)
(* current one only, always under the kid "1" that every token names.  The *)
(* resource server keeps nothing between requests.                         *)
(***************************************************************************)
EXTENDS Integers, Sequences

CONSTANTS
  Requests,         \* requests to the resource server
  Clients,          \* applications with a client certificate
  NoClient,         \* the application of no certificate
  Providers,        \* those whose certificates carry PROVIDER_ROLE
  Lifetime,         \* seconds from a token's iat to its exp
  Skews,            \* how far the resource server's clock may be ahead
  MaxTokens, MaxGen, MaxKey, MaxTime     \* bounds of the model

ASSUME AccessAssumption ==
  /\ Providers \subseteq Clients /\ NoClient \notin Clients
  /\ Skews \subseteq Int
  /\ {Lifetime, MaxTokens, MaxGen, MaxKey, MaxTime} \subseteq Nat

VARIABLES
  now,              \* the clock of the authorisation server and Hydra
  skew,             \* the resource server's clock is ahead by this much
  gen,              \* the generation of each client's newest certificate
  signingKey,       \* SSM: the version of JWT_SIGNING_KEY
  tokens,           \* the access tokens issued
  revoked,          \* history: the tokens whose revocation was answered with
                    \* success, and when it first was
  step, cert, token, jwk,    \* each request: next step, what it presents,
                             \* the key fetched for it
  keyThen, arrived  \* history: the signing key and the resource server's
                    \* clock when each request arrived

world   == <<now, skew, gen, signingKey, tokens, revoked>>
handler == <<step, cert, token, jwk, keyThen, arrived>>
vars    == <<now, skew, gen, signingKey, tokens, revoked, step, cert, token,
             jwk, keyThen, arrived>>

Certificate == [client : Clients, gen : Nat \ {0}]

NoCertificate == [client |-> NoClient, gen |-> 0]

(* The claims that are looked at, and the key the token is signed with.    *)
AccessToken == [client : Providers, gen : Nat \ {0}, iat : Nat, exp : Nat,
                key : Nat \ {0}]

(* What a request presents for a token that the token endpoint did not     *)
(* issue; 0 is no token, and the others are numbered as they were issued.  *)
Foreign == -1

(* time.time() on the resource server.                                     *)
clock == now + skew

Init ==
  /\ now = 0
  /\ skew \in Skews
  /\ gen = [c \in Clients |-> 1]
  /\ signingKey = 1
  /\ tokens = <<>>
  /\ revoked = {}
  /\ step = [r \in Requests |-> "new"]
  /\ cert = [r \in Requests |-> NoCertificate]
  /\ token = [r \in Requests |-> 0]
  /\ jwk = [r \in Requests |-> 0]
  /\ keyThen = [r \in Requests |-> 0]
  /\ arrived = [r \in Requests |-> 0]

(***************************************************************************)
(* The world.                                                              *)
(***************************************************************************)

(* Both to sign a token and to publish the JWKS, the authorisation server  *)
(* reads the key that SSM holds at that moment.                            *)
get_key == signingKey

(* Slip: a token without the cnf claim.                                    *)
SlipNoBinding(c, g) ==
  [client |-> c, gen |-> 0, iat |-> now, exp |-> now + Lifetime,
   key |-> get_key]

(* The claims of Hydra's token, for the application and the thumbprint of  *)
(* the certificate presented to the token endpoint, signed by encode_jwt.  *)
create_enhanced_access_token(c, g) ==
  [client |-> c, gen |-> g, iat |-> now, exp |-> now + Lifetime,
   key |-> get_key]

(* The token endpoint, reached with any certificate of a provider.         *)
Issue ==
  /\ Len(tokens) < MaxTokens
  /\ \E c \in Providers : \E g \in 1..gen[c] :
       tokens' = Append(tokens, create_enhanced_access_token(c, g))
  /\ UNCHANGED <<now, skew, gen, signingKey, revoked, handler>>

Revoked == {v.token : v \in revoked}

(* The revocation endpoint answers "Token revoked" for the grant of t.     *)
Revoke ==
  /\ \E t \in (1..Len(tokens)) \ Revoked :
       revoked' = revoked \cup {[token |-> t, at |-> now]}
  /\ UNCHANGED <<now, skew, gen, signingKey, tokens, handler>>

RenewCertificate ==
  /\ \E c \in Clients :
       gen[c] < MaxGen /\ gen' = [gen EXCEPT ![c] = @ + 1]
  /\ UNCHANGED <<now, skew, signingKey, tokens, revoked, handler>>

(* A new key under the same parameter name.                                *)
RotateKey ==
  /\ signingKey < MaxKey
  /\ signingKey' = signingKey + 1
  /\ UNCHANGED <<now, skew, gen, tokens, revoked, handler>>

Tick ==
  /\ now < MaxTime
  /\ now' = now + 1
  /\ UNCHANGED <<skew, gen, signingKey, tokens, revoked, handler>>

(***************************************************************************)
(* A request.  200 stands for the handler getting its auth_result, 401 for *)
(* an HTTPException, 500 for any other exception.                          *)
(***************************************************************************)

Goto(r, from, to) ==
  /\ step[r] = from
  /\ step' = [step EXCEPT ![r] = to]

(* "Client certificate required".                                          *)
ArriveWithoutCertificate(r) ==
  /\ Goto(r, "new", "401")
  /\ UNCHANGED <<world, cert, token, jwk, keyThen, arrived>>

(* Any certificate, with any token in existence, with something else in    *)
(* its place or with none.                                                 *)
Arrive(r) ==
  /\ Goto(r, "new", "role")
  /\ \E c \in Clients : \E g \in 1..gen[c] :
       cert' = [cert EXCEPT ![r] = [client |-> c, gen |-> g]]
  /\ \E t \in Foreign..Len(tokens) : token' = [token EXCEPT ![r] = t]
  /\ keyThen' = [keyThen EXCEPT ![r] = signingKey]
  /\ arrived' = [arrived EXCEPT ![r] = clock]
  /\ UNCHANGED <<world, jwk>>

(* directory.require_role raises an exception of its own library, which    *)
(* the handler's except clause for the local CertificateError lets pass.   *)
RoleMissing(r) ==
  /\ cert[r].client \notin Providers
  /\ Goto(r, "role", "500")
  /\ UNCHANGED <<world, cert, token, jwk, keyThen, arrived>>

(* "No token provided".                                                    *)
TokenMissing(r) ==
  /\ cert[r].client \in Providers /\ token[r] = 0
  /\ Goto(r, "role", "401")
  /\ UNCHANGED <<world, cert, token, jwk, keyThen, arrived>>

RolePresent(r) ==
  /\ cert[r].client \in Providers /\ token[r] # 0
  /\ Goto(r, "role", "fetch")
  /\ UNCHANGED <<world, cert, token, jwk, keyThen, arrived>>

(* Slip: the key is cached for good at the first fetch.                    *)
SlipKeyCached(r) ==
  /\ Goto(r, "fetch", "decode")
  /\ jwk' = [jwk EXCEPT ![r] = 1]
  /\ UNCHANGED <<world, cert, token, keyThen, arrived>>

(* PyJWKClient, made anew for every request, gets the JWKS; the key of the *)
(* token's kid is the one published.                                       *)
FetchKey(r) ==
  /\ Goto(r, "fetch", "decode")
  /\ jwk' = [jwk EXCEPT ![r] = get_key]
  /\ UNCHANGED <<world, cert, token, keyThen, arrived>>

(* The authorisation server is not reached (PyJWKClientError), or what was *)
(* presented is no JWT or has no kid, as the state tokens have none.       *)
FetchFails(r) ==
  /\ Goto(r, "fetch", "500")
  /\ UNCHANGED <<world, cert, token, jwk, keyThen, arrived>>

(* Slip: exp is left to the test that follows, which is laxer.             *)
SlipExpiryLeft(t, k) == t.key = k /\ t.iat <= clock

(* jwt.decode: the signature, exp and iat.                                 *)
Decodes(t, k) == t.key = k /\ clock < t.exp /\ t.iat <= clock

Decode(r) ==
  /\ step[r] = "decode" /\ token[r] # Foreign
  /\ \/ Decodes(tokens[token[r]], jwk[r]) /\ Goto(r, "decode", "expiry")
     \/ ~ Decodes(tokens[token[r]], jwk[r]) /\ Goto(r, "decode", "401")
  /\ UNCHANGED <<world, cert, token, jwk, keyThen, arrived>>

(* A token from elsewhere: not signed with the key that was fetched (an    *)
(* InvalidTokenError), or without a claim that is looked up (a KeyError).  *)
DecodeForeign(r) ==
  /\ token[r] = Foreign
  /\ Goto(r, "decode", "401") \/ Goto(r, "decode", "500")
  /\ UNCHANGED <<world, cert, token, jwk, keyThen, arrived>>

(* "Invalid Client ID", "Token expired": the application, and exp against  *)
(* a first reading of the clock.                                           *)
CheckExpiry(r) ==
  /\ step[r] = "expiry"
  /\ LET t == tokens[token[r]] IN
       \/ /\ t.client = cert[r].client /\ ~ t.exp < clock
          /\ Goto(r, "expiry", "binding")
       \/ /\ t.client # cert[r].client \/ t.exp < clock
          /\ Goto(r, "expiry", "401")
  /\ UNCHANGED <<world, cert, token, jwk, keyThen, arrived>>

(* The thumbprint of the certificate is the one in the token's cnf claim.  *)
check_certificate(c, t) == t.gen = c.gen

(* "Token issued in the future", and check_certificate: iat against a      *)
(* second reading of the clock, and the thumbprint.                        *)
CheckBinding(r) ==
  /\ step[r] = "binding"
  /\ LET t == tokens[token[r]] IN
       \/ /\ ~ t.iat > clock /\ check_certificate(cert[r], t)
          /\ Goto(r, "binding", "200")
       \/ /\ t.iat > clock \/ ~ check_certificate(cert[r], t)
          /\ Goto(r, "binding", "401")
  /\ UNCHANGED <<world, cert, token, jwk, keyThen, arrived>>

HandlerStep(r) ==
  \/ ArriveWithoutCertificate(r) \/ Arrive(r) \/ RoleMissing(r)
  \/ TokenMissing(r) \/ RolePresent(r) \/ FetchKey(r) \/ FetchFails(r)
  \/ Decode(r) \/ DecodeForeign(r) \/ CheckExpiry(r) \/ CheckBinding(r)

WorldStep == Issue \/ Revoke \/ RenewCertificate \/ RotateKey \/ Tick

Next == WorldStep \/ \E r \in Requests : HandlerStep(r)

Spec == Init /\ [][Next]_vars

(***************************************************************************)
(* Properties.                                                             *)
(***************************************************************************)

Steps == {"new", "role", "fetch", "decode", "expiry", "binding",
          "200", "401", "500"}

(* Every variable has its type.                                            *)
TypeOK ==
  /\ now \in Nat /\ skew \in Skews
  /\ gen \in [Clients -> Nat \ {0}]
  /\ signingKey \in Nat \ {0}
  /\ tokens \in Seq(AccessToken)
  /\ revoked \subseteq [token : 1..Len(tokens), at : Nat]
  /\ step \in [Requests -> Steps]
  /\ cert \in [Requests -> Certificate \cup {NoCertificate}]
  /\ token \in [Requests -> Foreign..Len(tokens)]
  /\ jwk \in [Requests -> Nat] /\ keyThen \in [Requests -> Nat]
  /\ arrived \in [Requests -> Int]

(* The reasons a provider's token may be turned away for.                  *)
Cause(r) ==
  LET t == tokens[token[r]] IN
  \/ t.client # cert[r].client
  \/ t.gen # cert[r].gen
  \/ t.exp <= clock
  \/ t.iat > clock
  \/ t.key < signingKey

(* A provider is not turned away with a token of its own, presented with   *)
(* the certificate it was issued for and within its lifetime, unless the   *)
(* clocks disagree or the signing key was replaced after it was issued     *)
(* (401; that a key cannot be fetched, a 500, is no verdict on the token). *)
RefusedForCause ==
  [][\A r \in Requests :
       step[r] # "new" /\ token[r] > 0 /\ step'[r] = "401"
         => step[r] = "401" \/ Cause(r)]_vars

(* A request let through does not carry a token whose revocation has been  *)
(* confirmed (check_token: "has not been revoked").                        *)
RevokedIsRefused ==
  [][\A r \in Requests : step[r] # "200" /\ step'[r] = "200"
       => token[r] \notin Revoked]_vars

(* What a confirmed revocation is worth here: no request that arrives a    *)
(* lifetime or more after the confirmation, by the resource server's       *)
(* clock, is let through with the token, though nothing tells this server  *)
(* of the revocation and however late each of its tests looks at the clock.*)
RevokedServedBriefly ==
  \A r \in Requests : \A v \in revoked :
    step[r] = "200" /\ v.token = token[r] => arrived[r] < v.at + Lifetime

(* A request that arrives once the signing key has been replaced is not    *)
(* let through with a token of an earlier key, though every token names    *)
(* the same kid: nothing of the old key is kept (auth.py, a PyJWKClient    *)
(* for each request).                                                      *)
RetiredKeyIsRefused ==
  \A r \in Requests :
    step[r] = "200" => token[r] > 0 /\ keyThen[r] <= tokens[token[r]].key
=============================================================================
