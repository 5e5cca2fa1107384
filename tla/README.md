# Verification of the Perseus demo energy services

TLA+ models, TLC runs and TLAPS proofs for the two services of this repository:
the authorisation server (`src/authentication`) and the resource server
(`src/resource`). `PROJECT.json` lists the components, runs, mutants, findings,
hazards and theorems, and maps every definition to the lines it models.

## 1. The system

A carbon accounting provider (the *client*) wants a household's energy data. It
asks the authorisation server for the account holder's consent; the
authorisation server leaves login, consent and the token life cycle to Ory
Hydra, and adds what Hydra lacks: pushed requests, certificate-bound access
tokens, and a record of every permission. With the access token the client
fetches data from the resource server, which returns it with a signed
provenance record. A revocation ends the permission and is announced to the
client's application.

| Component | State it keeps | Operations | Talks to | What makes it correct |
|---|---|---|---|---|
| Pushed request, authorize, callback (`authentication/api/main.py` 60-187, `store.py`) | Redis: request by token (60 s), callback URL by state (600 s) | `POST /par`, `GET /authorize`, `GET /callback` | Redis; the user's browser; Hydra by redirect | the user ends at the URI that was asked for, has time to log in, and nothing stays in Redis for ever |
| Token endpoint (`main.py` 212-280, `auth.py`, `permissions.py`) | the permission's row in DynamoDB | `authorization_code`, `refresh_token` | Hydra, SSM, DynamoDB | for a token a client holds the table has a row of its account and client, and no older permission of the grant still in force |
| Revocation endpoint (`main.py` 305-353) | the row's `revoked` | `POST /authorize/revoke` | DynamoDB index, Hydra, the client's application | "success" means dead at Hydra and revoked on record, and it stays so |
| Permissions store (`permissions.py`) | table keyed by (account, client), full-item `put_item`; two indexes that lag | `write_permission`, `get_permission_by_token`, by evidence id | DynamoDB | a put that comes late neither undoes a revocation nor puts an older permission back in force |
| Revocation messages (`messaging.py`) | none of their own; the cached certificate | directory look-up, one delivery | directory, the application | a message is only sent about a real revocation |
| Permissions and evidence endpoints (`main.py` 283-302, `evidence.py`) | none | one query each | DynamoDB indexes | a revocation becomes visible at both; an evidence link works until its permission is replaced |
| Keys and certificates (`keystores.py` of both) | an unbounded cache of the mTLS pair in the authorisation server; none in the resource server | `get_key`, `get_certificate`, `get_mtls_cert_paths` | SSM, S3 | key and certificate belong together |
| Access check (`resource/api/main.py` 30-92, `resource/api/auth.py`) | none | certificate, role, JWKS, signature, times, thumbprint | authorisation server (JWKS) | a revoked token or one of a replaced key works for a bounded time only, and no provider is refused without cause |
| Provenance (`resource/api/provenance.py`) | none | read root, bundle, key; sign | S3, SSM | the record is signed with one set of files once the newest is uploaded for its context |
| `upload-certificates.sh` | root and bundle, one object each for all deployment contexts, and a key per context | three uploads | S3, SSM | it may stop anywhere |
| Event loop of a task (`Dockerfile`, all handlers) | the requests that wait for it | serve one request to its end | load balancers, directory, applications | every caller's turn comes if Hydra and Redis answer, also when an application that is being messaged calls back |
| Trust stores (`resource/cdk`, `authentication/cdk`, `renew_truststores.sh`) | per environment: object in the bucket, one trust store per stack | deploy, update, roll back, remove; renew | CloudFormation, S3, ELB | a deployed stack has its bundle; a renewal is not undone |
| Other CDK constructs, Lambda authorizer, `setup.sh`, nginx | infrastructure | deployment | AWS | nothing at run time |

**What is hard in it.** The handlers of the authorisation server are `async def`
without an `await`, so one task serves one request at a time and every
interleaving comes from outside: Hydra, DynamoDB's lagging indexes, the client,
the clock, and a second task during a rolling update
(`authentication_service.py:67` asks for one task and sets no deployment
limits). Every handler makes several external calls in a row without a
transaction, and may fail or be killed at each. Hydra (`main.py:255`, `333`) and
Redis are called without a time-out on the only loop. Hydra knows one client,
this service (`main.py:249`), so nothing compares the client of a refresh token
with the certificate that presents it. Redis entries are made with two commands.
The revocation reads through an index that lags and writes the whole item back.
The resource server compares times twice while the clock runs, and fetches a key
that may be replaced at any moment. The upload script and the provenance code
walk through the same three files at the same time, two of which `dev` and `prod`
share. A revocation message is
posted synchronously, so while one is under way its task answers nobody, neither
the load balancer nor the application it is talking to. A trust store is a copy
of an object that a deployment, its roll-back and a script all replace. The
hazards, each with its
line and the properties that watch it, are listed in `PROJECT.json`.

## 2. Modules

| Module | Role |
|---|---|
| `PermissionLedger` | what the two endpoints promise, without any of their steps |
| `AuthServer` | token and revocation endpoints, Hydra, the table and its index, the application |
| `PermissionReads` | extends `AuthServer` by the second index and what the permissions and evidence endpoints may show |
| `MCAuthServer` | symmetry for TLC |
| `AuthServer_proofs` | the inductive invariant and the safety theorems |
| `AuthServerGrants_proofs` | how the tokens of a grant follow one another on record and at Hydra |
| `AuthServerRefinement_proofs` | `AuthServer` implements `PermissionLedger`; `PermissionReads` implements `AuthServer`, and what its endpoints show |
| `AuthorizationFlow`, `MCAuthorizationFlow`, `AuthorizationFlow_proofs` | pushed request, authorize, callback over Redis |
| `ResourceAccess`, `MCResourceAccess`, `ResourceAccess_proofs` | the access check of the resource server |
| `Provenance`, `MCProvenance`, `Provenance_proofs` | signing material and its upload |
| `ClientCertificate` | the sending of a revocation message, and the cached certificate it uses |
| `EventLoop` | extends `ClientCertificate` by the task's only loop: who waits for it, who is served, who waits for whom |
| `ClientCertificate_proofs` | proofs about both |
| `TrustStores`, `MCTrustStores`, `TrustStores_proofs` | bucket, trust stores, their deployment and renewal |

Every module that models code also defines a few operators whose comment starts
with "Slip": the way a plausible mistake in that code would read. `PROJECT.json`
pairs each property with the slip that breaks it.

### AuthServer

A *worker* is one running task. `pc[w]` names the external call its handler is
about to make, `req[w]` is the request and `perm[w]` the `Permission` object in
hand. Between two steps of a worker anything else may happen.

| Action | Code |
|---|---|
| `AskCode`, `AskRefresh`, `AskRevoke` | a request passes the certificate dependency and the parameter checks; a refresh comes from any client that has the token, and is filed under that client |
| `HydraRefuses`, `HydraIssues` | the POST to Hydra's token endpoint, 255-262; Hydra rotates refresh tokens and may end a grant when a rotated token comes back |
| `StorePermission`, `ReplyToken` | 276-280: `put_item`, then the reply, which may be lost |
| `QueryFinds`, `QueryFindsNothing` | `get_permission_by_token` on the index, which may see any item between its slowest copy and the newest, and the 400 |
| `MarkRevoked` | `write_permission` with `revoked` set |
| `PostRevoke`, `PostRevokeFails` | Hydra's `/oauth2/revoke`, answered 200 or not (it may have worked all the same) |
| `SendMessage`, `ReplySuccess` | 344-353 |
| `Fail` | an exception, or the end of the task, at any call |
| `IndexCatchUp` | DynamoDB copies one more write to the index |

The table's key is an account and a client (`Keys`). It is kept as `log[k]`, the
items put for a key in order: the last is the row (`Item(k)`). Every copy of the
index has reached `log[k][indexed[k]]`, and a query reads one copy, so it may see
that item, the newest, or one between (`Seen`); it may find nothing when some
copy shows none or another token (`MayFindNothing`). So the index lags per key,
in order. A `Permission` is cut down to key, refresh token and `revoked`: the
other fields are copied along and decide nothing. Access tokens occur only as
something a client may present for revocation: `-t` is the one issued with
refresh token `t`, and no permission has it.

`Ledger == INSTANCE PermissionLedger WITH ...` is the refinement mapping. The
ledger knows sets of tokens only: `recorded` is `TokensFiled`, the tokens with an
item in any `log[k]`, and `marked` is `TokensMarked`, those with a revoked one;
`issued`, `live`, what clients hold and what they were told correspond
directly. The table, the index, the workers and what they hold in hand have no
image.

### PermissionReads

Both read endpoints make one query of one index and change nothing, so they are
operators, not actions: `get_permissions(t)` and `evidence(e)` are the answers a
query *may* give, by the same rule as the look-up of a revocation (`Seen`).
`MarkReached` says that every copy has an item with the revocation of a token.
Every `Permission` made by `token_to_permission` has a new `evidenceId`
(`models.py:99`) and a revocation writes the old one back: `evidenceId(p)` is the
token the permission was made for. `EvidenceMissing(e)` says that the page may
show "Permission not found".

### AuthorizationFlow

A flow is one pushed request and the user who follows it; its identifier is its
request token. `SET` and `EXPIRE` are separate actions, the clock (`Tick`) and
`HandlerEnds` come in anywhere. An expired entry keeps its deadline and is no
longer `Readable`. Lifetimes are parameters; the only assumption about them is
`RequestTTL <= CallbackTTL` (60 and 600 in the code).

### ResourceAccess

`require_mtls_and_token` and `check_token` as the steps role, fetch, decode,
expiry, binding, among `Issue`, `Revoke`, `RenewCertificate`, `RotateKey` and
`Tick`. A certificate is (application, generation); the thumbprint in a token is
the generation. `jwt.decode` is modelled by its contract (signature, `exp` in the
future, `iat` not in it). The explicit checks of `check_token` follow with two
clock reads of their own: client id and `exp` at the first (`CheckExpiry`), `iat`
and the thumbprint at the second (`CheckBinding`). A request may present a token,
none, or one from elsewhere (`Foreign`), which is answered 401 or, where a claim
that is looked up is missing, 500. `skew` is how far the resource server's clock
is ahead of the issuer's, negative when it is behind. `RotateKey` is the operator
replacing the parameter in SSM, `get_key` reads it. Outcomes are 200, 401 for an
HTTPException and 500 for any other exception. Three variables are history, which
no step reads: `revoked`, the tokens whose revocation was answered with success
and when, and `keyThen` and `arrived`, the signing key and the resource server's
clock when each request arrived.

### Provenance

Files are known by the number of the set (root, bundle, key) they belong to; 0 is
a file that is not there. `root` and `bundle` are one object each for all
deployment contexts (`upload-certificates.sh:91`), `key[c]` is the parameter of
context `c` (`:94`). A run of the script (`StartUpload`) uploads the newest set,
a new one or the last again, for one context (`target`), in the order root,
bundle, key; a request of `context[r]` reads root, bundle and its context's key;
both may stop at every step. `began[r]` remembers the set of that key when the
request began: the key is written last, so that set had been uploaded to its
end. Two things are assumed of the operator: one run at a time, and only the
newest set is uploaded. After a complete run for `dev` with a new set, `prod`
signs with the new root and bundle and its own old key until the run is repeated
for `prod`; `SignedWithLatest` says when a record cannot be mixed.

### ClientCertificate

What `AuthServer` treats as the single step `SendMessage`, for one task after
another: `Send`, then for the directory and again for the application the
session (`Resolve` the bundle, `Resolve` the key) and the request. `cache[w]` is
the `lru_cache` of `_download_s3_to_tempfile`: it keeps what was downloaded until
the task ends and keeps nothing of a download that failed. `StartRenewal` and
`PutObject` are the operator, who replaces the two objects by hand, in either
order, and may stop after one and begin the next renewal instead. A certificate
whose key does not belong to it is refused by the TLS library before the request
is sent (`Matching`); whether the other side likes a matching one is left open.
`InPlace` is the renewal both objects have reached, and `began[w]` what it was
when the task began. A task whose pair is mixed stays unable to send until it is
replaced: nothing in the code drops a cached file.

### EventLoop

uvicorn runs one process and the handlers never `await`, so `queue[w]` holds the
callers that wait for task `w`, in order, and `Serve` takes the next when the
last is done. `caller[w]` is then being handled: `Handle` ends its request or, a
revocation that has come to its message, starts a `Send` of `ClientCertificate`.
Until `Handle` comes the handler waits for Hydra or Redis, which have no
time-out, so `Handle` may never come. A task also stands for the application it
is messaging: that application may call this server back, at the same task or
another, before it answers the message (`waits`); until its call is answered only
the time-out ends the message. `Replace` is the end of a task for a new version or
for health checks that waited too long (`health_check` of both target groups):
everyone it was serving or keeping waiting loses the connection. Each step of the
loop makes one of `ClientCertificate`'s steps or none, which is the theorem
`LoopSends`.

### TrustStores

Bundles are numbered per environment in the order they are published; 0 is "no
file", "no object" or "no trust store". A deployment of the resource stack
(`Deploy`) is synthesised from the checkout as it is; `Changes` are the changes
CloudFormation then carries out in any order, since the trust store refers to the
bucket and not to the upload. Without the file the trust store gets the key
`truststore.pem`, under which nothing is ever stored, so making it fails
(`CreateFails`, `UpdateFails`). A roll-back puts the last deployed bundle back,
`Remove` empties the bucket. The script's run is `Start`, then per environment
`ListVersions`, `FindTrustStore`, `Modify`, with "Skipping" after either query
and the end of the whole run when `modify-trust-store` fails. The bucket has no
versioning, so the version id that was listed ("null") names whatever object is
there later (`Version`). `renewed[r]` are the environments run `r` has updated
and whose object and trust store have not been replaced since.

## 3. Runs

| Run | Instance | Shows |
|---|---|---|
| `auth_overlap` | 2 workers, 1 account with 2 clients, 4 requests, lagging index | types, `RowOfHeldToken`, `InHand`, `ConfirmedIsRevoked`, `NotifiedIsRevoked`; what late handlers can do to a grant: `GrantGoesForward`, `OnlyNewerTokenWorks`, `RevokingNewestEndsGrant`; and the refinement `ImplementsLedger` |
| `auth_lag` | 1 worker, 3 requests, lagging index | *violated*: a token in use that can no longer be revoked |
| `auth_live` | 2 workers, 3 requests, both indexes lagging, weak fairness of the indexes | a confirmed or announced revocation becomes visible for good at both read endpoints, from the moment their index has it (`ShownOnceIndexed`); an evidence link comes to work and keeps working, through a revocation, until its permission is replaced |
| `auth_race` | 2 workers, 4 requests | *violated*: a refresh in flight overwrites a confirmed revocation |
| `auth_access_token` | 1 worker, 3 requests | *violated*: an access token cannot be revoked |
| `flow` | 2 flows, 2 redirect URIs, lifetimes 1 and 3, clock to 6 | where users end up, who is turned away, that answered entries expire |
| `access` | 3 clients (one without the role), 1 token, 2 certificate generations, 2 keys, skew -1..1, clock to 3 | why one is refused (`RefusedForCause`); that a revoked token is served for a lifetime at most (`RevokedServedBriefly`), and one of a replaced key to no later request (`RetiredKeyIsRefused`) |
| `access_revoked` | the same | *violated*: revoked tokens are accepted |
| `provenance` | 2 requests, 2 contexts, 3 sets | which files a record can be signed with, and when they are of one set |
| `certificate` | 2 tasks, each with an application, 1 further client, 2 renewals, 1 restart, weak fairness, deadlock checked | the pair a message is posted with; what a restart after a renewal gives; every sending ends; every caller's turn comes if Hydra and Redis answer and no more tasks are replaced; nothing stops for good |
| `trust_stores` | 2 environments, 2 bundles each, 3 deployments, 2 runs of the script | a deployed stack has bundle and trust store; a renewal is not undone |
| `trust_deployed` | 1 environment | *violated*: a redeployment leaves the old bundle in the trust store |

**Bounds.** `MaxRequests` caps the requests the authorisation server accepts.
The race needs four (code, refresh, and a revocation beside a second refresh or
code), and with two workers every pair of handlers can overlap while two others
have prepared their state; the loss of `auth_lag` needs three and one worker. With
two clients of an account a refresh can be filed under the client that did not
get the token, and a grant can have two rows. For the flow only the order of the
lifetimes matters, and the clock runs to twice the longer one. One request at a
time is enough in `ResourceAccess`, whose requests share nothing, and one token,
since a request presents one; with a lifetime of 1 and a clock to 3, each of the
clock reads can fall on either side of `exp` and `iat`, and a revocation can come
at the issue of a token, at its last second or after it. Three sets and two
contexts allow a stopped upload between two finished ones, with a repetition for
the other context under way. Two renewals let a task cache its bundle before or
in the middle of the first and complete its pair after the second, and the
restart may come anywhere between them. Two tasks are the smallest circle of
waits beyond a task that waits for itself: each messages an application that
calls the other task, with a further client behind them in the queue. In
`trust_stores` three deployments are a creation, an update and one more, in one
environment or shared by two; with two bundles an object can go forward and, by a
roll-back, back again between the look-up and the modification of either run of
the script. Workers, accounts, clients, flows, URIs, requests, contexts,
environments and script runs are interchangeable and declared symmetric, except
in the runs with liveness, `auth_live` and `certificate`, and the violated ones.

**Deadlock** is switched off where the bound on requests, time, sets or
deployments stops the model: the system itself then has nothing to do. It is
checked in `certificate`, where callers may always come back: no circle of tasks
and applications that wait for each other stops everything.

**Fairness.** In `auth_live` weak fairness of `IndexCatchUp` and
`EvidenceCatchUp`, which is DynamoDB's promise of eventual consistency, and
nothing else: clients need not ask, a handler may wait for Hydra for ever, and
failures may happen at every step or never. In `certificate` weak fairness of each
task's `LoopStep`: a loop that has something to do does it, and the downloads and
the two requests of a message come back, with an answer or an error (the
time-outs of `requests`, 10 s and 30 s, bound each wait for data, not the whole
answer, so a party that trickles is assumed to finish). `Handle` is not fair,
since the calls to Hydra and Redis have no time-out; that they return is the
hypothesis `CallsReturn` of `EveryoneHeard` and not an assumption of the run. No
application has to answer and no task has to be replaced. `EveryoneHeard`
therefore rests on the two time-outs: without the one of the delivery, an
application that calls back would keep the loop for good, which is its mutant. A
caller cut off by the replacement of its task does not count as heard, so the
property speaks of the time after the last replacement.

## 4. What the runs found

* `auth_race`: the permission of a revoked grant can be put back to "not
  revoked" when two tasks overlap.
* `auth_lag`: with one task and an index that lags, revoking a token that has
  been refreshed puts the old item over the new one, and the new token, held and
  perhaps in use, cannot be found for revocation any more.
* `auth_access_token`: revocation by access token is answered 400.
* `access_revoked`: the check "has not been revoked" of the docstring is absent.
* `trust_deployed`: a new CA bundle reaches the bucket with a deployment of the
  resource stack, and not its trust store; the renewal script covers only the
  authentication stack's.

Seen while modelling, and not made a run because a property would only restate
one line of code:

* The PAR response announces `expires_in` 600 (`main.py:104`); the stored request
  lives 60 seconds (`store.py:22`).
* A certificate without the role is answered 500 by the resource server, since
  `require_mtls_and_token` catches another exception than the directory library
  raises (`resource/api/main.py:70`); `RoleMissing` in `ResourceAccess`.
* `provenance.py:59` cuts seven characters off `isoformat()`: of a time with an
  offset that is the offset and one digit of the microseconds or, when they are
  zero, of the seconds. `messaging.py:53` appends "Z" to a time that already
  says "+00:00".

What the properties are worded around, and so do not watch:

* A handler that ends between `SET` and `EXPIRE` leaves a Redis entry for ever
  (`AnsweredEntriesExpire` speaks of answered requests).
* A task that has cached two files of different renewals never sends again
  (`NoFileOlderThanTask` says what a restart gives).
* The put of `auth_lag` also undoes what `main.py:317` says without a second task:
  the revocation of t1, confirmed over t2's item, is followed by a refresh of t2,
  whose permission is not revoked.
* `GrantGoesForward` speaks of items that are not revoked: an older item with a
  revocation may replace a newer one (this is `auth_lag`).
* A row that a grant has under another client, which refreshed with its token,
  stays "not revoked" when the first client revokes (`GrantOver` speaks of the row
  of the client the token was issued to).
* The ledger never requires a message, so one that is lost is allowed.
* A run of `upload-certificates.sh` for one context changes root and bundle of the
  other (section 2, Provenance).

## 5. Proofs

All theorems hold for every value of the constants under the named assumptions
of their module (`NoKeyAssumption`, `MaxRequestsAssumption`,
`FlowAssumption`, `AccessAssumption`,
`ProvenanceAssumption`, `CertificateAssumption`, `CallersAssumption`,
`TrustAssumption`), none of which is more than a type and, for the flow,
the order of the lifetimes.

**AuthServer.** The safety properties are not inductive: that a confirmed token
is dead at Hydra depends on what the worker that confirms it has done, and that
a stored permission is of a known token on what its worker holds. `IInv` adds
`HandOf(w)` for every worker: what `perm[w]` says at each step about Hydra and
the table, whatever the others did since. Two parts carry the argument. First, a
permission about to be stored is of a token that is not yet recorded, in no
other worker's hand: so a put that clears `revoked` is always of a new token
(`RevokedUntilNewToken`: only the permission of a token never on record before
replaces a revoked item by one that is not). Second, Hydra never takes a dead token back, so
`perm[w].token \notin live` survives every step of the others from Hydra's 200 to
the reply (`RevocationIsReal`). There is one lemma per action that changes what
these speak of, and they are combined in `NextInv`.

**Refinement.** `LedgerImplemented` is `Spec => Ledger!Spec` under the mapping of
section 2. It maps `HydraIssues` to *Issue*,
`StorePermission` to *Record*, `MarkRevoked` to *Mark*, a change of `live` to
*Withdraw*, the replies to *HandOut* and *Confirm* and the message to *Notify*;
the remaining steps stutter. The invariant supplies the guards of the ledger.
`ReadsImplementAuthServer` is `ReadSpec => Spec`: reading changes nothing, so
every theorem about `AuthServer` holds with the read endpoints and the second
index as well.

**Grants.** `auth_race` and `auth_lag` show that a confirmed revocation and the
row of a token in use can be overwritten. These theorems say how far that goes,
for any number of workers, any lag and any clients that refresh with a grant's
tokens. `GrantInv`: only the newest token of a grant can be live, and a refresh
under way presents a token some client holds. `PendingIsNewest`: a permission
about to be stored is of the newest token of its grant. The step to look at is
Hydra's next token for that grant: it needs the newest one to be live and held, a
held token is on record (`RecordedBeforeReply`, a conjunct of `IInv`) and the
pending one is not, so the grant cannot go on before the pending permission is
stored. With `GrantGoesForward`, which follows from it at every put, this is the
inductive invariant `OrderInv`. `HeldTokensHaveRows` follows: an item of the
token was once put under its account and client, and of its grant only newer
permissions, or revoked ones, can have taken its place. `RevocationLeavesNewer`
and `NewestRevocationIsFull` follow from `OrderInv` and `RevocationIsReal`: after a
revocation only a newer token of the grant can work, and if there is none nothing
of the grant works and the row of the token's account and client, if it is of the
grant, is revoked. `GrantOverForGood` makes that lasting: `NewestOfGrant` and the
end of the grant are kept by every later step, so the race needs a newer token of
the same grant already issued when the revocation is answered.

**Reads.** An item put after the revoked one of a token is of another token or
revoked too (`GrantGoesForward`), and an index shows items in the order they were
put: so once every copy has the mark, nothing it may answer is without it
(`NoUnrevokedAnswer`), and since logs and indexes only grow, never again
(`VisibleForGood`). `LinkWorksForGood` is the same for an evidence link.
`PermissionReads` needs no more than one inductive fact of its own, that an
index is not ahead of the table.

**AuthorizationFlow.** `FlowInv` relates the two deadlines along the handler's
steps: when the handler has replied, the callback URL's deadline is at least
`CallbackTTL - RequestTTL` behind the request's, because it was set later and
lives longer. From that follow `LoginHasTime`, `LostMeansLate` and
`ArrivesRight`.

**ResourceAccess.** `AccessInv` keeps, for a request between fetch and decode,
that its token's key is no newer than the key fetched and that one no newer than
the one in SSM: so a signature that fails means that the key was replaced after
the token was issued (`NoGroundlessRefusal`). The same chain from the other end,
key at arrival, key fetched, key of the token, is `NoTokenOfOldKey`. `AccessInv`
also says that a token is revoked after it was issued, with at most its whole
lifetime to go, and that a request past `jwt.decode` arrived before its token's
`exp`, the clock having only moved on since: together that is
`RevocationReachesData`, the only thing a confirmed revocation is worth to a
server that is not told of it.

**Provenance.** `ProvInv` orders the stored files (root no older than bundle, no
older than any context's key) and bounds every file read from below by the set
that was complete for the request's context when it began (`NeverOlder`). When
that set is still the newest at the end, the bounds meet from above too
(`WholeBetweenUploads`).

**ClientCertificate.** `TaskInv` follows the cache through a sending: when the
directory has accepted the pair both files are cached, so the second session
resolves to the same files (`OnePairPerSending`). `CertInv` also bounds every
cached file from below by what was in place when the task began
(`RestartIsEnough`).

**EventLoop.** `LoopSends` is `LoopSpec => Spec`: every step of the loop is a step of
`ClientCertificate` or leaves its variables alone, so what is proved of the
sending holds within the loop (`LoopCertificates`). `LoopInv` adds the loop's
types, among them that a task sends only on behalf of a caller.

**TrustStores.** `TrustInv` says at each stage of a deployment what is left to do
and what is there already: a trust store that exists was made of an object, and
a deployment may only complete when nothing is left, so bucket and trust store
are filled (`NeverWithoutBundle`). `NoOldBundleBack` is inductive with it, because
`Modify` copies the object of that moment, which holds because an unversioned
bucket knows no other; with versioning (the property's mutant) it would not be.

**Only model-checked.** Liveness (`RevocationBecomesVisible`,
`LinkOutlivesRevocation`, `SendingEnds`, `EveryoneHeard`) and the absence of
deadlock, which are out of the prover's reach. Of `RevocationBecomesVisible` and `LinkOutlivesRevocation` the half that
says "and stays so" is proved (`VisibleForGood`, `LinkWorksForGood`); that the
moment comes stays with TLC. Every invariant and action property of the passing runs is proved. The
violated properties are shown by TLC's traces.

## 6. Not modelled

* Hydra is a nondeterministic party: login and consent, PKCE, scopes and the
  content of its tokens are outside. It may refuse anything, never accepts a
  token it has rotated or revoked, and rotates on every refresh.
* An index follows the table in order, per key, in every copy of it; a query
  reads one copy. Redis and DynamoDB lose nothing. `ensure_table_exists` finds the
  table the deployment made.
* One run of `upload-certificates.sh` at a time, with the newest set.
* CloudFormation is taken to roll back completely. The authentication stack has
  one step to make its trust store and one to remove it.
* The texts of times (`provenance.py:17,59,66`, `messaging.py:53`,
  `models.py:124-131`): conversions of one value without state, listed as hazards
  without a property.
* The fields of a permission that are only copied, the text of replies,
  redirects and provenance records, and the data returned.
* Constant endpoints, the Lambda authorizer (a function of its event alone, and
  not deployed: `resource/cdk/app.py:128-136`), the CDK constructs beyond the
  facts the models use, `checkcerts.sh` and `setup.sh`, which only check or
  generate files.

## 7. Plan

Written so far, in this order: `PermissionLedger` and `AuthServer` (the heart of
the system: what a revocation means), `AuthorizationFlow`, `ResourceAccess`,
`Provenance`, `ClientCertificate`, `PermissionReads`, `EventLoop`, `TrustStores`,
and their proofs. Left:

1. An abstract specification of the access check, each request answered in one
   step, which `ResourceAccess` implements.
2. The expiry of the cached client certificate in a task that outlives it.
3. The two trust stores together with the certificates they admit: a client
   admitted by one server and not by the other between a deployment and the
   renewal script.
