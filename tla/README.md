# Verification of the pod identity webhook

TLA+ modules that model the webhook, TLC configurations that check them on
small instances, and proofs for TLAPS. `PROJECT.json` lists the components, the
runs, which source lines each definition models, the hazards and the theorems.

    tlc -workers 2 -config MCWebhookContention.cfg MCWebhook
    tlapm ServiceAccountCacheProofs.tla

## The system

The webhook is called by the Kubernetes API server for every new pod and
answers with a JSON patch that gives the pod's containers AWS credentials. What
it decides depends on three stores that other goroutines keep changing:

| Part | Source | State | Changed by |
|---|---|---|---|
| ServiceAccount cache | `pkg/cache/cache.go` | `saCache` | informer handlers, fetch goroutines, `Clear` |
| Notifications | `pkg/cache/notifications.go` | `handlers`, closed channels, the fetch channel | `create` (lookups), `broadcast` (`setSA`) |
| ConfigMap cache | `pkg/cache/cache.go` | `cmCache` | `populateCacheFromCM`, `Clear` |
| Container credentials | `pkg/containercredentials/config.go` | identities | `Load` |
| File watcher | `pkg/filesystem/file_watcher.go` | work queue, watch | inotify events, retries |
| Lookup | `pkg/handler/handler.go`, `buildPodPatchConfig` | one request's progress | requests |
| Pod patch | `pkg/handler/handler.go`, `getPodSpecPatch` | the pod | requests |
| Shutdown | `pkg/handler/shutdown.go`, `main.go` | two servers, main | signal |
| Settings | `pkg/constants.go`, `pkg/annotations.go`, `pkg/validation.go` | none | |
| Admission endpoint, middleware | `handler.go` `Handle`, `middleware.go`, the mux in `main.go` | a request's answer, metrics | requests |
| Certificates | `pkg/cert`, `main.go` | a Secret all replicas share, the certificate served | certificate managers |
| Debug endpoints | `pkg/cache/debug` | none of their own | requests |
| Self-hosted helper, fakes, mocks | `hack`, `*/fake.go`, `pkg/mocks` | none | |

A request first asks the container credentials identities. If its account is
listed, it takes common settings from the caches and jitters the default
expiration. If not, it does a `Get`: `saCache`, then `cmCache` under the
account's key, then under `*`. If nothing is found and there is a grace period,
the miss has registered a channel and queued a fetch of the account, and the
request waits for the channel or the timeout and, when notified, does a second
`Get`. The result becomes a patch.

## Modules

| Module | Models |
|---|---|
| `Settings` | annotations, defaults, expirations, as pure operators |
| `ServiceAccountCache` | `saCache`, notifications, fetches, the informer's handlers |
| `ConfigMapCache` | `cmCache`, `populateCacheFromCM`, panics and restarts |
| `Webhook` | both caches, concurrent requests in `buildPodPatchConfig`, `Clear`, reloads of identities |
| `Notification` | abstract: what `Get` with `RequestNotification` promises |
| `FileWatcher` | the credentials file, its watch, queue, worker and `FileConfig` |
| `PodPatch` | `addEnvToContainer`, `getPodSpecPatch`, `MutatePod` on a pod that may come again |
| `Shutdown` | `ShutdownFromContext` twice, the listeners, main, the signal handler (a second signal exits at once) |
| `Admission` | the routes, `Logging`, `InstrumentRoute`, `Handle`, `MutatePod`'s responses, the debug routes, on top of `Shutdown` |
| `CertStore` | `secretCertStore` in replicas that share a Secret, driven by client-go's certificate manager |
| `*Proofs` | the theorems about the module of that name; `WebhookLookupProofs` those about the course and the answer of a lookup in `Webhook`, `AdmissionProofs` also those about `Shutdown` |
| `MC*` | instances for TLC |

`Webhook` EXTENDS the two cache modules and uses their operations as its own.
`Notification` is instantiated in `Webhook` with `cached` as the keys of
`saCache` and `status` computed from each request's channel. `Admission`
EXTENDS `Shutdown`: accepting and ending a request are `Shutdown`'s actions, and
the handler's steps run between them, also after the server was closed under
them. The parts meet at narrow interfaces that the other side over-approximates:
in `Webhook` a reload puts any listed set of identities in place, of which
`FileWatcher` says which one it is; in `Admission` a pod is patched or not, which
`Webhook` and `PodPatch` decide.

How the models relate to the code:

- **Steps.** A critical section under `c.mu` is one step. The exception is
  `create`, which may block in its channel send with both locks held: then
  `sending` names the request, `LockFree` is false, and nobody else takes the
  locks. `Get` is one step per read. `populateCacheFromCM` is one step for
  parsing and one per `setCM` and `popCM`, in any order within each loop (Go's
  map order). `Clear` is two steps and ignores the locks.
- **Cluster.** `hist[k]` is the list of versions of an account in the API
  server, `Nil` for a deleted one; `seen[k]` is the version in the informer's
  store. The informer moves forward and may skip versions, as on a relist. A
  resync delivers the stored version again. A fetch reads the newest version
  and stores it at any later time.
- **Data.** Roles, audiences, names and contents are members of small sets;
  annotation texts are given by what their parser returns, with `Unparsable`
  and `Absent` values. The ARN composed around a bare role is a function. A
  ConfigMap key is the sequence of its parts between slashes.
- **Channels.** A channel is named after the request whose `create` made it.
- **Undefined behaviour.** The `rand.Rand` all requests share without a lock may
  panic when two requests use it at once (`jitterPanic`).
- **Work queue.** With its single key it is one flag (`dirty`); the rate limiter
  is the next delay (`backoff`) and the pending one (`retry`), in milliseconds.
- **Links.** A change of what the file's path leads to raises an event with the
  file's name or, when a link on the path is swapped, with another one.
  `unseen` records that the last change raised no event `processEvent` acts on.
- **Handlers.** A handler is one step per effect that others see: the decision,
  the write, the metric, the return. `status` is what `InstrumentRoute`'s writer
  recorded, `sent` what reached an open connection. A patch that does not marshal
  and a review that does not encode are outcomes of `MutatePod` and `Write` like
  the others; a listener that fails ends the process, before or while it serves.
- **Pods.** Variables, mounts and volumes are sequences of names, so that one
  added twice shows.
- **Certificates.** A pair is its serial number. `Update` is two steps, its Get
  and its Create or Update, since anything may happen to the Secret in between;
  each call can fail, and a write can be applied although its answer is lost. The
  manager is external: it reads the store once, asks for a certificate when there
  is none or a rotation is due, stores it, serves it once stored, and starts over
  on an error. Certificates expire in the order they were issued in; one that has
  expired is not served (`GetCertificate`) and its rotation is due. Whether the
  cluster signs requests at all is a variable (`signs`), which may also turn false
  later on.

## Runs

| Run | States | Shows |
|---|---|---|
| `sa_cache` | 174 k | no lost wakeup, no orphaned or doubly closed channel, one fetch per account, only late fetches make entries stale |
| `cm_cache` | 10 k | while versions are well-formed the cache is exact between calls and moves each key straight to its new value (so no kept key is ever missing); it converges to a well-formed last version, also when earlier ones made the process panic and restart |
| `webhook_contention` | 518 k | no lookup is stuck behind a blocked send, requests only advance, expirations keep the minimum unless the ConfigMap sets them |
| `webhook_live` | 267 k | waiting requests can be woken, notified requests find the account, refinement of `Notification`, every request is answered, handlers drain, accounts converge |
| `webhook_configmap` | 1.00 M | annotations take precedence once synced, an account's own key is never missed, an answer is that of one entry of the account; types of the webhook and of both caches |
| `file_watcher` | 772 k | no change whose event names the file is forgotten, loads only move forward, a watcher without work has the file's identities, the identities follow the file |
| `pod_patch` | 195 k | own settings kept, skipped containers left alone, no duplicates, idempotent, credentials for every container, no mount without its volume |
| `serving` | 744 k | every handler that ends, also by a panic or a failed write, is counted once and with the code its client got, a graceful shutdown has handled every request, no request is abandoned, a signal ends the process |
| `cert_store` | 774 k | a write replaces exactly the Secret its Get returned, only stored pairs are served, failing rotations keep serving until the certificate expires, all replicas end up serving if the cluster signs and the Secret loads |

Three more runs end in a violation. Each states one sentence of the repository's
documentation, comments or log messages that the code does not keep:

| Run | Sentence | What happens |
|---|---|---|
| `find_torn_lookup` | README.md:205-206 | an update between the two reads of `cmCache` hides the account |
| `find_startup_window` | config.go:65-66 | a change before the watch is set up is not loaded |
| `find_unchanged` | handler.go:571-572 | the early return skips the mount |

Other differences, met while reading and visible in the models, for which no run
is kept:

- README.md:208 says annotations take precedence. Until the informer has
  delivered an account, `Get` answers from the ConfigMap
  (`AnnotationsTakePrecedenceOnceSynced` is what holds).
- constants.go:24 gives ten minutes as the minimum expiration; ConfigMap entries
  are not raised to it (`ExpirationAtLeastMinOutsideCM` is what holds).
- middleware.go:62 says the counter counts accounts without the right
  annotations or not found in the cache; only the latter are counted.
- cache.go:158 says the container credentials method uses the ConfigMap; it does
  not consult wildcard entries.
- After a ConfigMap version that does not parse, or a deletion (there is no
  `DeleteFunc`), entries of earlier versions stay in `cmCache`. `CMCacheExact`
  assumes well-formed versions for that reason.
- middleware.go:31 calls the counter one of requests by response code. A form that
  does not parse is answered 400 by `Logging`, outside `InstrumentRoute`, and not
  counted; a handler that panics is counted as 200 although nothing was answered
  (`AnswersAreCounted` is what holds).
- `Update` in store.go stores a pair before it parses it. One that does not load
  is then in the Secret, `Current` fails on it, and main ends with `Fatalf` until
  a running replica rotates or somebody repairs the Secret
  (`ReplicasEndUpServing` names the case).
- request.go:69 hard-codes the signer `kubernetes.io/legacy-unknown`, and main.go:69
  makes `--in-cluster` the default. README.md:8-11 and 249 say that this no longer
  works, because certificates/v1 does not sign for it. A replica on such a cluster
  asks for ever; it serves what it finds in the Secret until that expires, and
  nothing if there is none (`ReplicasEndUpServing` names the case and does not
  assume a signer).
- config.go:65-66 says the file is loaded when it is updated. `processEvent`
  compares the event's name with the path, so swapping a link on the path (as the
  kubelet does for mounted ConfigMaps) is not noticed, and neither is a change
  whose event the full kernel queue dropped. `UpdatesAreLoaded` fails in these
  cases as it does in `find_startup_window`; `CacheFollowsFile` says that the next
  change that is noticed makes up for them.
- README.md:215 shows a key with a pattern for the namespace; no lookup matches
  one.
- file_watcher.go:48-49 promises a maximum wait of 10 seconds; it is 5 minutes.
- file_watcher.go:68 says the goroutines stop with the context; the worker does
  not, because nothing shuts the queue down.
- README.md:163 gives 100ms as the default grace period; main.go:94 sets 0.

### Bounds

- *Requests and accounts.* Sharing a channel needs two requests of one account.
  The blocked send needs a full channel, so `FetchCapacity` is 1 (1000 in the
  code). That somebody waits behind a blocked send needs three requests: one whose
  fetch fills the channel, one that blocks, and one that wants the locks;
  `webhook_contention` has them, for two accounts. In `webhook_live` a send blocks
  when a `Clear` makes the second request miss while the first one's fetch is
  still queued. A request arrives once. `webhook_configmap` has one account: that an
  answer is never another account's rests on the theorem `AnswersGenuine`.
- *Versions.* Two versions of an account give creation, change, deletion and
  re-creation after a miss; three of the ConfigMap give "parsable, unparsable,
  parsable" and "present, deleted, present".
- *Configs.* Own key, wildcard, both, and in `cm_cache` also keys with one and
  three parts, null entries and text that does not parse.
- *File.* Two changes, two events of other files, one read error, an event queue
  of two places so that it overflows. Retry delays are not bounded: the
  model goes all the way to the rate limiter's limit.
- *Pods.* One container, with the mount or without, and one that is injected, three invocations with any
  sequence of methods: every pair of methods, and one more to see that a state
  after a change of method is stable.
- *Serving.* Two requests on the webhook server and one on the metrics server, so
  that one can finish while another hangs. One of them is of every kind: each
  route, a form that does not parse, each body `Handle` tells apart; the other is
  for a pod.
- *Certificates.* Two replicas race for the Secret; one fault (a crash, a failed
  call, a lost answer or a pair that does not load), one change of the Secret by
  somebody else, one rotation before and any number after the certificate's
  expiry, one certificate that expires. The theorems cover the safety properties
  for all bounds; that replicas end up serving was also checked with two faults,
  so that a crash can follow a lost answer, by setting `MaxFaults` to 2
  (6 M states, 10 minutes).
- *Grace period.* The runs have one. Without it a request never waits, and the
  theorems about `Webhook` cover both.

Deadlock is not checked: with the bounds used up, and after the process has
ended, the models have nothing left to do. That nobody waits forever is
`EveryRequestAnswered`, `SignalEndsProcess` and `ReplicasEndUpServing`.

### Fairness

- Runnable goroutines run: weak fairness of each request's steps, of the
  consumer of the fetch channel, of each fetch and of its store, of the worker
  and the listener, of the loops of `populateCacheFromCM`, of the shutdown
  goroutines and main.
- Timers fire: the grace period (part of a request's steps), the retry of the
  work queue, the resync (60 s by default), the ten seconds of the shutdown.
  A fetch ends in success or failure because of its one-second context.
- The informer gets strong fairness: its events are queued in order, so a
  resync cannot push a delivery back forever.
- The ConfigMap's informer ends up delivering the last version: what the API server
  lists after a restart is not outdated for ever.
- Replicas are restarted, and a certificate manager does not settle for a
  certificate that has expired. It gets an answer from the signer as long as the
  cluster has one (`signs`), which is not assumed. The bound on faults says that
  they end at some point.
- Nothing is assumed of users, the API server's contents, `Clear`, or HTTP
  requests during the shutdown, which may hang.

## Proofs

All theorems hold for every value of the constants, so for any number of
accounts, requests, replicas, versions and any capacity. They assume only the
named `ASSUME`s of the modules: special values are distinct from ordinary ones,
bounds are naturals, and, in `PodPatch` (`PatchAssumption`), pods have no two
volumes of one name (the API server admits no others), a method uses one volume
name, and the keys of variables are strings. TLC evaluates them in the runs.

- `ServiceAccountCacheProofs`: `SACacheTypeCorrect`, `NoWakeupLost`,
  `ChannelsAreTracked`, `FetchesAreDeduplicated`, `OnlyLateFetchesMakeStale`.
  Types need `VersionsExist`: a version in flight is one the API server has had.
  The three theorems on notifications share the inductive invariant
  `TypeInv /\ NotifyInv`; `NotifyInv` adds `QueueTracked`: the requests in the
  fetch channel and the one blocked in the send are requests for which `create`
  made a channel. `NoLostWakeup` alone is not inductive: `broadcast` removes only
  what the table holds, so one has to know that the table holds every open
  channel. Staleness needs `EntriesGenuine`: every entry was made from a version
  of its account.
- `WebhookProofs`: `ImplementsServiceAccountCache` shows that every step of the
  webhook is a step of the cache's specification or leaves the cache alone, so
  the theorems above carry over. `ImplementsConfigMapCache` is the same for the
  ConfigMap cache, whose specification knows no `Clear`, and holds of behaviours
  in which nobody calls it. `WaitersAreWakeable` adds `WaiterInv`: between
  its miss and its wait a request has a channel, of its own account and made by
  somebody. `NoLookupIsStuck` adds `SendInv`: exactly the request named by
  `sending` is in the send, and no request calls `create` twice. As long as the
  send is blocked the channel is full, so the consumer, which takes no lock, has
  something to take.
  `NotificationPromiseKept` is the refinement; it adds `FreshInv` (a
  request before its first `Get` has no channel) and matches each step with an
  abstract one: a miss is `Ask`, `setSA` is `Populate`, `popSA` and `Clear` are
  `Forget`, the rest stutters. `WebhookTypeCorrect` and `TokensLiveLongEnough`
  rest on `AnswersInv`, which types the answers, and on the ConfigMap's invariant,
  which holds until `Clear` is called (`CMHalf`).
- `WebhookLookupProofs`: `RequestsAdvance`, `NotifiedRequestsFind`,
  `AnnotationsTakePrecedence`, `OwnKeyPodsAreMutated`, `AnswersGenuine`. The first
  needs types only: `StepsLeft` goes down with every step of a request. The others
  each add what is true of a request on its way:
  - `StaysInv` and `RetryInv`: an account that was brought into the cache stays
    there, so the second `Get`, which comes after a channel of the account was
    closed, finds it;
  - `SyncedInv`: a request that came after the informer delivered its annotated
    account never gets to the ConfigMap reads;
  - `OwnKeyInv`: while an account has its key in every version since the request
    came, the request never gets beyond the read of that key. A call in progress
    whose keys are not all set has an old version with the key, which is why
    `KeptKeysNeverMissing` is what the lookup needs;
  - `SourcedInv` and `CMSourceInv`: what a request has read is what one version of
    its account, or one of the ConfigMap, gives it. `SinceVersion(n)` says that
    `cmCache`, and what a call in progress still has to set, come from versions
    from `n` on. It holds of the version a request found, since no well-formed
    update leaves an entry of an older version behind (`NothingOutdated`), and
    every later step keeps it.
- `ConfigMapCacheProofs`: `CMCacheTypeCorrect`, `CMCacheIsExact`,
  `KeptKeysAreNeverMissing`, `KeysMoveStraightToDelivered`. The invariant `CMInv`
  says where a call of `populateCacheFromCM` is (`Progress`): keys still to be set
  or removed have the value of the old version, all others that of the new one.
  `NothingOutdated` says that a call in progress applies the version in the
  informer's store and removes only keys which that version lacks, so each write
  is the one the version calls for. It survives `Clear` too.
- `FileWatcherProofs`: `FileWatcherTypeCorrect`, `UpdatesNeverForgotten`,
  `LoadsOnlyMoveForward`, `CacheIsCurrentAtRest`. `Forward` orders the versions:
  loaded, held by the worker, in the file. With `NoUpdateForgotten` it says that
  once there is no work left, the version loaded is the file's.
- `PodPatchProofs`: `OwnSettingsAreKept`, `NothingIsDuplicated`,
  `PatchIsIdempotent`, `CredentialsAreInjected`, `MountsAlwaysHaveVolumes`.
  `MountVolume` and `EnvFor` say what a list gains and that a second call adds
  nothing. `PodKept` compares the pod with what its owner wrote; its `Kept` also says that
  variables of a method the owner did not set came together and with the mount,
  without which the early return of `addEnvToContainer` could leave a container
  without credentials. `AsInvoked` says that while nothing happened since an
  invocation, patching again changes nothing. That mounts have volumes is
  inductive on top of `PodKept`, which keeps the volumes of earlier invocations.
- `AdmissionProofs`: `ImplementsShutdown`, `AdmissionTypeCorrect`,
  `NoRequestIsAbandoned`, `EveryAnswerIsCounted`, `GracefulShutdownHandlesAll`.
  `ShutdownInv` is proved of `Shutdown` alone and carried over:
  a server whose goroutine has ended has nothing in flight, and a request that
  was cut off has left an error in the channel or in the log. `RequestInv` ties
  the handler's place to the connection's state and to what was recorded, sent
  and counted.
- `CertStoreProofs`: `CertStoreTypeCorrect`, `ServedCertificatesWereStored`,
  `UpdatesWorkAtomically`, `RotationsKeepServing`. `CertStoreInv` adds that what the
  Secret holds is in its history, and that a pair on its way to the Secret is
  newer than the one its replica serves. `UpdatesWorkAtomically` needs `VersionsName`:
  whenever the Secret's version is the one a replica has read, its contents are
  what the replica has read, since every write takes a version nobody has seen.

`SACacheTypeCorrect`, `CMCacheTypeCorrect`, `CertStoreTypeCorrect` and
`KeptKeysAreNeverMissing` are proved of definitions no run lists: the first two are
conjuncts of `WebhookTypeOK`, a certificate outside the types would violate
`ServedWasStored`, and the last follows from `CMCacheExact` and `KeysMoveStraight`.

Only model-checked: liveness (`EveryRequestAnswered`, `HandlersDrain`,
`AccountsConverge`, `CMCacheConverges`, `CacheFollowsFile`, `SignalEndsProcess`,
`ReplicasEndUpServing`), which rests on fairness and is out of the prover's
reach. For two of them the part that needs no fairness is proved: a request has a
bounded number of steps and is never stuck (`RequestsAdvance`, `NoLookupIsStuck`;
`EveryRequestAnswered` adds that the steps are taken and the consumer runs), and a
watcher at rest is current (`CacheIsCurrentAtRest`; `CacheFollowsFile` adds that it
comes to rest).

## Not modelled

- Flag parsing, the partition lookup, the TLS tables, `hack/self-hosted`, fakes
  and mocks: no state that changes, or only test code.
- The alternative to the certificate manager, certwatcher: a library main only
  starts.
- Environment values, paths (also the Windows path) and the projected volume's
  contents: constants and concatenations that no decision depends on.
- The latency metrics and `webhookPodCount`, which are only ever added to.
- The preference of Go's `RWMutex` for waiting writers, and the retries within
  one fetch, which end in the success or the failure of the model.
- `ToJSON`, which only reads.

`FileWatcher` and `Webhook` are not run together. All `Webhook` sees of the
watcher is that the identities change at some time to some set, and its reload
already does that at any time with any listed set.
