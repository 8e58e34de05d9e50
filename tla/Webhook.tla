------------------------------ MODULE Webhook ------------------------------
(***************************************************************************)
(* The running webhook: both halves of the cache, the container            *)
(* credentials identities, the debug Clear endpoint, and admission         *)
(* requests that go through buildPodPatchConfig concurrently.              *)
(*                                                                         *)
(* A request takes c.mu once per getSA and getCM, so it is one step per    *)
(* read, and everything else may happen in between.                        *)
(***************************************************************************)
EXTENDS ServiceAccountCache, ConfigMapCache

CONSTANTS
    gracePeriodEnabled, \* saLookupGraceTime > 0
    podExpiration,      \* pod -> its token-expiration annotation
    JitterDraws,        \* bound: the values of rand.Int63n that are tried
    Identities,         \* sets of accounts the credentials file may list
    MaxClears,          \* bound: uses of the debug Clear endpoint
    MaxLoads            \* bound: reloads of the credentials file

ASSUME WebhookAssumption ==
    /\ SAs \subseteq CMKeys
    /\ \A k \in SAs : <<"*", k[2]>> \in CMKeys
    /\ gracePeriodEnabled \in BOOLEAN
    /\ podExpiration \in [Pods -> ParsedInts]
    /\ JitterDraws \subseteq Int63nRange
    /\ Identities \subseteq SUBSET SAs
    /\ MaxClears \in Nat /\ MaxLoads \in Nat

VARIABLES
    pc,         \* request -> where it is in buildPodPatchConfig
    retried,    \* request -> it is in its second Get, after the notification
    found,      \* request -> this Get found an entry, one without a role
    notifier,   \* request -> Nil or the channel its first Get returned
    outcome,    \* request -> the podPatchConfig it was answered with
    arrived,    \* request -> what the informers had delivered when it came
    missingSA,  \* requests missingSACounter was incremented for
    identities, \* accounts configured for container credentials
    loads,      \* times the credentials file was reloaded
    clearing,   \* Clear() is between its two assignments
    clears      \* calls of Clear()

podVars == <<pc, retried, found, notifier, outcome, arrived, missingSA>>
clearVars == <<clearing, clears>>
credentialVars == <<identities, loads>>
vars == <<saCacheVars, cmCacheVars, podVars, clearVars, credentialVars>>

PcStates == {"new", "commonSA", "commonCM", "jitter", "getSA", "sending",
             "getCM", "getAnyCM", "waiting", "done"}

(* A podPatchConfig as far as the lookup decides it.  "nil": no mutation,    *)
(* "panic": the handler panicked and net/http dropped the request.           *)
Outcome == [method : {"nil", "panic", "sts_web_identity", "container_credentials"},
            from : {"none", "sa", "cm"},
            role : Roles, sts : BOOLEAN, expiration : Int]

NotMutated == [method |-> "nil", from |-> "none", role |-> NoRole,
               sts |-> FALSE, expiration |-> 0]

WebhookTypeOK ==
    /\ SACacheTypeOK
    /\ CMCacheTypeOK
    /\ pc \in [Pods -> PcStates]
    /\ retried \in [Pods -> BOOLEAN]
    /\ found \in [Pods -> BOOLEAN]
    /\ notifier \in [Pods -> Pods \cup {Nil}]
    /\ outcome \in [Pods -> Outcome]
    /\ arrived \in [Pods -> [sa : Nat, cm : Nat]]
    /\ missingSA \in SUBSET Pods
    /\ identities \in Identities
    /\ loads \in Nat
    /\ clearing \in BOOLEAN
    /\ clears \in Nat

Init ==
    /\ SACacheInit
    /\ CMCacheInit
    /\ pc = [p \in Pods |-> "new"]
    /\ retried = [p \in Pods |-> FALSE]
    /\ found = [p \in Pods |-> FALSE]
    /\ notifier = [p \in Pods |-> Nil]
    /\ outcome = [p \in Pods |-> NotMutated]
    /\ arrived = [p \in Pods |-> [sa |-> 0, cm |-> 0]]
    /\ missingSA = {}
    /\ identities \in Identities
    /\ loads = 0
    /\ clearing = FALSE
    /\ clears = 0

-----------------------------------------------------------------------------
(* buildPodPatchConfig.                                                    *)

Goto(p, state) == pc' = [pc EXCEPT ![p] = state]

(* FileConfig.Get has a PatchConfig for the request's account. *)
ContainerCredentialsGet(p) == saOf[p] \in identities

(* ContainerCredentialsConfig.Get decides which way the request goes. *)
Admit(p) ==
    /\ pc[p] = "new"
    /\ Goto(p, IF ContainerCredentialsGet(p) THEN "commonSA" ELSE "getSA")
    /\ arrived' = [arrived EXCEPT ![p] = [sa |-> seen[saOf[p]],
                                          cm |-> IF Idle THEN cmSeen ELSE 0]]
    /\ UNCHANGED <<saCacheVars, cmCacheVars, retried, found, notifier, outcome, missingSA>>

(* The rest of the container credentials branch, up to the jitter. *)
common(p, from, sts, expiration) ==
    LET e == PodTokenExpiration(podExpiration[p], expiration) IN
    /\ outcome' = [outcome EXCEPT ![p] =
                    [method |-> "container_credentials", from |-> from,
                     role |-> NoRole, sts |-> sts, expiration |-> e]]
    /\ Goto(p, IF e = DefaultTokenExpiration THEN "jitter" ELSE "done")

(* GetCommonConfigurations: getSA, then getCM under the account's own key. *)
GetCommonConfigurationsSA(p) ==
    LET e == saCache[saOf[p]] IN
    /\ pc[p] = "commonSA"
    /\ getSA(p, FALSE)
    /\ IF e = Nil
       THEN Goto(p, "commonCM") /\ UNCHANGED outcome
       ELSE common(p, "sa", e.entry.UseRegionalSTS, e.entry.TokenExpiration)
    /\ UNCHANGED <<cmCacheVars, retried, found, notifier, arrived, missingSA>>

GetCommonConfigurationsCM(p) ==
    LET e == cmCache[saOf[p]] IN
    /\ pc[p] = "commonCM"
    /\ IF e = Nil
       THEN common(p, "none", FALSE, DefaultTokenExpiration)
       ELSE common(p, "cm", e.UseRegionalSTS, e.TokenExpiration)
    /\ UNCHANGED <<saCacheVars, cmCacheVars, retried, found, notifier, arrived, missingSA>>

addJitterToDefaultToken(p) ==
    /\ pc[p] = "jitter"
    /\ \E draw \in JitterDraws :
        outcome' = [outcome EXCEPT ![p].expiration = JitteredExpiration(@, draw)]
    /\ Goto(p, "done")
    /\ UNCHANGED <<saCacheVars, cmCacheVars, retried, found, notifier, arrived, missingSA>>

(* All requests share one rand.Rand without a lock; the race can push its    *)
(* index out of range.                                                       *)
jitterPanic(p) ==
    /\ pc[p] = "jitter"
    /\ \E q \in Pods \ {p} : pc[q] = "jitter"
    /\ outcome' = [outcome EXCEPT ![p] = [NotMutated EXCEPT !.method = "panic"]]
    /\ Goto(p, "done")
    /\ UNCHANGED <<saCacheVars, cmCacheVars, retried, found, notifier, arrived, missingSA>>

-----------------------------------------------------------------------------
(* The web identity branch: Get, perhaps a wait, perhaps a second Get.     *)

(* What follows a Get that found the entry e. *)
respond(p, from, e) ==
    /\ Goto(p, "done")
    /\ outcome' = [outcome EXCEPT ![p] =
                    IF e.RoleARN = NoRole THEN NotMutated
                    ELSE [method |-> "sts_web_identity", from |-> from,
                          role |-> e.RoleARN, sts |-> e.UseRegionalSTS,
                          expiration |-> PodTokenExpiration(podExpiration[p],
                                                            e.TokenExpiration)]]

(* Get's read of saCache.  The first one asks for a notification when there  *)
(* is a grace period; a create() that blocks holds the request up.           *)
GetSA(p) ==
    LET e == saCache[saOf[p]]
        notify == gracePeriodEnabled /\ ~retried[p] IN
    /\ pc[p] = "getSA"
    /\ getSA(p, notify)
    /\ found' = [found EXCEPT ![p] = e # Nil]
    /\ notifier' = IF e = Nil /\ notify THEN [notifier EXCEPT ![p] = channelFor(p)]
                   ELSE notifier
    /\ IF e # Nil /\ e.entry.RoleARN # NoRole
       THEN respond(p, "sa", e.entry)
       ELSE Goto(p, IF sending' = p THEN "sending" ELSE "getCM") /\ UNCHANGED outcome
    /\ UNCHANGED <<cmCacheVars, retried, arrived, missingSA>>

(* Mutant: the send is given up without unlocking. *)
SendGivenUp(p) ==
    /\ pc[p] = "sending" /\ sending = p
    /\ Goto(p, "getCM")
    /\ UNCHANGED <<saCacheVars, cmCacheVars, retried, found, notifier, outcome, arrived, missingSA>>

(* The blocked send went through: getSA returns. *)
SendUnblocked(p) ==
    /\ pc[p] = "sending" /\ sending = p
    /\ unblockSend
    /\ Goto(p, "getCM")
    /\ UNCHANGED <<cmCacheVars, retried, found, notifier, outcome, arrived, missingSA>>

(* Get's read of cmCache under the account's own key. *)
GetCM(p) ==
    LET e == cmCache[saOf[p]] IN
    /\ pc[p] = "getCM"
    /\ IF e = Nil THEN Goto(p, "getAnyCM") /\ UNCHANGED outcome
       ELSE respond(p, "cm", e)
    /\ UNCHANGED <<saCacheVars, cmCacheVars, retried, found, notifier, arrived, missingSA>>

(* Get's read of cmCache under "*", and what the handler does when nothing   *)
(* was found: count it, or wait if it may.                                   *)
GetAnyCM(p) ==
    LET e == cmCache[<<"*", saOf[p][2]>>] IN
    /\ pc[p] = "getAnyCM"
    /\ IF e # Nil
       THEN respond(p, "cm", e) /\ UNCHANGED missingSA
       ELSE /\ UNCHANGED outcome
            /\ IF found[p]
               THEN Goto(p, "done") /\ UNCHANGED missingSA
               ELSE IF gracePeriodEnabled /\ ~retried[p]
               THEN Goto(p, "waiting") /\ UNCHANGED missingSA
               ELSE Goto(p, "done") /\ missingSA' = missingSA \cup {p}
    /\ UNCHANGED <<saCacheVars, cmCacheVars, retried, found, notifier, arrived>>

(* Mutant: a notified request looks up again as if it were new. *)
NotifiedAnew(p) ==
    /\ pc[p] = "waiting"
    /\ notifier[p] \in closed
    /\ Goto(p, "getSA")
    /\ UNCHANGED <<saCacheVars, cmCacheVars, retried, found, notifier, outcome, arrived, missingSA>>

Notified(p) ==
    /\ pc[p] = "waiting"
    /\ notifier[p] \in closed
    /\ retried' = [retried EXCEPT ![p] = TRUE]
    /\ Goto(p, "getSA")
    /\ UNCHANGED <<saCacheVars, cmCacheVars, found, notifier, outcome, arrived, missingSA>>

(* Mutant: the wait has no timeout. *)
GraceNeverExpires(p) ==
    /\ pc[p] = "waiting"
    /\ notifier[p] \in closed
    /\ Goto(p, "done")
    /\ missingSA' = missingSA \cup {p}
    /\ UNCHANGED <<saCacheVars, cmCacheVars, retried, found, notifier, outcome, arrived>>

(* time.After fires; select may pick it even with the notifier closed. *)
GraceExpires(p) ==
    /\ pc[p] = "waiting"
    /\ Goto(p, "done")
    /\ missingSA' = missingSA \cup {p}
    /\ UNCHANGED <<saCacheVars, cmCacheVars, retried, found, notifier, outcome, arrived>>

-----------------------------------------------------------------------------
(* The rest of the process, composed.                                      *)

(* The credentials file was reloaded (pkg/containercredentials). *)
Load(S) ==
    /\ up /\ loads < MaxLoads
    /\ identities' = S
    /\ loads' = loads + 1
    /\ UNCHANGED <<saCacheVars, cmCacheVars, podVars, clearVars>>

(* Clear() assigns saCache, then cmCache, under no lock. *)
ClearFirst ==
    /\ up /\ ~clearing /\ clears < MaxClears
    /\ ClearSA
    /\ clearing' = TRUE /\ clears' = clears + 1
    /\ UNCHANGED <<cmCacheVars, podVars, credentialVars>>

ClearSecond ==
    /\ clearing
    /\ ClearCM
    /\ clearing' = FALSE
    /\ UNCHANGED <<saCacheVars, podVars, clears, credentialVars>>

(* The writers of cmCache share c.mu with the lookups. *)
CMStep ==
    \/ \E c \in Configs \cup {Nil} : CMWrite(c)
    \/ cmInformerEvent
    \/ cmResync
    \/ \E raw \in task.sets : panicCM(raw) \/ (LockFree /\ setCM(raw))
    \/ \E raw \in task.pops : LockFree /\ popCM(raw)

PodStep(p) ==
    /\ up
    /\ \/ Admit(p)
       \/ GetCommonConfigurationsSA(p)
       \/ GetCommonConfigurationsCM(p)
       \/ addJitterToDefaultToken(p)
       \/ jitterPanic(p)
       \/ GetSA(p)
       \/ SendUnblocked(p)
       \/ GetCM(p)
       \/ GetAnyCM(p)
       \/ Notified(p)
       \/ GraceExpires(p)
    /\ UNCHANGED <<clearVars, credentialVars>>

CacheStep == up /\ SACacheStep /\ UNCHANGED <<cmCacheVars, podVars, clearVars, credentialVars>>
ConfigMapStep == up /\ CMStep /\ UNCHANGED <<saCacheVars, podVars, clearVars, credentialVars>>

(* After a panic in the informer's goroutine the process is gone. *)
Next ==
    \/ \E p \in Pods : PodStep(p)
    \/ CacheStep
    \/ ConfigMapStep
    \/ ClearFirst
    \/ ClearSecond
    \/ \E S \in Identities : Load(S)

Spec == Init /\ [][Next]_vars

(* Goroutines that can run do run, timers fire, the rate limiter lets every  *)
(* fetch through and a GET ends within its one-second context.  The API      *)
(* server's clients and the debug endpoint owe nothing.  Informer events are *)
(* delivered in order, so resyncs cannot hold them up (strong fairness).     *)
InternalStep == UNCHANGED <<cmCacheVars, podVars, clearVars, credentialVars>>

Fairness ==
    /\ \A p \in Pods : /\ WF_vars(PodStep(p))
                       /\ WF_vars(up /\ (fetchFromAPI(p) \/ fetchError(p)) /\ InternalStep)
                       /\ WF_vars(up /\ addFetched(p) /\ InternalStep)
    /\ WF_vars(up /\ consumeFetchRequest /\ InternalStep)
    /\ \A k \in SAs : /\ SF_vars(up /\ informerEvent(k) /\ InternalStep)
                      /\ WF_vars(up /\ resync(k) /\ InternalStep)

FairSpec == Spec /\ Fairness

-----------------------------------------------------------------------------
(* Properties.                                                             *)

(* A request in select (handler.go:472) can always be woken: its channel is  *)
(* closed, or it is the one registered for its account, and then the account *)
(* is not in saCache yet.  Without this the request would sit out the whole  *)
(* grace period although the account is known.                               *)
WaitersCanBeWoken ==
    \A p \in Pods : pc[p] = "waiting" =>
        \/ notifier[p] \in closed
        \/ /\ notifier[p] # Nil
           /\ handlers[saOf[p]] = notifier[p]
           /\ saCache[saOf[p]] = Nil

NeverDeleted(k) == \A v \in 1 .. Len(hist[k]) : v > 1 => hist[k][v] # Nil

(* A notified request finds its account in its second Get (handler.go:475),  *)
(* unless the account was deleted or the cache cleared in between: setSA     *)
(* stores the entry before anyone can see the channel closed.                *)
NotifiedRequestsFindAccount ==
    clears = 0 => \A p \in Pods :
        retried[p] /\ NeverDeleted(saOf[p])
            => saCache[saOf[p]] # Nil /\ p \notin missingSA

HasRole(a) == a # Nil /\ EntryOfSA(a).RoleARN # NoRole

(* Every version of the account has carried a role. *)
AlwaysAnnotated(k) == \A v \in 1 .. Len(hist[k]) : HasRole(hist[k][v])

(* Annotations take precedence over the ConfigMap for requests that come     *)
(* once the informer has delivered the account, if nobody clears the cache:  *)
(* late fetches, updates and the non-atomic Get do not change that.          *)
AnnotationsTakePrecedenceOnceSynced ==
    clears = 0 => \A p \in Pods :
        /\ outcome[p].method = "sts_web_identity"
        /\ AlwaysAnnotated(saOf[p])
        /\ arrived[p].sa > 0
        => outcome[p].from = "sa"

Configures(c, key) == c \notin {Nil, Unparsable} /\ key \in DOMAIN c
                      /\ c[key] # Nil /\ c[key].RoleARN # NoRole
Since(p) == arrived[p].cm .. Len(cmHist)
Settled(p) == /\ pc[p] = "done" /\ clears = 0
              /\ CanonicalHistory /\ arrived[p].cm > 0

(* "The webhook will mutate Pods configured to use these ServiceAccounts     *)
(* even if they have no annotations." (README.md:205-206): a pod whose       *)
(* account every version of the ConfigMap since its arrival has configured,  *)
(* by its own key or by the "*" namespace, is not answered unmutated.        *)
ConfiguredPodsAreMutated ==
    \A p \in Pods :
        /\ Settled(p)
        /\ \A v \in Since(p) : \/ Configures(cmHist[v], saOf[p])
                               \/ Configures(cmHist[v], <<"*", saOf[p][2]>>)
        => outcome[p].method # "nil"

(* The same for an account that keeps its own key in every version: an       *)
(* update of the ConfigMap in the middle of Get cannot hide it.              *)
PodsWithOwnKeyAreMutated ==
    \A p \in Pods :
        /\ Settled(p)
        /\ \A v \in Since(p) : Configures(cmHist[v], saOf[p])
        => outcome[p].method # "nil"

Mutated(p) == pc[p] = "done" /\ outcome[p].method \in {"sts_web_identity", "container_credentials"}

(* The token volume of a mutated pod asks for no less than the API server's  *)
(* minimum (constants.go:24), unless a ConfigMap entry says so: flag,        *)
(* account annotation, pod annotation and jitter all keep it.                *)
ExpirationAtLeastMinOutsideCM ==
    \A p \in Pods : Mutated(p) /\ outcome[p].from # "cm"
                    => outcome[p].expiration >= MinTokenExpiration

(* The answer o is what the entry e gives the pod: its role, STS setting and *)
(* expiration, the last one unless the pod has its own or it is jittered.    *)
Gives(e, p, o) ==
    LET expiration == PodTokenExpiration(podExpiration[p], e.TokenExpiration) IN
    /\ o.sts = e.UseRegionalSTS
    /\ IF o.method = "sts_web_identity"
       THEN o.role = e.RoleARN /\ o.role # NoRole /\ o.expiration = expiration
       ELSE /\ o.role = NoRole
            /\ \/ o.expiration = expiration
               \/ /\ expiration = DefaultTokenExpiration
                  /\ o.expiration \in DefaultMinTokenExpiration .. DefaultTokenExpiration

FromAnnotations(p) ==
    \E v \in 1 .. Len(hist[saOf[p]]) :
        hist[saOf[p]][v] # Nil /\ Gives(EntryOfSA(hist[saOf[p]][v]), p, outcome[p])

(* Only Get falls back to the "*" namespace, GetCommonConfigurations does not. *)
LookupKeys(p) ==
    IF outcome[p].method = "sts_web_identity" THEN {saOf[p], <<"*", saOf[p][2]>>}
    ELSE {saOf[p]}

(* The first version of the ConfigMap a request may be answered from: the    *)
(* one that was in cmCache when it came, if none up to it was malformed.     *)
Oldest(p) ==
    IF arrived[p].cm > 0 /\ CanonicalUpTo(arrived[p].cm) THEN arrived[p].cm ELSE 1

FromConfigMap(p) ==
    \E v \in Oldest(p) .. cmSeen :
        /\ cmHist[v] \in Parsed
        /\ \E raw \in DOMAIN cmHist[v] :
            /\ cmHist[v][raw] # Nil /\ HasKey(raw) /\ KeyOf(raw) \in LookupKeys(p)
            /\ Gives(EntryOfCM(cmHist[v][raw]), p, outcome[p])

FromDefaults(p) ==
    /\ outcome[p].method = "container_credentials"
    /\ Gives([UseRegionalSTS |-> FALSE, TokenExpiration |-> DefaultTokenExpiration], p, outcome[p])

(* A mutated pod gets the settings of one entry of its own account, never a  *)
(* mixture and never another account's: one version of its annotations, or   *)
(* one version of the ConfigMap that was not outdated when the request came, *)
(* or the defaults (cache.go:119-166, handler.go:440-508).                   *)
AnswersAreGenuine ==
    \A p \in Pods : Mutated(p) =>
        /\ outcome[p].from = "sa" => FromAnnotations(p)
        /\ outcome[p].from = "cm" => FromConfigMap(p)
        /\ outcome[p].from = "none" => FromDefaults(p)

(* A bound on the steps a request has left; its second lookup comes last.    *)
StepsLeft(p) ==
    CASE pc[p] = "new" -> 9
      [] pc[p] = "getSA" -> IF retried[p] THEN 3 ELSE 8
      [] pc[p] = "sending" -> 7
      [] pc[p] = "getCM" -> IF retried[p] THEN 2 ELSE 6
      [] pc[p] = "getAnyCM" -> IF retried[p] THEN 1 ELSE 5
      [] pc[p] = "waiting" -> 4
      [] pc[p] = "commonSA" -> 3
      [] pc[p] = "commonCM" -> 2
      [] pc[p] = "jitter" -> 1
      [] pc[p] = "done" -> 0

(* A request comes to an end after a bounded number of its own steps,        *)
(* whatever the caches do: it waits once and looks up twice at most, never   *)
(* goes back, and its answer is final (handler.go:440-508).                  *)
RequestsOnlyAdvance ==
    [][\A p \in Pods : \/ StepsLeft(p)' < StepsLeft(p)
                       \/ UNCHANGED <<pc[p], retried[p], notifier[p], outcome[p]>>]_vars

(* A request has a step to take.  (A lookup that reads saCache behind a      *)
(* writer waits for the same send as the writer.)                            *)
CanStep(p) ==
    CASE pc[p] = "sending" -> sending = p /\ Len(fetchRequests) < FetchCapacity
      [] pc[p] = "getSA" ->
            \/ saCache[saOf[p]] # Nil \/ ~gracePeriodEnabled \/ retried[p]
            \/ LockFree /\ (handlers[saOf[p]] # Nil \/ fetch[p] = "none")
      [] OTHER -> TRUE

(* No lookup is stuck: a request that cannot go on is in create()'s send, or *)
(* waits for the locks of the one that is, and then that one goes on as soon *)
(* as the consumer takes a request, for which it needs no lock               *)
(* (notifications.go:22-34, cache.go:168-177, 296-315).                      *)
LookupsNeverStuck ==
    \A p \in Pods : pc[p] # "done" /\ ~CanStep(p) =>
        /\ sending # Nil /\ pc[sending] = "sending"
        /\ CanStep(sending) \/ fetchRequests # <<>>

(* Every request is answered: no lookup, blocked send or wait lasts forever, *)
(* whatever happens to the caches and the fetches meanwhile.  (A request     *)
(* that is answered stays so; requests that never come owe nothing.)         *)
EveryRequestAnswered == <>[](\A p \in Pods : pc[p] \in {"new", "done"} \/ ~up)

(* The handler of an account that exists does not stay registered, even if   *)
(* its one fetch failed: the informer or the resync brings the account.      *)
HandlersDrain ==
    <>[](\A k \in SAs : Live(k) # Nil /\ up => handlers[k] = Nil)

(* saCache converges to the API server's version of an account that exists,  *)
(* also when a late fetch overwrote a newer entry (the resync repairs it).   *)
AccountsConverge ==
    <>[](\A k \in SAs : Live(k) # Nil /\ up => /\ saCache[k] # Nil
                                               /\ saCache[k].rv = Len(hist[k]))

-----------------------------------------------------------------------------
(* What a request may rely on, whatever its channel is shared with. *)
NotifyStatus ==
    [p \in Pods |-> IF notifier[p] = Nil THEN "none"
                    ELSE IF notifier[p] \in closed THEN "notified" ELSE "pending"]

Promise == INSTANCE Notification
           WITH cached <- {k \in SAs : saCache[k] # Nil}, status <- NotifyStatus

(* The cache keeps Get's promise: deduplicated channels, the blocked send,   *)
(* late fetches and an unlocked Clear implement the abstract notification.   *)
KeepsNotificationPromise == Promise!PromiseSpec
=============================================================================
