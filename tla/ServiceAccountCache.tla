------------------------ MODULE ServiceAccountCache ------------------------
(***************************************************************************)
(* The annotation half of pkg/cache: saCache, the notifications registry,  *)
(* the bounded channel of fetch requests with its consumer, the API        *)
(* fetches in flight, and the informer that feeds the cache.               *)
(*                                                                         *)
(* A critical section under c.mu is one step.  The one exception is a      *)
(* create() that blocks on the full channel: it stops half way, holding    *)
(* c.mu for reading and n.mu, and `sending' names the request it serves.   *)
(*                                                                         *)
(* Each admission request calls create() at most once, so the channel made *)
(* for request p, and the fetch request it queues, are both named p.       *)
(***************************************************************************)
EXTENDS Settings, FiniteSets

CONSTANTS
    SAs,            \* ServiceAccounts, as <<namespace, name>>
    Pods,           \* admission requests, one per pod
    saOf,           \* the ServiceAccount each pod runs as
    Annotations,    \* the annotation sets the cluster's users write
    FetchCapacity,  \* capacity of saFetchRequests (1000 in the code)
    MaxVersions     \* bound: versions of a ServiceAccount in a behaviour

(* What saCache holds for an account. *)
Cached == [entry : Entry, rv : Nat \ {0}]

ASSUME SACacheAssumption ==
    /\ saOf \in [Pods -> SAs]
    /\ Annotations \subseteq Annotation
    /\ FetchCapacity \in Nat \ {0}
    /\ MaxVersions \in Nat
    /\ Nil \notin Pods /\ Nil \notin Cached

VARIABLES
    hist,           \* SA -> its versions in the API server; Nil: it does not exist
    seen,           \* SA -> the version the informer's store holds, 0: none yet
    saCache,        \* SA -> Nil or the entry, with the version it was made from
    handlers,       \* SA -> Nil or the open channel registered for it
    closed,         \* channels broadcast() has closed
    fetchRequests,  \* the buffered channel of fetch requests
    sending,        \* Nil or the request blocked in create() on a full channel
    fetch,          \* request -> how far its fetch is
    fetched         \* request -> version its GET returned

notifyVars == <<handlers, closed>>
fetchVars == <<fetchRequests, sending, fetch, fetched>>
saCacheVars == <<hist, seen, saCache, handlers, closed, fetchRequests, sending,
                 fetch, fetched>>

FetchStates == {"none", "requested", "getting", "fetched", "ended"}

SACacheTypeOK ==
    /\ hist \in [SAs -> Seq(Annotations \cup {Nil})]
    /\ seen \in [SAs -> Nat]
    /\ saCache \in [SAs -> Cached \cup {Nil}]
    /\ handlers \in [SAs -> Pods \cup {Nil}]
    /\ closed \in SUBSET Pods
    /\ fetchRequests \in Seq(Pods)
    /\ Len(fetchRequests) <= FetchCapacity
    /\ sending \in Pods \cup {Nil}
    /\ fetch \in [Pods -> FetchStates]
    /\ fetched \in [Pods -> Nat]

(* The object the API server holds, and the one the informer's store holds. *)
Live(k) == hist[k][Len(hist[k])]
Stored(k) == IF seen[k] = 0 THEN Nil ELSE hist[k][seen[k]]

(* c.mu can be taken for writing, n.mu can be taken: nobody is stuck in a send. *)
LockFree == sending = Nil

SACacheInit ==
    /\ hist \in [SAs -> {<<a>> : a \in Annotations \cup {Nil}}]
    /\ seen = [k \in SAs |-> 0]
    /\ saCache = [k \in SAs |-> Nil]
    /\ handlers = [k \in SAs |-> Nil]
    /\ closed = {}
    /\ fetchRequests = <<>>
    /\ sending = Nil
    /\ fetch = [p \in Pods |-> "none"]
    /\ fetched = [p \in Pods |-> 0]

-----------------------------------------------------------------------------
(* The cluster: users create, change and delete ServiceAccounts.           *)

ApiWrite(k, obj) ==
    /\ Len(hist[k]) < MaxVersions
    /\ obj # Nil \/ Live(k) # Nil
    /\ hist' = [hist EXCEPT ![k] = Append(@, obj)]
    /\ UNCHANGED <<seen, saCache, notifyVars, fetchVars>>

-----------------------------------------------------------------------------
(* notifications.go and the writers of saCache.                            *)

(* Mutant: the closed channel stays registered. *)
broadcastKeepsHandler(k) ==
    /\ closed' = closed \cup ({handlers[k]} \ {Nil})
    /\ UNCHANGED handlers

(* broadcast closes the channel registered for the key and forgets it. *)
broadcast(k) ==
    /\ closed' = closed \cup ({handlers[k]} \ {Nil})
    /\ handlers' = [handlers EXCEPT ![k] = Nil]

(* Mutant: the entry is stored and nobody is told. *)
setSAQuietly(k, entry, rv) ==
    /\ LockFree
    /\ saCache' = [saCache EXCEPT ![k] = [entry |-> entry, rv |-> rv]]
    /\ UNCHANGED notifyVars

setSA(k, entry, rv) ==
    /\ LockFree
    /\ saCache' = [saCache EXCEPT ![k] = [entry |-> entry, rv |-> rv]]
    /\ broadcast(k)

addSA(k, rv) == setSA(k, EntryOfSA(hist[k][rv]), rv)

(* Mutant: removing an entry notifies as well. *)
popSABroadcasts(k) ==
    /\ LockFree
    /\ saCache' = [saCache EXCEPT ![k] = Nil]
    /\ broadcast(k)

popSA(k) ==
    /\ LockFree
    /\ saCache' = [saCache EXCEPT ![k] = Nil]
    /\ UNCHANGED notifyVars

(* Mutant: create does not look for a registered channel. *)
createAlways(p) ==
    /\ LockFree
    /\ fetch[p] = "none"
    /\ fetch' = [fetch EXCEPT ![p] = "requested"]
    /\ handlers' = [handlers EXCEPT ![saOf[p]] = p]
    /\ Len(fetchRequests) < FetchCapacity
    /\ fetchRequests' = Append(fetchRequests, p)
    /\ UNCHANGED <<sending, closed, fetched>>

(* create registers a channel for the key unless one is there, and queues   *)
(* the fetch; with the channel full it blocks before the send.              *)
create(p) ==
    LET k == saOf[p] IN
    /\ LockFree
    /\ IF handlers[k] # Nil
       THEN UNCHANGED <<handlers, fetchRequests, sending, fetch>>
       ELSE /\ fetch[p] = "none"
            /\ fetch' = [fetch EXCEPT ![p] = "requested"]
            /\ handlers' = [handlers EXCEPT ![k] = p]
            /\ IF Len(fetchRequests) < FetchCapacity
               THEN /\ fetchRequests' = Append(fetchRequests, p)
                    /\ UNCHANGED sending
               ELSE /\ sending' = p
                    /\ UNCHANGED fetchRequests
    /\ UNCHANGED <<closed, fetched>>

(* Mutant: create returns a channel of the request's own. *)
channelOwn(p) == p

(* The channel create() returns to p. *)
channelFor(p) == IF handlers[saOf[p]] # Nil THEN handlers[saOf[p]] ELSE p

(* The blocked send goes through and create() returns, releasing the locks. *)
unblockSend ==
    /\ sending # Nil
    /\ Len(fetchRequests) < FetchCapacity
    /\ fetchRequests' = Append(fetchRequests, sending)
    /\ sending' = Nil
    /\ UNCHANGED <<hist, seen, saCache, notifyVars, fetch, fetched>>

(* getSA for a request that asks for a notification or does not. *)
getSA(p, requestNotification) ==
    /\ IF saCache[saOf[p]] = Nil /\ requestNotification
       THEN create(p)
       ELSE UNCHANGED <<notifyVars, fetchVars>>
    /\ UNCHANGED <<hist, seen, saCache>>

-----------------------------------------------------------------------------
(* The consumer goroutine of saFetchRequests and the goroutines it spawns. *)

consumeFetchRequest ==
    /\ fetchRequests # <<>>
    /\ fetch' = [fetch EXCEPT ![Head(fetchRequests)] = "getting"]
    /\ fetchRequests' = Tail(fetchRequests)
    /\ UNCHANGED <<hist, seen, saCache, notifyVars, sending, fetched>>

(* The GET returns what the API server holds; NotFound is an error.         *)
fetchFromAPI(p) ==
    LET k == saOf[p] IN
    /\ fetch[p] = "getting"
    /\ fetch' = [fetch EXCEPT ![p] = IF Live(k) = Nil THEN "ended" ELSE "fetched"]
    /\ fetched' = [fetched EXCEPT ![p] = Len(hist[k])]
    /\ UNCHANGED <<hist, seen, saCache, notifyVars, fetchRequests, sending>>

(* Mutant: a failed fetch wakes the requests that wait for it. *)
fetchErrorBroadcasts(p) ==
    /\ fetch[p] = "getting"
    /\ LockFree
    /\ fetch' = [fetch EXCEPT ![p] = "ended"]
    /\ broadcast(saOf[p])
    /\ UNCHANGED <<hist, seen, saCache, fetchRequests, sending, fetched>>

(* The GET fails for good: retries on ServerTimeout used up, the one-second  *)
(* context expired, any other error.  The handler stays registered.          *)
fetchError(p) ==
    /\ fetch[p] = "getting"
    /\ fetch' = [fetch EXCEPT ![p] = "ended"]
    /\ UNCHANGED <<hist, seen, saCache, notifyVars, fetchRequests, sending, fetched>>

(* The goroutine stores what it fetched, however old it is by now. *)
addFetched(p) ==
    /\ fetch[p] = "fetched"
    /\ addSA(saOf[p], fetched[p])
    /\ fetch' = [fetch EXCEPT ![p] = "ended"]
    /\ UNCHANGED <<hist, seen, fetchRequests, sending, fetched>>

-----------------------------------------------------------------------------
(* The informer's event handlers.  client-go is external: its store moves   *)
(* forward through the versions of an object, skipping some on a relist, so *)
(* the handlers see a later version each time; a resync repeats the stored  *)
(* one.  Tombstones always hold a ServiceAccount, so DeleteFunc always pops.*)

(* Mutant: an update only invalidates the entry. *)
UpdateInvalidates(k, v) ==
    /\ hist[k][v] # Nil
    /\ seen' = [seen EXCEPT ![k] = v]
    /\ IF Stored(k) = Nil THEN addSA(k, v) ELSE popSA(k)
    /\ UNCHANGED <<hist, fetchVars>>

AddOrUpdateFunc(k, v) ==
    /\ hist[k][v] # Nil
    /\ seen' = [seen EXCEPT ![k] = v]
    /\ addSA(k, v)
    /\ UNCHANGED <<hist, fetchVars>>

(* Mutant: tombstones are ignored. *)
DeleteIgnored(k, v) ==
    /\ hist[k][v] = Nil /\ Stored(k) # Nil
    /\ seen' = [seen EXCEPT ![k] = v]
    /\ UNCHANGED <<saCache, notifyVars, hist, fetchVars>>

DeleteFunc(k, v) ==
    /\ hist[k][v] = Nil /\ Stored(k) # Nil
    /\ seen' = [seen EXCEPT ![k] = v]
    /\ popSA(k)
    /\ UNCHANGED <<hist, fetchVars>>

informerEvent(k) ==
    \E v \in seen[k] + 1 .. Len(hist[k]) : AddOrUpdateFunc(k, v) \/ DeleteFunc(k, v)

(* Mutant: updates that carry the stored version again are skipped. *)
resyncSkipsUnchanged(k) ==
    /\ Stored(k) # Nil
    /\ UNCHANGED saCacheVars

resync(k) ==
    /\ Stored(k) # Nil
    /\ AddOrUpdateFunc(k, seen[k])

(* The first assignment of Clear(), which takes no lock. *)
ClearSA ==
    /\ saCache' = [k \in SAs |-> Nil]
    /\ UNCHANGED <<hist, seen, notifyVars, fetchVars>>

-----------------------------------------------------------------------------

SACacheStep ==
    \/ \E k \in SAs :
        \/ \E obj \in Annotations \cup {Nil} : ApiWrite(k, obj)
        \/ informerEvent(k)
        \/ resync(k)
    \/ consumeFetchRequest
    \/ \E p \in Pods : fetchFromAPI(p) \/ fetchError(p) \/ addFetched(p)

(* Without the pod handler: any request may look its account up at any time. *)
SACacheNext ==
    \/ SACacheStep
    \/ unblockSend
    \/ \E p \in Pods, notify \in BOOLEAN : getSA(p, notify)
    \/ ClearSA

SACacheSpec == SACacheInit /\ [][SACacheNext]_saCacheVars

-----------------------------------------------------------------------------
(* Properties.                                                             *)

(* getSA's check-and-register and setSA's store-and-broadcast exclude each  *)
(* other (cache.go:168-177, 261-270): an account that is in saCache has no  *)
(* channel still waiting to be told so.                                     *)
NoLostWakeup == \A k \in SAs : saCache[k] # Nil => handlers[k] = Nil

(* A channel create() made is either closed or still the one registered for *)
(* its account, so the next setSA of the account closes it; broadcast never *)
(* closes a channel twice, which would panic (notifications.go:22-44).      *)
ChannelsTracked ==
    /\ \A p \in Pods : fetch[p] # "none" <=> (p \in closed \/ handlers[saOf[p]] = p)
    /\ \A k \in SAs : handlers[k] # Nil => /\ handlers[k] \notin closed
                                           /\ saOf[handlers[k]] = k

(* A fetch that is queued, about to be queued or running. *)
Outstanding(p) == fetch[p] \in {"requested", "getting", "fetched"}

(* "deduplicate requests to SA with same namespace/name to single request"  *)
(* (notifications.go:26): of the fetches of an account that are queued,     *)
(* about to be queued or running, at most one has a channel still open.     *)
FetchesDeduplicated ==
    \A p, q \in Pods :
        /\ Outstanding(p) /\ p \notin closed
        /\ Outstanding(q) /\ q \notin closed
        /\ saOf[p] = saOf[q]
        => p = q

(* An entry older than what the informer has already delivered, or of an    *)
(* account whose deletion it has delivered.                                  *)
Stale(k) ==
    /\ saCache[k] # Nil
    /\ \/ saCache[k].rv < seen[k]
       \/ seen[k] > 0 /\ Stored(k) = Nil

(* Only a fetch that finishes late can put an entry into saCache that is     *)
(* older than what the informer delivered: informer events, resyncs and      *)
(* lookups never make an entry stale (cache.go:317-360).                     *)
OnlyFetchesMakeStale ==
    [][\A k \in SAs : Stale(k)' /\ ~Stale(k)
                        => \E p \in Pods : saOf[p] = k /\ fetch[p] = "fetched"
                                           /\ fetch'[p] = "ended"]_saCacheVars
=============================================================================
