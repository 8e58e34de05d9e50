--------------------- MODULE ServiceAccountCacheProofs ---------------------
(***************************************************************************)
(* Proofs about ServiceAccountCache for every set of accounts and requests,*)
(* every channel capacity and any number of versions.                      *)
(***************************************************************************)
EXTENDS ServiceAccountCache, TLAPS

(* Whatever a user writes into the annotations, addSA makes a proper entry,  *)
(* and its expiration respects the minimum (cache.go:215-259).               *)
LEMMA EntryOfSAType ==
    ASSUME NEW a \in Annotation
    PROVE  /\ EntryOfSA(a) \in Entry
           /\ EntryOfSA(a).TokenExpiration >= MinTokenExpiration
<1> USE SettingsAssumption
<1>1. (IF a.role = Absent THEN NoRole ELSE ComposedRole(a.role)) \in Roles
  BY DEF Annotation, ComposedRole, Roles
<1>2. AnnotationOr(a.audience, defaultAudience) \in Audiences
  BY DEF Annotation, AnnotationOr
<1>3. AnnotationOr(a.sts, defaultRegionalSTS) \in BOOLEAN
  BY DEF Annotation, AnnotationOr, ParsedBools
<1>4. /\ ExpirationOr(a.expiration, defaultTokenExpiration) \in Int
      /\ ExpirationOr(a.expiration, defaultTokenExpiration) >= MinTokenExpiration
  BY DEF Annotation, ExpirationOr, ParsedInts, ValidateMinTokenExpiration, MinTokenExpiration
<1> QED
  BY <1>1, <1>2, <1>3, <1>4 DEF EntryOfSA, Entry

-----------------------------------------------------------------------------
(* What makes the type invariant inductive: the versions the informer and    *)
(* the fetches hold on to exist.                                             *)
VersionsExist ==
    /\ \A k \in SAs : Len(hist[k]) > 0 /\ seen[k] <= Len(hist[k])
    /\ \A p \in Pods : fetch[p] = "fetched" =>
        /\ fetched[p] \in 1 .. Len(hist[saOf[p]])
        /\ hist[saOf[p]][fetched[p]] # Nil

TypeInv == SACacheTypeOK /\ VersionsExist

(* Appending a version keeps the earlier ones. *)
LEMMA AppendKeeps ==
    ASSUME NEW S, NEW s \in Seq(S), NEW e \in S
    PROVE  /\ Append(s, e) \in Seq(S)
           /\ Len(Append(s, e)) = Len(s) + 1
           /\ \A i \in 1 .. Len(s) : Append(s, e)[i] = s[i]
           /\ Append(s, e)[Len(s) + 1] = e
OBVIOUS

LEMMA VersionType ==
    ASSUME TypeInv, NEW k \in SAs, NEW v \in 1 .. Len(hist[k]), hist[k][v] # Nil
    PROVE  /\ hist[k][v] \in Annotation
           /\ [entry |-> EntryOfSA(hist[k][v]), rv |-> v] \in Cached
<1>1. hist[k] \in Seq(Annotations \cup {Nil})
  BY DEF TypeInv, SACacheTypeOK
<1>2. hist[k][v] \in Annotations \cup {Nil}
  BY <1>1
<1>3. hist[k][v] \in Annotation
  BY <1>2, SACacheAssumption
<1>4. EntryOfSA(hist[k][v]) \in Entry
  BY <1>3, EntryOfSAType
<1>5. Len(hist[k]) \in Nat
  BY <1>1
<1> QED
  BY <1>3, <1>4, <1>5 DEF Cached

(* addSA of an existing version keeps the types of what it writes. *)
LEMMA AddSAType ==
    ASSUME TypeInv, NEW k \in SAs, NEW v \in 1 .. Len(hist[k]), hist[k][v] # Nil,
           addSA(k, v)
    PROVE  /\ saCache' \in [SAs -> Cached \cup {Nil}]
           /\ handlers' \in [SAs -> Pods \cup {Nil}]
           /\ closed' \in SUBSET Pods
<1>1. [entry |-> EntryOfSA(hist[k][v]), rv |-> v] \in Cached
  BY VersionType
<1> QED
  BY <1>1 DEF TypeInv, SACacheTypeOK, addSA, setSA, broadcast

LEMMA TypeInit == SACacheInit => TypeInv
<1> SUFFICES ASSUME SACacheInit PROVE TypeInv
  OBVIOUS
<1>1. ASSUME NEW k \in SAs
      PROVE  hist[k] \in Seq(Annotations \cup {Nil}) /\ Len(hist[k]) = 1
  <2>1. PICK a \in Annotations \cup {Nil} : hist[k] = <<a>>
    BY DEF SACacheInit
  <2> QED
    BY <2>1
<1>2. hist \in [SAs -> Seq(Annotations \cup {Nil})]
  BY <1>1 DEF SACacheInit
<1>3. fetchRequests \in Seq(Pods) /\ Len(fetchRequests) <= FetchCapacity
  BY SACacheAssumption DEF SACacheInit
<1>4. SACacheTypeOK
  BY <1>2, <1>3 DEF SACacheInit, SACacheTypeOK, FetchStates
<1>5. \A k \in SAs : Len(hist[k]) > 0 /\ seen[k] <= Len(hist[k])
  <2>1. \A k \in SAs : seen[k] = 0
    BY DEF SACacheInit
  <2> QED
    BY <1>1, <2>1
<1>6. \A p \in Pods : fetch[p] # "fetched"
  BY DEF SACacheInit
<1> QED
  BY <1>4, <1>5, <1>6 DEF TypeInv, VersionsExist

LEMMA TypeStep == TypeInv /\ [SACacheNext]_saCacheVars => TypeInv'
<1> SUFFICES ASSUME TypeInv, [SACacheNext]_saCacheVars PROVE TypeInv'
  OBVIOUS
<1> USE SACacheAssumption DEF notifyVars, fetchVars
<1>0. /\ hist \in [SAs -> Seq(Annotations \cup {Nil})]
      /\ \A k \in SAs : Len(hist[k]) \in Nat
  BY DEF TypeInv, SACacheTypeOK
<1>1. ASSUME NEW k \in SAs, NEW obj \in Annotations \cup {Nil}, ApiWrite(k, obj)
      PROVE  TypeInv'
  <2>1. /\ hist' \in [SAs -> Seq(Annotations \cup {Nil})]
        /\ \A j \in SAs : /\ Len(hist'[j]) >= Len(hist[j])
                          /\ Len(hist'[j]) \in Nat
                          /\ \A i \in 1 .. Len(hist[j]) : hist'[j][i] = hist[j][i]
    BY <1>0, <1>1, AppendKeeps DEF ApiWrite
  <2>2. SACacheTypeOK'
    BY <1>1, <2>1, SMTT(30) DEF ApiWrite, TypeInv, SACacheTypeOK
  <2>3. \A j \in SAs : Len(hist'[j]) > 0 /\ seen'[j] <= Len(hist'[j])
    BY <1>0, <1>1, <2>1 DEF ApiWrite, TypeInv, SACacheTypeOK, VersionsExist
  <2>4. ASSUME NEW p \in Pods, fetch'[p] = "fetched"
        PROVE  /\ fetched'[p] \in 1 .. Len(hist'[saOf[p]])
               /\ hist'[saOf[p]][fetched'[p]] # Nil
    BY <1>0, <1>1, <2>1, <2>4 DEF ApiWrite, TypeInv, SACacheTypeOK, VersionsExist
  <2> QED
    BY <2>2, <2>3, <2>4 DEF TypeInv, VersionsExist
<1>2. ASSUME NEW k \in SAs, NEW v \in 1 .. Len(hist[k]), AddOrUpdateFunc(k, v)
      PROVE  TypeInv'
  <2>1. addSA(k, v) /\ hist[k][v] # Nil
    BY <1>2 DEF AddOrUpdateFunc
  <2>2. v \in Nat /\ v <= Len(hist[k])
    BY <1>0
  <2>3. SACacheTypeOK'
    BY <1>2, <2>1, <2>2, AddSAType DEF AddOrUpdateFunc, TypeInv, SACacheTypeOK
  <2> QED
    BY <1>2, <2>2, <2>3 DEF AddOrUpdateFunc, TypeInv, SACacheTypeOK, VersionsExist
<1>3. ASSUME NEW k \in SAs, NEW v \in 1 .. Len(hist[k]), DeleteFunc(k, v)
      PROVE  TypeInv'
  BY <1>0, <1>3 DEF DeleteFunc, popSA, TypeInv, SACacheTypeOK, VersionsExist
<1>4. ASSUME NEW k \in SAs, informerEvent(k) PROVE TypeInv'
  <2>1. PICK v \in seen[k] + 1 .. Len(hist[k]) : AddOrUpdateFunc(k, v) \/ DeleteFunc(k, v)
    BY <1>4 DEF informerEvent
  <2>2. v \in 1 .. Len(hist[k])
    BY <1>0 DEF TypeInv, SACacheTypeOK
  <2> QED
    BY <1>2, <1>3, <2>1, <2>2
<1>5. ASSUME NEW k \in SAs, resync(k) PROVE TypeInv'
  <2>1. seen[k] \in 1 .. Len(hist[k])
    BY <1>0, <1>5 DEF resync, Stored, TypeInv, SACacheTypeOK, VersionsExist
  <2> QED
    BY <1>2, <1>5, <2>1 DEF resync
<1>6. CASE unblockSend
  <2>1. sending \in Pods
    BY <1>6 DEF unblockSend, TypeInv, SACacheTypeOK
  <2>2. fetchRequests' \in Seq(Pods) /\ Len(fetchRequests') <= FetchCapacity
    BY <1>6, <2>1, AppendKeeps DEF unblockSend, TypeInv, SACacheTypeOK
  <2> QED
    BY <1>6, <2>2 DEF unblockSend, TypeInv, SACacheTypeOK, VersionsExist
<1>7. CASE consumeFetchRequest
  <2>1. /\ Head(fetchRequests) \in Pods
        /\ Tail(fetchRequests) \in Seq(Pods)
        /\ Len(Tail(fetchRequests)) <= FetchCapacity
    BY <1>7 DEF consumeFetchRequest, TypeInv, SACacheTypeOK
  <2> QED
    BY <1>7, <2>1 DEF consumeFetchRequest, TypeInv, SACacheTypeOK, VersionsExist, FetchStates
<1>8. ASSUME NEW p \in Pods, fetchFromAPI(p) PROVE TypeInv'
  BY <1>0, <1>8 DEF fetchFromAPI, Live, TypeInv, SACacheTypeOK, VersionsExist, FetchStates
<1>9. ASSUME NEW p \in Pods, fetchError(p) PROVE TypeInv'
  BY <1>9, SMTT(30) DEF fetchError, TypeInv, SACacheTypeOK, VersionsExist, FetchStates
<1>10. ASSUME NEW p \in Pods, addFetched(p) PROVE TypeInv'
  <2>1. /\ fetched[p] \in 1 .. Len(hist[saOf[p]])
        /\ hist[saOf[p]][fetched[p]] # Nil
        /\ addSA(saOf[p], fetched[p])
    BY <1>10 DEF addFetched, TypeInv, VersionsExist
  <2>2. SACacheTypeOK'
    BY <1>10, <2>1, AddSAType, SMTT(30) DEF addFetched, TypeInv, SACacheTypeOK, FetchStates
  <2> QED
    BY <1>10, <2>2 DEF addFetched, TypeInv, SACacheTypeOK, VersionsExist, FetchStates
<1>11. ASSUME NEW p \in Pods, NEW notify \in BOOLEAN, getSA(p, notify) PROVE TypeInv'
  <2>1. /\ Append(fetchRequests, p) \in Seq(Pods)
        /\ Len(Append(fetchRequests, p)) = Len(fetchRequests) + 1
    BY AppendKeeps DEF TypeInv, SACacheTypeOK
  <2>2. CASE saCache[saOf[p]] = Nil /\ notify
    <3>1. create(p) /\ UNCHANGED <<hist, seen, saCache>>
      BY <1>11, <2>2 DEF getSA
    <3>0. /\ saOf[p] \in SAs
          /\ Len(fetchRequests) \in Nat /\ FetchCapacity \in Nat
      BY DEF TypeInv, SACacheTypeOK
    <3>2. /\ fetchRequests' \in Seq(Pods)
          /\ Len(fetchRequests') <= FetchCapacity
          /\ sending' \in Pods \cup {Nil}
      <4>1. CASE UNCHANGED <<fetchRequests, sending>>
        BY <4>1 DEF TypeInv, SACacheTypeOK
      <4>2. CASE /\ fetchRequests' = Append(fetchRequests, p)
                 /\ Len(fetchRequests) < FetchCapacity
                 /\ UNCHANGED sending
        BY <2>1, <3>0, <4>2 DEF TypeInv, SACacheTypeOK
      <4>3. CASE sending' = p /\ UNCHANGED fetchRequests
        BY <4>3 DEF TypeInv, SACacheTypeOK
      <4> QED
        BY <3>1, <4>1, <4>2, <4>3 DEF create
    <3>3. /\ handlers' \in [SAs -> Pods \cup {Nil}]
          /\ fetch' \in [Pods -> FetchStates]
          /\ \A q \in Pods : fetch'[q] = "fetched" => fetch[q] = "fetched"
      <4>1. CASE UNCHANGED <<handlers, fetch>>
        BY <4>1 DEF TypeInv, SACacheTypeOK
      <4>2. CASE /\ fetch' = [fetch EXCEPT ![p] = "requested"]
                 /\ handlers' = [handlers EXCEPT ![saOf[p]] = p]
        BY <3>0, <4>2 DEF TypeInv, SACacheTypeOK, FetchStates
      <4> QED
        BY <3>1, <4>1, <4>2 DEF create
    <3>4. UNCHANGED <<hist, seen, saCache, closed, fetched>>
      BY <3>1 DEF create
    <3>5. SACacheTypeOK'
      BY <3>2, <3>3, <3>4, SMTT(30) DEF TypeInv, SACacheTypeOK
    <3> QED
      BY <3>3, <3>4, <3>5 DEF TypeInv, VersionsExist
  <2>3. CASE ~(saCache[saOf[p]] = Nil /\ notify)
    BY <1>11, <2>3 DEF getSA, TypeInv, SACacheTypeOK, VersionsExist
  <2> QED
    BY <2>2, <2>3
<1>12. CASE ClearSA
  BY <1>12 DEF ClearSA, TypeInv, SACacheTypeOK, VersionsExist
<1>13. CASE UNCHANGED saCacheVars
  BY <1>13 DEF saCacheVars, TypeInv, SACacheTypeOK, VersionsExist
<1> QED
  BY <1>1, <1>4, <1>5, <1>6, <1>7, <1>8, <1>9, <1>10, <1>11, <1>12, <1>13
     DEF SACacheNext, SACacheStep

(* The types of the cache's state, the bounded length of the fetch channel   *)
(* and the existence of every version held on to, in every behaviour.        *)
THEOREM SACacheTypeCorrect == SACacheSpec => [](SACacheTypeOK /\ VersionsExist)
<1>1. SACacheSpec => []TypeInv
  BY TypeInit, TypeStep, PTL DEF SACacheSpec
<1> QED
  BY <1>1, PTL DEF TypeInv

-----------------------------------------------------------------------------
(* ChannelsTracked is not inductive alone: the consumer marks the fetch of   *)
(* whatever it takes from the channel, so what is queued must be a request   *)
(* that create() made.                                                       *)
QueueTracked ==
    /\ \A i \in 1 .. Len(fetchRequests) : fetch[fetchRequests[i]] # "none"
    /\ sending # Nil => fetch[sending] # "none"

NotifyInv == NoLostWakeup /\ ChannelsTracked /\ QueueTracked

LEMMA NotifyInit == SACacheInit => NotifyInv
<1> SUFFICES ASSUME SACacheInit PROVE NotifyInv
  OBVIOUS
<1>1. NoLostWakeup
  BY DEF SACacheInit, NoLostWakeup
<1>2. ChannelsTracked
  BY SACacheAssumption DEF SACacheInit, ChannelsTracked
<1>3. QueueTracked
  BY DEF SACacheInit, QueueTracked
<1> QED
  BY <1>1, <1>2, <1>3 DEF NotifyInv

(* Storing an entry and closing the registered channel, in one step. *)
LEMMA SetSANotifies ==
    ASSUME TypeInv, NotifyInv, NEW k \in SAs, NEW entry, NEW rv, setSA(k, entry, rv),
           \A p \in Pods : fetch[p] # "none" <=> fetch'[p] # "none"
    PROVE  NoLostWakeup' /\ ChannelsTracked'
<1> USE SACacheAssumption DEF TypeInv, SACacheTypeOK
<1>1. /\ saCache' = [saCache EXCEPT ![k] = [entry |-> entry, rv |-> rv]]
      /\ handlers' = [handlers EXCEPT ![k] = Nil]
      /\ closed' = closed \cup ({handlers[k]} \ {Nil})
  BY DEF setSA, broadcast
<1>2. NoLostWakeup'
  BY <1>1 DEF NotifyInv, NoLostWakeup
<1>3. ASSUME NEW p \in Pods
      PROVE  fetch'[p] # "none" <=> (p \in closed' \/ handlers'[saOf[p]] = p)
  <2>1. fetch[p] # "none" <=> (p \in closed \/ handlers[saOf[p]] = p)
    BY DEF NotifyInv, ChannelsTracked
  <2>2. handlers[k] = p => saOf[p] = k
    BY DEF NotifyInv, ChannelsTracked
  <2>3. CASE saOf[p] = k
    BY <1>1, <2>1, <2>3
  <2>4. CASE saOf[p] # k
    BY <1>1, <2>1, <2>2, <2>4
  <2> QED
    BY <2>3, <2>4
<1>4. ASSUME NEW j \in SAs, handlers'[j] # Nil
      PROVE  handlers'[j] \notin closed' /\ saOf[handlers'[j]] = j
  <2>1. j # k /\ handlers'[j] = handlers[j]
    BY <1>1, <1>4
  <2>2. /\ handlers[j] \notin closed /\ saOf[handlers[j]] = j
        /\ handlers[k] # Nil => saOf[handlers[k]] = k
    BY <1>4, <2>1 DEF NotifyInv, ChannelsTracked
  <2> QED
    BY <1>1, <2>1, <2>2
<1> QED
  BY <1>2, <1>3, <1>4 DEF ChannelsTracked

(* create() registers a channel that no one has closed, for an account that  *)
(* is not in the cache; an account that has a channel keeps it.              *)
LEMMA CreateTracks ==
    ASSUME TypeInv, NotifyInv, NEW p \in Pods, saCache[saOf[p]] = Nil, create(p),
           UNCHANGED saCache
    PROVE  NotifyInv'
<1> USE SACacheAssumption DEF TypeInv, SACacheTypeOK
<1> DEFINE k == saOf[p]
<1>0. k \in SAs
  OBVIOUS
<1>1. CASE handlers[k] # Nil
  <2>1. UNCHANGED <<handlers, fetchRequests, sending, fetch, closed>>
    BY <1>1 DEF create
  <2> QED
    BY <2>1 DEF NotifyInv, NoLostWakeup, ChannelsTracked, QueueTracked
<1>2. CASE handlers[k] = Nil
  <2>1. /\ fetch[p] = "none"
        /\ fetch' = [fetch EXCEPT ![p] = "requested"]
        /\ handlers' = [handlers EXCEPT ![k] = p]
        /\ UNCHANGED closed
        /\ sending = Nil
    BY <1>2 DEF create, LockFree
  <2>2. NoLostWakeup'
    BY <1>0, <2>1 DEF NotifyInv, NoLostWakeup
  <2>3. p \notin closed /\ handlers[saOf[p]] # p
    BY <2>1 DEF NotifyInv, ChannelsTracked
  <2>4. ASSUME NEW q \in Pods
        PROVE  fetch'[q] # "none" <=> (q \in closed' \/ handlers'[saOf[q]] = q)
    <3>1. fetch[q] # "none" <=> (q \in closed \/ handlers[saOf[q]] = q)
      BY DEF NotifyInv, ChannelsTracked
    <3>2. CASE q = p
      BY <1>0, <2>1, <3>2
    <3>3. CASE q # p
      <4>1. fetch'[q] = fetch[q]
        BY <2>1, <3>3
      <4>2. handlers'[saOf[q]] = q <=> handlers[saOf[q]] = q
        BY <1>0, <1>2, <2>1, <3>3
      <4> QED
        BY <2>1, <3>1, <4>1, <4>2
    <3> QED
      BY <3>2, <3>3
  <2>5. ASSUME NEW j \in SAs, handlers'[j] # Nil
        PROVE  handlers'[j] \notin closed' /\ saOf[handlers'[j]] = j
    <3>1. CASE j = k
      BY <1>0, <2>1, <2>3, <3>1
    <3>2. CASE j # k
      BY <1>0, <2>1, <2>5, <3>2 DEF NotifyInv, ChannelsTracked
    <3> QED
      BY <3>1, <3>2
  <2>6. QueueTracked'
    <3>1. \A q \in Pods : fetch[q] # "none" => fetch'[q] # "none"
      BY <2>1
    <3>2. fetch'[p] # "none"
      BY <2>1
    <3>3. /\ \A i \in 1 .. Len(fetchRequests) : fetchRequests[i] \in Pods
          /\ \A i \in 1 .. Len(fetchRequests) : fetch[fetchRequests[i]] # "none"
      BY DEF NotifyInv, QueueTracked
    <3>4. CASE fetchRequests' = Append(fetchRequests, p) /\ UNCHANGED sending
      <4>1. \A i \in 1 .. Len(fetchRequests') :
                fetchRequests'[i] = IF i <= Len(fetchRequests) THEN fetchRequests[i] ELSE p
        BY <3>4
      <4>2. Len(fetchRequests') = Len(fetchRequests) + 1
        BY <3>4
      <4>3. ASSUME NEW i \in 1 .. Len(fetchRequests')
            PROVE  fetch'[fetchRequests'[i]] # "none"
        <5>1. CASE i \in 1 .. Len(fetchRequests)
          <6>1. fetchRequests'[i] = fetchRequests[i]
            BY <4>1, <5>1
          <6>2. fetchRequests[i] \in Pods /\ fetch[fetchRequests[i]] # "none"
            BY <3>3, <5>1
          <6> QED
            BY <3>1, <6>1, <6>2, SMTT(30)
        <5>2. CASE i \notin 1 .. Len(fetchRequests)
          <6>1. Len(fetchRequests) \in Nat
            OBVIOUS
          <6>2. ~(i <= Len(fetchRequests))
            BY <4>2, <5>2, <6>1
          <6> QED
            BY <3>2, <4>1, <6>2
        <5> QED
          BY <5>1, <5>2
      <4>4. sending' = Nil
        BY <2>1, <3>4
      <4> QED
        BY <4>3, <4>4 DEF QueueTracked
    <3>5. CASE sending' = p /\ UNCHANGED fetchRequests
      BY <3>1, <3>2, <3>3, <3>5, SMTT(30) DEF QueueTracked
    <3> QED
      BY <1>2, <3>4, <3>5 DEF create
  <2> QED
    BY <2>2, <2>4, <2>5, <2>6 DEF NotifyInv, ChannelsTracked
<1> QED
  BY <1>1, <1>2

LEMMA NotifyStep == TypeInv /\ NotifyInv /\ [SACacheNext]_saCacheVars => NotifyInv'
<1> SUFFICES ASSUME TypeInv, NotifyInv, [SACacheNext]_saCacheVars PROVE NotifyInv'
  OBVIOUS
<1> USE SACacheAssumption DEF notifyVars, fetchVars
<1>0. /\ fetchRequests \in Seq(Pods)
      /\ fetch \in [Pods -> FetchStates]
      /\ \A i \in 1 .. Len(fetchRequests) : fetchRequests[i] \in Pods
  BY DEF TypeInv, SACacheTypeOK
<1>1. ASSUME NEW k \in SAs, NEW obj \in Annotations \cup {Nil}, ApiWrite(k, obj)
      PROVE  NotifyInv'
  BY <1>1 DEF ApiWrite, NotifyInv, NoLostWakeup, ChannelsTracked, QueueTracked
<1>2. ASSUME NEW k \in SAs, NEW v, AddOrUpdateFunc(k, v)
      PROVE  NotifyInv'
  <2>1. setSA(k, EntryOfSA(hist[k][v]), v) /\ UNCHANGED fetchVars
    BY <1>2 DEF AddOrUpdateFunc, addSA
  <2>2. NoLostWakeup' /\ ChannelsTracked'
    BY <2>1, SetSANotifies
  <2> QED
    BY <2>1, <2>2 DEF NotifyInv, QueueTracked
<1>3. ASSUME NEW k \in SAs, NEW v, DeleteFunc(k, v)
      PROVE  NotifyInv'
  <2>1. /\ saCache' = [saCache EXCEPT ![k] = Nil]
        /\ UNCHANGED <<handlers, closed, fetchVars>>
    BY <1>3 DEF DeleteFunc, popSA
  <2>2. NoLostWakeup'
    BY <2>1 DEF TypeInv, SACacheTypeOK, NotifyInv, NoLostWakeup
  <2> QED
    BY <2>1, <2>2 DEF NotifyInv, ChannelsTracked, QueueTracked
<1>4. ASSUME NEW k \in SAs, informerEvent(k) \/ resync(k) PROVE NotifyInv'
  BY <1>2, <1>3, <1>4 DEF informerEvent, resync
<1>5. CASE unblockSend
  <2>1. /\ sending # Nil
        /\ fetchRequests' = Append(fetchRequests, sending)
        /\ sending' = Nil
        /\ UNCHANGED <<saCache, handlers, closed, fetch>>
    BY <1>5 DEF unblockSend
  <2>2. sending \in Pods
    BY <2>1 DEF TypeInv, SACacheTypeOK
  <2>3. /\ Len(fetchRequests') = Len(fetchRequests) + 1
        /\ \A i \in 1 .. Len(fetchRequests') :
              fetchRequests'[i] = IF i <= Len(fetchRequests) THEN fetchRequests[i] ELSE sending
    BY <1>0, <2>1, <2>2
  <2>4. QueueTracked'
    BY <1>0, <2>1, <2>3 DEF NotifyInv, QueueTracked
  <2> QED
    BY <2>1, <2>4 DEF NotifyInv, NoLostWakeup, ChannelsTracked
<1>6. CASE consumeFetchRequest
  <2>1. /\ fetchRequests # <<>>
        /\ fetch' = [fetch EXCEPT ![Head(fetchRequests)] = "getting"]
        /\ fetchRequests' = Tail(fetchRequests)
        /\ UNCHANGED <<saCache, handlers, closed, sending>>
    BY <1>6 DEF consumeFetchRequest
  <2>2. Head(fetchRequests) \in Pods /\ fetch[Head(fetchRequests)] # "none"
    BY <1>0, <2>1 DEF NotifyInv, QueueTracked
  <2>3. \A q \in Pods : fetch'[q] # "none" <=> fetch[q] # "none"
    BY <1>0, <2>1, <2>2
  <2>4. QueueTracked'
    <3>1. /\ Len(fetchRequests') = Len(fetchRequests) - 1
          /\ \A i \in 1 .. Len(fetchRequests') : fetchRequests'[i] = fetchRequests[i + 1]
      BY <1>0, <2>1
    <3>2. \A i \in 1 .. Len(fetchRequests') : fetch'[fetchRequests'[i]] # "none"
      BY <1>0, <2>3, <3>1 DEF NotifyInv, QueueTracked
    <3>3. sending' # Nil => fetch'[sending'] # "none"
      BY <2>1, <2>3 DEF NotifyInv, QueueTracked, TypeInv, SACacheTypeOK
    <3> QED
      BY <3>2, <3>3 DEF QueueTracked
  <2> QED
    BY <2>1, <2>3, <2>4 DEF NotifyInv, NoLostWakeup, ChannelsTracked
<1>7. ASSUME NEW p \in Pods, fetchFromAPI(p) \/ fetchError(p) PROVE NotifyInv'
  <2>1. /\ \A q \in Pods : fetch'[q] # "none" <=> fetch[q] # "none"
        /\ UNCHANGED <<saCache, handlers, closed, fetchRequests, sending>>
    BY <1>0, <1>7 DEF fetchFromAPI, fetchError
  <2>2. QueueTracked'
    BY <1>0, <2>1, SMTT(30) DEF NotifyInv, QueueTracked, TypeInv, SACacheTypeOK
  <2> QED
    BY <2>1, <2>2 DEF NotifyInv, NoLostWakeup, ChannelsTracked
<1>8. ASSUME NEW p \in Pods, addFetched(p) PROVE NotifyInv'
  <2>1. /\ \A q \in Pods : fetch'[q] # "none" <=> fetch[q] # "none"
        /\ UNCHANGED <<fetchRequests, sending>>
    BY <1>0, <1>8 DEF addFetched
  <2>2. setSA(saOf[p], EntryOfSA(hist[saOf[p]][fetched[p]]), fetched[p])
    BY <1>8 DEF addFetched, addSA
  <2>3. NoLostWakeup' /\ ChannelsTracked'
    BY <2>1, <2>2, SetSANotifies
  <2>4. QueueTracked'
    BY <1>0, <2>1, SMTT(30) DEF NotifyInv, QueueTracked, TypeInv, SACacheTypeOK
  <2> QED
    BY <2>3, <2>4 DEF NotifyInv
<1>9. ASSUME NEW p \in Pods, NEW notify \in BOOLEAN, getSA(p, notify) PROVE NotifyInv'
  <2>1. CASE saCache[saOf[p]] = Nil /\ notify
    BY <1>9, <2>1, CreateTracks DEF getSA
  <2>2. CASE ~(saCache[saOf[p]] = Nil /\ notify)
    BY <1>9, <2>2 DEF getSA, NotifyInv, NoLostWakeup, ChannelsTracked, QueueTracked
  <2> QED
    BY <2>1, <2>2
<1>10. CASE ClearSA
  BY <1>10 DEF ClearSA, NotifyInv, NoLostWakeup, ChannelsTracked, QueueTracked
<1>11. CASE UNCHANGED saCacheVars
  BY <1>11 DEF saCacheVars, NotifyInv, NoLostWakeup, ChannelsTracked, QueueTracked
<1> QED
  BY <1>1, <1>4, <1>5, <1>6, <1>7, <1>8, <1>9, <1>10, <1>11 DEF SACacheNext, SACacheStep

LEMMA NotifyInvariant == SACacheSpec => [](TypeInv /\ NotifyInv)
BY TypeInit, TypeStep, NotifyInit, NotifyStep, PTL DEF SACacheSpec

(* An account that is in saCache has no channel left waiting, however        *)
(* lookups, informer events, late fetches and Clear() interleave.            *)
THEOREM NoWakeupLost == SACacheSpec => []NoLostWakeup
BY NotifyInvariant, PTL DEF NotifyInv

(* No channel is orphaned or closed twice.                                   *)
THEOREM ChannelsAreTracked == SACacheSpec => []ChannelsTracked
BY NotifyInvariant, PTL DEF NotifyInv

(* At most one fetch with an open channel per account, although requests     *)
(* for it come concurrently and earlier fetches may still be under way.      *)
THEOREM FetchesAreDeduplicated == SACacheSpec => []FetchesDeduplicated
<1>1. TypeInv /\ NotifyInv => FetchesDeduplicated
  BY SMTT(30) DEF NotifyInv, ChannelsTracked, FetchesDeduplicated, Outstanding
<1> QED
  BY <1>1, NotifyInvariant, PTL

-----------------------------------------------------------------------------
(* Every entry was made from a version of its account that existed. *)
EntriesGenuine ==
    \A k \in SAs : saCache[k] # Nil =>
        /\ saCache[k].rv \in 1 .. Len(hist[k])
        /\ hist[k][saCache[k].rv] # Nil
        /\ saCache[k].entry = EntryOfSA(hist[k][saCache[k].rv])

(* Storing a version that exists, history unchanged. *)
LEMMA AddSAGenuine ==
    ASSUME TypeInv, EntriesGenuine, NEW k \in SAs, NEW v \in 1 .. Len(hist[k]),
           hist[k][v] # Nil, addSA(k, v), UNCHANGED hist
    PROVE  EntriesGenuine'
<1>1. /\ saCache' = [saCache EXCEPT ![k] = [entry |-> EntryOfSA(hist[k][v]), rv |-> v]]
      /\ saCache \in [SAs -> Cached \cup {Nil}]
  BY DEF addSA, setSA, TypeInv, SACacheTypeOK
<1> QED
  BY <1>1 DEF EntriesGenuine

(* Everything but Clear(). *)
WithoutClear ==
    SACacheStep \/ unblockSend \/ \E p \in Pods, notify \in BOOLEAN : getSA(p, notify)

(* Which steps touch hist, seen, saCache and closed, and how. *)
LEMMA CacheStepCases ==
    ASSUME TypeInv, [WithoutClear]_saCacheVars
    PROVE  \/ UNCHANGED <<hist, seen, saCache, closed>>
           \/ \E k \in SAs, obj \in Annotations \cup {Nil} :
                ApiWrite(k, obj) /\ UNCHANGED <<seen, saCache, closed>>
           \/ \E k \in SAs : \E v \in 1 .. Len(hist[k]) :
                /\ v >= seen[k]
                /\ AddOrUpdateFunc(k, v) \/ (DeleteFunc(k, v) /\ v > seen[k] /\ seen[k] > 0)
           \/ \E p \in Pods : addFetched(p)
<1> USE SACacheAssumption DEF notifyVars, fetchVars
<1>1. \A k \in SAs : Len(hist[k]) \in Nat /\ seen[k] \in Nat /\ seen[k] <= Len(hist[k])
  BY DEF TypeInv, SACacheTypeOK, VersionsExist
<1>2. ASSUME NEW k \in SAs, informerEvent(k)
      PROVE  \E v \in 1 .. Len(hist[k]) :
                /\ v >= seen[k]
                /\ AddOrUpdateFunc(k, v) \/ (DeleteFunc(k, v) /\ v > seen[k] /\ seen[k] > 0)
  <2>1. PICK v \in seen[k] + 1 .. Len(hist[k]) : AddOrUpdateFunc(k, v) \/ DeleteFunc(k, v)
    BY <1>2 DEF informerEvent
  <2>2. v \in 1 .. Len(hist[k]) /\ v > seen[k]
    BY <1>1
  <2>3. DeleteFunc(k, v) => seen[k] > 0
    BY <1>1 DEF DeleteFunc, Stored
  <2> QED
    BY <1>1, <2>1, <2>2, <2>3
<1>3. ASSUME NEW k \in SAs, resync(k)
      PROVE  \E v \in 1 .. Len(hist[k]) : v >= seen[k] /\ AddOrUpdateFunc(k, v)
  <2>1. seen[k] \in 1 .. Len(hist[k]) /\ AddOrUpdateFunc(k, seen[k])
    BY <1>1, <1>3 DEF resync, Stored
  <2> QED
    BY <1>1, <2>1
<1>4. ASSUME NEW k \in SAs, NEW obj \in Annotations \cup {Nil}, ApiWrite(k, obj)
      PROVE  UNCHANGED <<seen, saCache, closed>>
  BY <1>4 DEF ApiWrite
<1>5. CASE consumeFetchRequest \/ unblockSend \/ UNCHANGED saCacheVars
           \/ \E p \in Pods : fetchFromAPI(p) \/ fetchError(p)
  BY <1>5, SMTT(30) DEF consumeFetchRequest, unblockSend, fetchFromAPI, fetchError, saCacheVars
<1>6. ASSUME NEW p \in Pods, NEW notify \in BOOLEAN, getSA(p, notify)
      PROVE  UNCHANGED <<hist, seen, saCache, closed>>
  BY <1>6 DEF getSA, create
<1> QED
  BY <1>2, <1>3, <1>4, <1>5, <1>6 DEF WithoutClear, SACacheStep

(* No step rewrites the versions an account has had. *)
LEMMA VersionsKept ==
    ASSUME TypeInv, [SACacheNext]_saCacheVars, NEW k \in SAs
    PROVE  /\ Len(hist[k]) \in Nat /\ Len(hist'[k]) \in Nat
           /\ Len(hist[k]) <= Len(hist'[k])
           /\ \A i \in 1 .. Len(hist[k]) : hist'[k][i] = hist[k][i]
<1>0. hist \in [SAs -> Seq(Annotations \cup {Nil})]
  BY DEF TypeInv, SACacheTypeOK
<1>1. CASE UNCHANGED hist
  BY <1>0, <1>1
<1>2. ASSUME NEW j \in SAs, NEW obj \in Annotations \cup {Nil}, ApiWrite(j, obj)
      PROVE  /\ Len(hist[k]) \in Nat /\ Len(hist'[k]) \in Nat
             /\ Len(hist[k]) <= Len(hist'[k])
             /\ \A i \in 1 .. Len(hist[k]) : hist'[k][i] = hist[k][i]
  BY <1>0, <1>2, AppendKeeps DEF ApiWrite
<1>3. CASE ClearSA
  BY <1>1, <1>3 DEF ClearSA
<1>4. CASE [WithoutClear]_saCacheVars
  <2>1. UNCHANGED hist \/ \E j \in SAs, obj \in Annotations \cup {Nil} : ApiWrite(j, obj)
    BY <1>4, CacheStepCases DEF AddOrUpdateFunc, DeleteFunc, addFetched
  <2> QED
    BY <1>1, <1>2, <2>1
<1> QED
  BY <1>3, <1>4 DEF SACacheNext, WithoutClear

LEMMA GenuineStep ==
    TypeInv /\ EntriesGenuine /\ [SACacheNext]_saCacheVars => EntriesGenuine'
<1> SUFFICES ASSUME TypeInv, EntriesGenuine, [SACacheNext]_saCacheVars PROVE EntriesGenuine'
  OBVIOUS
<1>0. /\ saCache \in [SAs -> Cached \cup {Nil}]
      /\ hist \in [SAs -> Seq(Annotations \cup {Nil})]
  BY SMTT(30) DEF TypeInv, SACacheTypeOK
<1>1. CASE UNCHANGED <<hist, seen, saCache, closed>>
  BY <1>1 DEF EntriesGenuine
<1>2. ASSUME NEW k \in SAs, NEW obj \in Annotations \cup {Nil}, ApiWrite(k, obj),
             UNCHANGED <<seen, saCache, closed>>
      PROVE  EntriesGenuine'
  <2>1. hist' = [hist EXCEPT ![k] = Append(@, obj)]
    BY <1>2 DEF ApiWrite
  <2>2. ASSUME NEW j \in SAs
        PROVE  /\ Len(hist[j]) \in Nat /\ Len(hist'[j]) \in Nat
               /\ Len(hist[j]) <= Len(hist'[j])
               /\ \A i \in 1 .. Len(hist[j]) : hist'[j][i] = hist[j][i]
    BY <1>0, <2>1, AppendKeeps
  <2>3. ASSUME NEW j \in SAs, saCache[j] # Nil
        PROVE  /\ saCache[j].rv \in 1 .. Len(hist'[j])
               /\ hist'[j][saCache[j].rv] = hist[j][saCache[j].rv]
    BY <2>2, <2>3 DEF EntriesGenuine
  <2> QED
    BY <1>2, <2>3 DEF EntriesGenuine
<1>3. ASSUME NEW k \in SAs, NEW v \in 1 .. Len(hist[k]), AddOrUpdateFunc(k, v)
      PROVE  EntriesGenuine'
  BY <1>3, AddSAGenuine DEF AddOrUpdateFunc
<1>4. ASSUME NEW k \in SAs, NEW v \in 1 .. Len(hist[k]), DeleteFunc(k, v)
      PROVE  EntriesGenuine'
  BY <1>0, <1>4 DEF DeleteFunc, popSA, EntriesGenuine
<1>5. ASSUME NEW p \in Pods, addFetched(p) PROVE EntriesGenuine'
  <2>1. /\ saOf[p] \in SAs
        /\ fetched[p] \in 1 .. Len(hist[saOf[p]])
        /\ hist[saOf[p]][fetched[p]] # Nil
        /\ addSA(saOf[p], fetched[p]) /\ UNCHANGED hist
    BY <1>5, SACacheAssumption DEF addFetched, TypeInv, VersionsExist
  <2> QED
    BY <2>1, AddSAGenuine, SMTT(30)
<1>6. CASE ClearSA
  BY <1>6 DEF ClearSA, EntriesGenuine
<1> QED
  BY <1>1, <1>2, <1>3, <1>4, <1>5, <1>6, CacheStepCases DEF SACacheNext, WithoutClear

LEMMA GenuineInvariant == SACacheSpec => [](TypeInv /\ NotifyInv /\ EntriesGenuine)
<1>1. SACacheInit => EntriesGenuine
  BY DEF SACacheInit, EntriesGenuine
<1> QED
  BY <1>1, NotifyInvariant, GenuineStep, PTL DEF SACacheSpec

(* Only the end of a fetch makes an entry older than what the informer has   *)
(* delivered, for any number of accounts, versions and requests.             *)
THEOREM OnlyLateFetchesMakeStale == SACacheSpec => OnlyFetchesMakeStale
<1>1. ASSUME TypeInv, [SACacheNext]_saCacheVars, NEW k \in SAs, Stale(k)', ~Stale(k)
      PROVE  \E p \in Pods : saOf[p] = k /\ fetch[p] = "fetched" /\ fetch'[p] = "ended"
  <2>0. /\ saCache \in [SAs -> Cached \cup {Nil}]
        /\ hist \in [SAs -> Seq(Annotations \cup {Nil})]
        /\ seen \in [SAs -> Nat]
        /\ fetch \in [Pods -> FetchStates]
        /\ seen[k] <= Len(hist[k])
    BY <1>1 DEF TypeInv, SACacheTypeOK, VersionsExist
  <2>1. CASE saCache'[k] = saCache[k] /\ seen'[k] = seen[k] /\ Stored(k)' = Stored(k)
    BY <1>1, <2>1 DEF Stale
  <2>2. CASE UNCHANGED <<hist, seen, saCache, closed>>
    BY <2>1, <2>2 DEF Stored
  <2>3. ASSUME NEW j \in SAs, NEW obj \in Annotations \cup {Nil}, ApiWrite(j, obj),
               UNCHANGED <<seen, saCache, closed>>
        PROVE  FALSE
    <3>1. hist' = [hist EXCEPT ![j] = Append(@, obj)]
      BY <2>3 DEF ApiWrite
    <3>2. \A i \in 1 .. Len(hist[k]) : hist'[k][i] = hist[k][i]
      BY <2>0, <3>1, AppendKeeps
    <3>3. Stored(k)' = Stored(k)
      BY <2>0, <2>3, <3>2 DEF Stored
    <3> QED
      BY <1>1, <2>3, <3>3 DEF Stale
  <2>4. ASSUME NEW j \in SAs, NEW v \in 1 .. Len(hist[j]), AddOrUpdateFunc(j, v)
        PROVE  FALSE
    <3>1. /\ saCache' = [saCache EXCEPT ![j] = [entry |-> EntryOfSA(hist[j][v]), rv |-> v]]
          /\ seen' = [seen EXCEPT ![j] = v]
          /\ hist[j][v] # Nil /\ UNCHANGED hist
      BY <2>4 DEF AddOrUpdateFunc, addSA, setSA
    <3>2. CASE j = k
      BY <1>1, <2>0, <3>1, <3>2 DEF Stale, Stored
    <3>3. CASE j # k
      BY <1>1, <2>0, <3>1, <3>3 DEF Stale, Stored
    <3> QED
      BY <3>2, <3>3
  <2>5. ASSUME NEW j \in SAs, NEW v \in 1 .. Len(hist[j]), DeleteFunc(j, v)
        PROVE  FALSE
    <3>1. /\ saCache' = [saCache EXCEPT ![j] = Nil]
          /\ seen' = [seen EXCEPT ![j] = v] /\ UNCHANGED hist
      BY <2>5, SMTT(30) DEF DeleteFunc, popSA
    <3> QED
      BY <1>1, <2>0, <3>1 DEF Stale, Stored
  <2>6. ASSUME NEW p \in Pods, addFetched(p) PROVE saOf[p] = k
    <3>1. saCache' = [saCache EXCEPT ![saOf[p]] =
                        [entry |-> EntryOfSA(hist[saOf[p]][fetched[p]]), rv |-> fetched[p]]]
      BY <2>6 DEF addFetched, addSA, setSA
    <3>2. UNCHANGED <<hist, seen>>
      BY <2>6 DEF addFetched
    <3> QED
      BY <1>1, <2>0, <3>1, <3>2 DEF Stale, Stored
  <2>7. CASE ClearSA
    BY <1>1, <2>7, SMTT(30) DEF ClearSA, Stale
  <2>8. ASSUME NEW p \in Pods, addFetched(p)
        PROVE  saOf[p] = k /\ fetch[p] = "fetched" /\ fetch'[p] = "ended"
    BY <2>0, <2>6, <2>8 DEF addFetched
  <2>9. [WithoutClear]_saCacheVars \/ ClearSA
    BY <1>1 DEF SACacheNext, WithoutClear
  <2>10. CASE [WithoutClear]_saCacheVars
    BY <1>1, <2>2, <2>3, <2>4, <2>5, <2>8, <2>10, CacheStepCases
  <2> QED
    BY <2>7, <2>9, <2>10
<1>2. TypeInv /\ [SACacheNext]_saCacheVars =>
        [\A k \in SAs : Stale(k)' /\ ~Stale(k)
            => \E p \in Pods : saOf[p] = k /\ fetch[p] = "fetched"
                               /\ fetch'[p] = "ended"]_saCacheVars
  BY <1>1
<1> QED
  BY <1>2, NotifyInvariant, PTL DEF SACacheSpec, OnlyFetchesMakeStale
=============================================================================
