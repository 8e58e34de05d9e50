--------------------------- MODULE WebhookProofs ---------------------------
(***************************************************************************)
(* The composed webhook uses both halves of the cache as                   *)
(* ServiceAccountCache and ConfigMapCache allow, so what is proved of them *)
(* holds of it; and, with that, every request that waits can be woken, no  *)
(* lookup is stuck, Get's notification promise is kept, and the answers    *)
(* are well-formed and ask for long enough tokens.                         *)
(***************************************************************************)
EXTENDS Webhook, ServiceAccountCacheProofs, ConfigMapCacheProofs

(* Most steps are first-order reasoning, for Zenon; those about numbers,     *)
(* records and sequences cite SMT.                                           *)
USE Zenon

(* Every step of the webhook is a step of the cache, or leaves it alone. *)
LEMMA StepUsesCache == [Next]_vars => [WithoutClear]_saCacheVars \/ ClearFirst
<1> SUFFICES ASSUME [Next]_vars PROVE WithoutClear \/ UNCHANGED saCacheVars \/ ClearFirst
  OBVIOUS
<1>1. ASSUME NEW p \in Pods, PodStep(p) PROVE WithoutClear \/ UNCHANGED saCacheVars
  <2>1. CASE GetCommonConfigurationsSA(p)
    BY <2>1 DEF GetCommonConfigurationsSA, WithoutClear
  <2>2. CASE GetSA(p)
    <3>1. (gracePeriodEnabled /\ ~retried[p]) \in BOOLEAN
      OBVIOUS
    <3> QED
      BY <2>2, <3>1 DEF GetSA, WithoutClear
  <2>3. CASE SendUnblocked(p)
    BY <2>3 DEF SendUnblocked, WithoutClear
  <2> QED
    BY <1>1, <2>1, <2>2, <2>3
       DEF PodStep, Admit, GetCommonConfigurationsCM, addJitterToDefaultToken,
           jitterPanic, GetCM, GetAnyCM, Notified, GraceExpires
<1>2. CASE CacheStep
  BY <1>2 DEF CacheStep, WithoutClear
<1>3. CASE ConfigMapStep
  BY <1>3 DEF ConfigMapStep
<1>4. CASE ClearSecond
  BY <1>4 DEF ClearSecond
<1>5. ASSUME NEW S \in Identities, Load(S) PROVE UNCHANGED saCacheVars
  BY <1>5 DEF Load
<1>6. CASE UNCHANGED vars
  BY <1>6 DEF vars
<1> QED
  BY <1>1, <1>2, <1>3, <1>4, <1>5, <1>6 DEF Next

LEMMA StepImplementsCache == [Next]_vars => [SACacheNext]_saCacheVars
BY StepUsesCache DEF ClearFirst, SACacheNext, WithoutClear

(* The handler, the ConfigMap half and the debug endpoint drive the cache    *)
(* only through its own operations.                                          *)
THEOREM ImplementsServiceAccountCache == Spec => SACacheSpec
<1>1. Init => SACacheInit
  BY DEF Init
<1> QED
  BY <1>1, StepImplementsCache, PTL DEF Spec, SACacheSpec

LEMMA CacheInvariant == Spec => [](TypeInv /\ NotifyInv)
BY ImplementsServiceAccountCache, NotifyInvariant, PTL

-----------------------------------------------------------------------------
(* A request's channel is one that create() made for its own account, and    *)
(* a request that may come to wait has one.                                  *)
WaiterInv ==
    /\ pc \in [Pods -> PcStates]
    /\ retried \in [Pods -> BOOLEAN]
    /\ found \in [Pods -> BOOLEAN]
    /\ notifier \in [Pods -> Pods \cup {Nil}]
    /\ \A p \in Pods : notifier[p] # Nil =>
        saOf[notifier[p]] = saOf[p] /\ fetch[notifier[p]] # "none"
    /\ \A p \in Pods :
        /\ pc[p] = "waiting" => notifier[p] # Nil
        /\ /\ pc[p] \in {"sending", "getCM", "getAnyCM"}
           /\ gracePeriodEnabled /\ ~retried[p] /\ ~found[p]
           => notifier[p] # Nil

(* A channel that was made stays made. *)
LEMMA FetchGrows ==
    ASSUME TypeInv, NotifyInv, [SACacheNext]_saCacheVars
    PROVE  \A p \in Pods : fetch[p] # "none" => fetch'[p] # "none"
<1> USE SACacheAssumption DEF fetchVars
<1>0. fetch \in [Pods -> FetchStates]
  BY DEF TypeInv, SACacheTypeOK
<1>1. ASSUME NEW k \in SAs, NEW obj, ApiWrite(k, obj) PROVE UNCHANGED fetch
  BY <1>1 DEF ApiWrite
<1>2. ASSUME NEW k \in SAs, informerEvent(k) \/ resync(k) PROVE UNCHANGED fetch
  BY <1>2 DEF informerEvent, resync, AddOrUpdateFunc, DeleteFunc
<1>3. CASE consumeFetchRequest
  BY <1>0, <1>3 DEF consumeFetchRequest
<1>4. ASSUME NEW p \in Pods, fetchFromAPI(p) \/ fetchError(p) \/ addFetched(p)
      PROVE  \A q \in Pods : fetch[q] # "none" => fetch'[q] # "none"
  BY <1>0, <1>4 DEF fetchFromAPI, fetchError, addFetched
<1>5. ASSUME NEW p \in Pods, NEW notify \in BOOLEAN, getSA(p, notify)
      PROVE  \A q \in Pods : fetch[q] # "none" => fetch'[q] # "none"
  BY <1>0, <1>5 DEF getSA, create
<1>6. CASE unblockSend \/ ClearSA \/ UNCHANGED saCacheVars
  BY <1>6 DEF unblockSend, ClearSA, saCacheVars
<1> QED
  BY <1>1, <1>2, <1>3, <1>4, <1>5, <1>6 DEF SACacheNext, SACacheStep

LEMMA WaiterInit == Init => WaiterInv
BY DEF Init, WaiterInv, PcStates

(* What getSA leaves behind when it misses and a notification was asked for. *)
LEMMA MissGivesChannel ==
    ASSUME TypeInv, NotifyInv, NEW p \in Pods, saCache[saOf[p]] = Nil, getSA(p, TRUE)
    PROVE  /\ channelFor(p) \in Pods
           /\ saOf[channelFor(p)] = saOf[p]
           /\ fetch'[channelFor(p)] # "none"
<1> USE SACacheAssumption DEF TypeInv, SACacheTypeOK
<1>0. saOf[p] \in SAs /\ create(p)
  BY DEF getSA
<1>1. CASE handlers[saOf[p]] # Nil
  <2>1. channelFor(p) = handlers[saOf[p]] /\ UNCHANGED fetch
    BY <1>0, <1>1 DEF channelFor, create
  <2>2. /\ handlers[saOf[p]] \in Pods
        /\ saOf[handlers[saOf[p]]] = saOf[p]
    BY <1>0, <1>1, SMT DEF NotifyInv, ChannelsTracked
  <2>3. fetch[handlers[saOf[p]]] # "none"
    BY <2>2 DEF NotifyInv, ChannelsTracked
  <2> QED
    BY <2>1, <2>2, <2>3
<1>2. CASE handlers[saOf[p]] = Nil
  BY <1>0, <1>2 DEF channelFor, create
<1> QED
  BY <1>1, <1>2

LEMMA WaiterStep ==
    TypeInv /\ NotifyInv /\ WaiterInv /\ [Next]_vars => WaiterInv'
<1> SUFFICES ASSUME TypeInv, NotifyInv, WaiterInv, [Next]_vars PROVE WaiterInv'
  OBVIOUS
<1> USE SACacheAssumption
<1>1. \A q \in Pods : fetch[q] # "none" => fetch'[q] # "none"
  BY FetchGrows, StepImplementsCache
<1>2. ASSUME UNCHANGED notifier
      PROVE  \A q \in Pods : notifier'[q] # Nil =>
                saOf[notifier'[q]] = saOf[q] /\ fetch'[notifier'[q]] # "none"
  BY <1>1, <1>2 DEF WaiterInv
<1>3. CASE UNCHANGED <<pc, retried, found, notifier>>
  BY <1>2, <1>3 DEF WaiterInv
<1>4. ASSUME NEW p \in Pods, NEW state \in PcStates, pc' = [pc EXCEPT ![p] = state],
             UNCHANGED <<retried, found, notifier>>,
             state \in {"waiting", "sending", "getCM", "getAnyCM"}
                /\ gracePeriodEnabled /\ ~retried[p] /\ ~found[p] => notifier[p] # Nil,
             state = "waiting" => notifier[p] # Nil
      PROVE  WaiterInv'
  <2>1. pc' \in [Pods -> PcStates]
    BY <1>4 DEF WaiterInv
  <2>2. \A q \in Pods : pc'[q] = IF q = p THEN state ELSE pc[q]
    BY <1>4 DEF WaiterInv
  <2>3. ASSUME NEW q \in Pods
        PROVE  /\ pc'[q] = "waiting" => notifier'[q] # Nil
               /\ /\ pc'[q] \in {"sending", "getCM", "getAnyCM"}
                  /\ gracePeriodEnabled /\ ~retried'[q] /\ ~found'[q]
                  => notifier'[q] # Nil
    BY <1>4, <2>2, SMT DEF WaiterInv
  <2> QED
    BY <1>2, <1>4, <2>1, <2>3 DEF WaiterInv
<1>5. ASSUME NEW p \in Pods, PodStep(p) PROVE WaiterInv'
  <2> USE DEF PcStates, Goto
  <2>1. CASE Admit(p)
    <3>1. PICK state \in {"commonSA", "getSA"} : pc' = [pc EXCEPT ![p] = state]
      BY <2>1 DEF Admit
    <3> QED
      BY <1>4, <2>1, <3>1 DEF Admit
  <2>2. CASE GetCommonConfigurationsSA(p) \/ GetCommonConfigurationsCM(p)
             \/ addJitterToDefaultToken(p) \/ jitterPanic(p) \/ GraceExpires(p)
    <3>1. PICK state \in {"commonCM", "jitter", "done"} : pc' = [pc EXCEPT ![p] = state]
      BY <2>2 DEF GetCommonConfigurationsSA, GetCommonConfigurationsCM, common,
                  addJitterToDefaultToken, jitterPanic, GraceExpires
    <3>2. UNCHANGED <<retried, found, notifier>>
      BY <2>2 DEF GetCommonConfigurationsSA, GetCommonConfigurationsCM,
                  addJitterToDefaultToken, jitterPanic, GraceExpires
    <3> QED
      BY <1>4, <3>1, <3>2
  <2>3. CASE GetSA(p)
    <3> DEFINE miss == saCache[saOf[p]] = Nil
               notify == gracePeriodEnabled /\ ~retried[p]
    <3>1. /\ getSA(p, notify)
          /\ found' = [found EXCEPT ![p] = ~miss]
          /\ notifier' = IF miss /\ notify THEN [notifier EXCEPT ![p] = channelFor(p)]
                         ELSE notifier
          /\ UNCHANGED retried
      BY <2>3 DEF GetSA
    <3>2. PICK state \in {"done", "sending", "getCM"} : pc' = [pc EXCEPT ![p] = state]
      BY <2>3 DEF GetSA, respond
    <3>3. CASE miss /\ notify
      <4>1. getSA(p, TRUE)
        BY <3>1, <3>3 DEF getSA
      <4>2. /\ channelFor(p) \in Pods /\ saOf[channelFor(p)] = saOf[p]
            /\ fetch'[channelFor(p)] # "none"
        BY <3>3, <4>1, MissGivesChannel
      <4>3. /\ notifier' \in [Pods -> Pods \cup {Nil}]
            /\ \A q \in Pods : notifier'[q] = IF q = p THEN channelFor(p) ELSE notifier[q]
        BY <3>1, <3>3, <4>2 DEF WaiterInv
      <4>4. \A q \in Pods : notifier'[q] # Nil =>
                saOf[notifier'[q]] = saOf[q] /\ fetch'[notifier'[q]] # "none"
        BY <1>1, <4>2, <4>3, SMT DEF WaiterInv
      <4>5. /\ pc' \in [Pods -> PcStates] /\ found' \in [Pods -> BOOLEAN]
            /\ \A q \in Pods : q # p => pc'[q] = pc[q] /\ found'[q] = found[q]
        BY <3>1, <3>2, SMT DEF WaiterInv
      <4>6. notifier'[p] # Nil
        BY <4>2, <4>3
      <4>7. ASSUME NEW q \in Pods
            PROVE  /\ pc'[q] = "waiting" => notifier'[q] # Nil
                   /\ /\ pc'[q] \in {"sending", "getCM", "getAnyCM"}
                      /\ gracePeriodEnabled /\ ~retried'[q] /\ ~found'[q]
                      => notifier'[q] # Nil
        BY <3>1, <4>3, <4>5, <4>6 DEF WaiterInv
      <4> QED
        BY <3>1, <4>3, <4>4, <4>5, <4>7 DEF WaiterInv
    <3>4. CASE ~(miss /\ notify)
      <4>1. UNCHANGED notifier
        BY <3>1, <3>4
      <4>2. /\ pc' \in [Pods -> PcStates] /\ found' \in [Pods -> BOOLEAN]
            /\ \A q \in Pods : q # p => pc'[q] = pc[q] /\ found'[q] = found[q]
        BY <3>1, <3>2, SMT DEF WaiterInv
      <4>3. pc'[p] # "waiting" /\ (found'[p] \/ ~notify)
        <5>0. p \in DOMAIN found /\ p \in DOMAIN pc
          BY SMT DEF WaiterInv
        <5>1. found'[p] <=> ~miss
          BY <3>1, <5>0
        <5>2. pc'[p] = state
          BY <3>2, <5>0
        <5> QED
          BY <3>4, <5>1, <5>2
      <4>4. ASSUME NEW q \in Pods
            PROVE  /\ pc'[q] = "waiting" => notifier'[q] # Nil
                   /\ /\ pc'[q] \in {"sending", "getCM", "getAnyCM"}
                      /\ gracePeriodEnabled /\ ~retried'[q] /\ ~found'[q]
                      => notifier'[q] # Nil
        BY <3>1, <4>1, <4>2, <4>3, SMT DEF WaiterInv
      <4> QED
        BY <1>2, <3>1, <4>1, <4>2, <4>4, SMT DEF WaiterInv
    <3> QED
      BY <3>3, <3>4
  <2>4. CASE SendUnblocked(p)
    BY <1>4, <2>4 DEF SendUnblocked, WaiterInv
  <2>5. CASE GetCM(p)
    <3>1. PICK state \in {"getAnyCM", "done"} : pc' = [pc EXCEPT ![p] = state]
      BY <2>5 DEF GetCM, respond
    <3> QED
      BY <1>4, <2>5, <3>1 DEF GetCM, WaiterInv
  <2>6. CASE GetAnyCM(p)
    <3>1. CASE pc' = [pc EXCEPT ![p] = "done"]
      BY <1>4, <2>6, <3>1 DEF GetAnyCM
    <3>2. CASE /\ pc' = [pc EXCEPT ![p] = "waiting"]
               /\ ~found[p] /\ gracePeriodEnabled /\ ~retried[p]
      BY <1>4, <2>6, <3>2 DEF GetAnyCM, WaiterInv
    <3> QED
      BY <2>6, <3>1, <3>2 DEF GetAnyCM, respond
  <2>7. CASE Notified(p)
    <3>1. /\ retried' = [retried EXCEPT ![p] = TRUE]
          /\ pc' = [pc EXCEPT ![p] = "getSA"]
          /\ UNCHANGED <<found, notifier>>
      BY <2>7 DEF Notified
    <3> QED
      BY <1>2, <3>1 DEF WaiterInv
  <2> QED
    BY <1>5, <2>1, <2>2, <2>3, <2>4, <2>5, <2>6, <2>7 DEF PodStep
<1> QED
  BY <1>3, <1>5
     DEF Next, CacheStep, ConfigMapStep, ClearFirst, ClearSecond, Load, vars, podVars

LEMMA WaiterInvariant == Spec => [](TypeInv /\ NotifyInv /\ WaiterInv)
BY CacheInvariant, WaiterInit, WaiterStep, PTL DEF Spec

(* Every request that waits can be woken, for any number of requests and     *)
(* accounts: its channel is closed, or registered and its account not cached.*)
THEOREM WaitersAreWakeable == Spec => []WaitersCanBeWoken
<1>1. TypeInv /\ NotifyInv /\ WaiterInv => WaitersCanBeWoken
  <2> SUFFICES ASSUME TypeInv, NotifyInv, WaiterInv, NEW p \in Pods, pc[p] = "waiting",
                      notifier[p] \notin closed
               PROVE  /\ notifier[p] # Nil
                      /\ handlers[saOf[p]] = notifier[p]
                      /\ saCache[saOf[p]] = Nil
    BY DEF WaitersCanBeWoken
  <2>1. /\ notifier[p] \in Pods /\ notifier[p] # Nil /\ saOf[p] \in SAs
        /\ saOf[notifier[p]] = saOf[p] /\ fetch[notifier[p]] # "none"
    BY SACacheAssumption DEF WaiterInv
  <2>2. handlers[saOf[p]] = notifier[p]
    BY <2>1 DEF NotifyInv, ChannelsTracked
  <2> QED
    BY <2>1, <2>2 DEF NotifyInv, NoLostWakeup
<1> QED
  BY <1>1, WaiterInvariant, PTL

-----------------------------------------------------------------------------
(* A request asks for a notification at most once: before its first lookup   *)
(* it has no channel.                                                        *)
FreshInv ==
    \A p \in Pods : pc[p] \in {"new", "getSA"} /\ ~retried[p] => notifier[p] = Nil

LEMMA FreshStep == WaiterInv /\ FreshInv /\ [Next]_vars => FreshInv'
<1> SUFFICES ASSUME WaiterInv, FreshInv, [Next]_vars PROVE FreshInv'
  OBVIOUS
<1>1. CASE UNCHANGED <<pc, retried, notifier>>
  BY <1>1 DEF FreshInv
<1>2. ASSUME NEW p \in Pods, NEW state \in PcStates, pc' = [pc EXCEPT ![p] = state],
             state \in {"new", "getSA"} => \/ pc[p] = "new" /\ UNCHANGED <<retried, notifier>>
                                           \/ retried'[p],
             \A q \in Pods \ {p} : retried'[q] = retried[q] /\ notifier'[q] = notifier[q]
      PROVE  FreshInv'
  BY <1>2 DEF FreshInv, WaiterInv
<1>3. ASSUME NEW p \in Pods, PodStep(p) PROVE FreshInv'
  <2> USE DEF PcStates, Goto
  <2>1. CASE Admit(p)
    <3>1. PICK state \in {"commonSA", "getSA"} : pc' = [pc EXCEPT ![p] = state]
      BY <2>1 DEF Admit
    <3> QED
      BY <1>2, <2>1, <3>1 DEF Admit
  <2>2. CASE GetCommonConfigurationsSA(p) \/ GetCommonConfigurationsCM(p)
             \/ addJitterToDefaultToken(p) \/ jitterPanic(p) \/ GraceExpires(p)
             \/ SendUnblocked(p) \/ GetCM(p) \/ GetAnyCM(p)
    <3>1. PICK state \in PcStates \ {"new", "getSA"} : pc' = [pc EXCEPT ![p] = state]
      BY <2>2 DEF GetCommonConfigurationsSA, GetCommonConfigurationsCM, common, respond,
                  addJitterToDefaultToken, jitterPanic, GraceExpires, SendUnblocked,
                  GetCM, GetAnyCM
    <3>2. UNCHANGED <<retried, notifier>>
      BY <2>2 DEF GetCommonConfigurationsSA, GetCommonConfigurationsCM,
                  addJitterToDefaultToken, jitterPanic, GraceExpires, SendUnblocked,
                  GetCM, GetAnyCM
    <3> QED
      BY <1>2, <3>1, <3>2
  <2>3. CASE GetSA(p)
    <3>1. PICK state \in {"done", "sending", "getCM"} : pc' = [pc EXCEPT ![p] = state]
      BY <2>3 DEF GetSA, respond
    <3>2. \A q \in Pods \ {p} : retried'[q] = retried[q] /\ notifier'[q] = notifier[q]
      BY <2>3 DEF GetSA, WaiterInv
    <3> QED
      BY <1>2, <3>1, <3>2
  <2>4. CASE Notified(p)
    <3>1. /\ retried' = [retried EXCEPT ![p] = TRUE]
          /\ pc' = [pc EXCEPT ![p] = "getSA"]
          /\ UNCHANGED notifier
      BY <2>4 DEF Notified
    <3>2. retried'[p] /\ \A q \in Pods \ {p} : retried'[q] = retried[q]
      BY <3>1 DEF WaiterInv
    <3> QED
      BY <1>2, <3>1, <3>2
  <2> QED
    BY <1>3, <2>1, <2>2, <2>3, <2>4 DEF PodStep
<1> QED
  BY <1>1, <1>3
     DEF Next, CacheStep, ConfigMapStep, ClearFirst, ClearSecond, Load, vars, podVars

-----------------------------------------------------------------------------
(* The request whose send holds the locks is in that send, and a request     *)
(* that may call create() has not called it before.                          *)
SendInv ==
    /\ \A p \in Pods : pc[p] = "sending" <=> sending = p
    /\ \A p \in Pods : pc[p] \in {"new", "getSA"} /\ ~retried[p] => fetch[p] = "none"

(* Informer, fetches and Clear() neither send nor call create(). *)
LEMMA CacheNeverSends ==
    ASSUME TypeInv, NotifyInv, SACacheStep \/ ClearSA
    PROVE  UNCHANGED sending /\ \A p \in Pods : fetch[p] = "none" => fetch'[p] = "none"
<1> USE DEF fetchVars
<1>0. fetch \in [Pods -> FetchStates]
  BY DEF TypeInv, SACacheTypeOK
<1>1. ASSUME NEW k \in SAs, NEW obj, ApiWrite(k, obj) PROVE UNCHANGED <<sending, fetch>>
  BY <1>1 DEF ApiWrite
<1>2. ASSUME NEW k \in SAs, informerEvent(k) \/ resync(k) PROVE UNCHANGED <<sending, fetch>>
  BY <1>2 DEF informerEvent, resync, AddOrUpdateFunc, DeleteFunc
<1>3. CASE consumeFetchRequest
  <2>1. /\ fetch' = [fetch EXCEPT ![Head(fetchRequests)] = "getting"]
        /\ fetchRequests # <<>> /\ UNCHANGED sending
    BY <1>3 DEF consumeFetchRequest
  <2>2. 1 \in 1 .. Len(fetchRequests) /\ Head(fetchRequests) = fetchRequests[1]
    BY <2>1, SMT DEF TypeInv, SACacheTypeOK
  <2>3. fetch[Head(fetchRequests)] # "none"
    BY <2>2 DEF NotifyInv, QueueTracked
  <2> QED
    BY <1>0, <2>1, <2>3
<1>4. ASSUME NEW p \in Pods, fetchFromAPI(p) \/ fetchError(p) \/ addFetched(p)
      PROVE  UNCHANGED sending /\ \A q \in Pods : fetch[q] = "none" => fetch'[q] = "none"
  BY <1>0, <1>4 DEF fetchFromAPI, fetchError, addFetched
<1>5. CASE ClearSA
  BY <1>5 DEF ClearSA
<1> QED
  BY <1>1, <1>2, <1>3, <1>4, <1>5 DEF SACacheStep

(* The lookup that may call create(). *)
LEMMA LookupSends ==
    ASSUME TypeInv, WaiterInv, SendInv, NEW p \in Pods, GetSA(p)
    PROVE  SendInv'
<1> USE DEF Goto
<1>0. /\ pc \in [Pods -> PcStates] /\ fetch \in [Pods -> FetchStates]
      /\ pc[p] = "getSA" /\ UNCHANGED retried /\ sending # p /\ p # Nil
  BY SACacheAssumption DEF WaiterInv, TypeInv, SACacheTypeOK, GetSA, SendInv
<1>1. \/ UNCHANGED <<sending, fetch>>
      \/ /\ sending = Nil /\ sending' \in {p, Nil}
         /\ fetch' \in {fetch, [fetch EXCEPT ![p] = "requested"]}
         /\ saCache[saOf[p]] = Nil
  BY DEF GetSA, getSA, create, LockFree, fetchVars
<1>2. \A q \in Pods \ {p} : /\ sending' = q <=> sending = q
                            /\ fetch'[q] = fetch[q] /\ pc'[q] = pc[q]
  <2>1. \A q \in Pods \ {p} : sending' = q <=> sending = q
    BY <1>1, SACacheAssumption
  <2>2. \A q \in Pods \ {p} : fetch'[q] = fetch[q]
    BY <1>0, <1>1
  <2>3. \A q \in Pods \ {p} : pc'[q] = pc[q]
    BY <1>0 DEF GetSA, respond
  <2> QED
    BY <2>1, <2>2, <2>3
<1>3. pc'[p] \in {"done", "sending", "getCM"} /\ (pc'[p] = "sending" <=> sending' = p)
  <2>1. CASE saCache[saOf[p]] # Nil /\ saCache[saOf[p]].entry.RoleARN # NoRole
    <3>1. pc'[p] = "done"
      BY <1>0, <2>1 DEF GetSA, respond
    <3> QED
      BY <1>0, <1>1, <2>1, <3>1
  <2>2. CASE ~(saCache[saOf[p]] # Nil /\ saCache[saOf[p]].entry.RoleARN # NoRole)
    BY <1>0, <2>2 DEF GetSA
  <2> QED
    BY <2>1, <2>2
<1> QED
  BY <1>0, <1>2, <1>3 DEF SendInv

LEMMA SendStep ==
    TypeInv /\ NotifyInv /\ WaiterInv /\ SendInv /\ [Next]_vars => SendInv'
<1> SUFFICES ASSUME TypeInv, NotifyInv, WaiterInv, SendInv, [Next]_vars PROVE SendInv'
  OBVIOUS
<1>1. CASE /\ UNCHANGED <<sending, pc, retried>>
           /\ \A p \in Pods : fetch[p] = "none" => fetch'[p] = "none"
  BY <1>1 DEF SendInv
<1>2. ASSUME NEW p \in Pods, NEW state \in PcStates \ {"new", "sending"},
             pc[p] # "sending", pc' = [pc EXCEPT ![p] = state], UNCHANGED <<sending, fetch>>,
             \A q \in Pods \ {p} : retried'[q] = retried[q],
             state = "getSA" => retried'[p] \/ (pc[p] = "new" /\ ~retried[p])
      PROVE  SendInv'
  <2>1. pc \in [Pods -> PcStates]
    BY DEF WaiterInv
  <2>2. pc'[p] = state /\ \A q \in Pods \ {p} : pc'[q] = pc[q]
    BY <1>2, <2>1
  <2>3. \A q \in Pods : pc'[q] = "sending" <=> sending' = q
    BY <1>2, <2>2 DEF SendInv
  <2>4. \A q \in Pods : pc'[q] \in {"new", "getSA"} /\ ~retried'[q] => fetch'[q] = "none"
    BY <1>2, <2>2 DEF SendInv
  <2> QED
    BY <2>3, <2>4 DEF SendInv
<1>3. ASSUME NEW p \in Pods, PodStep(p) PROVE SendInv'
  <2> USE DEF PcStates, Goto
  <2>1. CASE Admit(p)
    <3>1. /\ pc[p] = "new" /\ UNCHANGED <<sending, fetch, retried>>
          /\ retried[p] => retried'[p]
      BY <2>1 DEF Admit, saCacheVars
    <3>2. PICK state \in {"commonSA", "getSA"} : pc' = [pc EXCEPT ![p] = state]
      BY <2>1 DEF Admit
    <3> QED
      BY <1>2, <3>1, <3>2
  <2>2. CASE GetCommonConfigurationsSA(p) \/ GetCommonConfigurationsCM(p)
             \/ addJitterToDefaultToken(p) \/ jitterPanic(p) \/ GraceExpires(p)
             \/ GetCM(p) \/ GetAnyCM(p)
    <3>1. PICK state \in {"commonCM", "jitter", "done", "getAnyCM", "waiting"} :
            pc' = [pc EXCEPT ![p] = state]
      BY <2>2 DEF GetCommonConfigurationsSA, GetCommonConfigurationsCM, common, respond,
                  addJitterToDefaultToken, jitterPanic, GraceExpires, GetCM, GetAnyCM
    <3>2. pc[p] # "sending" /\ UNCHANGED <<retried, sending, fetch>>
      BY <2>2 DEF GetCommonConfigurationsSA, GetCommonConfigurationsCM, getSA, fetchVars,
                  addJitterToDefaultToken, jitterPanic, GraceExpires, GetCM, GetAnyCM,
                  saCacheVars
    <3> QED
      BY <1>2, <3>1, <3>2
  <2>3. CASE GetSA(p)
    BY <2>3, LookupSends
  <2>4. CASE SendUnblocked(p)
    <3>1. /\ sending = p /\ sending' = Nil /\ UNCHANGED <<fetch, retried>>
          /\ pc' = [pc EXCEPT ![p] = "getCM"]
      BY <2>4 DEF SendUnblocked, unblockSend
    <3>2. pc'[p] = "getCM" /\ \A q \in Pods \ {p} : pc'[q] = pc[q]
      BY <3>1 DEF WaiterInv
    <3> QED
      BY <3>1, <3>2, SACacheAssumption DEF SendInv
  <2>5. CASE Notified(p)
    <3>1. /\ pc[p] = "waiting" /\ pc' = [pc EXCEPT ![p] = "getSA"]
          /\ retried' = [retried EXCEPT ![p] = TRUE] /\ UNCHANGED <<sending, fetch>>
      BY <2>5 DEF Notified, saCacheVars
    <3>2. retried'[p] /\ \A q \in Pods \ {p} : retried'[q] = retried[q]
      BY <3>1 DEF WaiterInv
    <3> QED
      BY <1>2, <3>1, <3>2
  <2> QED
    BY <1>3, <2>1, <2>2, <2>3, <2>4, <2>5 DEF PodStep
<1>4. CASE CacheStep \/ ClearFirst
  BY <1>1, <1>4, CacheNeverSends DEF CacheStep, ClearFirst, podVars
<1>5. CASE ConfigMapStep \/ ClearSecond \/ (\E S \in Identities : Load(S)) \/ UNCHANGED vars
  BY <1>1, <1>5 DEF ConfigMapStep, ClearSecond, Load, vars, saCacheVars, podVars
<1> QED
  BY <1>3, <1>4, <1>5 DEF Next

LEMMA SendInvariant == Spec => [](TypeInv /\ NotifyInv /\ WaiterInv /\ SendInv)
<1>1. Init => SendInv
  <2> SUFFICES ASSUME Init PROVE SendInv
    OBVIOUS
  <2>1. sending = Nil /\ \A p \in Pods : pc[p] = "new" /\ fetch[p] = "none"
    BY DEF Init, SACacheInit
  <2> QED
    BY <2>1, SACacheAssumption DEF SendInv
<1> QED
  BY <1>1, WaiterInvariant, SendStep, PTL DEF Spec

(* No lookup is ever stuck, for any number of requests and accounts and any  *)
(* capacity of the channel but zero: whoever holds the locks in a send can   *)
(* go on, or will once the consumer has taken what the channel holds.        *)
THEOREM NoLookupIsStuck == Spec => []LookupsNeverStuck
<1>1. TypeInv /\ SendInv => LookupsNeverStuck
  <2> SUFFICES ASSUME TypeInv, SendInv, NEW p \in Pods, pc[p] # "done", ~CanStep(p)
               PROVE  /\ sending # Nil /\ pc[sending] = "sending"
                      /\ CanStep(sending) \/ fetchRequests # <<>>
    BY DEF LookupsNeverStuck
  <2>1. sending # Nil
    <3>1. CASE pc[p] = "sending"
      BY <3>1, SACacheAssumption DEF SendInv
    <3>2. CASE pc[p] = "getSA"
      BY <3>2 DEF CanStep, SendInv, LockFree
    <3> QED
      BY <3>1, <3>2 DEF CanStep
  <2>2. sending \in Pods /\ pc[sending] = "sending"
    BY <2>1 DEF TypeInv, SACacheTypeOK, SendInv
  <2>3. Len(fetchRequests) < FetchCapacity \/ fetchRequests # <<>>
    BY SACacheAssumption, SMT
  <2>4. Len(fetchRequests) < FetchCapacity => CanStep(sending)
    BY <2>2 DEF CanStep
  <2> QED
    BY <2>1, <2>2, <2>3, <2>4
<1> QED
  BY <1>1, SendInvariant, PTL

-----------------------------------------------------------------------------
(* The accounts in saCache, the refinement mapping of `cached'. *)
InCache == {k \in SAs : saCache[k] # Nil}

PromiseStep == Promise!PromiseNext \/ (InCache' = InCache /\ NotifyStatus' = NotifyStatus)

(* Storing an entry notifies the requests that wait for its account. *)
LEMMA SetSAPopulates ==
    ASSUME TypeInv, NotifyInv, WaiterInv, NEW k \in SAs, NEW entry, NEW rv,
           [entry |-> entry, rv |-> rv] \in Cached,
           setSA(k, entry, rv), UNCHANGED notifier
    PROVE  Promise!Populate(k)
<1> USE SACacheAssumption DEF TypeInv, SACacheTypeOK
<1>1. /\ saCache' = [saCache EXCEPT ![k] = [entry |-> entry, rv |-> rv]]
      /\ closed' = closed \cup ({handlers[k]} \ {Nil})
  BY DEF setSA, broadcast
<1>2. InCache' = InCache \cup {k}
  <2>1. /\ saCache'[k] # Nil
        /\ \A j \in SAs \ {k} : saCache'[j] = saCache[j]
    BY <1>1, SMT
  <2> QED
    BY <2>1, SMT DEF InCache
<1>3. ASSUME NEW p \in Pods
      PROVE  NotifyStatus'[p] = IF NotifyStatus[p] = "pending" /\ saOf[p] = k
                                THEN "notified" ELSE NotifyStatus[p]
  <2>1. CASE notifier[p] = Nil
    BY <2>1 DEF NotifyStatus
  <2>2. CASE notifier[p] \in closed
    BY <1>1, <2>2 DEF NotifyStatus
  <2>3. CASE notifier[p] # Nil /\ notifier[p] \notin closed
    <3>1. handlers[saOf[p]] = notifier[p]
      BY <2>3, SMT DEF WaiterInv, NotifyInv, ChannelsTracked
    <3>2. saOf[p] # k => handlers[k] # notifier[p]
      <4>1. handlers[k] # Nil => saOf[handlers[k]] = k
        BY DEF NotifyInv, ChannelsTracked
      <4>2. saOf[notifier[p]] = saOf[p]
        BY <2>3 DEF WaiterInv
      <4> QED
        BY <2>3, <4>1, <4>2
    <3> QED
      BY <1>1, <2>3, <3>1, <3>2, SMT DEF NotifyStatus
  <2> QED
    BY <2>1, <2>2, <2>3
<1>4. NotifyStatus' = [p \in Pods |-> IF NotifyStatus[p] = "pending" /\ saOf[p] = k
                                      THEN "notified" ELSE NotifyStatus[p]]
  BY <1>3 DEF NotifyStatus
<1> QED
  BY <1>2, <1>4 DEF Promise!Populate, InCache

(* Steps of the informer and of the fetches populate, forget or stutter. *)
LEMMA CacheStepPromise ==
    ASSUME TypeInv, NotifyInv, WaiterInv, SACacheStep, UNCHANGED notifier
    PROVE  PromiseStep
<1> USE SACacheAssumption DEF notifyVars, fetchVars
<1>1. ASSUME NEW k \in SAs, NEW v \in 1 .. Len(hist[k]), hist[k][v] # Nil, addSA(k, v)
      PROVE  PromiseStep
  <2>1. [entry |-> EntryOfSA(hist[k][v]), rv |-> v] \in Cached
    BY <1>1, VersionType
  <2>2. Promise!Populate(k)
    BY <1>1, <2>1, SetSAPopulates DEF addSA
  <2> QED
    BY <2>2 DEF PromiseStep, Promise!PromiseNext
<1>2. ASSUME NEW k \in SAs, popSA(k) PROVE PromiseStep
  <2>1. /\ saCache' = [saCache EXCEPT ![k] = Nil]
        /\ UNCHANGED <<handlers, closed>>
    BY <1>2 DEF popSA
  <2>2. InCache' = InCache \ {k}
    BY <2>1 DEF InCache, TypeInv, SACacheTypeOK
  <2>3. UNCHANGED NotifyStatus
    BY <2>1 DEF NotifyStatus
  <2>4. Promise!Forget({k})
    BY <2>2, <2>3 DEF Promise!Forget, InCache
  <2> QED
    BY <2>4 DEF PromiseStep, Promise!PromiseNext
<1>3. CASE UNCHANGED <<saCache, closed>>
  BY <1>3 DEF PromiseStep, InCache, NotifyStatus
<1>4. \A k \in SAs : Len(hist[k]) \in Nat /\ seen[k] \in Nat /\ seen[k] <= Len(hist[k])
  BY SMT DEF TypeInv, SACacheTypeOK, VersionsExist
<1>5. ASSUME NEW k \in SAs, informerEvent(k) PROVE PromiseStep
  <2>1. PICK v \in seen[k] + 1 .. Len(hist[k]) : AddOrUpdateFunc(k, v) \/ DeleteFunc(k, v)
    BY <1>5 DEF informerEvent
  <2>2. v \in 1 .. Len(hist[k])
    BY <1>4, SMT
  <2> QED
    BY <1>1, <1>2, <2>1, <2>2 DEF AddOrUpdateFunc, DeleteFunc
<1>6. ASSUME NEW k \in SAs, resync(k) PROVE PromiseStep
  <2>1. seen[k] \in 1 .. Len(hist[k])
    BY <1>4, <1>6, SMT DEF resync, Stored
  <2> QED
    BY <1>1, <1>6, <2>1 DEF resync, AddOrUpdateFunc
<1>7. ASSUME NEW p \in Pods, addFetched(p) PROVE PromiseStep
  <2>1. /\ fetched[p] \in 1 .. Len(hist[saOf[p]])
        /\ hist[saOf[p]][fetched[p]] # Nil
        /\ addSA(saOf[p], fetched[p])
    BY <1>7 DEF addFetched, TypeInv, VersionsExist
  <2> QED
    BY <1>1, <2>1
<1> QED
  BY <1>3, <1>5, <1>6, <1>7
     DEF SACacheStep, ApiWrite, consumeFetchRequest, fetchFromAPI, fetchError

(* A lookup that misses and wants a notification asks for it. *)
LEMMA LookupPromise ==
    ASSUME TypeInv, NotifyInv, WaiterInv, FreshInv, NEW p \in Pods, GetSA(p)
    PROVE  PromiseStep
<1> USE SACacheAssumption DEF TypeInv, SACacheTypeOK, notifyVars, fetchVars
<1> DEFINE miss == saCache[saOf[p]] = Nil
           notify == gracePeriodEnabled /\ ~retried[p]
<1>1. /\ pc[p] = "getSA"
      /\ getSA(p, notify)
      /\ notifier' = IF miss /\ notify THEN [notifier EXCEPT ![p] = channelFor(p)]
                     ELSE notifier
      /\ UNCHANGED saCache
  BY DEF GetSA, getSA
<1>2. UNCHANGED closed
  BY <1>1 DEF getSA, create
<1>3. UNCHANGED InCache
  BY <1>1 DEF InCache
<1>4. CASE ~(miss /\ notify)
  BY <1>1, <1>2, <1>3, <1>4 DEF PromiseStep, NotifyStatus
<1>5. CASE miss /\ notify
  <2>1. notifier[p] = Nil
    BY <1>1, <1>5 DEF FreshInv
  <2>2. create(p)
    BY <1>1, <1>5 DEF getSA
  <2>3. channelFor(p) # Nil /\ channelFor(p) \notin closed
    <3>1. saOf[p] \in SAs
      OBVIOUS
    <3>2. CASE handlers[saOf[p]] # Nil
      BY <3>1, <3>2 DEF channelFor, NotifyInv, ChannelsTracked
    <3>3. CASE handlers[saOf[p]] = Nil
      BY <2>2, <3>1, <3>3 DEF create, channelFor, NotifyInv, ChannelsTracked
    <3> QED
      BY <3>2, <3>3
  <2>4. ASSUME NEW q \in Pods
        PROVE  NotifyStatus'[q] = IF q = p THEN "pending" ELSE NotifyStatus[q]
    BY <1>1, <1>2, <1>5, <2>3 DEF NotifyStatus, WaiterInv
  <2>5. NotifyStatus[p] = "none"
    BY <2>1 DEF NotifyStatus
  <2>6. NotifyStatus' = [NotifyStatus EXCEPT ![p] = "pending"]
    BY <2>4 DEF NotifyStatus
  <2>7. saOf[p] \notin InCache
    BY <1>5 DEF InCache
  <2>8. Promise!Ask(p)
    BY <1>3, <2>5, <2>6, <2>7 DEF Promise!Ask, InCache
  <2> QED
    BY <2>8 DEF PromiseStep, Promise!PromiseNext
<1> QED
  BY <1>4, <1>5

LEMMA StepKeepsPromise ==
    TypeInv /\ NotifyInv /\ WaiterInv /\ FreshInv /\ [Next]_vars => PromiseStep
<1> SUFFICES ASSUME TypeInv, NotifyInv, WaiterInv, FreshInv, [Next]_vars PROVE PromiseStep
  OBVIOUS
<1>1. CASE UNCHANGED <<saCache, closed, notifier>>
  BY <1>1 DEF PromiseStep, InCache, NotifyStatus
<1>2. ASSUME NEW p \in Pods, PodStep(p) PROVE PromiseStep
  <2>1. CASE GetSA(p)
    BY <2>1, LookupPromise
  <2>2. CASE GetCommonConfigurationsSA(p) \/ SendUnblocked(p)
    BY <1>1, <2>2 DEF GetCommonConfigurationsSA, SendUnblocked, getSA, unblockSend, notifyVars
  <2> QED
    BY <1>1, <1>2, <2>1, <2>2
       DEF PodStep, Admit, GetCommonConfigurationsCM, addJitterToDefaultToken,
           jitterPanic, GetCM, GetAnyCM, Notified, GraceExpires, saCacheVars
<1>3. CASE CacheStep
  BY <1>3, CacheStepPromise DEF CacheStep, podVars
<1>4. CASE ClearFirst
  <2>1. /\ saCache' = [k \in SAs |-> Nil]
        /\ UNCHANGED <<closed, notifier>>
    BY <1>4 DEF ClearFirst, ClearSA, notifyVars, podVars
  <2>2. InCache' = InCache \ SAs /\ UNCHANGED NotifyStatus
    BY <2>1 DEF InCache, NotifyStatus
  <2>3. Promise!Forget(SAs)
    BY <2>2 DEF Promise!Forget, InCache
  <2> QED
    BY <2>3 DEF PromiseStep, Promise!PromiseNext
<1>5. CASE ConfigMapStep \/ ClearSecond \/ (\E S \in Identities : Load(S)) \/ UNCHANGED vars
  BY <1>1, <1>5 DEF ConfigMapStep, ClearSecond, Load, vars, saCacheVars, podVars
<1> QED
  BY <1>2, <1>3, <1>4, <1>5 DEF Next

(* The webhook implements the abstract notification: a request is told in    *)
(* the very step that populates its account, and only then, for any number   *)
(* of accounts, requests and any channel capacity.                           *)
THEOREM NotificationPromiseKept == Spec => KeepsNotificationPromise
<1>1. Init => Promise!PromiseInit /\ FreshInv
  <2> SUFFICES ASSUME Init PROVE Promise!PromiseInit /\ FreshInv
    OBVIOUS
  <2>1. {k \in SAs : saCache[k] # Nil} = {} /\ NotifyStatus = [p \in Pods |-> "none"]
    BY DEF Init, SACacheInit, NotifyStatus
  <2> QED
    BY <2>1 DEF Init, FreshInv, Promise!PromiseInit
<1>2. Spec => [](TypeInv /\ NotifyInv /\ WaiterInv /\ FreshInv)
  BY <1>1, WaiterInvariant, FreshStep, PTL DEF Spec
<1>3. TypeInv /\ NotifyInv /\ WaiterInv /\ FreshInv /\ [Next]_vars
        => [Promise!PromiseNext]_<<{k \in SAs : saCache[k] # Nil}, NotifyStatus>>
  BY StepKeepsPromise DEF PromiseStep, InCache
<1> QED
  BY <1>1, <1>2, <1>3, PTL DEF Spec, KeepsNotificationPromise, Promise!PromiseSpec

-----------------------------------------------------------------------------
(* The ConfigMap half, which Clear() may empty at any time.                *)

CMHalf ==
    /\ CMShape
    /\ clears \in Nat
    /\ clearing \in BOOLEAN
    /\ clearing => clears > 0
    /\ clears = 0 => CMInv

(* The answers, and the bookkeeping around them. *)
AnswersInv ==
    /\ outcome \in [Pods -> Outcome]
    /\ arrived \in [Pods -> [sa : Nat, cm : Nat]]
    /\ missingSA \in SUBSET Pods
    /\ identities \in Identities
    /\ loads \in Nat
    /\ \A p \in Pods : outcome[p].method \in {"sts_web_identity", "container_credentials"}
                       /\ outcome[p].from # "cm"
                       => outcome[p].expiration >= MinTokenExpiration

-----------------------------------------------------------------------------
(* Every step uses cmCache as ConfigMapCache allows, without restarts, or is *)
(* the second half of Clear().                                               *)
LEMMA StepUsesConfigMap == [Next]_vars => [CMRun]_cmCacheVars \/ ClearSecond
<1> SUFFICES ASSUME [Next]_vars PROVE CMRun \/ UNCHANGED cmCacheVars \/ ClearSecond
  OBVIOUS
<1>1. ASSUME NEW p \in Pods, PodStep(p) PROVE UNCHANGED cmCacheVars
  BY <1>1 DEF PodStep, Admit, GetCommonConfigurationsSA, GetCommonConfigurationsCM,
              addJitterToDefaultToken, jitterPanic, GetSA, SendUnblocked, GetCM, GetAnyCM,
              Notified, GraceExpires
<1>2. CASE ConfigMapStep
  BY <1>2 DEF ConfigMapStep, CMStep, CMRun, CMWriter, CMLoops
<1>3. CASE CacheStep \/ ClearFirst \/ UNCHANGED vars
  BY <1>3 DEF CacheStep, ClearFirst, vars
<1>4. ASSUME NEW S \in Identities, Load(S) PROVE UNCHANGED cmCacheVars
  BY <1>4 DEF Load
<1> QED
  BY <1>1, <1>2, <1>3, <1>4 DEF Next

(* The count of Clear() calls never falls. *)
LEMMA ClearsStep ==
    ASSUME CMHalf, [Next]_vars
    PROVE  /\ clears' \in Nat /\ clearing' \in BOOLEAN
           /\ clearing' => clears' > 0
           /\ clears' = 0 => clears = 0 /\ ~ClearFirst /\ ~ClearSecond
<1>1. CASE ClearFirst
  <2>1. clears' = clears + 1 /\ clearing' = TRUE /\ clears \in Nat
    BY <1>1 DEF ClearFirst, CMHalf
  <2> QED
    BY <2>1, SMT
<1>2. CASE ClearSecond
  <2>1. clearing /\ clears' = clears /\ clearing' = FALSE
    BY <1>2 DEF ClearSecond
  <2>2. clears \in Nat /\ clears > 0
    BY <2>1 DEF CMHalf
  <2>3. clears' \in Nat /\ clears' # 0
    BY <2>1, <2>2, SMT
  <2>4. clearing' \in BOOLEAN /\ ~clearing'
    BY <2>1, Zenon
  <2> QED
    BY <2>3, <2>4, Zenon
<1>3. CASE UNCHANGED clearVars
  <2>1. clears' = clears /\ clearing' = clearing
    BY <1>3 DEF clearVars
  <2> QED
    BY <1>1, <1>2, <2>1 DEF CMHalf, ClearFirst, ClearSecond
<1> QED
  BY <1>1, <1>2, <1>3 DEF Next, PodStep, CacheStep, ConfigMapStep, Load, vars

LEMMA CMHalfInit == Init => CMHalf
<1>1. Init => CMInv /\ clears = 0 /\ clearing = FALSE
  BY CMInit DEF Init
<1>2. Init => clears \in Nat
  BY <1>1, SMT
<1>3. Init => clearing \in BOOLEAN /\ ~clearing
  BY <1>1, Zenon
<1> QED
  BY <1>1, <1>2, <1>3 DEF CMHalf, CMInv

LEMMA CMHalfStep == CMHalf /\ [Next]_vars => CMHalf'
<1> SUFFICES ASSUME CMHalf, [Next]_vars PROVE CMHalf'
  OBVIOUS
<1>1. CASE ClearSecond
  <2>1. cmCache' = EmptyCMCache /\ UNCHANGED <<cmHist, cmSeen, task, up>>
    BY <1>1 DEF ClearSecond, ClearCM
  <2>2. CMShape'
    BY <2>1 DEF CMHalf, CMShape, EmptyCMCache
  <2> QED
    BY <1>1, <2>2, ClearsStep DEF CMHalf
<1>2. CASE [CMRun]_cmCacheVars
  <2>1. [CMCacheNext]_cmCacheVars
    BY <1>2 DEF CMRun, CMCacheNext
  <2> QED
    BY <2>1, ClearsStep, CMShapeStep, CMInvStep DEF CMHalf
<1> QED
  BY <1>1, <1>2, StepUsesConfigMap

(* As long as nobody calls Clear(), the webhook uses cmCache exactly as      *)
(* ConfigMapCache says, whatever requests, fetches and the file watcher do   *)
(* in between: all that is proved of ConfigMapCache holds of the webhook.    *)
THEOREM ImplementsConfigMapCache == Spec /\ [](clears = 0) => CMCacheSpec
<1>1. Init => CMCacheInit
  BY DEF Init
<1>2. CMHalf /\ [Next]_vars /\ (clears = 0)' => [CMCacheNext]_cmCacheVars
  BY StepUsesConfigMap, ClearsStep DEF CMRun, CMCacheNext
<1> QED
  BY <1>1, <1>2, CMHalfInit, CMHalfStep, PTL DEF Spec, CMCacheSpec

-----------------------------------------------------------------------------
(* Answers.                                                                *)

LongEnough(o) ==
    o.method \in {"sts_web_identity", "container_credentials"} /\ o.from # "cm"
        => o.expiration >= MinTokenExpiration

LEMMA PodExpirationType ==
    ASSUME NEW p \in Pods, NEW e \in Int
    PROVE  /\ PodTokenExpiration(podExpiration[p], e) \in Int
           /\ e >= MinTokenExpiration
                => PodTokenExpiration(podExpiration[p], e) >= MinTokenExpiration
<1>1. podExpiration[p] \in ParsedInts
  BY WebhookAssumption
<1> QED
  BY <1>1, SMT DEF PodTokenExpiration, ExpirationOr, ValidateMinTokenExpiration, ParsedInts,
              MinTokenExpiration

LEMMA JitterRange ==
    ASSUME NEW draw \in Int63nRange
    PROVE  draw + DefaultMinTokenExpiration \in DefaultMinTokenExpiration .. DefaultTokenExpiration
<1>1. DefaultMinTokenExpiration \in Int /\ DefaultTokenExpiration \in Int
  BY SMT DEF DefaultMinTokenExpiration, DefaultTokenExpiration
<1> QED
  BY <1>1, SMT DEF Int63nRange

LEMMA CachedEntry ==
    ASSUME TypeInv, EntriesGenuine, NEW k \in SAs, saCache[k] # Nil
    PROVE  /\ saCache[k].entry \in Entry
           /\ saCache[k].entry.TokenExpiration >= MinTokenExpiration
           /\ AlwaysAnnotated(k) => saCache[k].entry.RoleARN # NoRole
<1>1. /\ saCache[k].rv \in 1 .. Len(hist[k]) /\ hist[k][saCache[k].rv] # Nil
      /\ saCache[k].entry = EntryOfSA(hist[k][saCache[k].rv])
  BY DEF EntriesGenuine
<1>2. hist[k][saCache[k].rv] \in Annotation
  BY <1>1, VersionType
<1>3. AlwaysAnnotated(k) => saCache[k].entry.RoleARN # NoRole
  BY <1>1 DEF AlwaysAnnotated, HasRole
<1> QED
  BY <1>1, <1>2, <1>3, EntryOfSAType

LEMMA ConfigMapEntry ==
    ASSUME CMHalf, NEW p \in Pods
    PROVE  /\ cmCache[saOf[p]] \in Entry \cup {Nil}
           /\ cmCache[<<"*", saOf[p][2]>>] \in Entry \cup {Nil}
<1>1. saOf[p] \in CMKeys /\ <<"*", saOf[p][2]>> \in CMKeys
  BY SACacheAssumption, WebhookAssumption
<1> QED
  BY <1>1 DEF CMHalf, CMShape

LEMMA RespondOutcome ==
    ASSUME AnswersInv, NEW p \in Pods, NEW from \in {"sa", "cm"}, NEW e \in Entry,
           from = "sa" => e.TokenExpiration >= MinTokenExpiration, respond(p, from, e)
    PROVE  \E o \in Outcome : outcome' = [outcome EXCEPT ![p] = o] /\ LongEnough(o)
<1> DEFINE t == PodTokenExpiration(podExpiration[p], e.TokenExpiration)
           o == IF e.RoleARN = NoRole THEN NotMutated
                ELSE [method |-> "sts_web_identity", from |-> from, role |-> e.RoleARN,
                      sts |-> e.UseRegionalSTS, expiration |-> t]
<1>1. outcome' = [outcome EXCEPT ![p] = o]
  BY DEF respond
<1>2. /\ e.RoleARN \in Roles /\ e.UseRegionalSTS \in BOOLEAN /\ e.TokenExpiration \in Int
      /\ NoRole \in Roles
  BY SettingsAssumption DEF Entry, Roles
<1>3. t \in Int /\ (from = "sa" => t >= MinTokenExpiration)
  BY <1>2, PodExpirationType
<1> HIDE DEF t
<1>4. o \in Outcome
  BY <1>2, <1>3, SMT DEF Outcome, NotMutated
<1>5. LongEnough(o)
  BY <1>3 DEF LongEnough, NotMutated
<1> QED
  BY <1>1, <1>4, <1>5

LEMMA CommonOutcome ==
    ASSUME AnswersInv, NEW p \in Pods, NEW from \in {"sa", "cm", "none"}, NEW sts \in BOOLEAN,
           NEW e \in Int, from # "cm" => e >= MinTokenExpiration, common(p, from, sts, e)
    PROVE  \E o \in Outcome : outcome' = [outcome EXCEPT ![p] = o] /\ LongEnough(o)
<1> DEFINE t == PodTokenExpiration(podExpiration[p], e)
           o == [method |-> "container_credentials", from |-> from, role |-> NoRole,
                 sts |-> sts, expiration |-> t]
<1>1. outcome' = [outcome EXCEPT ![p] = o]
  BY DEF common
<1>2. t \in Int /\ (from # "cm" => t >= MinTokenExpiration) /\ NoRole \in Roles
  BY PodExpirationType, SettingsAssumption DEF Roles
<1> HIDE DEF t
<1>3. o \in Outcome /\ LongEnough(o)
  BY <1>2 DEF Outcome, LongEnough
<1> QED
  BY <1>1, <1>3

(* Whatever a request's step does to its answer, the answer is well-formed   *)
(* and its token long enough.                                                *)
LEMMA OutcomeStep ==
    ASSUME TypeInv, EntriesGenuine, CMHalf, AnswersInv, NEW p \in Pods, PodStep(p)
    PROVE  \/ UNCHANGED outcome
           \/ \E o \in Outcome : outcome' = [outcome EXCEPT ![p] = o] /\ LongEnough(o)
<1> DEFINE k == saOf[p]
           Good == \/ UNCHANGED outcome
                   \/ \E o \in Outcome : outcome' = [outcome EXCEPT ![p] = o] /\ LongEnough(o)
<1>0. k \in SAs
  BY SACacheAssumption
<1>1. CASE GetCommonConfigurationsSA(p)
  <2>1. CASE saCache[k] = Nil
    BY <1>1, <2>1 DEF GetCommonConfigurationsSA
  <2>2. CASE saCache[k] # Nil
    <3>1. /\ saCache[k].entry.TokenExpiration >= MinTokenExpiration
          /\ saCache[k].entry.TokenExpiration \in Int
          /\ saCache[k].entry.UseRegionalSTS \in BOOLEAN
      BY <1>0, <2>2, CachedEntry DEF Entry
    <3>2. common(p, "sa", saCache[k].entry.UseRegionalSTS, saCache[k].entry.TokenExpiration)
      BY <1>1, <2>2 DEF GetCommonConfigurationsSA
    <3> QED
      BY <3>1, <3>2, CommonOutcome
  <2> QED
    BY <2>1, <2>2
<1>2. CASE GetCommonConfigurationsCM(p)
  <2>1. CASE cmCache[k] = Nil
    <3>1. common(p, "none", FALSE, DefaultTokenExpiration)
      BY <1>2, <2>1 DEF GetCommonConfigurationsCM
    <3>2. DefaultTokenExpiration \in Int /\ DefaultTokenExpiration >= MinTokenExpiration
      BY SMT DEF DefaultTokenExpiration, MinTokenExpiration
    <3> QED
      BY <3>1, <3>2, CommonOutcome
  <2>2. CASE cmCache[k] # Nil
    <3>1. cmCache[k].TokenExpiration \in Int /\ cmCache[k].UseRegionalSTS \in BOOLEAN
      BY <2>2, ConfigMapEntry DEF Entry
    <3>2. common(p, "cm", cmCache[k].UseRegionalSTS, cmCache[k].TokenExpiration)
      BY <1>2, <2>2 DEF GetCommonConfigurationsCM
    <3> QED
      BY <3>1, <3>2, CommonOutcome
  <2> QED
    BY <2>1, <2>2
<1>3. CASE addJitterToDefaultToken(p)
  <2>1. PICK draw \in JitterDraws :
            outcome' = [outcome EXCEPT ![p].expiration = JitteredExpiration(@, draw)]
    BY <1>3 DEF addJitterToDefaultToken
  <2>2. draw \in Nat
    BY WebhookAssumption, SMT DEF Int63nRange
  <2>3. outcome[p] \in Outcome /\ LongEnough(outcome[p])
    BY DEF AnswersInv, LongEnough
  <2> DEFINE t == JitteredExpiration(outcome[p].expiration, draw)
             o == [outcome[p] EXCEPT !.expiration = t]
  <2>4. t \in Int /\ (t # outcome[p].expiration => t >= MinTokenExpiration)
    BY <2>2, <2>3, SMT DEF JitteredExpiration, DefaultMinTokenExpiration, MinTokenExpiration, Outcome
  <2> HIDE DEF t
  <2>5. o \in Outcome /\ LongEnough(o)
    BY <2>3, <2>4 DEF Outcome, LongEnough
  <2>6. outcome' = [outcome EXCEPT ![p] = o]
    BY <2>1 DEF t
  <2> QED
    BY <2>5, <2>6
<1>4. CASE jitterPanic(p)
  <2> DEFINE o == [NotMutated EXCEPT !.method = "panic"]
  <2>1. NotMutated \in Outcome
    BY SettingsAssumption, SMT DEF NotMutated, Outcome, Roles
  <2>2. o \in Outcome /\ LongEnough(o)
    BY <2>1 DEF Outcome, LongEnough
  <2> QED
    BY <1>4, <2>2 DEF jitterPanic
<1>5. CASE GetSA(p)
  <2>1. CASE saCache[k] # Nil /\ saCache[k].entry.RoleARN # NoRole
    BY <1>0, <1>5, <2>1, CachedEntry, RespondOutcome DEF GetSA
  <2>2. CASE ~(saCache[k] # Nil /\ saCache[k].entry.RoleARN # NoRole)
    BY <1>5, <2>2 DEF GetSA
  <2> QED
    BY <2>1, <2>2
<1>6. CASE GetCM(p)
  <2>1. CASE cmCache[k] # Nil
    BY <1>6, <2>1, ConfigMapEntry, RespondOutcome DEF GetCM
  <2>2. CASE cmCache[k] = Nil
    BY <1>6, <2>2 DEF GetCM
  <2> QED
    BY <2>1, <2>2
<1>7. CASE GetAnyCM(p)
  <2>1. CASE cmCache[<<"*", k[2]>>] # Nil
    BY <1>7, <2>1, ConfigMapEntry, RespondOutcome DEF GetAnyCM
  <2>2. CASE cmCache[<<"*", k[2]>>] = Nil
    BY <1>7, <2>2 DEF GetAnyCM
  <2> QED
    BY <2>1, <2>2
<1>8. CASE Admit(p) \/ SendUnblocked(p) \/ Notified(p) \/ GraceExpires(p)
  BY <1>8 DEF Admit, SendUnblocked, Notified, GraceExpires
<1> QED
  BY <1>1, <1>2, <1>3, <1>4, <1>5, <1>6, <1>7, <1>8 DEF PodStep

LEMMA AnswersInit == Init => AnswersInv
<1> SUFFICES ASSUME Init PROVE AnswersInv
  OBVIOUS
<1>1. NotMutated \in Outcome /\ LongEnough(NotMutated)
  BY SettingsAssumption, SMT DEF NotMutated, Outcome, Roles, LongEnough
<1>2. \A p \in Pods : outcome[p] = NotMutated
  BY DEF Init
<1>3. outcome \in [Pods -> Outcome]
  BY <1>1 DEF Init
<1>4. arrived \in [Pods -> [sa : Nat, cm : Nat]] /\ missingSA \in SUBSET Pods
      /\ identities \in Identities /\ loads \in Nat
  BY DEF Init
<1> QED
  BY <1>1, <1>2, <1>3, <1>4 DEF AnswersInv, LongEnough

(* How a request's step changes its arrival mark and missingSACounter. *)
LEMMA PodStepMarks ==
    ASSUME TypeInv, CMHalf, AnswersInv, NEW p \in Pods, PodStep(p)
    PROVE  /\ UNCHANGED <<identities, loads, clears>>
           /\ \/ UNCHANGED arrived
              \/ /\ Admit(p)
                 /\ arrived' \in [Pods -> [sa : Nat, cm : Nat]]
                 /\ arrived'[p].sa = seen[saOf[p]]
                 /\ arrived'[p].cm = IF Idle THEN cmSeen ELSE 0
                 /\ \A q \in Pods \ {p} : arrived'[q] = arrived[q]
           /\ missingSA' \in {missingSA, missingSA \cup {p}}
<1>1. UNCHANGED <<identities, loads, clears>>
  BY DEF PodStep, clearVars, credentialVars
<1>2. CASE Admit(p)
  <2>1. seen[saOf[p]] \in Nat /\ cmSeen \in Nat
    BY SACacheAssumption, SMT DEF TypeInv, SACacheTypeOK, CMHalf, CMShape
  <2> DEFINE c == IF Idle THEN cmSeen ELSE 0
             a == [sa |-> seen[saOf[p]], cm |-> c]
  <2>2. c \in Nat
    BY <2>1
  <2>3. arrived' = [arrived EXCEPT ![p] = a] /\ UNCHANGED missingSA
    BY <1>2 DEF Admit
  <2> HIDE DEF c
  <2>4. a \in [sa : Nat, cm : Nat]
    BY <2>1, <2>2
  <2>5. arrived \in [Pods -> [sa : Nat, cm : Nat]]
    BY DEF AnswersInv
  <2>6. /\ arrived' \in [Pods -> [sa : Nat, cm : Nat]]
        /\ arrived'[p].sa = seen[saOf[p]] /\ arrived'[p].cm = c
        /\ \A q \in Pods \ {p} : arrived'[q] = arrived[q]
    BY <2>3, <2>4, <2>5
  <2> QED
    BY <1>1, <1>2, <2>3, <2>6 DEF c
<1>3. CASE GetAnyCM(p) \/ GraceExpires(p)
  BY <1>1, <1>3 DEF GetAnyCM, GraceExpires
<1>4. CASE GetCommonConfigurationsSA(p) \/ GetCommonConfigurationsCM(p) \/ jitterPanic(p)
           \/ addJitterToDefaultToken(p) \/ GetSA(p) \/ SendUnblocked(p) \/ GetCM(p)
           \/ Notified(p)
  BY <1>1, <1>4 DEF GetCommonConfigurationsSA, GetCommonConfigurationsCM, jitterPanic,
                    addJitterToDefaultToken, GetSA, SendUnblocked, GetCM, Notified
<1> QED
  BY <1>2, <1>3, <1>4 DEF PodStep

LEMMA AnswersStep ==
    TypeInv /\ EntriesGenuine /\ CMHalf /\ AnswersInv /\ [Next]_vars => AnswersInv'
<1> SUFFICES ASSUME TypeInv, EntriesGenuine, CMHalf, AnswersInv, [Next]_vars
             PROVE  AnswersInv'
  OBVIOUS
<1>1. ASSUME NEW p \in Pods, PodStep(p) PROVE AnswersInv'
  <2>1. outcome' \in [Pods -> Outcome] /\ \A q \in Pods : LongEnough(outcome'[q])
    <3>1. outcome \in [Pods -> Outcome] /\ \A q \in Pods : LongEnough(outcome[q])
      BY DEF AnswersInv, LongEnough
    <3>2. CASE UNCHANGED outcome
      BY <3>1, <3>2
    <3>3. ASSUME NEW o \in Outcome, outcome' = [outcome EXCEPT ![p] = o], LongEnough(o)
          PROVE  outcome' \in [Pods -> Outcome] /\ \A q \in Pods : LongEnough(outcome'[q])
      BY <3>1, <3>3
    <3> QED
      BY <1>1, <3>2, <3>3, OutcomeStep
  <2>2. /\ arrived' \in [Pods -> [sa : Nat, cm : Nat]]
        /\ missingSA' \in SUBSET Pods
        /\ identities' \in Identities /\ loads' \in Nat
    BY <1>1, PodStepMarks DEF AnswersInv
  <2> QED
    BY <2>1, <2>2 DEF AnswersInv, LongEnough
<1>2. ASSUME NEW S \in Identities, Load(S) PROVE AnswersInv'
  BY <1>2, SMT DEF Load, AnswersInv, podVars
<1>3. CASE UNCHANGED <<podVars, credentialVars>>
  BY <1>3 DEF AnswersInv, podVars, credentialVars
<1> QED
  BY <1>1, <1>2, <1>3 DEF Next, CacheStep, ConfigMapStep, ClearFirst, ClearSecond, vars

LEMMA LookupTypes ==
    Spec => [](TypeInv /\ NotifyInv /\ EntriesGenuine /\ WaiterInv /\ CMHalf /\ AnswersInv)
BY ImplementsServiceAccountCache, GenuineInvariant, WaiterInvariant, CMHalfInit, CMHalfStep,
   AnswersInit, AnswersStep, PTL DEF Spec

(* Every variable of the composed webhook stays well-formed, in particular   *)
(* every answer is a podPatchConfig with a role, a flag and an expiration.   *)
THEOREM WebhookTypeCorrect == Spec => []WebhookTypeOK
<1>1. TypeInv /\ WaiterInv /\ CMHalf /\ AnswersInv => WebhookTypeOK
  <2>1. CMHalf => CMCacheTypeOK
    BY SMT DEF CMHalf, CMShape, CMCacheTypeOK
  <2> QED
    BY <2>1 DEF TypeInv, WaiterInv, CMHalf, AnswersInv, WebhookTypeOK
<1> QED
  BY <1>1, LookupTypes, PTL

(* No answer asks for a token that lives shorter than the API server allows, *)
(* unless the ConfigMap says so, for all annotations, flags and draws.       *)
THEOREM TokensLiveLongEnough == Spec => []ExpirationAtLeastMinOutsideCM
<1>1. AnswersInv => ExpirationAtLeastMinOutsideCM
  BY DEF AnswersInv, ExpirationAtLeastMinOutsideCM, Mutated
<1> QED
  BY <1>1, LookupTypes, PTL
=============================================================================
