------------------------ MODULE WebhookLookupProofs ------------------------
(***************************************************************************)
(* What the lookups of a request return while both halves of the cache     *)
(* change between them: a notified request finds its account, annotations  *)
(* take precedence, an account that keeps its key in the ConfigMap is      *)
(* found there, every answer is that of one entry of the request's own     *)
(* account, and every request comes to its end.                            *)
(***************************************************************************)
EXTENDS WebhookProofs

(* Most steps are first-order reasoning, for Zenon; those about numbers,     *)
(* records and sequences cite SMT.                                           *)
USE Zenon

-----------------------------------------------------------------------------
(* The invariants.                                                         *)

(* An account that was brought into the cache stays there. *)
Populated(k) ==
    \/ \E q \in closed : saOf[q] = k
    \/ seen[k] > 0 /\ Stored(k) # Nil

Stays == \A k \in SAs : NeverDeleted(k) /\ Populated(k) => saCache[k] # Nil

StaysInv == clears = 0 => Stays

(* Second lookups, which come after the notification. *)
RetryAt(p) ==
    /\ retried[p] => notifier[p] \in closed /\ pc[p] # "waiting"
    /\ p \in missingSA => pc[p] = "done"
    /\ clears = 0 /\ retried[p] /\ NeverDeleted(saOf[p]) =>
        /\ pc[p] \in {"sending", "getCM", "getAnyCM"} => found[p]
        /\ p \notin missingSA

RetryInv == \A p \in Pods : RetryAt(p)

(* Requests that came when the informer had delivered their account. *)
SyncedAt(p) ==
    /\ arrived[p].sa <= seen[saOf[p]]
    /\ pc[p] = "new" => /\ outcome[p].method = "nil"
                        /\ arrived[p].sa = 0 /\ arrived[p].cm = 0
    /\ clears = 0 /\ AlwaysAnnotated(saOf[p]) /\ arrived[p].sa > 0 =>
        /\ pc[p] \notin {"sending", "getCM", "getAnyCM", "waiting"}
        /\ outcome[p].method = "sts_web_identity" => outcome[p].from = "sa"

SyncedInv == \A p \in Pods : SyncedAt(p)

(* Requests whose account has had its own key in every version of the        *)
(* ConfigMap since they came, and came when populateCacheFromCM was idle.    *)
KeyKept(p) ==
    /\ CanonicalHistory
    /\ clears = 0
    /\ arrived[p].cm > 0
    /\ \A v \in Since(p) : Configures(cmHist[v], saOf[p])

OwnKeyAt(p) ==
    /\ arrived[p].cm <= cmSeen
    /\ task.sets # {} => Canonical(task.old) /\ Configures(task.old, saOf[p])
    /\ pc[p] \notin {"new", "getAnyCM", "waiting"}
    /\ pc[p] \in {"jitter", "done"} => outcome[p].method # "nil"

OwnKeyInv == \A p \in Pods : KeyKept(p) => OwnKeyAt(p)

-----------------------------------------------------------------------------
(* Accounts that stay in the cache, and lookups that find them.            *)

(* Versions are only added, the informer's store only moves forward, and     *)
(* closed channels stay closed.                                              *)
LEMMA HistoryGrows ==
    ASSUME TypeInv, [SACacheNext]_saCacheVars
    PROVE  /\ closed \subseteq closed'
           /\ \A k \in SAs : /\ NeverDeleted(k)' => NeverDeleted(k)
                             /\ AlwaysAnnotated(k)' => AlwaysAnnotated(k)
                             /\ seen[k] <= seen'[k]
<1>0. /\ hist \in [SAs -> Seq(Annotations \cup {Nil})]
      /\ seen \in [SAs -> Nat]
  BY DEF TypeInv, SACacheTypeOK
<1>1. ASSUME UNCHANGED <<hist, seen>>
      PROVE  \A k \in SAs : /\ NeverDeleted(k)' => NeverDeleted(k)
                            /\ AlwaysAnnotated(k)' => AlwaysAnnotated(k)
                            /\ seen[k] <= seen'[k]
  BY <1>0, <1>1, SMT DEF NeverDeleted, AlwaysAnnotated, HasRole
<1>2. CASE UNCHANGED <<hist, seen, saCache, closed>>
  BY <1>1, <1>2
<1>3. CASE ClearSA
  BY <1>1, <1>3 DEF ClearSA, notifyVars
<1>4. ASSUME NEW j \in SAs, NEW obj \in Annotations \cup {Nil}, ApiWrite(j, obj),
             UNCHANGED <<seen, saCache, closed>>, NEW k \in SAs
      PROVE  /\ NeverDeleted(k)' => NeverDeleted(k)
             /\ AlwaysAnnotated(k)' => AlwaysAnnotated(k)
             /\ seen[k] <= seen'[k]
  <2>1. hist' = [hist EXCEPT ![j] = Append(@, obj)]
    BY <1>4 DEF ApiWrite
  <2>2. /\ Len(hist[k]) \in Nat /\ Len(hist'[k]) \in Nat
        /\ Len(hist[k]) <= Len(hist'[k])
        /\ \A i \in 1 .. Len(hist[k]) : hist'[k][i] = hist[k][i]
    BY <1>0, <2>1, AppendKeeps, SMT
  <2>3. NeverDeleted(k)' => NeverDeleted(k)
    BY <2>2, SMT DEF NeverDeleted
  <2>4. AlwaysAnnotated(k)' => AlwaysAnnotated(k)
    BY <2>2, SMT DEF AlwaysAnnotated, HasRole
  <2> QED
    BY <1>0, <1>4, <2>3, <2>4, SMT
<1>5. ASSUME NEW j \in SAs, NEW v \in 1 .. Len(hist[j]), v >= seen[j],
             AddOrUpdateFunc(j, v) \/ DeleteFunc(j, v)
      PROVE  /\ closed \subseteq closed'
             /\ \A k \in SAs : /\ NeverDeleted(k)' => NeverDeleted(k)
                               /\ AlwaysAnnotated(k)' => AlwaysAnnotated(k)
                               /\ seen[k] <= seen'[k]
  <2>1. seen' = [seen EXCEPT ![j] = v] /\ UNCHANGED hist
    BY <1>5 DEF AddOrUpdateFunc, DeleteFunc
  <2>2. closed \subseteq closed'
    BY <1>5 DEF AddOrUpdateFunc, DeleteFunc, addSA, setSA, broadcast, popSA, notifyVars
  <2>3. \A k \in SAs : seen[k] <= seen'[k]
    BY <1>0, <1>5, <2>1, SMT
  <2> QED
    BY <2>1, <2>2, <2>3 DEF NeverDeleted, AlwaysAnnotated, HasRole
<1>6. ASSUME NEW p \in Pods, addFetched(p)
      PROVE  closed \subseteq closed' /\ UNCHANGED <<hist, seen>>
  BY <1>6 DEF addFetched, addSA, setSA, broadcast
<1>7. [WithoutClear]_saCacheVars \/ ClearSA
  BY DEF SACacheNext, WithoutClear
<1>8. CASE [WithoutClear]_saCacheVars
  BY <1>1, <1>2, <1>4, <1>5, <1>6, <1>8, CacheStepCases
<1> QED
  BY <1>3, <1>7, <1>8

(* setSA keeps the accounts that are there and adds the one it stores. *)
LEMMA AddSAStays ==
    ASSUME TypeInv, NotifyInv, Stays, NEW k \in SAs, NEW v \in 1 .. Len(hist[k]),
           hist[k][v] # Nil, addSA(k, v), UNCHANGED hist,
           \A j \in SAs \ {k} : seen'[j] = seen[j]
    PROVE  Stays'
<1> SUFFICES ASSUME NEW j \in SAs, NeverDeleted(j)', Populated(j)' PROVE saCache'[j] # Nil
  BY DEF Stays
<1>1. /\ saCache' = [saCache EXCEPT ![k] = [entry |-> EntryOfSA(hist[k][v]), rv |-> v]]
      /\ closed' = closed \cup ({handlers[k]} \ {Nil})
      /\ saCache \in [SAs -> Cached \cup {Nil}]
  BY DEF addSA, setSA, broadcast, TypeInv, SACacheTypeOK
<1>2. CASE j = k
  <2>1. [entry |-> EntryOfSA(hist[k][v]), rv |-> v] # Nil
    BY VersionType, SACacheAssumption
  <2> QED
    BY <1>1, <1>2, <2>1
<1>3. CASE j # k
  <2>1. handlers[k] # Nil => saOf[handlers[k]] = k
    BY DEF NotifyInv, ChannelsTracked
  <2>2. Populated(j)
    BY <1>1, <1>3, <2>1 DEF Populated, Stored
  <2>3. NeverDeleted(j)
    BY DEF NeverDeleted
  <2> QED
    BY <1>1, <1>3, <2>2, <2>3 DEF Stays
<1> QED
  BY <1>2, <1>3

LEMMA StaysStep ==
    ASSUME TypeInv, NotifyInv, Stays, [WithoutClear]_saCacheVars
    PROVE  Stays'
<1>0. /\ hist \in [SAs -> Seq(Annotations \cup {Nil})]
      /\ seen \in [SAs -> Nat]
      /\ saCache \in [SAs -> Cached \cup {Nil}]
  BY DEF TypeInv, SACacheTypeOK
<1>1. CASE UNCHANGED <<hist, seen, saCache, closed>>
  BY <1>1 DEF Stays, NeverDeleted, Populated, Stored
<1>2. ASSUME NEW k \in SAs, NEW obj \in Annotations \cup {Nil}, ApiWrite(k, obj),
             UNCHANGED <<seen, saCache, closed>>
      PROVE  Stays'
  <2> SUFFICES ASSUME NEW j \in SAs, NeverDeleted(j)', Populated(j)' PROVE saCache'[j] # Nil
    BY DEF Stays
  <2>1. hist' = [hist EXCEPT ![k] = Append(@, obj)]
    BY <1>2 DEF ApiWrite
  <2>2. \A i \in 1 .. Len(hist[j]) : hist'[j][i] = hist[j][i]
    BY <1>0, <2>1, AppendKeeps, SMT
  <2>3. Len(hist[j]) \in Nat /\ seen[j] \in Nat /\ seen[j] <= Len(hist[j])
    BY <1>0, SMT DEF TypeInv, VersionsExist
  <2>4. Stored(j)' = Stored(j)
    BY <1>2, <2>2, <2>3, SMT DEF Stored
  <2>5. Populated(j)
    BY <1>2, <2>4 DEF Populated
  <2>6. NeverDeleted(j)
    BY HistoryGrows DEF SACacheNext, WithoutClear
  <2> QED
    BY <1>2, <2>5, <2>6 DEF Stays
<1>3. ASSUME NEW k \in SAs, NEW v \in 1 .. Len(hist[k]), AddOrUpdateFunc(k, v)
      PROVE  Stays'
  BY <1>0, <1>3, AddSAStays DEF AddOrUpdateFunc
<1>4. ASSUME NEW k \in SAs, NEW v \in 1 .. Len(hist[k]), DeleteFunc(k, v), v > seen[k],
             seen[k] > 0
      PROVE  Stays'
  <2> SUFFICES ASSUME NEW j \in SAs, NeverDeleted(j)', Populated(j)' PROVE saCache'[j] # Nil
    BY DEF Stays
  <2>1. /\ saCache' = [saCache EXCEPT ![k] = Nil]
        /\ seen' = [seen EXCEPT ![k] = v]
        /\ hist[k][v] = Nil /\ UNCHANGED <<hist, closed>>
    BY <1>4 DEF DeleteFunc, popSA, notifyVars
  <2>2. NeverDeleted(j)
    BY <2>1 DEF NeverDeleted
  <2>3. j # k
    BY <1>0, <1>4, <2>1, <2>2, SMT DEF NeverDeleted
  <2>4. Populated(j)
    BY <1>0, <2>1, <2>3 DEF Populated, Stored
  <2> QED
    BY <1>0, <2>1, <2>2, <2>3, <2>4 DEF Stays
<1>5. ASSUME NEW p \in Pods, addFetched(p) PROVE Stays'
  <2>1. /\ saOf[p] \in SAs
        /\ fetched[p] \in 1 .. Len(hist[saOf[p]])
        /\ hist[saOf[p]][fetched[p]] # Nil
        /\ addSA(saOf[p], fetched[p]) /\ UNCHANGED <<hist, seen>>
    BY <1>5, SACacheAssumption DEF addFetched, TypeInv, VersionsExist
  <2> QED
    BY <2>1, AddSAStays
<1> QED
  BY <1>1, <1>2, <1>3, <1>4, <1>5, CacheStepCases

(* A step of one request leaves the others where they are. *)
LEMMA OthersUnchanged ==
    ASSUME WaiterInv, AnswersInv, NEW p \in Pods, PodStep(p), NEW q \in Pods \ {p}
    PROVE  /\ pc'[q] = pc[q] /\ retried'[q] = retried[q] /\ found'[q] = found[q]
           /\ notifier'[q] = notifier[q] /\ outcome'[q] = outcome[q]
           /\ arrived'[q] = arrived[q] /\ (q \in missingSA' <=> q \in missingSA)
<1> USE DEF Goto
<1>0. /\ pc \in [Pods -> PcStates] /\ retried \in [Pods -> BOOLEAN]
      /\ found \in [Pods -> BOOLEAN] /\ notifier \in [Pods -> Pods \cup {Nil}]
      /\ outcome \in [Pods -> Outcome] /\ arrived \in [Pods -> [sa : Nat, cm : Nat]]
  BY DEF WaiterInv, AnswersInv
<1>1. CASE Admit(p)
  BY <1>0, <1>1 DEF Admit
<1>2. CASE GetCommonConfigurationsSA(p)
  BY <1>0, <1>2 DEF GetCommonConfigurationsSA, common
<1>3. CASE GetCommonConfigurationsCM(p)
  BY <1>0, <1>3 DEF GetCommonConfigurationsCM, common
<1>4. CASE addJitterToDefaultToken(p) \/ jitterPanic(p)
  BY <1>0, <1>4 DEF addJitterToDefaultToken, jitterPanic
<1>5. CASE GetSA(p)
  BY <1>0, <1>5 DEF GetSA, respond
<1>6. CASE SendUnblocked(p) \/ Notified(p) \/ GraceExpires(p)
  BY <1>0, <1>6 DEF SendUnblocked, Notified, GraceExpires
<1>7. CASE GetCM(p)
  BY <1>0, <1>7 DEF GetCM, respond
<1>8. CASE GetAnyCM(p)
  BY <1>0, <1>8 DEF GetAnyCM, respond
<1> QED
  BY <1>1, <1>2, <1>3, <1>4, <1>5, <1>6, <1>7, <1>8 DEF PodStep

LEMMA RetryStep ==
    ASSUME TypeInv, NotifyInv, WaiterInv, CMHalf, AnswersInv, StaysInv, RetryInv, [Next]_vars
    PROVE  RetryInv'
<1> SUFFICES ASSUME NEW p \in Pods PROVE RetryAt(p)'
  BY DEF RetryInv
<1> USE DEF Goto
<1>0. /\ pc \in [Pods -> PcStates] /\ retried \in [Pods -> BOOLEAN]
      /\ found \in [Pods -> BOOLEAN] /\ notifier \in [Pods -> Pods \cup {Nil}]
      /\ saOf[p] \in SAs /\ RetryAt(p)
  BY SACacheAssumption DEF WaiterInv, RetryInv
<1>1. /\ closed \subseteq closed'
      /\ NeverDeleted(saOf[p])' => NeverDeleted(saOf[p])
      /\ clears' = 0 => clears = 0
  BY <1>0, HistoryGrows, StepImplementsCache, ClearsStep
<1>2. ASSUME pc'[p] = pc[p], retried'[p] = retried[p], found'[p] = found[p],
             notifier'[p] = notifier[p], p \in missingSA' <=> p \in missingSA
      PROVE  RetryAt(p)'
  BY <1>0, <1>1, <1>2 DEF RetryAt
<1>3. ASSUME NEW q \in Pods, PodStep(q), q # p PROVE RetryAt(p)'
  BY <1>2, <1>3, OthersUnchanged
<1>4. CASE PodStep(p)
  <2>1. CASE Admit(p)
    BY <1>0, <1>1, <2>1 DEF Admit, RetryAt
  <2>2. CASE GetCommonConfigurationsSA(p) \/ GetCommonConfigurationsCM(p)
             \/ addJitterToDefaultToken(p) \/ jitterPanic(p)
    <3>1. pc[p] # "done" /\ pc'[p] \in {"commonCM", "jitter", "done"}
      BY <1>0, <2>2 DEF GetCommonConfigurationsSA, GetCommonConfigurationsCM, common,
                        addJitterToDefaultToken, jitterPanic
    <3>2. UNCHANGED <<retried, found, notifier, missingSA>>
      BY <2>2 DEF GetCommonConfigurationsSA, GetCommonConfigurationsCM,
                  addJitterToDefaultToken, jitterPanic
    <3> QED
      BY <1>0, <1>1, <3>1, <3>2 DEF RetryAt
  <2>3. CASE GetSA(p)
    <3>1. /\ pc[p] = "getSA" /\ pc'[p] \in {"done", "sending", "getCM"}
          /\ UNCHANGED <<retried, missingSA>>
          /\ found'[p] = (saCache[saOf[p]] # Nil)
      BY <1>0, <2>3 DEF GetSA, respond
    <3>2. retried[p] => notifier'[p] = notifier[p]
      BY <2>3 DEF GetSA
    <3>3. ASSUME clears = 0, retried[p], NeverDeleted(saOf[p])
          PROVE  saCache[saOf[p]] # Nil
      <4>1. notifier[p] \in closed /\ notifier[p] # Nil
        BY <1>0, <3>3, SACacheAssumption DEF RetryAt, TypeInv, SACacheTypeOK
      <4>2. Populated(saOf[p])
        BY <4>1 DEF WaiterInv, Populated
      <4> QED
        BY <1>0, <3>3, <4>2 DEF StaysInv, Stays
    <3> QED
      BY <1>0, <1>1, <3>1, <3>2, <3>3 DEF RetryAt
  <2>4. CASE SendUnblocked(p)
    BY <1>0, <1>1, <2>4 DEF SendUnblocked, RetryAt
  <2>5. CASE GetCM(p)
    <3>1. /\ pc[p] = "getCM" /\ pc'[p] \in {"getAnyCM", "done"}
          /\ UNCHANGED <<retried, found, notifier, missingSA>>
      BY <1>0, <2>5 DEF GetCM, respond
    <3> QED
      BY <1>0, <1>1, <3>1 DEF RetryAt
  <2>6. CASE GetAnyCM(p)
    <3>1. /\ pc[p] = "getAnyCM" /\ pc'[p] \in {"waiting", "done"}
          /\ UNCHANGED <<retried, found, notifier>>
          /\ retried[p] => pc'[p] = "done"
          /\ missingSA' # missingSA => missingSA' = missingSA \cup {p} /\ pc'[p] = "done" /\ ~found[p]
      BY <1>0, <2>6 DEF GetAnyCM, respond
    <3> QED
      BY <1>0, <1>1, <3>1 DEF RetryAt
  <2>7. CASE Notified(p)
    <3>1. /\ pc[p] = "waiting" /\ pc'[p] = "getSA"
          /\ notifier[p] \in closed
          /\ UNCHANGED <<notifier, missingSA>>
      BY <1>0, <2>7 DEF Notified
    <3> QED
      BY <1>0, <1>1, <3>1 DEF RetryAt
  <2>8. CASE GraceExpires(p)
    <3>1. /\ pc[p] = "waiting" /\ pc'[p] = "done"
          /\ UNCHANGED <<retried, notifier>>
      BY <1>0, <2>8 DEF GraceExpires
    <3> QED
      BY <1>0, <1>1, <3>1 DEF RetryAt
  <2> QED
    BY <1>4, <2>1, <2>2, <2>3, <2>4, <2>5, <2>6, <2>7, <2>8 DEF PodStep
<1>5. CASE UNCHANGED podVars
  BY <1>2, <1>5 DEF podVars
<1> QED
  BY <1>3, <1>4, <1>5
     DEF Next, CacheStep, ConfigMapStep, ClearFirst, ClearSecond, Load, vars

LEMMA SyncedStep ==
    ASSUME TypeInv, NotifyInv, EntriesGenuine, WaiterInv, CMHalf, AnswersInv, StaysInv,
           SyncedInv, [Next]_vars
    PROVE  SyncedInv'
<1> SUFFICES ASSUME NEW p \in Pods PROVE SyncedAt(p)'
  BY DEF SyncedInv
<1> USE DEF Goto
<1>0. /\ pc \in [Pods -> PcStates] /\ outcome \in [Pods -> Outcome]
      /\ arrived \in [Pods -> [sa : Nat, cm : Nat]]
      /\ saOf[p] \in SAs /\ SyncedAt(p)
      /\ seen[saOf[p]] \in Nat /\ seen'[saOf[p]] \in Nat
  BY SACacheAssumption, StepImplementsCache, TypeStep
     DEF WaiterInv, AnswersInv, SyncedInv, TypeInv, SACacheTypeOK
<1>1. /\ AlwaysAnnotated(saOf[p])' => AlwaysAnnotated(saOf[p])
      /\ seen[saOf[p]] <= seen'[saOf[p]]
      /\ clears' = 0 => clears = 0
  BY <1>0, HistoryGrows, StepImplementsCache, ClearsStep
<1>2. ASSUME pc'[p] = pc[p], outcome'[p] = outcome[p], arrived'[p] = arrived[p]
      PROVE  SyncedAt(p)'
  BY <1>0, <1>1, <1>2, SMT DEF SyncedAt
<1>3. ASSUME NEW q \in Pods, PodStep(q), q # p PROVE SyncedAt(p)'
  BY <1>2, <1>3, OthersUnchanged
<1>4. CASE PodStep(p)
  <2>1. CASE Admit(p)
    <3>1. /\ pc[p] = "new" /\ pc'[p] \in {"commonSA", "getSA"}
          /\ UNCHANGED <<outcome, seen>>
      BY <1>0, <2>1 DEF Admit, saCacheVars
    <3>2. arrived'[p].sa = seen[saOf[p]]
      BY <1>0, <2>1 DEF Admit
    <3> QED
      BY <1>0, <1>1, <3>1, <3>2 DEF SyncedAt
  <2>2. CASE ~Admit(p)
    <3>1. UNCHANGED arrived
      BY <1>4, <2>2, PodStepMarks
    <3>2. CASE GetCommonConfigurationsSA(p) \/ GetCommonConfigurationsCM(p)
               \/ addJitterToDefaultToken(p) \/ jitterPanic(p)
      <4>1. pc'[p] \in {"commonCM", "jitter", "done"}
        BY <1>0, <3>2 DEF GetCommonConfigurationsSA, GetCommonConfigurationsCM, common,
                          addJitterToDefaultToken, jitterPanic
      <4>2. \/ outcome'[p].method # "sts_web_identity"
            \/ outcome'[p].method = outcome[p].method /\ outcome'[p].from = outcome[p].from
        <5>1. CASE GetCommonConfigurationsSA(p)
          BY <1>0, <5>1, SMTT(30) DEF GetCommonConfigurationsSA, common
        <5>2. CASE GetCommonConfigurationsCM(p)
          BY <1>0, <5>2, SMT DEF GetCommonConfigurationsCM, common
        <5>3. CASE addJitterToDefaultToken(p)
          BY <1>0, <5>3 DEF addJitterToDefaultToken, Outcome
        <5>4. CASE jitterPanic(p)
          <6>1. [NotMutated EXCEPT !.method = "panic"].method = "panic"
            BY DEF NotMutated
          <6> QED
            BY <1>0, <5>4, <6>1 DEF jitterPanic
        <5> QED
          BY <3>2, <5>1, <5>2, <5>3, <5>4
      <4> QED
        BY <1>0, <1>1, <3>1, <4>1, <4>2, SMT DEF SyncedAt
    <3>3. CASE GetSA(p)
      <4>1. pc[p] = "getSA" /\ pc'[p] \in {"done", "sending", "getCM"}
        BY <1>0, <3>3 DEF GetSA, respond
      <4>2. ASSUME clears = 0, AlwaysAnnotated(saOf[p]), arrived[p].sa > 0
            PROVE  saCache[saOf[p]] # Nil /\ saCache[saOf[p]].entry.RoleARN # NoRole
        <5>1. arrived[p].sa \in Nat /\ seen[saOf[p]] > 0 /\ seen[saOf[p]] <= Len(hist[saOf[p]])
          BY <1>0, <4>2, SMT DEF SyncedAt, TypeInv, VersionsExist
        <5>2. Len(hist[saOf[p]]) \in Nat
          BY <1>0, SMT DEF TypeInv, SACacheTypeOK
        <5>3. Stored(saOf[p]) # Nil /\ NeverDeleted(saOf[p])
          <6>1. seen[saOf[p]] \in 1 .. Len(hist[saOf[p]]) /\ seen[saOf[p]] # 0
            BY <1>0, <5>1, <5>2, SMT
          <6>2. \A v \in 1 .. Len(hist[saOf[p]]) : hist[saOf[p]][v] # Nil
            BY <4>2 DEF AlwaysAnnotated, HasRole
          <6> QED
            BY <6>1, <6>2 DEF NeverDeleted, Stored
        <5>4. saCache[saOf[p]] # Nil
          BY <1>0, <4>2, <5>1, <5>3 DEF StaysInv, Stays, Populated
        <5> QED
          BY <1>0, <4>2, <5>4, CachedEntry
      <4>3. ASSUME saCache[saOf[p]] # Nil, saCache[saOf[p]].entry.RoleARN # NoRole
            PROVE  pc'[p] = "done" /\ outcome'[p].from = "sa"
        BY <1>0, <3>3, <4>3, SMTT(30) DEF GetSA, respond
      <4> QED
        BY <1>0, <1>1, <3>1, <4>1, <4>2, <4>3, SMT DEF SyncedAt
    <3>4. CASE SendUnblocked(p) \/ GetCM(p) \/ GetAnyCM(p) \/ Notified(p) \/ GraceExpires(p)
      <4>1. pc[p] \in {"sending", "getCM", "getAnyCM", "waiting"} /\ pc'[p] # "new"
        BY <1>0, <3>4 DEF SendUnblocked, GetCM, GetAnyCM, Notified, GraceExpires, respond
      <4> QED
        BY <1>0, <1>1, <3>1, <4>1, SMT DEF SyncedAt
    <3> QED
      BY <1>4, <2>2, <3>2, <3>3, <3>4 DEF PodStep
  <2> QED
    BY <2>1, <2>2
<1>5. CASE UNCHANGED podVars
  BY <1>2, <1>5 DEF podVars
<1> QED
  BY <1>3, <1>4, <1>5
     DEF Next, CacheStep, ConfigMapStep, ClearFirst, ClearSecond, Load, vars

LEMMA LookupInvariant ==
    Spec => [](TypeInv /\ NotifyInv /\ EntriesGenuine /\ WaiterInv /\ CMHalf /\ AnswersInv
               /\ StaysInv /\ RetryInv /\ SyncedInv)
<1>1. Init => StaysInv /\ RetryInv /\ SyncedInv
  <2> SUFFICES ASSUME Init PROVE StaysInv /\ RetryInv /\ SyncedInv
    OBVIOUS
  <2>1. \A k \in SAs : ~Populated(k) /\ seen[k] = 0
    BY SMT DEF Init, SACacheInit, Populated
  <2>2. \A p \in Pods : /\ pc[p] = "new" /\ ~retried[p] /\ outcome[p].method = "nil"
                        /\ arrived[p].sa = 0 /\ arrived[p].cm = 0
    BY DEF Init, NotMutated
  <2>3. missingSA = {}
    BY DEF Init
  <2> QED
    BY <2>1, <2>2, <2>3, SACacheAssumption, SMT
       DEF StaysInv, Stays, RetryInv, RetryAt, SyncedInv, SyncedAt
<1>2. ASSUME TypeInv, NotifyInv, CMHalf, StaysInv, [Next]_vars PROVE StaysInv'
  <2> SUFFICES ASSUME clears' = 0 PROVE Stays'
    BY DEF StaysInv
  <2> QED
    BY <1>2, ClearsStep, StepUsesCache, StaysStep DEF StaysInv
<1>3. TypeInv /\ NotifyInv /\ EntriesGenuine /\ WaiterInv /\ CMHalf /\ AnswersInv
        /\ StaysInv /\ RetryInv /\ SyncedInv /\ [Next]_vars
        => StaysInv' /\ RetryInv' /\ SyncedInv'
  BY <1>2, RetryStep, SyncedStep
<1> QED
  BY <1>1, <1>3, LookupTypes, PTL DEF Spec

(* A notified request finds its account and is not counted as missing, for   *)
(* any number of requests and versions, unless the account is deleted or     *)
(* the cache cleared.                                                        *)
THEOREM NotifiedRequestsFind == Spec => []NotifiedRequestsFindAccount
<1>1. TypeInv /\ WaiterInv /\ StaysInv /\ RetryInv => NotifiedRequestsFindAccount
  <2> SUFFICES ASSUME TypeInv, WaiterInv, StaysInv, RetryInv, clears = 0, NEW p \in Pods,
                      retried[p], NeverDeleted(saOf[p])
               PROVE  saCache[saOf[p]] # Nil /\ p \notin missingSA
    BY DEF NotifiedRequestsFindAccount
  <2>1. RetryAt(p) /\ saOf[p] \in SAs
    BY SACacheAssumption DEF RetryInv
  <2>2. notifier[p] \in closed /\ notifier[p] # Nil
    BY <2>1, SACacheAssumption DEF RetryAt, TypeInv, SACacheTypeOK
  <2>3. Populated(saOf[p])
    BY <2>2 DEF WaiterInv, Populated
  <2> QED
    BY <2>1, <2>3 DEF StaysInv, Stays, RetryAt
<1> QED
  BY <1>1, LookupInvariant, PTL

(* Annotations take precedence for requests that come after the informer     *)
(* delivered the account, however the ConfigMap, late fetches and updates    *)
(* interleave with the lookup.                                               *)
THEOREM AnnotationsTakePrecedence == Spec => []AnnotationsTakePrecedenceOnceSynced
<1>1. SyncedInv => AnnotationsTakePrecedenceOnceSynced
  BY DEF SyncedInv, SyncedAt, AnnotationsTakePrecedenceOnceSynced
<1> QED
  BY <1>1, LookupInvariant, PTL

-----------------------------------------------------------------------------
(* Requests come to an end.                                                *)

(* Its own step brings a request closer to its end. *)
LEMMA PodStepAdvances ==
    ASSUME WaiterInv, SendInv, NEW p \in Pods, PodStep(p)
    PROVE  StepsLeft(p)' < StepsLeft(p)
<1> USE DEF Goto
<1>0. pc \in [Pods -> PcStates] /\ retried \in [Pods -> BOOLEAN]
  BY DEF WaiterInv
<1>1. CASE Admit(p)
  <2>1. /\ pc[p] = "new" /\ pc'[p] \in {"commonSA", "getSA"}
    BY <1>0, <1>1 DEF Admit
  <2> QED
    BY <2>1, SMT DEF StepsLeft
<1>2. CASE GetCommonConfigurationsSA(p)
  <2>1. pc[p] = "commonSA" /\ pc'[p] \in {"commonCM", "jitter", "done"}
    BY <1>0, <1>2 DEF GetCommonConfigurationsSA, common
  <2> QED
    BY <2>1, SMT DEF StepsLeft
<1>3. CASE GetCommonConfigurationsCM(p)
  <2>1. pc[p] = "commonCM" /\ pc'[p] \in {"jitter", "done"}
    BY <1>0, <1>3 DEF GetCommonConfigurationsCM, common
  <2> QED
    BY <2>1, SMT DEF StepsLeft
<1>4. CASE addJitterToDefaultToken(p) \/ jitterPanic(p)
  <2>1. pc[p] = "jitter" /\ pc'[p] = "done"
    BY <1>0, <1>4 DEF addJitterToDefaultToken, jitterPanic
  <2> QED
    BY <2>1, SMT DEF StepsLeft
<1>5. CASE GetSA(p)
  <2>1. /\ pc[p] = "getSA" /\ pc'[p] \in {"done", "sending", "getCM"}
        /\ retried'[p] = retried[p]
    BY <1>0, <1>5 DEF GetSA, respond
  <2>2. retried[p] => sending' = sending
    BY <1>5 DEF GetSA, getSA, fetchVars
  <2>3. pc'[p] = "sending" => sending' = p
    BY <1>0, <1>5 DEF GetSA, respond
  <2>4. sending # p
    BY <2>1 DEF SendInv
  <2>5. retried[p] => pc'[p] # "sending"
    BY <2>2, <2>3, <2>4
  <2> QED
    BY <2>1, <2>5, SMT DEF StepsLeft
<1>6. CASE SendUnblocked(p)
  <2>1. pc[p] = "sending" /\ pc'[p] = "getCM"
    BY <1>0, <1>6 DEF SendUnblocked
  <2> QED
    BY <2>1, SMT DEF StepsLeft
<1>7. CASE GetCM(p)
  <2>1. /\ pc[p] = "getCM" /\ pc'[p] \in {"getAnyCM", "done"} /\ retried'[p] = retried[p]
    BY <1>0, <1>7 DEF GetCM, respond
  <2> QED
    BY <2>1, SMT DEF StepsLeft
<1>8. CASE GetAnyCM(p)
  <2>1. /\ pc[p] = "getAnyCM" /\ pc'[p] \in {"waiting", "done"}
        /\ retried[p] => pc'[p] = "done"
    BY <1>0, <1>8 DEF GetAnyCM, respond
  <2> QED
    BY <2>1, SMT DEF StepsLeft
<1>9. CASE Notified(p) \/ GraceExpires(p)
  <2>1. /\ pc[p] = "waiting" /\ pc'[p] \in {"getSA", "done"}
        /\ pc'[p] = "getSA" => retried'[p]
    BY <1>0, <1>9 DEF Notified, GraceExpires
  <2> QED
    BY <2>1, SMT DEF StepsLeft
<1> QED
  BY <1>1, <1>2, <1>3, <1>4, <1>5, <1>6, <1>7, <1>8, <1>9 DEF PodStep

(* A request ends after a bounded number of its own steps, with one answer,  *)
(* whatever the caches, the fetches and the other requests do meanwhile.     *)
THEOREM RequestsAdvance == Spec => RequestsOnlyAdvance
<1>1. ASSUME WaiterInv, SendInv, AnswersInv, [Next]_vars, NEW p \in Pods
      PROVE  \/ StepsLeft(p)' < StepsLeft(p)
             \/ UNCHANGED <<pc[p], retried[p], notifier[p], outcome[p]>>
  <2>1. ASSUME NEW q \in Pods, PodStep(q), q # p
        PROVE  UNCHANGED <<pc[p], retried[p], notifier[p], outcome[p]>>
    BY <1>1, <2>1, OthersUnchanged
  <2>2. CASE PodStep(p)
    BY <1>1, <2>2, PodStepAdvances
  <2>3. CASE UNCHANGED podVars
    BY <2>3 DEF podVars
  <2> QED
    BY <1>1, <2>1, <2>2, <2>3
       DEF Next, CacheStep, ConfigMapStep, ClearFirst, ClearSecond, Load, vars
<1>2. WaiterInv /\ SendInv /\ AnswersInv /\ [Next]_vars
        => [\A p \in Pods : \/ StepsLeft(p)' < StepsLeft(p)
                            \/ UNCHANGED <<pc[p], retried[p], notifier[p], outcome[p]>>]_vars
  BY <1>1
<1> QED
  BY <1>2, SendInvariant, LookupTypes, PTL DEF Spec, RequestsOnlyAdvance

-----------------------------------------------------------------------------
(* Accounts that keep their own key in the ConfigMap.                      *)

LEMMA ConfiguredValue ==
    ASSUME NEW c \in Configs, Canonical(c), NEW key \in CMKeys, Configures(c, key)
    PROVE  ValueIn(c, key) \in Entry /\ ValueIn(c, key).RoleARN # NoRole
<1>1. key \in DOMAIN c /\ c[key] \in Entry /\ c[key].RoleARN # NoRole
  BY CanonicalType DEF Configures
<1>2. ValueIn(c, key) = EntryOfCM(c[key])
  BY <1>1, ValueOf
<1>3. EntryOfCM(c[key]).RoleARN = c[key].RoleARN
  BY <1>1 DEF EntryOfCM, Entry
<1> QED
  BY <1>1, <1>2, <1>3, EntryOfCMType

(* The version the informer's store holds configures the account. *)
LEMMA StoredConfigures ==
    ASSUME CMHalf, AnswersInv, NEW p \in Pods, KeyKept(p), arrived[p].cm <= cmSeen
    PROVE  CMStored \in Configs /\ Canonical(CMStored) /\ Configures(CMStored, saOf[p])
<1>1. arrived[p].cm \in Nat /\ arrived[p].cm > 0 /\ cmSeen \in 0 .. Len(cmHist)
      /\ Len(cmHist) \in Nat
  BY SMT DEF AnswersInv, KeyKept, CMHalf, CMShape
<1>2. cmSeen \in Since(p) /\ cmSeen # 0
  BY <1>1, SMT DEF Since
<1>3. Configures(CMStored, saOf[p])
  BY <1>2 DEF KeyKept, CMStored
<1>4. CMStored # Nil
  BY <1>3 DEF Configures
<1> QED
  BY <1>3, <1>4, StoredType DEF KeyKept, CMHalf

(* So its entry is in cmCache, whatever populateCacheFromCM is doing. *)
LEMMA KeptKeyFound ==
    ASSUME CMHalf, AnswersInv, NEW p \in Pods, KeyKept(p), OwnKeyAt(p)
    PROVE  cmCache[saOf[p]] # Nil /\ cmCache[saOf[p]].RoleARN # NoRole
<1> DEFINE k == saOf[p]
<1>1. k \in CMKeys
  BY SACacheAssumption, WebhookAssumption
<1>2. Progress /\ task \in Tasks
  BY DEF KeyKept, CMHalf, CMInv, CMShape
<1>3. CMStored \in Configs /\ Canonical(CMStored) /\ Configures(CMStored, k)
  BY StoredConfigures DEF OwnKeyAt
<1>4. task.new = CMStored /\ k \in DOMAIN task.new
  BY <1>2, <1>3 DEF Progress, Configures
<1>5. ValueIn(task.new, k) \in Entry /\ ValueIn(task.new, k).RoleARN # NoRole
  BY <1>1, <1>3, <1>4, ConfiguredValue
<1>6. k \notin task.pops
  BY <1>2, <1>4 DEF Progress
<1>7. CASE k \in task.sets
  <2>1. Canonical(task.old) /\ Configures(task.old, k)
    BY <1>7 DEF OwnKeyAt
  <2>2. task.old \in Configs
    BY <1>2, <2>1, SMT DEF Tasks, Configures, Empty
  <2>3. ValueIn(task.old, k) \in Entry /\ ValueIn(task.old, k).RoleARN # NoRole
    BY <1>1, <2>1, <2>2, ConfiguredValue
  <2>4. cmCache[k] = ValueIn(task.old, k)
    BY <1>1, <1>2, <1>7 DEF Progress
  <2> QED
    BY <2>3, <2>4, NilAssumption
<1>8. CASE k \notin task.sets
  <2>1. cmCache[k] = ValueIn(task.new, k)
    BY <1>1, <1>2, <1>6, <1>8 DEF Progress
  <2> QED
    BY <1>5, <2>1, NilAssumption
<1> QED
  BY <1>7, <1>8

(* The premise only gets harder to meet. *)
LEMMA KeyKeptBefore ==
    ASSUME CMHalf, AnswersInv, [Next]_vars, NEW p \in Pods, arrived'[p] = arrived[p],
           KeyKept(p)'
    PROVE  KeyKept(p)
<1>0. clears' = 0 /\ clears = 0 /\ ~ClearSecond
  BY ClearsStep DEF KeyKept
<1>1. CASE UNCHANGED cmHist
  BY <1>0, <1>1 DEF KeyKept, CanonicalHistory, CanonicalUpTo, Canonical, Since, Configures
<1>2. ASSUME NEW c \in Configs \cup {Nil}, CMWrite(c) PROVE KeyKept(p)
  <2>1. cmHist' = Append(cmHist, c) /\ cmHist \in Seq(Configs \cup {Nil})
    BY <1>2 DEF CMWrite, CMHalf, CMShape
  <2>2. /\ Len(cmHist') = Len(cmHist) + 1 /\ Len(cmHist) \in Nat
        /\ \A i \in 1 .. Len(cmHist) : cmHist'[i] = cmHist[i]
    BY <2>1, SMT
  <2>3. CanonicalHistory
    BY <2>2, SMT DEF KeyKept, CanonicalHistory, CanonicalUpTo, Canonical
  <2>4. arrived[p].cm \in Nat /\ arrived[p].cm > 0
    BY DEF KeyKept, AnswersInv
  <2>5. ASSUME NEW v \in Since(p) PROVE Configures(cmHist[v], saOf[p])
    <3>1. v \in 1 .. Len(cmHist) /\ v \in arrived'[p].cm .. Len(cmHist')
      BY <2>2, <2>4, SMT DEF Since
    <3>2. Configures(cmHist'[v], saOf[p])
      BY <3>1 DEF KeyKept, Since, Configures
    <3> QED
      BY <2>2, <3>1, <3>2
  <2> QED
    BY <1>0, <2>3, <2>4, <2>5 DEF KeyKept
<1>3. [CMRun]_cmCacheVars
  BY <1>0, StepUsesConfigMap
<1> QED
  BY <1>1, <1>2, <1>3
     DEF CMRun, CMWriter, cmInformerEvent, cmResync, CMLoops, setCM, popCM, panicCM, cmCacheVars

(* populateCacheFromCM starts from the stored version, which configures the  *)
(* account.                                                                  *)
LEMMA TaskConfigures ==
    ASSUME CMHalf, AnswersInv, NEW p \in Pods, KeyKept(p), OwnKeyAt(p), [CMRun]_cmCacheVars
    PROVE  /\ arrived[p].cm <= cmSeen'
           /\ task'.sets # {} => Canonical(task'.old) /\ Configures(task'.old, saOf[p])
<1>0. /\ arrived[p].cm \in Nat /\ cmSeen \in Nat /\ Len(cmHist) \in Nat /\ task \in Tasks
      /\ arrived[p].cm <= cmSeen
  BY SMT DEF AnswersInv, CMHalf, CMShape, OwnKeyAt
<1>1. Canonical(CMStored) /\ Configures(CMStored, saOf[p])
  BY <1>0, StoredConfigures
<1>2. CASE UNCHANGED <<cmSeen, task>>
  BY <1>0, <1>2 DEF OwnKeyAt
<1>3. ASSUME NEW new, populateCacheFromCM(CMStored, new), task' # task
      PROVE  task'.old = CMStored
  BY <1>3, SMT DEF populateCacheFromCM
<1>4. CASE cmInformerEvent
  <2>1. PICK v \in cmSeen + 1 .. Len(cmHist) :
            /\ cmSeen' = v
            /\ IF cmHist[v] = Nil THEN UNCHANGED task
               ELSE populateCacheFromCM(CMStored, cmHist[v])
    BY <1>4 DEF cmInformerEvent
  <2>2. arrived[p].cm <= cmSeen'
    BY <1>0, <2>1, SMT
  <2>3. task' = task \/ task'.old = CMStored
    BY <1>3, <2>1
  <2> QED
    BY <1>1, <2>2, <2>3 DEF OwnKeyAt
<1>5. CASE cmResync
  <2>1. cmSeen' = cmSeen /\ (task' = task \/ task'.old = CMStored)
    BY <1>3, <1>5 DEF cmResync
  <2> QED
    BY <1>0, <1>1, <2>1 DEF OwnKeyAt
<1>6. ASSUME NEW raw, setCM(raw) \/ popCM(raw) \/ panicCM(raw)
      PROVE  /\ arrived[p].cm <= cmSeen'
             /\ task'.sets # {} => Canonical(task'.old) /\ Configures(task'.old, saOf[p])
  <2>1. /\ cmSeen' = cmSeen /\ task'.old = task.old
        /\ task'.sets # {} => task.sets # {}
    BY <1>0, <1>6 DEF setCM, popCM, panicCM, Tasks
  <2> QED
    BY <1>0, <2>1 DEF OwnKeyAt
<1> QED
  BY <1>2, <1>4, <1>5, <1>6 DEF CMRun, CMWrite, CMWriter, CMLoops, cmCacheVars

(* A request whose key is kept goes no further than cmCache's own entry, and *)
(* is not answered without a mutation.                                       *)
LEMMA OwnKeyLookup ==
    ASSUME TypeInv, WaiterInv, CMHalf, AnswersInv, NEW p \in Pods, KeyKept(p), OwnKeyAt(p),
           PodStep(p)
    PROVE  /\ pc'[p] \notin {"new", "getAnyCM", "waiting"}
           /\ pc'[p] \in {"jitter", "done"} => outcome'[p].method # "nil"
<1> USE DEF Goto
<1>0. /\ pc \in [Pods -> PcStates] /\ outcome \in [Pods -> Outcome]
      /\ pc[p] \notin {"new", "getAnyCM", "waiting"}
  BY DEF WaiterInv, AnswersInv, OwnKeyAt
<1>1. CASE GetCommonConfigurationsSA(p)
  BY <1>0, <1>1, SMTT(30) DEF GetCommonConfigurationsSA, common
<1>2. CASE GetCommonConfigurationsCM(p)
  BY <1>0, <1>2, SMT DEF GetCommonConfigurationsCM, common
<1>3. CASE addJitterToDefaultToken(p)
  BY <1>0, <1>3 DEF addJitterToDefaultToken, Outcome, OwnKeyAt
<1>4. CASE jitterPanic(p)
  <2>1. [NotMutated EXCEPT !.method = "panic"].method = "panic"
    BY DEF NotMutated
  <2> QED
    BY <1>0, <1>4, <2>1 DEF jitterPanic
<1>5. CASE GetSA(p)
  <2>1. CASE saCache[saOf[p]] # Nil /\ saCache[saOf[p]].entry.RoleARN # NoRole
    BY <1>0, <1>5, <2>1, SMT DEF GetSA, respond
  <2>2. CASE ~(saCache[saOf[p]] # Nil /\ saCache[saOf[p]].entry.RoleARN # NoRole)
    BY <1>0, <1>5, <2>2 DEF GetSA
  <2> QED
    BY <2>1, <2>2
<1>6. CASE SendUnblocked(p)
  BY <1>0, <1>6 DEF SendUnblocked
<1>7. CASE GetCM(p)
  BY <1>0, <1>7, KeptKeyFound, SMT DEF GetCM, respond
<1> QED
  BY <1>0, <1>1, <1>2, <1>3, <1>4, <1>5, <1>6, <1>7
     DEF PodStep, Admit, GetAnyCM, Notified, GraceExpires

LEMMA OwnKeyStep ==
    ASSUME TypeInv, WaiterInv, CMHalf, AnswersInv, OwnKeyInv, [Next]_vars
    PROVE  OwnKeyInv'
<1> SUFFICES ASSUME NEW p \in Pods, KeyKept(p)' PROVE OwnKeyAt(p)'
  BY DEF OwnKeyInv
<1>1. [CMRun]_cmCacheVars
  BY StepUsesConfigMap, ClearsStep DEF KeyKept
<1>2. ASSUME arrived'[p] = arrived[p]
      PROVE  /\ KeyKept(p) /\ OwnKeyAt(p)
             /\ arrived'[p].cm <= cmSeen'
             /\ task'.sets # {} => Canonical(task'.old) /\ Configures(task'.old, saOf[p])
  <2>1. KeyKept(p) /\ OwnKeyAt(p)
    BY <1>2, KeyKeptBefore DEF OwnKeyInv
  <2> QED
    BY <1>1, <1>2, <2>1, TaskConfigures
<1>3. ASSUME arrived'[p] = arrived[p], pc'[p] = pc[p], outcome'[p] = outcome[p]
      PROVE  OwnKeyAt(p)'
  BY <1>2, <1>3 DEF OwnKeyAt, Canonical, Configures
<1>4. ASSUME NEW q \in Pods, PodStep(q), q # p PROVE OwnKeyAt(p)'
  BY <1>3, <1>4, OthersUnchanged
<1>5. CASE PodStep(p)
  <2>1. CASE UNCHANGED arrived
    BY <1>2, <1>5, <2>1, OwnKeyLookup DEF OwnKeyAt, Canonical, Configures
  <2>2. CASE Admit(p)
    <3>1. arrived'[p].cm > 0 /\ cmSeen \in Nat
      BY SMT DEF KeyKept, CMHalf, CMShape
    <3>2. arrived'[p].cm = (IF Idle THEN cmSeen ELSE 0) \/ UNCHANGED arrived
      BY <1>5, PodStepMarks
    <3>3. CASE arrived'[p].cm = IF Idle THEN cmSeen ELSE 0
      <4>1. Idle /\ arrived'[p].cm = cmSeen
        BY <3>1, <3>3, SMT
      <4>2. /\ UNCHANGED <<cmSeen, task>>
            /\ pc'[p] \in {"commonSA", "getSA"}
        BY <2>2 DEF Admit, Goto, cmCacheVars, WaiterInv
      <4> QED
        BY <3>1, <4>1, <4>2, SMT DEF OwnKeyAt, Idle
    <3> QED
      BY <2>1, <3>2, <3>3
  <2> QED
    BY <1>5, <2>1, <2>2, PodStepMarks
<1>6. CASE UNCHANGED podVars
  BY <1>3, <1>6 DEF podVars
<1> QED
  BY <1>4, <1>5, <1>6
     DEF Next, CacheStep, ConfigMapStep, ClearFirst, ClearSecond, Load, vars

(* An update of the ConfigMap in the middle of a lookup cannot hide an       *)
(* account that keeps its own key: the pod is not answered unmutated, for    *)
(* any configs, number of versions and order of populateCacheFromCM's loops. *)
THEOREM OwnKeyPodsAreMutated == Spec => []PodsWithOwnKeyAreMutated
<1>1. Init => OwnKeyInv
  <2>1. ASSUME Init, NEW p \in Pods PROVE arrived[p].cm = 0
    BY <2>1 DEF Init
  <2> QED
    BY <2>1, SMT DEF OwnKeyInv, KeyKept
<1>2. TypeInv /\ WaiterInv /\ CMHalf /\ AnswersInv /\ OwnKeyInv /\ [Next]_vars => OwnKeyInv'
  BY OwnKeyStep
<1>3. OwnKeyInv => PodsWithOwnKeyAreMutated
  BY DEF OwnKeyInv, OwnKeyAt, KeyKept, PodsWithOwnKeyAreMutated, Settled
<1> QED
  BY <1>1, <1>2, <1>3, LookupTypes, PTL DEF Spec

-----------------------------------------------------------------------------
(* Where the answers come from.                                            *)

(* What a request may find in cmCache. *)
CMSourceInv ==
    /\ NothingOutdated
    /\ SinceVersion(1)
    /\ \A p \in Pods : arrived[p].cm <= cmSeen /\ SinceVersion(Oldest(p))

(* What it was answered from, also before its jitter. *)
SourcedAt(p) ==
    /\ pc[p] = "jitter" => /\ outcome[p].method = "container_credentials"
                           /\ outcome[p].expiration = DefaultTokenExpiration
    /\ outcome[p].method \in {"sts_web_identity", "container_credentials"} =>
        /\ outcome[p].from = "sa" => FromAnnotations(p)
        /\ outcome[p].from = "cm" => FromConfigMap(p)
        /\ outcome[p].from = "none" => FromDefaults(p)

SourcedInv == \A p \in Pods : SourcedAt(p)

LEMMA ConfigMapMoves ==
    ASSUME CMHalf, [Next]_vars
    PROVE  /\ [CMRun]_cmCacheVars \/ ClearCM
           /\ cmSeen \in Nat /\ cmSeen' \in Nat /\ cmSeen <= cmSeen'
           /\ \A v \in 1 .. cmSeen : cmHist'[v] = cmHist[v]
<1>1. [CMRun]_cmCacheVars \/ ClearCM
  BY StepUsesConfigMap DEF ClearSecond
<1>2. CMShape
  BY DEF CMHalf
<1> QED
  BY <1>1, <1>2, CMHistoryGrows

(* While a request is there, the first version it may be answered from stays. *)
LEMMA OldestStays ==
    ASSUME CMHalf, AnswersInv, CMSourceInv, [Next]_vars, NEW p \in Pods, arrived'[p] = arrived[p]
    PROVE  Oldest(p)' = Oldest(p) /\ Oldest(p) \in Nat \ {0}
<1>1. arrived[p].cm \in Nat /\ arrived[p].cm <= cmSeen
  BY DEF AnswersInv, CMSourceInv
<1>2. cmSeen \in Nat /\ \A v \in 1 .. cmSeen : cmHist'[v] = cmHist[v]
  BY ConfigMapMoves
<1>3. CanonicalUpTo(arrived[p].cm)' <=> CanonicalUpTo(arrived[p].cm)
  BY <1>1, <1>2, SMT DEF CanonicalUpTo, Canonical
<1> QED
  BY <1>1, <1>3, SMT DEF Oldest

LEMMA CMSourceStep ==
    ASSUME TypeInv, WaiterInv, CMHalf, AnswersInv, CMSourceInv, [Next]_vars
    PROVE  CMSourceInv'
<1>0. /\ [CMRun]_cmCacheVars \/ ClearCM
      /\ cmSeen \in Nat /\ cmSeen' \in Nat /\ cmSeen <= cmSeen'
      /\ CMShape
  BY ConfigMapMoves DEF CMHalf
<1>1. NothingOutdated'
  BY <1>0, OutdatedStep DEF CMSourceInv
<1>2. SinceVersion(1)'
  <2>1. 1 \in Nat \ {0}
    BY SMT
  <2> QED
    BY <1>0, <2>1, SinceStep DEF CMSourceInv
<1>3. ASSUME NEW p \in Pods, arrived'[p] = arrived[p]
      PROVE  arrived'[p].cm <= cmSeen' /\ SinceVersion(Oldest(p))'
  <2>1. arrived'[p].cm <= cmSeen'
    BY <1>0, <1>3, SMT DEF AnswersInv, CMSourceInv
  <2>2. PICK n \in Nat \ {0} : n = Oldest(p) /\ n = Oldest(p)'
    BY <1>3, OldestStays
  <2>3. SinceVersion(n)
    BY <2>2 DEF CMSourceInv
  <2>4. SinceVersion(n)'
    BY <1>0, <2>3, SinceStep
  <2> QED
    BY <2>1, <2>2, <2>4 DEF SinceVersion
<1>4. ASSUME NEW p \in Pods, Admit(p), arrived'[p].cm = IF Idle THEN cmSeen ELSE 0
      PROVE  arrived'[p].cm <= cmSeen' /\ SinceVersion(Oldest(p))'
  <2>1. UNCHANGED <<cmHist, cmSeen, cmCache, task>>
    BY <1>4 DEF Admit, cmCacheVars
  <2>2. arrived'[p].cm <= cmSeen'
    BY <1>0, <1>4, <2>1, SMT
  <2>3. CASE Oldest(p)' = 1
    BY <1>2, <2>2, <2>3 DEF SinceVersion
  <2>4. CASE Oldest(p)' # 1
    <3>1. arrived'[p].cm > 0 /\ CanonicalUpTo(arrived[p].cm)' /\ Oldest(p)' = arrived'[p].cm
      BY <2>4 DEF Oldest
    <3>2. Idle /\ cmSeen # 0 /\ arrived'[p].cm = cmSeen
      BY <1>0, <1>4, <3>1, SMT
    <3>3. CanonicalUpTo(cmSeen)
      BY <2>1, <3>1, <3>2 DEF CanonicalUpTo, Canonical
    <3>4. SinceVersion(cmSeen)
      BY <1>0, <3>2, <3>3, AtRestUpToDate DEF CMSourceInv
    <3> QED
      BY <2>1, <2>2, <3>1, <3>2, <3>4 DEF SinceVersion
  <2> QED
    BY <2>3, <2>4
<1>5. ASSUME NEW p \in Pods, NEW q \in Pods, PodStep(q)
      PROVE  arrived'[p].cm <= cmSeen' /\ SinceVersion(Oldest(p))'
  <2>1. CASE arrived'[p] = arrived[p]
    BY <1>3, <2>1
  <2>2. CASE arrived'[p] # arrived[p]
    <3>1. p = q /\ Admit(p) /\ arrived'[p].cm = IF Idle THEN cmSeen ELSE 0
      BY <1>5, <2>2, PodStepMarks
    <3> QED
      BY <1>4, <3>1
  <2> QED
    BY <2>1, <2>2
<1>6. CASE UNCHANGED arrived
  BY <1>1, <1>2, <1>3, <1>6 DEF CMSourceInv
<1>7. ASSUME NEW q \in Pods, PodStep(q) PROVE CMSourceInv'
  BY <1>1, <1>2, <1>5, <1>7 DEF CMSourceInv
<1> QED
  BY <1>6, <1>7 DEF Next, CacheStep, ConfigMapStep, ClearFirst, ClearSecond, Load, vars, podVars

(* The answers that respond and common make of an entry. *)
LEMMA RespondGives ==
    ASSUME AnswersInv, NEW p \in Pods, NEW from, NEW e, respond(p, from, e)
    PROVE  \/ outcome'[p].method = "nil"
           \/ /\ outcome'[p].method = "sts_web_identity" /\ outcome'[p].from = from
              /\ Gives(e, p, outcome'[p])
<1>0. outcome \in [Pods -> Outcome]
  BY DEF AnswersInv
<1>1. CASE e.RoleARN = NoRole
  <2>1. outcome'[p] = NotMutated
    BY <1>0, <1>1 DEF respond
  <2>2. outcome'[p].method = "nil"
    BY <2>1, SMT DEF NotMutated
  <2> QED
    BY <2>2
<1>2. CASE e.RoleARN # NoRole
  <2>1. outcome'[p] = [method |-> "sts_web_identity", from |-> from, role |-> e.RoleARN,
                       sts |-> e.UseRegionalSTS,
                       expiration |-> PodTokenExpiration(podExpiration[p], e.TokenExpiration)]
    BY <1>0, <1>2 DEF respond
  <2>2. /\ outcome'[p].method = "sts_web_identity" /\ outcome'[p].from = from
        /\ outcome'[p].role = e.RoleARN /\ outcome'[p].sts = e.UseRegionalSTS
        /\ outcome'[p].expiration = PodTokenExpiration(podExpiration[p], e.TokenExpiration)
    BY <2>1, SMTT(30)
  <2> QED
    BY <1>2, <2>2 DEF Gives
<1> QED
  BY <1>1, <1>2

LEMMA CommonGives ==
    ASSUME AnswersInv, WaiterInv, NEW p \in Pods, NEW from, NEW e,
           common(p, from, e.UseRegionalSTS, e.TokenExpiration)
    PROVE  /\ outcome'[p].method = "container_credentials" /\ outcome'[p].from = from
           /\ pc'[p] = "jitter" => outcome'[p].expiration = DefaultTokenExpiration
           /\ Gives(e, p, outcome'[p])
<1>0. outcome \in [Pods -> Outcome] /\ pc \in [Pods -> PcStates]
  BY DEF AnswersInv, WaiterInv
<1> DEFINE t == PodTokenExpiration(podExpiration[p], e.TokenExpiration)
<1>1. outcome'[p] = [method |-> "container_credentials", from |-> from, role |-> NoRole,
                     sts |-> e.UseRegionalSTS, expiration |-> t]
  BY <1>0 DEF common
<1>2. pc'[p] = "jitter" => t = DefaultTokenExpiration
  BY <1>0 DEF common, Goto
<1> HIDE DEF t
<1> QED
  BY <1>1, <1>2, SMT DEF Gives, t

(* An entry that a request reads makes its answer genuine. *)
LEMMA CachedAnswers ==
    ASSUME EntriesGenuine, NEW p \in Pods, saOf[p] \in SAs, saCache[saOf[p]] # Nil,
           UNCHANGED hist, Gives(saCache[saOf[p]].entry, p, outcome'[p])
    PROVE  FromAnnotations(p)'
<1>1. /\ saCache[saOf[p]].rv \in 1 .. Len(hist[saOf[p]])
      /\ hist[saOf[p]][saCache[saOf[p]].rv] # Nil
      /\ saCache[saOf[p]].entry = EntryOfSA(hist[saOf[p]][saCache[saOf[p]].rv])
  BY DEF EntriesGenuine
<1> QED
  BY <1>1 DEF FromAnnotations

LEMMA ConfiguredAnswers ==
    ASSUME CMHalf, AnswersInv, CMSourceInv, [Next]_vars, NEW p \in Pods, UNCHANGED cmCacheVars,
           arrived'[p] = arrived[p], NEW key \in CMKeys, cmCache[key] # Nil,
           key \in LookupKeys(p)', Gives(cmCache[key], p, outcome'[p])
    PROVE  FromConfigMap(p)'
<1>1. PICK v \in Oldest(p) .. cmSeen : Holds(cmHist[v], key, cmCache[key])
  BY DEF CMSourceInv, SinceVersion
<1>2. PICK raw \in DOMAIN cmHist[v] :
        /\ cmHist[v][raw] # Nil /\ HasKey(raw) /\ KeyOf(raw) = key
        /\ cmCache[key] = EntryOfCM(cmHist[v][raw])
  BY <1>1 DEF Holds
<1>3. cmHist[v] \in Parsed /\ cmHist' = cmHist /\ cmSeen' = cmSeen /\ Oldest(p)' = Oldest(p)
  BY <1>1, OldestStays DEF Holds, cmCacheVars
<1>4. Gives(EntryOfCM(cmHist[v][raw]), p, outcome'[p]) /\ KeyOf(raw) \in LookupKeys(p)'
  BY <1>2
<1> QED
  BY <1>1, <1>2, <1>3, <1>4 DEF FromConfigMap

(* A genuine answer stays so: versions are kept. *)
LEMMA SourcedStays ==
    ASSUME TypeInv, CMHalf, AnswersInv, CMSourceInv, [Next]_vars, NEW p \in Pods, SourcedAt(p),
           pc'[p] = "jitter" => pc[p] = "jitter",
           outcome'[p] = outcome[p], arrived'[p] = arrived[p] \/ outcome[p].method = "nil"
    PROVE  SourcedAt(p)'
<1>0. saOf[p] \in SAs
  BY SACacheAssumption
<1>1. FromAnnotations(p) => FromAnnotations(p)'
  <2>1. /\ Len(hist[saOf[p]]) \in Nat /\ Len(hist'[saOf[p]]) \in Nat
        /\ Len(hist[saOf[p]]) <= Len(hist'[saOf[p]])
        /\ \A i \in 1 .. Len(hist[saOf[p]]) : hist'[saOf[p]][i] = hist[saOf[p]][i]
    BY <1>0, StepImplementsCache, VersionsKept
  <2>2. \A v \in 1 .. Len(hist[saOf[p]]) : v \in 1 .. Len(hist'[saOf[p]])
    BY <2>1, SMT
  <2> QED
    BY <2>1, <2>2 DEF FromAnnotations
<1>2. ASSUME arrived'[p] = arrived[p] PROVE FromConfigMap(p) => FromConfigMap(p)'
  <2>1. Oldest(p)' = Oldest(p) /\ Oldest(p) \in Nat \ {0}
    BY <1>2, OldestStays
  <2>2. /\ cmSeen \in Nat /\ cmSeen' \in Nat /\ cmSeen <= cmSeen'
        /\ \A v \in 1 .. cmSeen : cmHist'[v] = cmHist[v]
    BY ConfigMapMoves
  <2>3. \A v \in Oldest(p) .. cmSeen : v \in Oldest(p)' .. cmSeen' /\ cmHist'[v] = cmHist[v]
    BY <2>1, <2>2, SMT
  <2>4. LookupKeys(p)' = LookupKeys(p)
    BY DEF LookupKeys
  <2> QED
    BY <2>3, <2>4 DEF FromConfigMap
<1>3. FromDefaults(p) => FromDefaults(p)'
  BY DEF FromDefaults
<1> QED
  BY <1>1, <1>2, <1>3 DEF SourcedAt

LEMMA JitterSourced ==
    ASSUME AnswersInv, WaiterInv, NEW p \in Pods, SourcedAt(p), addJitterToDefaultToken(p),
           UNCHANGED <<hist, cmCacheVars, arrived>>
    PROVE  SourcedAt(p)'
<1>0. outcome \in [Pods -> Outcome] /\ pc \in [Pods -> PcStates] /\ outcome[p] \in Outcome
  BY DEF AnswersInv, WaiterInv
<1>1. PICK draw \in JitterDraws :
        outcome' = [outcome EXCEPT ![p].expiration = JitteredExpiration(@, draw)]
  BY DEF addJitterToDefaultToken
<1>2. /\ outcome[p].method = "container_credentials"
      /\ outcome[p].expiration = DefaultTokenExpiration
  BY DEF addJitterToDefaultToken, SourcedAt
<1>3. draw \in Int63nRange
  BY WebhookAssumption
<1>4. JitteredExpiration(outcome[p].expiration, draw)
        \in DefaultMinTokenExpiration .. DefaultTokenExpiration
  BY <1>2, <1>3, JitterRange DEF JitteredExpiration
<1>5. /\ outcome'[p].method = outcome[p].method /\ outcome'[p].from = outcome[p].from
      /\ outcome'[p].role = outcome[p].role /\ outcome'[p].sts = outcome[p].sts
      /\ outcome'[p].expiration \in DefaultMinTokenExpiration .. DefaultTokenExpiration
  BY <1>0, <1>1, <1>4, SMT DEF Outcome
<1>6. ASSUME NEW e, Gives(e, p, outcome[p]) PROVE Gives(e, p, outcome'[p])
  BY <1>2, <1>5, <1>6 DEF Gives
<1>7. pc'[p] = "done"
  BY <1>0 DEF addJitterToDefaultToken, Goto
<1>8. LookupKeys(p)' = LookupKeys(p) /\ Oldest(p)' = Oldest(p)
  BY <1>5 DEF LookupKeys, Oldest, CanonicalUpTo, Canonical, cmCacheVars
<1>9. /\ FromAnnotations(p) => FromAnnotations(p)'
      /\ FromConfigMap(p) => FromConfigMap(p)'
      /\ FromDefaults(p) => FromDefaults(p)'
  <2>1. FromAnnotations(p) => FromAnnotations(p)'
    BY <1>6 DEF FromAnnotations
  <2>2. FromConfigMap(p) => FromConfigMap(p)'
    BY <1>6, <1>8 DEF FromConfigMap, cmCacheVars
  <2>3. FromDefaults(p) => FromDefaults(p)'
    BY <1>5, <1>6 DEF FromDefaults
  <2> QED
    BY <2>1, <2>2, <2>3
<1> QED
  BY <1>5, <1>7, <1>9 DEF SourcedAt

(* A request's own step gives it a genuine answer, if any. *)
LEMMA PodStepSourced ==
    ASSUME TypeInv, EntriesGenuine, WaiterInv, CMHalf, AnswersInv, SyncedInv, CMSourceInv,
           NEW p \in Pods, SourcedAt(p), PodStep(p)
    PROVE  SourcedAt(p)'
<1> USE DEF Goto
<1>0. /\ [Next]_vars /\ saOf[p] \in SAs
      /\ saOf[p] \in CMKeys /\ <<"*", saOf[p][2]>> \in CMKeys
      /\ outcome \in [Pods -> Outcome] /\ pc \in [Pods -> PcStates]
  BY SACacheAssumption, WebhookAssumption DEF Next, AnswersInv, WaiterInv
<1>1. ASSUME UNCHANGED outcome, pc'[p] # "jitter",
             arrived' = arrived \/ outcome[p].method = "nil"
      PROVE  SourcedAt(p)'
  BY <1>0, <1>1, SourcedStays
<1>2. ASSUME UNCHANGED hist, pc'[p] # "jitter", saCache[saOf[p]] # Nil,
             respond(p, "sa", saCache[saOf[p]].entry)
      PROVE  SourcedAt(p)'
  <2>1. CASE outcome'[p].method = "nil"
    BY <1>2, <2>1 DEF SourcedAt
  <2>2. CASE outcome'[p].method # "nil"
    <3>1. /\ outcome'[p].method = "sts_web_identity" /\ outcome'[p].from = "sa"
          /\ Gives(saCache[saOf[p]].entry, p, outcome'[p])
      BY <1>2, <2>2, RespondGives
    <3>2. FromAnnotations(p)'
      BY <1>0, <1>2, <3>1, CachedAnswers
    <3> QED
      BY <1>2, <3>1, <3>2 DEF SourcedAt
  <2> QED
    BY <2>1, <2>2
<1>3. ASSUME UNCHANGED <<cmCacheVars, arrived>>, NEW key \in CMKeys, cmCache[key] # Nil,
             key \in {saOf[p], <<"*", saOf[p][2]>>}, respond(p, "cm", cmCache[key])
      PROVE  SourcedAt(p)'
  <2>1. pc'[p] # "jitter"
    BY <1>0, <1>3 DEF respond
  <2>2. CASE outcome'[p].method = "nil"
    BY <2>1, <2>2 DEF SourcedAt
  <2>3. CASE outcome'[p].method # "nil"
    <3>1. /\ outcome'[p].method = "sts_web_identity" /\ outcome'[p].from = "cm"
          /\ Gives(cmCache[key], p, outcome'[p])
      BY <1>3, <2>3, RespondGives
    <3>2. key \in LookupKeys(p)'
      BY <1>3, <3>1 DEF LookupKeys
    <3>3. FromConfigMap(p)'
      BY <1>0, <1>3, <3>1, <3>2, ConfiguredAnswers
    <3> QED
      BY <2>1, <3>1, <3>3 DEF SourcedAt
  <2> QED
    BY <2>2, <2>3
<1>4. CASE Admit(p)
  <2>1. pc[p] = "new" /\ UNCHANGED outcome /\ pc'[p] # "jitter"
    BY <1>0, <1>4 DEF Admit
  <2>2. outcome[p].method = "nil"
    BY <2>1 DEF SyncedInv, SyncedAt
  <2> QED
    BY <1>1, <2>1, <2>2
<1>5. CASE GetCommonConfigurationsSA(p)
  <2>1. CASE saCache[saOf[p]] = Nil
    BY <1>0, <1>1, <1>5, <2>1 DEF GetCommonConfigurationsSA
  <2>2. CASE saCache[saOf[p]] # Nil
    <3>1. /\ common(p, "sa", saCache[saOf[p]].entry.UseRegionalSTS,
                    saCache[saOf[p]].entry.TokenExpiration)
          /\ UNCHANGED hist
      BY <1>5, <2>2 DEF GetCommonConfigurationsSA, getSA
    <3>2. /\ outcome'[p].method = "container_credentials" /\ outcome'[p].from = "sa"
          /\ pc'[p] = "jitter" => outcome'[p].expiration = DefaultTokenExpiration
          /\ Gives(saCache[saOf[p]].entry, p, outcome'[p])
      BY <3>1, CommonGives, ZenonT(30)
    <3>3. FromAnnotations(p)'
      BY <1>0, <2>2, <3>1, <3>2, CachedAnswers
    <3> QED
      BY <3>2, <3>3 DEF SourcedAt
  <2> QED
    BY <2>1, <2>2
<1>6. CASE GetCommonConfigurationsCM(p)
  <2>0. UNCHANGED <<cmCacheVars, arrived>>
    BY <1>6 DEF GetCommonConfigurationsCM
  <2>1. CASE cmCache[saOf[p]] = Nil
    <3> DEFINE e == [UseRegionalSTS |-> FALSE, TokenExpiration |-> DefaultTokenExpiration]
    <3>1. common(p, "none", e.UseRegionalSTS, e.TokenExpiration)
      BY <1>6, <2>1 DEF GetCommonConfigurationsCM
    <3>2. /\ outcome'[p].method = "container_credentials" /\ outcome'[p].from = "none"
          /\ pc'[p] = "jitter" => outcome'[p].expiration = DefaultTokenExpiration
          /\ Gives(e, p, outcome'[p])
      <4> HIDE DEF e
      <4> QED
        BY <3>1, CommonGives
    <3>3. FromDefaults(p)'
      BY <3>2 DEF FromDefaults
    <3> QED
      BY <3>2, <3>3 DEF SourcedAt
  <2>2. CASE cmCache[saOf[p]] # Nil
    <3>1. common(p, "cm", cmCache[saOf[p]].UseRegionalSTS, cmCache[saOf[p]].TokenExpiration)
      BY <1>6, <2>2 DEF GetCommonConfigurationsCM
    <3>2. /\ outcome'[p].method = "container_credentials" /\ outcome'[p].from = "cm"
          /\ pc'[p] = "jitter" => outcome'[p].expiration = DefaultTokenExpiration
          /\ Gives(cmCache[saOf[p]], p, outcome'[p])
      BY <3>1, CommonGives
    <3>3. saOf[p] \in LookupKeys(p)'
      BY DEF LookupKeys
    <3>4. FromConfigMap(p)'
      BY <1>0, <2>0, <2>2, <3>2, <3>3, ConfiguredAnswers
    <3> QED
      BY <3>2, <3>4 DEF SourcedAt
  <2> QED
    BY <2>1, <2>2
<1>7. CASE addJitterToDefaultToken(p)
  BY <1>7, JitterSourced DEF addJitterToDefaultToken, saCacheVars
<1>8. CASE jitterPanic(p)
  <2>1. outcome'[p] = [NotMutated EXCEPT !.method = "panic"] /\ pc'[p] = "done"
    BY <1>0, <1>8 DEF jitterPanic
  <2>2. outcome'[p].method = "panic"
    BY <2>1, SMT DEF NotMutated
  <2> QED
    BY <2>1, <2>2 DEF SourcedAt
<1>9. CASE GetSA(p)
  <2>1. pc'[p] # "jitter" /\ UNCHANGED <<hist, arrived>>
    BY <1>0, <1>9 DEF GetSA, respond, getSA, create
  <2>2. \/ UNCHANGED outcome
        \/ saCache[saOf[p]] # Nil /\ respond(p, "sa", saCache[saOf[p]].entry)
    BY <1>9 DEF GetSA
  <2> QED
    BY <1>1, <1>2, <2>1, <2>2
<1>10. CASE GetCM(p)
  <2>1. UNCHANGED <<cmCacheVars, arrived>>
    BY <1>10 DEF GetCM
  <2>2. CASE cmCache[saOf[p]] = Nil
    BY <1>0, <1>1, <1>10, <2>1, <2>2 DEF GetCM
  <2>3. CASE cmCache[saOf[p]] # Nil
    BY <1>0, <1>3, <1>10, <2>1, <2>3 DEF GetCM
  <2> QED
    BY <2>2, <2>3
<1>11. CASE GetAnyCM(p)
  <2>1. UNCHANGED <<cmCacheVars, arrived>>
    BY <1>11 DEF GetAnyCM
  <2>2. CASE cmCache[<<"*", saOf[p][2]>>] = Nil
    BY <1>0, <1>1, <1>11, <2>1, <2>2 DEF GetAnyCM
  <2>3. CASE cmCache[<<"*", saOf[p][2]>>] # Nil
    BY <1>0, <1>3, <1>11, <2>1, <2>3 DEF GetAnyCM
  <2> QED
    BY <2>2, <2>3
<1>12. CASE SendUnblocked(p) \/ Notified(p) \/ GraceExpires(p)
  BY <1>0, <1>1, <1>12 DEF SendUnblocked, Notified, GraceExpires
<1> QED
  BY <1>4, <1>5, <1>6, <1>7, <1>8, <1>9, <1>10, <1>11, <1>12 DEF PodStep

(* Every mutated pod has the settings of one entry of its own account: for   *)
(* any accounts, configs, versions and requests, and however updates of both *)
(* caches, late fetches and Clear() come between the reads of a lookup.      *)
THEOREM AnswersGenuine == Spec => []AnswersAreGenuine
<1>1. Init => CMSourceInv /\ SourcedInv
  <2> SUFFICES ASSUME Init PROVE CMSourceInv /\ SourcedInv
    OBVIOUS
  <2>1. /\ cmSeen = 0 /\ task = NoTask /\ \A key \in CMKeys : cmCache[key] = Nil
    BY DEF Init, CMCacheInit, EmptyCMCache
  <2>2. \A p \in Pods : pc[p] = "new" /\ outcome[p].method = "nil" /\ arrived[p].cm = 0
    BY DEF Init, NotMutated
  <2>3. NothingOutdated /\ SinceVersion(1)
    BY <2>1 DEF NothingOutdated, SinceVersion, NoTask, CMStored
  <2>4. ASSUME NEW p \in Pods PROVE arrived[p].cm <= cmSeen /\ Oldest(p) = 1
    BY <2>1, <2>2, SMT DEF Oldest
  <2> QED
    BY <2>2, <2>3, <2>4 DEF CMSourceInv, SourcedInv, SourcedAt
<1>2. ASSUME TypeInv, EntriesGenuine, WaiterInv, CMHalf, AnswersInv, SyncedInv, CMSourceInv,
             SourcedInv, [Next]_vars
      PROVE  CMSourceInv' /\ SourcedInv'
  <2>1. CMSourceInv'
    BY <1>2, CMSourceStep
  <2>2. ASSUME NEW p \in Pods, NEW q \in Pods, PodStep(q) PROVE SourcedAt(p)'
    <3>1. CASE p = q
      BY <1>2, <2>2, <3>1, PodStepSourced DEF SourcedInv
    <3>2. CASE p # q
      BY <1>2, <2>2, <3>2, OthersUnchanged, SourcedStays DEF SourcedInv
    <3> QED
      BY <3>1, <3>2
  <2>3. CASE UNCHANGED podVars
    BY <1>2, <2>1, <2>3, SourcedStays DEF podVars, SourcedInv
  <2> QED
    BY <1>2, <2>1, <2>2, <2>3
       DEF Next, CacheStep, ConfigMapStep, ClearFirst, ClearSecond, Load, vars, SourcedInv
<1>3. SourcedInv => AnswersAreGenuine
  BY DEF SourcedInv, SourcedAt, AnswersAreGenuine, Mutated
<1>4. TypeInv /\ EntriesGenuine /\ WaiterInv /\ CMHalf /\ AnswersInv /\ SyncedInv
        /\ CMSourceInv /\ SourcedInv /\ [Next]_vars => CMSourceInv' /\ SourcedInv'
  BY <1>2
<1> QED
  BY <1>1, <1>3, <1>4, LookupInvariant, PTL DEF Spec
=============================================================================
