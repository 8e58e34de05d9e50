------------------------ MODULE ConfigMapCacheProofs ------------------------
(***************************************************************************)
(* populateCacheFromCM, for every set of configs and any number of         *)
(* versions: what it has written when it returns, and what lookups may see *)
(* while it runs.                                                          *)
(***************************************************************************)
EXTENDS ConfigMapCache, TLAPS

(* The entry a config gives a key. *)
ValueIn(c, key) == CacheOf(c)[key]

(* Where populateCacheFromCM is: keys it has yet to set or to remove still   *)
(* have the value of the old config, all others that of the new one.         *)
Progress ==
    /\ task.new = IF CMStored = Nil THEN Empty ELSE CMStored
    /\ task.sets \subseteq DOMAIN task.new
    /\ task.pops \subseteq DOMAIN task.old \ DOMAIN task.new
    /\ task.pops # {} => Canonical(task.old)
    /\ \A key \in CMKeys :
        cmCache[key] = IF key \in task.sets \cup task.pops
                       THEN ValueIn(task.old, key) ELSE ValueIn(task.new, key)

(* What holds whatever the configs look like, and of a cleared cache too. *)
CMShape ==
    /\ cmHist \in Seq(Configs \cup {Nil})
    /\ cmSeen \in 0 .. Len(cmHist)
    /\ cmCache \in [CMKeys -> Entry \cup {Nil}]
    /\ task \in Tasks
    /\ up \in BOOLEAN
    /\ task.sets \subseteq DOMAIN task.new

CMInv == CMShape /\ (CanonicalHistory => Progress)

LEMMA EntryOfCMType == ASSUME NEW e \in Entry PROVE EntryOfCM(e) \in Entry
BY SettingsAssumption DEF EntryOfCM, Entry

LEMMA CanonicalType ==
    ASSUME NEW c \in Configs, Canonical(c)
    PROVE  /\ DOMAIN c \subseteq CMKeys
           /\ \A key \in DOMAIN c : c[key] \in Entry
BY CMCacheAssumption DEF Canonical

LEMMA ValueOf ==
    ASSUME NEW c, NEW key \in CMKeys
    PROVE  ValueIn(c, key) = IF Canonical(c) /\ key \in DOMAIN c THEN EntryOfCM(c[key]) ELSE Nil
BY DEF ValueIn, CacheOf

LEMMA EmptyValue == \A key \in CMKeys : ValueIn(Empty, key) = Nil /\ ValueIn(Nil, key) = Nil
BY ValueOf DEF Empty, Canonical

LEMMA KeyOfCanonical == ASSUME NEW raw \in CMKeys PROVE KeyOf(raw) = raw
BY DEF KeyOf, CMKeys

LEMMA CMInit == CMCacheInit => CMInv
<1> SUFFICES ASSUME CMCacheInit PROVE CMInv
  OBVIOUS
<1>1. PICK c \in Configs \cup {Nil} : cmHist = <<c>>
  BY DEF CMCacheInit
<1>2. cmHist \in Seq(Configs \cup {Nil}) /\ cmSeen \in 0 .. Len(cmHist)
  BY <1>1 DEF CMCacheInit
<1>3. Progress
  <2>1. /\ task = NoTask
        /\ CMStored = Nil
        /\ \A key \in CMKeys : cmCache[key] = Nil
    BY DEF CMCacheInit, CMStored, EmptyCMCache
  <2>2. \A key \in CMKeys : ValueIn(task.new, key) = Nil
    BY <2>1, EmptyValue DEF NoTask
  <2> QED
    BY <2>1, <2>2 DEF Progress, NoTask
<1>4. task \in Tasks
  BY DEF CMCacheInit, NoTask, Tasks
<1>5. task.sets \subseteq DOMAIN task.new
  BY <1>3 DEF Progress
<1> QED
  BY <1>2, <1>3, <1>4, <1>5 DEF CMCacheInit, CMInv, CMShape, EmptyCMCache

LEMMA StoredType ==
    ASSUME CMShape
    PROVE  /\ CMStored \in Configs \cup {Nil}
           /\ CanonicalHistory => CMStored = Nil \/ Canonical(CMStored)
BY DEF CMShape, CMStored, CanonicalHistory, CanonicalUpTo

LEMMA PopulateType ==
    ASSUME CMShape, NEW old \in Configs \cup {Nil}, NEW new \in Configs,
           populateCacheFromCM(old, new)
    PROVE  task' \in Tasks /\ task'.sets \subseteq DOMAIN task'.new
<1>1. CASE new = Unparsable
  BY <1>1 DEF populateCacheFromCM, CMShape
<1>2. CASE new # Unparsable
  <2>1. new \in Parsed /\ DOMAIN new \subseteq Seq(Names)
    BY <1>2, CMCacheAssumption DEF Parsed
  <2>2. old \notin {Nil, Unparsable} => DOMAIN old \subseteq Seq(Names)
    BY CMCacheAssumption
  <2> QED
    BY <1>2, <2>1, <2>2 DEF populateCacheFromCM, Tasks
<1> QED
  BY <1>1, <1>2

(* The call with the stored version as the old config, once the previous     *)
(* call has returned.                                                        *)
LEMMA PopulateProgress ==
    ASSUME CMInv, CanonicalHistory, Idle, NEW new \in Configs, Canonical(new),
           populateCacheFromCM(CMStored, new), CMStored' = new, UNCHANGED cmCache
    PROVE  Progress'
<1>1. new # Unparsable /\ new # Nil
  BY DEF Canonical
<1>2. /\ task'.old = CMStored /\ task'.new = new /\ task'.sets = DOMAIN new
      /\ task'.pops = IF CMStored \in {Nil, Unparsable} THEN {} ELSE DOMAIN CMStored \ DOMAIN new
  BY <1>1 DEF populateCacheFromCM
<1>3. CMStored = Nil \/ Canonical(CMStored)
  BY StoredType DEF CMInv
<1>4. task'.pops # {} => Canonical(task'.old)
  BY <1>2, <1>3
<1>5. ASSUME NEW key \in CMKeys
      PROVE  cmCache[key] = ValueIn(CMStored, key)
  <2>1. cmCache[key] = ValueIn(task.new, key)
    BY DEF CMInv, CMShape, Progress, Idle
  <2>2. task.new = IF CMStored = Nil THEN Empty ELSE CMStored
    BY DEF CMInv, CMShape, Progress
  <2> QED
    BY <2>1, <2>2, EmptyValue
<1>6. ASSUME NEW key \in CMKeys, key \notin task'.sets \cup task'.pops
      PROVE  ValueIn(CMStored, key) = ValueIn(new, key)
  <2>1. ValueIn(new, key) = Nil
    BY <1>2, <1>6, ValueOf
  <2>2. CASE CMStored = Nil
    BY <2>1, <2>2, EmptyValue
  <2>3. CASE Canonical(CMStored)
    <3>1. CMStored \notin {Nil, Unparsable}
      BY <2>3 DEF Canonical
    <3>2. key \notin DOMAIN CMStored
      BY <1>2, <1>6, <3>1
    <3> QED
      BY <2>1, <3>2, ValueOf
  <2> QED
    BY <1>3, <2>2, <2>3
<1>7. \A key \in CMKeys :
        cmCache'[key] = IF key \in task'.sets \cup task'.pops
                        THEN ValueIn(task'.old, key) ELSE ValueIn(task'.new, key)
  BY <1>2, <1>5, <1>6
<1> QED
  BY <1>1, <1>2, <1>4, <1>7 DEF Progress, Canonical, ValueIn, CacheOf

(* One turn of the first loop.                                               *)
LEMMA SetType ==
    ASSUME CMShape, NEW raw \in task.sets, task.new[raw] # Nil
    PROVE  [cmCache EXCEPT ![KeyOf(raw)] = EntryOfCM(task.new[raw])] \in [CMKeys -> Entry \cup {Nil}]
<1>1. task.new \in Parsed
  BY DEF CMShape, Tasks, Empty
<1>2. task.new[raw] \in Entry
  BY <1>1, CMCacheAssumption DEF Parsed, CMShape
<1>3. EntryOfCM(task.new[raw]) \in Entry
  BY <1>2, EntryOfCMType
<1> QED
  BY <1>3 DEF CMShape

LEMMA SetProgress ==
    ASSUME CMInv, CanonicalHistory, NEW raw \in task.sets,
           cmCache' = [cmCache EXCEPT ![KeyOf(raw)] = EntryOfCM(task.new[raw])],
           task' = [task EXCEPT !.sets = @ \ {raw}],
           UNCHANGED <<cmHist, cmSeen>>
    PROVE  Progress'
<1>1. Progress
  BY DEF CMInv
<1>2. /\ task'.old = task.old /\ task'.new = task.new
      /\ task'.sets = task.sets \ {raw} /\ task'.pops = task.pops
      /\ CMStored' = CMStored
  BY DEF CMInv, CMShape, Tasks, CMStored
<1>3. Canonical(task.new)
  BY <1>1, StoredType DEF CMInv, Progress, Empty
<1>4. raw \in CMKeys /\ raw \in DOMAIN task.new
  BY <1>1, <1>3 DEF Progress, Canonical
<1>5. cmCache' = [cmCache EXCEPT ![raw] = ValueIn(task.new, raw)]
  BY <1>3, <1>4, KeyOfCanonical, ValueOf
<1>6. \A key \in CMKeys :
        cmCache'[key] = IF key \in task'.sets \cup task'.pops
                        THEN ValueIn(task.old, key) ELSE ValueIn(task.new, key)
  BY <1>1, <1>2, <1>4, <1>5 DEF CMInv, CMShape, Progress
<1> QED
  BY <1>1, <1>2, <1>6 DEF Progress, Canonical, ValueIn, CacheOf

(* One turn of the second loop.                                              *)
LEMMA PopProgress ==
    ASSUME CMInv, CanonicalHistory, NEW raw \in task.pops,
           cmCache' = [cmCache EXCEPT ![KeyOf(raw)] = Nil],
           task' = [task EXCEPT !.pops = @ \ {raw}],
           UNCHANGED <<cmHist, cmSeen>>, task.sets = {}
    PROVE  Progress'
<1>1. Progress
  BY DEF CMInv
<1>2. /\ task'.old = task.old /\ task'.new = task.new
      /\ task'.sets = {} /\ task'.pops = task.pops \ {raw}
      /\ CMStored' = CMStored
  BY DEF CMInv, CMShape, Tasks, CMStored
<1>3. raw \in CMKeys /\ raw \notin DOMAIN task.new
  BY <1>1 DEF Progress, Canonical
<1>4. cmCache' = [cmCache EXCEPT ![raw] = ValueIn(task.new, raw)]
  BY <1>3, KeyOfCanonical, ValueOf
<1>5. \A key \in CMKeys :
        cmCache'[key] = IF key \in task'.sets \cup task'.pops
                        THEN ValueIn(task.old, key) ELSE ValueIn(task.new, key)
  BY <1>1, <1>2, <1>3, <1>4 DEF CMInv, CMShape, Progress
<1> QED
  BY <1>1, <1>2, <1>5 DEF Progress, Canonical, ValueIn, CacheOf

LEMMA CMShapeStep == CMShape /\ [CMCacheNext]_cmCacheVars => CMShape'
<1> SUFFICES ASSUME CMShape, [CMCacheNext]_cmCacheVars PROVE CMShape'
  OBVIOUS
<1>1. ASSUME NEW c \in Configs \cup {Nil}, CMWrite(c) PROVE CMShape'
  <2>1. cmHist' = Append(cmHist, c) /\ UNCHANGED <<cmSeen, cmCache, task, up>>
    BY <1>1 DEF CMWrite
  <2>2. /\ cmHist' \in Seq(Configs \cup {Nil})
        /\ Len(cmHist') = Len(cmHist) + 1
        /\ Len(cmHist) \in Nat
    BY <2>1 DEF CMShape
  <2> QED
    BY <2>1, <2>2 DEF CMShape
<1>2. CASE cmInformerEvent
  <2>1. PICK v \in cmSeen + 1 .. Len(cmHist) :
            /\ cmSeen' = v
            /\ IF cmHist[v] = Nil THEN UNCHANGED task
               ELSE populateCacheFromCM(CMStored, cmHist[v])
    BY <1>2 DEF cmInformerEvent
  <2>2. /\ v \in 1 .. Len(cmHist) /\ cmHist[v] \in Configs \cup {Nil}
        /\ cmSeen' \in 0 .. Len(cmHist)
    BY <2>1 DEF CMShape
  <2>3. task' \in Tasks /\ task'.sets \subseteq DOMAIN task'.new
    BY <2>1, <2>2, PopulateType, StoredType DEF CMShape
  <2> QED
    BY <1>2, <2>2, <2>3 DEF cmInformerEvent, CMShape
<1>3. CASE cmResync
  <2>1. CMStored \in Configs /\ populateCacheFromCM(CMStored, CMStored)
    BY <1>3, StoredType DEF cmResync
  <2>2. task' \in Tasks /\ task'.sets \subseteq DOMAIN task'.new
    BY <2>1, PopulateType
  <2> QED
    BY <1>3, <2>2 DEF cmResync, CMShape
<1>4. ASSUME NEW raw \in task.sets, setCM(raw) PROVE CMShape'
  <2>1. /\ task.new[raw] # Nil
        /\ cmCache' = [cmCache EXCEPT ![KeyOf(raw)] = EntryOfCM(task.new[raw])]
        /\ task' = [task EXCEPT !.sets = @ \ {raw}]
        /\ UNCHANGED <<cmHist, cmSeen, up>>
    BY <1>4 DEF setCM
  <2>2. task' \in Tasks /\ task'.sets \subseteq DOMAIN task'.new
    BY <2>1 DEF CMShape, Tasks
  <2>3. cmCache' \in [CMKeys -> Entry \cup {Nil}]
    BY <1>4, <2>1, SetType
  <2> QED
    BY <2>1, <2>2, <2>3 DEF CMShape
<1>5. ASSUME NEW raw \in task.pops, popCM(raw) PROVE CMShape'
  <2>1. /\ cmCache' = [cmCache EXCEPT ![KeyOf(raw)] = Nil]
        /\ task' = [task EXCEPT !.pops = @ \ {raw}]
        /\ UNCHANGED <<cmHist, cmSeen, up>>
    BY <1>5 DEF popCM
  <2>2. task' \in Tasks /\ task'.sets \subseteq DOMAIN task'.new
    BY <2>1 DEF CMShape, Tasks
  <2> QED
    BY <2>1, <2>2 DEF CMShape
<1>6. ASSUME NEW raw \in task.sets, panicCM(raw) PROVE CMShape'
  BY <1>6 DEF panicCM, CMShape
<1>7. CASE Restart
  <2>1. task' = NoTask
    BY <1>7 DEF Restart
  <2>2. task' \in Tasks /\ task'.sets \subseteq DOMAIN task'.new
    BY <2>1 DEF NoTask, Tasks
  <2> QED
    BY <1>7, <2>2 DEF Restart, CMShape, EmptyCMCache
<1>8. CASE UNCHANGED cmCacheVars
  BY <1>8 DEF cmCacheVars, CMShape
<1> QED
  BY <1>1, <1>2, <1>3, <1>4, <1>5, <1>6, <1>7, <1>8 DEF CMCacheNext, CMWriter, CMLoops

LEMMA CMInvStep == CMInv /\ [CMCacheNext]_cmCacheVars => CMInv'
<1> SUFFICES ASSUME CMInv, [CMCacheNext]_cmCacheVars, CanonicalHistory' PROVE Progress'
  BY CMShapeStep DEF CMInv
<1>0. CMShape /\ CMShape'
  BY CMShapeStep DEF CMInv
<1>1. ASSUME NEW c \in Configs \cup {Nil}, CMWrite(c) PROVE Progress'
  <2>1. cmHist' = Append(cmHist, c) /\ UNCHANGED <<cmSeen, cmCache, task, up>>
    BY <1>1 DEF CMWrite
  <2>2. /\ Len(cmHist') = Len(cmHist) + 1
        /\ Len(cmHist) \in Nat
        /\ \A i \in 1 .. Len(cmHist) : cmHist'[i] = cmHist[i]
    BY <1>0, <2>1 DEF CMShape
  <2>3. CMStored' = CMStored
    BY <1>0, <2>1, <2>2 DEF CMShape, CMStored
  <2>4. CanonicalHistory
    BY <2>2 DEF CanonicalHistory, CanonicalUpTo, Canonical
  <2> QED
    BY <2>1, <2>3, <2>4 DEF CMInv, CMShape, Progress, Canonical, ValueIn, CacheOf
<1>2. ASSUME UNCHANGED cmHist PROVE CanonicalHistory
  BY <1>2 DEF CanonicalHistory, CanonicalUpTo, Canonical
<1>3. CASE cmInformerEvent
  <2>1. PICK v \in cmSeen + 1 .. Len(cmHist) :
            /\ cmHist[v] # Nil \/ CMStored # Nil
            /\ cmSeen' = v
            /\ IF cmHist[v] = Nil THEN UNCHANGED task
               ELSE populateCacheFromCM(CMStored, cmHist[v])
    BY <1>3 DEF cmInformerEvent
  <2>2. Idle /\ UNCHANGED <<cmHist, cmCache, up>>
    BY <1>3 DEF cmInformerEvent
  <2>3. /\ v \in 1 .. Len(cmHist)
        /\ cmHist[v] \in Configs \cup {Nil}
        /\ CMStored' = cmHist[v]
    BY <1>0, <2>1, <2>2 DEF CMShape, CMStored
  <2>4. CanonicalHistory
    BY <1>2, <2>2
  <2>5. Canonical(cmHist[v]) \/ (v = 1 /\ cmHist[v] = Nil)
    BY <2>3, <2>4 DEF CanonicalHistory, CanonicalUpTo
  <2>6. v = 1 => CMStored = Nil
    BY <1>0, <2>1 DEF CMShape, CMStored
  <2>7. Canonical(cmHist[v]) /\ cmHist[v] # Nil
    BY <2>1, <2>5, <2>6 DEF Canonical
  <2> QED
    BY <2>1, <2>2, <2>3, <2>4, <2>7, PopulateProgress
<1>4. CASE cmResync
  <2>1. /\ Idle /\ CMStored # Nil
        /\ populateCacheFromCM(CMStored, CMStored)
        /\ UNCHANGED <<cmHist, cmSeen, cmCache, up>>
    BY <1>4 DEF cmResync
  <2>2. CMStored \in Configs /\ CMStored' = CMStored
    BY <1>0, <2>1, StoredType DEF CMStored
  <2> QED
    BY <1>0, <1>2, <2>1, <2>2, StoredType, PopulateProgress
<1>5. ASSUME NEW raw \in task.sets, setCM(raw) PROVE Progress'
  BY <1>2, <1>5, SetProgress DEF setCM
<1>6. ASSUME NEW raw \in task.pops, popCM(raw) PROVE Progress'
  BY <1>2, <1>6, PopProgress DEF popCM
<1>7. ASSUME NEW raw \in task.sets, panicCM(raw) PROVE Progress'
  BY <1>2, <1>7 DEF panicCM, CMInv, Canonical, Progress, CMStored, ValueIn, CacheOf
<1>8. CASE Restart
  <2>1. cmSeen' = 0 /\ task' = NoTask /\ cmCache' = EmptyCMCache
    BY <1>8 DEF Restart
  <2>2. CMStored' = Nil
    BY <2>1 DEF CMStored
  <2>3. \A key \in CMKeys : cmCache'[key] = ValueIn(Empty, key)
    BY <2>1, EmptyValue DEF EmptyCMCache
  <2> QED
    BY <2>1, <2>2, <2>3 DEF Progress, NoTask, ValueIn, CacheOf, Canonical
<1>9. CASE UNCHANGED cmCacheVars
  BY <1>2, <1>9 DEF cmCacheVars, CMInv, Canonical, Progress, CMStored, ValueIn, CacheOf
<1> QED
  BY <1>1, <1>3, <1>4, <1>5, <1>6, <1>7, <1>8, <1>9 DEF CMCacheNext, CMWriter, CMLoops

LEMMA CMInvariant == CMCacheSpec => []CMInv
BY CMInit, CMInvStep, PTL DEF CMCacheSpec

(* cmCache, the informer's store and the call of populateCacheFromCM stay    *)
(* well-formed, malformed configs, panics and restarts included.             *)
THEOREM CMCacheTypeCorrect == CMCacheSpec => []CMCacheTypeOK
<1>1. CMInv => CMCacheTypeOK
  BY DEF CMInv, CMShape, CMCacheTypeOK
<1> QED
  BY <1>1, CMInvariant, PTL

(* When populateCacheFromCM has returned, cmCache has exactly the entries of *)
(* the last delivered version, for any configs and any number of versions as *)
(* long as they are canonical.                                               *)
THEOREM CMCacheIsExact == CMCacheSpec => []CMCacheExact
<1>1. CMInv => CMCacheExact
  <2> SUFFICES ASSUME CMInv, CanonicalHistory, Idle PROVE cmCache = CacheOf(CMStored)
    BY DEF CMCacheExact
  <2>1. ASSUME NEW key \in CMKeys PROVE cmCache[key] = ValueIn(CMStored, key)
    <3>1. /\ cmCache[key] = ValueIn(task.new, key)
          /\ task.new = IF CMStored = Nil THEN Empty ELSE CMStored
      BY DEF CMInv, CMShape, Progress, Idle
    <3> QED
      BY <3>1, EmptyValue
  <2> QED
    BY <2>1 DEF CMInv, CMShape, ValueIn, CacheOf
<1> QED
  BY <1>1, CMInvariant, PTL

(* A key that the old and the new config share is in cmCache at every point  *)
(* of populateCacheFromCM, in whatever order its loops take the keys.        *)
THEOREM KeptKeysAreNeverMissing == CMCacheSpec => []KeptKeysNeverMissing
<1>1. CMInv => KeptKeysNeverMissing
  <2> SUFFICES ASSUME CMInv, CanonicalHistory, Canonical(task.old),
                      NEW key \in DOMAIN task.old \cap DOMAIN task.new
               PROVE  cmCache[key] # Nil
    BY DEF KeptKeysNeverMissing
  <2>1. Progress
    BY DEF CMInv
  <2>2. task.old \in Configs /\ key \in CMKeys
    BY DEF CMInv, CMShape, Tasks, Canonical, Empty
  <2>3. Canonical(task.new) /\ task.new \in Configs
    BY <2>1, StoredType DEF CMInv, Progress, Empty
  <2>4. task.old[key] \in Entry /\ task.new[key] \in Entry
    BY <2>2, <2>3, CanonicalType
  <2>5. ValueIn(task.old, key) \in Entry /\ ValueIn(task.new, key) \in Entry
    BY <2>2, <2>3, <2>4, ValueOf, EntryOfCMType
  <2>6. cmCache[key] \in Entry
    BY <2>1, <2>2, <2>5 DEF Progress
  <2> QED
    BY <2>6, NilAssumption
<1> QED
  BY <1>1, CMInvariant, PTL

-----------------------------------------------------------------------------
(* Where the entries of cmCache come from, malformed versions and Clear()    *)
(* included.                                                                 *)

(* A life of the process: all steps but the restart. *)
CMRun == (\E c \in Configs \cup {Nil} : CMWrite(c)) \/ CMWriter

(* The config gives the key the entry e, perhaps by a key with more parts. *)
Holds(c, key, e) ==
    /\ c \in Parsed
    /\ \E raw \in DOMAIN c : /\ c[raw] # Nil /\ HasKey(raw) /\ KeyOf(raw) = key
                             /\ e = EntryOfCM(c[raw])

(* What is or will be in cmCache is of version n or a later one. *)
SinceVersion(n) ==
    /\ n <= cmSeen \/ n = 1
    /\ task.sets # {} => \E v \in n .. cmSeen : cmHist[v] = task.new
    /\ \A key \in CMKeys : cmCache[key] # Nil =>
        \E v \in n .. cmSeen : Holds(cmHist[v], key, cmCache[key])

(* While no malformed version was delivered, cmCache has no entries but      *)
(* those of the version the store holds once populateCacheFromCM returned.   *)
NothingOutdated ==
    CanonicalUpTo(cmSeen) =>
        /\ task.new = IF CMStored = Nil THEN Empty ELSE CMStored
        /\ task.pops \subseteq CMKeys \ DOMAIN task.new
        /\ \A key \in CMKeys : cmCache[key] # Nil /\ key \notin task.sets \cup task.pops
                               => cmCache[key] = ValueIn(task.new, key)

(* Versions are only added and the store moves forward. *)
LEMMA CMHistoryGrows ==
    ASSUME CMShape, [CMRun]_cmCacheVars \/ ClearCM
    PROVE  /\ cmSeen \in Nat /\ cmSeen' \in Nat /\ cmSeen <= cmSeen'
           /\ \A v \in 1 .. cmSeen : cmHist'[v] = cmHist[v]
           /\ \A n \in 0 .. cmSeen : CanonicalUpTo(n)' <=> CanonicalUpTo(n)
<1>0. cmSeen \in Nat /\ Len(cmHist) \in Nat /\ cmSeen <= Len(cmHist)
  BY DEF CMShape
<1>1. ASSUME NEW c \in Configs \cup {Nil}, CMWrite(c)
      PROVE  cmSeen' = cmSeen /\ \A v \in 1 .. Len(cmHist) : cmHist'[v] = cmHist[v]
  BY <1>1 DEF CMWrite, CMShape
<1>2. /\ cmSeen' \in Nat /\ cmSeen <= cmSeen'
      /\ \A v \in 1 .. cmSeen : cmHist'[v] = cmHist[v]
  <2>1. CASE UNCHANGED cmHist /\ cmSeen' \in Nat /\ cmSeen <= cmSeen'
    BY <2>1
  <2>2. CASE cmInformerEvent
    <3>1. UNCHANGED cmHist /\ \E v \in cmSeen + 1 .. Len(cmHist) : cmSeen' = v
      BY <2>2 DEF cmInformerEvent
    <3> QED
      BY <1>0, <2>1, <3>1
  <2>3. CASE cmResync \/ CMLoops \/ ClearCM \/ UNCHANGED cmCacheVars
    <3>1. UNCHANGED <<cmHist, cmSeen>>
      BY <2>3 DEF cmResync, CMLoops, setCM, popCM, panicCM, ClearCM, cmCacheVars
    <3> QED
      BY <1>0, <2>1, <3>1
  <2> QED
    BY <1>0, <1>1, <2>2, <2>3 DEF CMRun, CMWriter
<1>3. ASSUME NEW n \in 0 .. cmSeen PROVE CanonicalUpTo(n)' <=> CanonicalUpTo(n)
  BY <1>0, <1>2 DEF CanonicalUpTo, Canonical
<1> QED
  BY <1>0, <1>2, <1>3

LEMMA SinceStep ==
    ASSUME CMShape, NEW n \in Nat \ {0}, SinceVersion(n), [CMRun]_cmCacheVars \/ ClearCM
    PROVE  SinceVersion(n)'
<1>0. /\ cmSeen \in Nat /\ cmSeen' \in Nat /\ cmSeen <= cmSeen'
      /\ \A v \in 1 .. cmSeen : cmHist'[v] = cmHist[v]
  BY CMHistoryGrows
<1>1. n <= cmSeen' \/ n = 1
  BY <1>0 DEF SinceVersion
<1>2. ASSUME NEW v \in n .. cmSeen PROVE v \in n .. cmSeen' /\ cmHist'[v] = cmHist[v]
  BY <1>0
<1>3. ASSUME UNCHANGED cmCache
      PROVE  \A key \in CMKeys : cmCache'[key] # Nil =>
                \E v \in n .. cmSeen' : Holds(cmHist'[v], key, cmCache'[key])
  BY <1>2, <1>3 DEF SinceVersion
<1>4. CASE (\E c \in Configs \cup {Nil} : CMWrite(c)) \/ UNCHANGED cmCacheVars
  <2>1. UNCHANGED <<cmCache, task>>
    BY <1>4 DEF CMWrite, cmCacheVars
  <2> QED
    BY <1>1, <1>2, <1>3, <2>1 DEF SinceVersion
<1>5. CASE cmInformerEvent
  <2>1. PICK v \in cmSeen + 1 .. Len(cmHist) :
            /\ cmSeen' = v
            /\ IF cmHist[v] = Nil THEN UNCHANGED task
               ELSE populateCacheFromCM(CMStored, cmHist[v])
    BY <1>5 DEF cmInformerEvent
  <2>2. UNCHANGED <<cmHist, cmCache>> /\ task.sets = {}
    BY <1>5 DEF cmInformerEvent, Idle
  <2>3. cmSeen' \in n .. cmSeen'
    BY <1>0, <1>1, <2>1 DEF CMShape
  <2>4. task' = task \/ task'.new = cmHist'[cmSeen']
    BY <2>1, <2>2 DEF populateCacheFromCM
  <2> QED
    BY <1>1, <1>3, <2>2, <2>3, <2>4 DEF SinceVersion
<1>6. CASE cmResync
  <2>1. /\ CMStored # Nil /\ populateCacheFromCM(CMStored, CMStored) /\ task.sets = {}
        /\ UNCHANGED <<cmHist, cmSeen, cmCache>>
    BY <1>6 DEF cmResync, Idle
  <2>2. cmSeen # 0 /\ CMStored = cmHist[cmSeen]
    BY <2>1 DEF CMStored
  <2>3. cmSeen' \in n .. cmSeen'
    BY <1>0, <1>1, <2>1, <2>2
  <2>4. task' = task \/ task'.new = cmHist'[cmSeen']
    BY <2>1, <2>2 DEF populateCacheFromCM
  <2> QED
    BY <1>1, <1>3, <2>1, <2>3, <2>4 DEF SinceVersion
<1>7. ASSUME NEW raw \in task.sets, setCM(raw) PROVE SinceVersion(n)'
  <2>1. /\ task.new[raw] # Nil /\ HasKey(raw)
        /\ cmCache' = [cmCache EXCEPT ![KeyOf(raw)] = EntryOfCM(task.new[raw])]
        /\ task' = [task EXCEPT !.sets = @ \ {raw}]
        /\ UNCHANGED <<cmHist, cmSeen>>
    BY <1>7 DEF setCM
  <2>2. PICK v \in n .. cmSeen : cmHist[v] = task.new
    BY <1>7 DEF SinceVersion
  <2>3. task'.new = task.new
    BY <2>1 DEF CMShape, Tasks
  <2>4. raw \in DOMAIN task.new /\ task.new \in Parsed
    BY <1>7 DEF CMShape, Tasks, Empty
  <2>5. ASSUME NEW key \in CMKeys, cmCache'[key] # Nil
        PROVE  \E w \in n .. cmSeen' : Holds(cmHist'[w], key, cmCache'[key])
    <3>1. CASE key = KeyOf(raw)
      <4>1. cmCache'[key] = EntryOfCM(task.new[raw])
        BY <2>1, <3>1 DEF CMShape
      <4>2. Holds(task.new, key, cmCache'[key])
        BY <2>1, <2>4, <3>1, <4>1 DEF Holds
      <4> QED
        BY <2>1, <2>2, <4>2
    <3>2. CASE key # KeyOf(raw)
      <4>1. cmCache'[key] = cmCache[key]
        BY <2>1, <3>2 DEF CMShape
      <4> QED
        BY <2>1, <2>5, <4>1 DEF SinceVersion
    <3> QED
      BY <3>1, <3>2
  <2> QED
    BY <1>1, <2>1, <2>2, <2>3, <2>5 DEF SinceVersion
<1>8. ASSUME NEW raw \in task.pops, popCM(raw) PROVE SinceVersion(n)'
  <2>1. /\ cmCache' = [cmCache EXCEPT ![KeyOf(raw)] = Nil] /\ task.sets = {}
        /\ task' = [task EXCEPT !.pops = @ \ {raw}]
        /\ UNCHANGED <<cmHist, cmSeen>>
    BY <1>8 DEF popCM
  <2>2. task'.sets = {}
    BY <2>1 DEF CMShape, Tasks
  <2>3. \A key \in CMKeys : cmCache'[key] # Nil => cmCache'[key] = cmCache[key]
    BY <2>1 DEF CMShape
  <2> QED
    BY <1>1, <2>1, <2>2, <2>3 DEF SinceVersion
<1>9. CASE (\E raw \in task.sets : panicCM(raw)) \/ ClearCM
  BY <1>9 DEF panicCM, ClearCM, EmptyCMCache, SinceVersion
<1> QED
  BY <1>4, <1>5, <1>6, <1>7, <1>8, <1>9 DEF CMRun, CMWriter, CMLoops

(* What the store holds while no malformed version was delivered. *)
LEMMA StoredCanonical ==
    ASSUME CMShape, CanonicalUpTo(cmSeen), CMStored # Nil
    PROVE  CMStored \in Parsed /\ Canonical(CMStored) /\ cmSeen # 0 /\ CMStored = cmHist[cmSeen]
<1>1. cmSeen \in Nat /\ cmSeen # 0 /\ CMStored = cmHist[cmSeen]
  BY DEF CMStored, CMShape
<1>2. Canonical(CMStored)
  BY <1>1 DEF CanonicalUpTo
<1> QED
  BY <1>1, <1>2, StoredType DEF Canonical, Parsed

(* populateCacheFromCM marks every entry it found as one to set or remove. *)
LEMMA PopulateMarks ==
    ASSUME CMShape, NothingOutdated, CanonicalUpTo(cmSeen), Idle, NEW new \in Configs,
           Canonical(new), populateCacheFromCM(CMStored, new), CMStored' = new,
           UNCHANGED cmCache
    PROVE  NothingOutdated'
<1>1. new # Unparsable /\ new # Nil
  BY DEF Canonical
<1>2. /\ task'.new = new /\ task'.sets = DOMAIN new
      /\ task'.pops = IF CMStored \in {Nil, Unparsable} THEN {} ELSE DOMAIN CMStored \ DOMAIN new
  BY <1>1 DEF populateCacheFromCM
<1>3. task'.pops \subseteq CMKeys \ DOMAIN new
  BY <1>2, StoredCanonical DEF Canonical
<1>4. ASSUME NEW key \in CMKeys, cmCache[key] # Nil PROVE key \in task'.sets \cup task'.pops
  <2>1. cmCache[key] = ValueIn(task.new, key)
    BY <1>4 DEF NothingOutdated, Idle
  <2>2. Canonical(task.new) /\ key \in DOMAIN task.new
    BY <1>4, <2>1, ValueOf
  <2>3. task.new = CMStored /\ CMStored # Nil
    BY <2>2 DEF NothingOutdated, Empty
  <2> QED
    BY <1>2, <2>2, <2>3, StoredCanonical DEF Canonical
<1> QED
  BY <1>1, <1>2, <1>3, <1>4 DEF NothingOutdated

LEMMA OutdatedStep ==
    ASSUME CMShape, NothingOutdated, [CMRun]_cmCacheVars \/ ClearCM
    PROVE  NothingOutdated'
<1> SUFFICES ASSUME CanonicalUpTo(cmSeen)' PROVE NothingOutdated'
  BY DEF NothingOutdated
<1>0. /\ cmSeen \in Nat /\ cmSeen' \in Nat /\ cmSeen <= cmSeen'
      /\ \A v \in 1 .. cmSeen : cmHist'[v] = cmHist[v]
      /\ CanonicalUpTo(cmSeen)
  <2>1. /\ cmSeen \in Nat /\ cmSeen' \in Nat /\ cmSeen <= cmSeen'
        /\ \A v \in 1 .. cmSeen : cmHist'[v] = cmHist[v]
    BY CMHistoryGrows
  <2>2. CanonicalUpTo(cmSeen)
    BY <2>1 DEF CanonicalUpTo, Canonical
  <2> QED
    BY <2>1, <2>2
<1>1. ASSUME UNCHANGED cmSeen PROVE CMStored' = CMStored
  BY <1>0, <1>1 DEF CMStored
<1>2. CASE UNCHANGED <<cmSeen, cmCache, task>>
  BY <1>0, <1>1, <1>2 DEF NothingOutdated, ValueIn, CacheOf, Canonical
<1>3. CASE cmInformerEvent
  <2>1. PICK v \in cmSeen + 1 .. Len(cmHist) :
            /\ cmHist[v] # Nil \/ CMStored # Nil
            /\ cmSeen' = v
            /\ IF cmHist[v] = Nil THEN UNCHANGED task
               ELSE populateCacheFromCM(CMStored, cmHist[v])
    BY <1>3 DEF cmInformerEvent
  <2>2. Idle /\ UNCHANGED <<cmHist, cmCache>>
    BY <1>3 DEF cmInformerEvent
  <2>3. v \in 1 .. Len(cmHist) /\ cmHist[v] \in Configs \cup {Nil} /\ CMStored' = cmHist[v]
    BY <1>0, <2>1, <2>2 DEF CMShape, CMStored
  <2>4. Canonical(cmHist[v]) \/ (v = 1 /\ cmHist[v] = Nil)
    BY <2>1, <2>2, <2>3 DEF CanonicalUpTo, Canonical
  <2>5. v = 1 => CMStored = Nil
    BY <1>0, <2>1 DEF CMStored
  <2>6. Canonical(cmHist[v]) /\ cmHist[v] # Nil
    BY <2>1, <2>4, <2>5 DEF Canonical
  <2> QED
    BY <1>0, <2>1, <2>2, <2>3, <2>6, PopulateMarks
<1>4. CASE cmResync
  <2>1. /\ Idle /\ CMStored # Nil /\ populateCacheFromCM(CMStored, CMStored)
        /\ UNCHANGED <<cmSeen, cmCache>>
    BY <1>4 DEF cmResync
  <2>2. CMStored \in Configs /\ Canonical(CMStored)
    BY <1>0, <2>1, StoredCanonical DEF Parsed
  <2> QED
    BY <1>0, <1>1, <2>1, <2>2, PopulateMarks
<1>5. ASSUME NEW raw \in task.sets, setCM(raw) PROVE NothingOutdated'
  <2>1. /\ cmCache' = [cmCache EXCEPT ![KeyOf(raw)] = EntryOfCM(task.new[raw])]
        /\ task' = [task EXCEPT !.sets = @ \ {raw}] /\ UNCHANGED cmSeen
    BY <1>5 DEF setCM
  <2>2. /\ task'.new = task.new /\ task'.pops = task.pops /\ task'.sets = task.sets \ {raw}
    BY <2>1 DEF CMShape, Tasks
  <2>3. raw \in DOMAIN task.new
    BY <1>5 DEF CMShape
  <2>4. Canonical(task.new)
    BY <1>0, <2>3, StoredCanonical DEF NothingOutdated, Empty
  <2>5. raw \in CMKeys /\ KeyOf(raw) = raw
    BY <2>3, <2>4, KeyOfCanonical DEF Canonical
  <2>6. EntryOfCM(task.new[raw]) = ValueIn(task.new, raw)
    BY <2>3, <2>4, <2>5, ValueOf
  <2>7. \A key \in CMKeys : cmCache'[key] = IF key = raw THEN ValueIn(task.new, raw) ELSE cmCache[key]
    BY <2>1, <2>5, <2>6 DEF CMShape
  <2>8. \A key \in CMKeys : cmCache'[key] # Nil /\ key \notin task'.sets \cup task'.pops
                            => cmCache'[key] = ValueIn(task.new, key)
    BY <1>0, <2>2, <2>7 DEF NothingOutdated
  <2> QED
    BY <1>0, <1>1, <2>1, <2>2, <2>8 DEF NothingOutdated, ValueIn, CacheOf, Canonical
<1>6. ASSUME NEW raw \in task.pops, popCM(raw) PROVE NothingOutdated'
  <2>1. /\ cmCache' = [cmCache EXCEPT ![KeyOf(raw)] = Nil] /\ task.sets = {}
        /\ task' = [task EXCEPT !.pops = @ \ {raw}] /\ UNCHANGED cmSeen
    BY <1>6 DEF popCM
  <2>2. /\ task'.new = task.new /\ task'.pops = task.pops \ {raw} /\ task'.sets = task.sets
    BY <2>1 DEF CMShape, Tasks
  <2>3. raw \in CMKeys /\ KeyOf(raw) = raw
    BY <1>0, <1>6, KeyOfCanonical DEF NothingOutdated
  <2>4. \A key \in CMKeys : cmCache'[key] = IF key = raw THEN Nil ELSE cmCache[key]
    BY <2>1, <2>3 DEF CMShape
  <2> QED
    BY <1>0, <1>1, <2>1, <2>2, <2>4 DEF NothingOutdated, ValueIn, CacheOf, Canonical
<1>7. CASE ClearCM
  <2>1. UNCHANGED <<cmSeen, task>> /\ \A key \in CMKeys : cmCache'[key] = Nil
    BY <1>7 DEF ClearCM, EmptyCMCache
  <2> QED
    BY <1>0, <1>1, <2>1 DEF NothingOutdated
<1> QED
  BY <1>2, <1>3, <1>4, <1>5, <1>6, <1>7
     DEF CMRun, CMWrite, CMWriter, CMLoops, panicCM, cmCacheVars

LEMMA NothingOutdatedInvariant == CMCacheSpec => [](CMInv /\ NothingOutdated)
<1>1. CMCacheInit => NothingOutdated
  <2> SUFFICES ASSUME CMCacheInit PROVE NothingOutdated
    OBVIOUS
  <2>1. CMStored = Nil /\ task = NoTask /\ \A key \in CMKeys : cmCache[key] = Nil
    BY DEF CMCacheInit, CMStored, EmptyCMCache
  <2> QED
    BY <2>1 DEF NothingOutdated, NoTask
<1>2. CMInv /\ NothingOutdated /\ [CMCacheNext]_cmCacheVars => NothingOutdated'
  <2> SUFFICES ASSUME CMInv, NothingOutdated, [CMCacheNext]_cmCacheVars PROVE NothingOutdated'
    OBVIOUS
  <2>1. CASE [CMRun]_cmCacheVars
    BY <2>1, OutdatedStep DEF CMInv
  <2>2. CASE Restart
    <3>1. CMStored' = Nil /\ task' = NoTask /\ \A key \in CMKeys : cmCache'[key] = Nil
      BY <2>2 DEF Restart, CMStored, EmptyCMCache
    <3> QED
      BY <3>1 DEF NothingOutdated, NoTask
  <2> QED
    BY <2>1, <2>2 DEF CMCacheNext, CMRun
<1> QED
  BY <1>1, <1>2, CMInit, CMInvStep, PTL DEF CMCacheSpec

(* A key of cmCache changes straight to its entry in the version being       *)
(* applied, as long as the delivered versions are canonical: whatever the    *)
(* order of the map iterations in populateCacheFromCM.                       *)
THEOREM KeysMoveStraightToDelivered == CMCacheSpec => KeysMoveStraight
<1> DEFINE Straight ==
        CanonicalUpTo(cmSeen)' => \A key \in CMKeys :
            cmCache'[key] # cmCache[key] => cmCache'[key] = CacheOf(CMStored)'[key]
<1>1. ASSUME CMInv, NothingOutdated, [CMCacheNext]_cmCacheVars PROVE [Straight]_cmCacheVars
  <2> SUFFICES ASSUME CanonicalUpTo(cmSeen)', NEW key \in CMKeys, cmCache'[key] # cmCache[key]
               PROVE  cmCache'[key] = ValueIn(CMStored', key)
    BY DEF ValueIn, CacheOf, Canonical
  <2>0. CMShape
    BY <1>1, SMTT(30) DEF CMInv
  <2>1. ASSUME UNCHANGED <<cmHist, cmSeen>>
        PROVE  /\ CMStored' = CMStored
               /\ \A k \in CMKeys : ValueIn(task.new, k) = ValueIn(CMStored, k)
               /\ task.pops \subseteq CMKeys \ DOMAIN task.new
               /\ task.new # Empty => Canonical(task.new)
    <3>1. CanonicalUpTo(cmSeen) /\ CMStored' = CMStored
      BY <2>1 DEF CanonicalUpTo, Canonical, CMStored
    <3>2. task.new = IF CMStored = Nil THEN Empty ELSE CMStored
      BY <1>1, <3>1 DEF NothingOutdated
    <3> QED
      BY <1>1, <2>0, <3>1, <3>2, EmptyValue, StoredCanonical DEF NothingOutdated
  <2>2. ASSUME NEW raw \in task.sets, setCM(raw) PROVE cmCache'[key] = ValueIn(CMStored', key)
    <3>1. /\ cmCache' = [cmCache EXCEPT ![KeyOf(raw)] = EntryOfCM(task.new[raw])]
          /\ UNCHANGED <<cmHist, cmSeen>>
      BY <2>2 DEF setCM
    <3>2. raw \in DOMAIN task.new
      BY <2>0, <2>2 DEF CMShape
    <3>3. Canonical(task.new) /\ raw \in CMKeys /\ KeyOf(raw) = raw
      BY <2>1, <3>1, <3>2, KeyOfCanonical DEF Canonical, Empty
    <3>4. key = raw /\ cmCache'[key] = EntryOfCM(task.new[raw])
      BY <2>0, <3>1, <3>3 DEF CMShape
    <3>5. cmCache'[key] = ValueIn(task.new, key)
      BY <3>2, <3>3, <3>4, ValueOf
    <3> QED
      BY <2>1, <3>1, <3>5
  <2>3. ASSUME NEW raw \in task.pops, popCM(raw) PROVE cmCache'[key] = ValueIn(CMStored', key)
    <3>1. /\ cmCache' = [cmCache EXCEPT ![KeyOf(raw)] = Nil]
          /\ UNCHANGED <<cmHist, cmSeen>>
      BY <2>3 DEF popCM
    <3>2. raw \in CMKeys \ DOMAIN task.new /\ KeyOf(raw) = raw
      BY <2>1, <2>3, <3>1, KeyOfCanonical
    <3>3. key = raw /\ cmCache'[key] = Nil
      BY <2>0, <3>1, <3>2 DEF CMShape
    <3>4. cmCache'[key] = ValueIn(task.new, key)
      BY <3>2, <3>3, ValueOf
    <3> QED
      BY <2>1, <3>1, <3>4
  <2>4. CASE Restart
    <3>1. CMStored' = Nil /\ cmCache'[key] = Nil
      BY <2>4 DEF Restart, CMStored, EmptyCMCache
    <3> QED
      BY <3>1, EmptyValue
  <2>5. ~UNCHANGED cmCache
    OBVIOUS
  <2> QED
    BY <1>1, <2>2, <2>3, <2>4, <2>5
       DEF CMCacheNext, CMWrite, CMWriter, cmInformerEvent, cmResync, CMLoops, panicCM, cmCacheVars
<1> QED
  BY <1>1, NothingOutdatedInvariant, PTL DEF CMCacheSpec, KeysMoveStraight

(* At rest, everything in cmCache is of the version the store holds. *)
LEMMA AtRestUpToDate ==
    ASSUME CMShape, NothingOutdated, CanonicalUpTo(cmSeen), Idle, cmSeen # 0
    PROVE  SinceVersion(cmSeen)
<1>1. cmSeen \in Nat /\ cmSeen \in cmSeen .. cmSeen /\ task.sets = {}
  BY DEF CMShape, Idle
<1>2. ASSUME NEW key \in CMKeys, cmCache[key] # Nil
      PROVE  Holds(cmHist[cmSeen], key, cmCache[key])
  <2>1. cmCache[key] = ValueIn(task.new, key)
    BY <1>2 DEF NothingOutdated, Idle
  <2>2. /\ Canonical(task.new) /\ key \in DOMAIN task.new
        /\ cmCache[key] = EntryOfCM(task.new[key])
    BY <1>2, <2>1, ValueOf
  <2>3. task.new = CMStored /\ CMStored # Nil
    BY <2>2 DEF NothingOutdated, Empty
  <2>4. task.new = cmHist[cmSeen] /\ task.new \in Parsed
    BY <2>3, StoredCanonical
  <2>5. HasKey(key) /\ KeyOf(key) = key /\ task.new[key] # Nil
    <3>1. HasKey(key)
      BY SMTT(30) DEF CMKeys, HasKey
    <3>2. task.new[key] # Nil
      BY <2>2 DEF Canonical
    <3> QED
      BY <3>1, <3>2, KeyOfCanonical
  <2> QED
    BY <2>2, <2>4, <2>5 DEF Holds
<1> QED
  BY <1>1, <1>2 DEF SinceVersion
=============================================================================
