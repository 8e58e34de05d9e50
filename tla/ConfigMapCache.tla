--------------------------- MODULE ConfigMapCache ---------------------------
(***************************************************************************)
(* The ConfigMap half of pkg/cache: cmCache and populateCacheFromCM, which *)
(* the informer of the pod-identity-webhook ConfigMap calls.  (For a       *)
(* ConfigMap of another name populateCacheFromCM returns at once; those    *)
(* events are left out.)                                                   *)
(*                                                                         *)
(* populateCacheFromCM is not atomic: each setCM and popCM takes c.mu for  *)
(* itself, in Go's random map order, and lookups run in between.           *)
(***************************************************************************)
EXTENDS Settings, FiniteSets

CONSTANTS
    Names,          \* the "/"-separated parts of keys: namespaces, accounts, "*"
    Configs,        \* contents of the "config" datum: raw key -> entry, or Unparsable
    MaxCMVersions   \* bound: versions of the ConfigMap in a behaviour

(* cmCache's keys, namespace/name.  A raw key is its parts between slashes. *)
CMKeys == Names \X Names

ASSUME CMCacheAssumption ==
    /\ MaxCMVersions \in Nat
    /\ Nil \notin Configs
    /\ \A c \in Configs \ {Unparsable} :
        /\ DOMAIN c \subseteq Seq(Names)
        /\ c \in [DOMAIN c -> Entry \cup {Nil}]

VARIABLES
    cmHist,     \* versions of the ConfigMap in the API server, Nil: it does not exist
    cmSeen,     \* the version the informer's store holds, 0: none yet
    cmCache,    \* key -> Nil or entry
    task,       \* the call of populateCacheFromCM in progress, or the last one
    up          \* the process runs

cmCacheVars == <<cmHist, cmSeen, cmCache, task, up>>

Parsed == Configs \ {Unparsable}
Empty == <<>>
Tasks == [old : Configs \cup {Nil, Empty}, new : Parsed \cup {Empty},
          sets : SUBSET Seq(Names), pops : SUBSET Seq(Names)]

CMCacheTypeOK ==
    /\ cmHist \in Seq(Configs \cup {Nil})
    /\ cmSeen \in Nat
    /\ cmCache \in [CMKeys -> Entry \cup {Nil}]
    /\ task \in Tasks
    /\ up \in BOOLEAN

CMStored == IF cmSeen = 0 THEN Nil ELSE cmHist[cmSeen]

(* populateCacheFromCM has returned. *)
Idle == task.sets = {} /\ task.pops = {}
NoTask == [old |-> Nil, new |-> Empty, sets |-> {}, pops |-> {}]
EmptyCMCache == [key \in CMKeys |-> Nil]

CMCacheInit ==
    /\ cmHist \in {<<c>> : c \in Configs \cup {Nil}}
    /\ cmSeen = 0
    /\ cmCache = EmptyCMCache
    /\ task = NoTask
    /\ up = TRUE

-----------------------------------------------------------------------------

CMWrite(c) ==
    /\ Len(cmHist) < MaxCMVersions
    /\ c # cmHist[Len(cmHist)]
    /\ cmHist' = Append(cmHist, c)
    /\ UNCHANGED <<cmSeen, cmCache, task, up>>

(* Mutants: no removals; removals of all old keys. *)
populateKeepsRemoved(old, new) ==
    IF new = Unparsable
    THEN UNCHANGED task
    ELSE task' = [old |-> old, new |-> new, sets |-> DOMAIN new, pops |-> {}]
populateRemovesAllOld(old, new) ==
    IF new = Unparsable
    THEN UNCHANGED task
    ELSE task' = [old |-> old, new |-> new, sets |-> DOMAIN new,
                  pops |-> IF old \in {Nil, Unparsable} THEN {} ELSE DOMAIN old]

(* populateCacheFromCM up to its loops: both configs are parsed; an error in *)
(* the new one ends the call, an error in the old one skips the removals.    *)
populateCacheFromCM(old, new) ==
    IF new = Unparsable
    THEN UNCHANGED task
    ELSE task' = [old |-> old, new |-> new, sets |-> DOMAIN new,
                  pops |-> IF old \in {Nil, Unparsable} THEN {}
                           ELSE DOMAIN old \ DOMAIN new]

(* The informer delivers a later version.  There is no DeleteFunc: when the  *)
(* ConfigMap is gone only the store notices.                                 *)
cmInformerEvent ==
    /\ up /\ Idle
    /\ \E v \in cmSeen + 1 .. Len(cmHist) :
        /\ cmHist[v] # Nil \/ CMStored # Nil
        /\ cmSeen' = v
        /\ IF cmHist[v] = Nil THEN UNCHANGED task
           ELSE populateCacheFromCM(CMStored, cmHist[v])
    /\ UNCHANGED <<cmHist, cmCache, up>>

cmResync ==
    /\ up /\ Idle
    /\ CMStored # Nil
    /\ populateCacheFromCM(CMStored, CMStored)
    /\ UNCHANGED <<cmHist, cmSeen, cmCache, up>>

(* strings.Split on "/", then parts[0] and parts[1]. *)
HasKey(raw) == Len(raw) >= 2
KeyOf(raw) == <<raw[1], raw[2]>>

(* Mutant: a key that is in the cache already keeps its entry. *)
setCMKeepsFirst(raw) ==
    /\ up /\ raw \in task.sets
    /\ task.new[raw] # Nil /\ HasKey(raw)
    /\ cmCache' = [cmCache EXCEPT ![KeyOf(raw)] = IF @ = Nil THEN EntryOfCM(task.new[raw]) ELSE @]
    /\ task' = [task EXCEPT !.sets = @ \ {raw}]
    /\ UNCHANGED <<cmHist, cmSeen, up>>

(* One turn of the first loop.  An entry that is null in the JSON, or a key  *)
(* without a slash, panics.                                                  *)
setCM(raw) ==
    /\ up /\ raw \in task.sets
    /\ task.new[raw] # Nil /\ HasKey(raw)
    /\ cmCache' = [cmCache EXCEPT ![KeyOf(raw)] = EntryOfCM(task.new[raw])]
    /\ task' = [task EXCEPT !.sets = @ \ {raw}]
    /\ UNCHANGED <<cmHist, cmSeen, up>>

(* One turn of the second loop, which follows the first. *)
popCM(raw) ==
    /\ up /\ task.sets = {} /\ raw \in task.pops
    /\ HasKey(raw)
    /\ cmCache' = [cmCache EXCEPT ![KeyOf(raw)] = Nil]
    /\ task' = [task EXCEPT !.pops = @ \ {raw}]
    /\ UNCHANGED <<cmHist, cmSeen, up>>

(* Mutant: the panic is recovered, the rest of the version is dropped. *)
panicCMRecovered(raw) ==
    /\ up /\ raw \in task.sets
    /\ task.new[raw] = Nil \/ ~HasKey(raw)
    /\ task' = [task EXCEPT !.sets = {}, !.pops = {}]
    /\ UNCHANGED <<cmHist, cmSeen, cmCache, up>>

panicCM(raw) ==
    /\ up /\ raw \in task.sets
    /\ task.new[raw] = Nil \/ ~HasKey(raw)
    /\ up' = FALSE
    /\ UNCHANGED <<cmHist, cmSeen, cmCache, task>>

(* The kubelet restarts the container; all caches start empty. *)
Restart ==
    /\ ~up
    /\ up' = TRUE
    /\ cmSeen' = 0
    /\ cmCache' = EmptyCMCache
    /\ task' = NoTask
    /\ UNCHANGED cmHist

(* The second assignment of Clear(), which takes no lock. *)
ClearCM ==
    /\ up
    /\ cmCache' = EmptyCMCache
    /\ UNCHANGED <<cmHist, cmSeen, task, up>>

-----------------------------------------------------------------------------

CMLoops ==
    \/ \E raw \in task.sets : setCM(raw) \/ panicCM(raw)
    \/ \E raw \in task.pops : popCM(raw)

CMWriter == cmInformerEvent \/ cmResync \/ CMLoops

CMCacheNext ==
    \/ \E c \in Configs \cup {Nil} : CMWrite(c)
    \/ CMWriter
    \/ Restart

CMCacheSpec == CMCacheInit /\ [][CMCacheNext]_cmCacheVars

(* A handler that was called returns.  The informer queues events in order,  *)
(* so resyncs cannot keep a later version from being delivered, and what the *)
(* API server lists after a restart is not outdated for ever.                *)
CMCacheFairSpec ==
    /\ CMCacheSpec
    /\ WF_cmCacheVars(CMLoops)
    /\ SF_cmCacheVars(cmInformerEvent /\ cmSeen' = Len(cmHist))
    /\ WF_cmCacheVars(Restart)

-----------------------------------------------------------------------------
(* Properties.                                                             *)

(* A config without surprises: every key is namespace/name, every entry set. *)
Canonical(c) ==
    /\ c # Nil /\ c # Unparsable
    /\ \A raw \in DOMAIN c : raw \in CMKeys /\ c[raw] # Nil

(* The ConfigMap may start out missing; from then on it is always canonical. *)
CanonicalUpTo(n) == \A v \in 1 .. n : Canonical(cmHist[v]) \/ (v = 1 /\ cmHist[v] = Nil)
CanonicalHistory == CanonicalUpTo(Len(cmHist))

(* The entries cmCache should hold for a config. *)
CacheOf(c) ==
    [key \in CMKeys |-> IF Canonical(c) /\ key \in DOMAIN c THEN EntryOfCM(c[key]) ELSE Nil]

(* While every version is canonical, whenever populateCacheFromCM has        *)
(* returned cmCache holds exactly the entries of the version the informer    *)
(* delivered last, whichever versions it skipped (cache.go:403-436).         *)
CMCacheExact == CanonicalHistory /\ Idle => cmCache = CacheOf(CMStored)

(* Setting before removing (cache.go:413-434) leaves no gap: with canonical  *)
(* versions a lookup never misses a key that the version being applied has   *)
(* and the version before it had too.                                        *)
KeptKeysNeverMissing ==
    CanonicalHistory /\ Canonical(task.old)
        => \A key \in DOMAIN task.old \cap DOMAIN task.new : cmCache[key] # Nil

(* While canonical versions are delivered, a key of cmCache changes to its   *)
(* entry in the version being applied, or goes if that one has no entry for  *)
(* it: between two versions it never shows anything third, in whatever order *)
(* Go walks the maps (cache.go:413-434).                                     *)
KeysMoveStraight ==
    [][CanonicalUpTo(cmSeen)' => \A key \in CMKeys :
            cmCache'[key] # cmCache[key] => cmCache'[key] = CacheOf(CMStored)'[key]]_cmCacheVars

(* A config that ends the process, whichever of its entries are set first. *)
Panics(c) ==
    /\ c # Nil /\ c # Unparsable
    /\ \E raw \in DOMAIN c : c[raw] = Nil \/ ~HasKey(raw)

(* Every version is canonical, or it ends the process. *)
CanonicalOrPanics ==
    \A v \in 1 .. Len(cmHist) :
        Canonical(cmHist[v]) \/ Panics(cmHist[v]) \/ (v = 1 /\ cmHist[v] = Nil)

(* When the last version is canonical and every earlier one is canonical too *)
(* or ended the process halfway through, cmCache ends up with the entries of *)
(* the last one and stays there: nothing of a version that panicked, or that *)
(* was delivered before the restart, is left (cache.go:403-436; the          *)
(* informer, its resync, the loops and the restarts keep running).           *)
CMCacheConverges ==
    <>[](CanonicalOrPanics /\ Canonical(cmHist[Len(cmHist)])
            => cmCache = CacheOf(cmHist[Len(cmHist)]))
=============================================================================
