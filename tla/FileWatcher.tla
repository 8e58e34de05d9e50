---------------------------- MODULE FileWatcher ----------------------------
(***************************************************************************)
(* pkg/filesystem and pkg/containercredentials: the file that lists the    *)
(* accounts with container credentials, the fsnotify watch on its          *)
(* directory, the rate limited work queue with its one key, the worker     *)
(* that reloads the file, and the cache FileConfig.Get reads.              *)
(*                                                                         *)
(* The client-go work queue is external.  With a single key it comes down  *)
(* to one flag: Add marks the key dirty, Get takes the mark while the      *)
(* worker is at rest, a mark made during processing waits for Done.        *)
(***************************************************************************)
EXTENDS Integers, Sequences

CONSTANTS
    Accounts,       \* the identities a file can list
    Missing,        \* there is no file
    EmptyFile,      \* the file has no bytes, as after a truncation
    Broken,         \* its JSON does not parse
    Contents,       \* the contents users write
    ChangeEvents,   \* the names in the events of a change: "file", and "other"
                    \* where the path leads through a link that is swapped
    EventLimit,     \* capacity of the kernel's queue of directory events
    MaxChanges,     \* bound: changes of the file
    MaxOthers,      \* bound: changes of other files in the directory
    MaxIOErrors     \* bound: reads that fail although the file is there

ASSUME FileWatcherAssumption ==
    /\ Contents \subseteq {Missing, EmptyFile, Broken} \cup SUBSET Accounts
    /\ Missing # EmptyFile /\ Missing # Broken /\ EmptyFile # Broken
    /\ \A S \in SUBSET Accounts : S \notin {Missing, EmptyFile, Broken}
    /\ ChangeEvents \subseteq {"file", "other"}
    /\ EventLimit \in Nat \ {0}
    /\ MaxChanges \in Nat /\ MaxOthers \in Nat /\ MaxIOErrors \in Nat

workqueueBaseDelay == 10        \* milliseconds
workqueueMaxDelay == 300000

VARIABLES
    file,       \* what is on disk, and its version
    others,     \* changes of other files so far
    watch,      \* how far Watch() is: "new", "adding", "watching" or "fatal"
    events,     \* events not yet processed
    unseen,     \* the file's last change raises no reload: see ChangeFile
    listening,  \* the goroutine that processes events runs
    cancelled,  \* ctx is done
    dirty,      \* the key is marked for processing
    retry,      \* 0, or the delay AddRateLimited set for a pending retry
    backoff,    \* the delay the rate limiter has for the next failure
    worker,     \* where the worker is: "get", "stat", "read" or "load"
    content,    \* what loadFile passes to the handler, and its version
    cache,      \* the identities Get finds
    loaded,     \* the version of the last successful Load
    ioErrors    \* failed reads so far

watchVars == <<watch, listening, cancelled>>
queueVars == <<dirty, retry, backoff>>
workerVars == <<worker, content, cache, loaded, ioErrors>>
fwVars == <<file, others, events, unseen, watchVars, queueVars, workerVars>>

File == [c : Contents, v : Nat]

FileWatcherTypeOK ==
    /\ file \in File
    /\ others \in Nat
    /\ watch \in {"new", "adding", "watching", "fatal"}
    /\ events \in Seq({"file", "other"}) /\ Len(events) <= EventLimit
    /\ unseen \in BOOLEAN /\ listening \in BOOLEAN /\ cancelled \in BOOLEAN
    /\ dirty \in BOOLEAN
    /\ retry \in 0 .. workqueueMaxDelay
    /\ backoff \in workqueueBaseDelay .. workqueueMaxDelay
    /\ worker \in {"get", "stat", "read", "load"}
    /\ content \in File
    /\ cache \in SUBSET Accounts
    /\ loaded \in Nat
    /\ ioErrors \in Nat

FileWatcherInit ==
    /\ file \in {[c |-> c, v |-> 1] : c \in Contents}
    /\ others = 0
    /\ watch = "new"
    /\ events = <<>> /\ unseen = FALSE
    /\ listening = TRUE /\ cancelled = FALSE
    /\ dirty = FALSE /\ retry = 0 /\ backoff = workqueueBaseDelay
    /\ worker = "get" /\ content = file
    /\ cache = {} /\ loaded = 0
    /\ ioErrors = 0

Running == watch \in {"adding", "watching"}

-----------------------------------------------------------------------------
(* The directory.                                                          *)

(* The kernel queues an event while the directory is watched, or drops it. *)
Queued == watch = "watching" /\ listening /\ Len(events) < EventLimit
kernelEvent(name) == events' = IF Queued THEN Append(events, name) ELSE events

(* The content behind the path changes.  processEvent only knows the path:   *)
(* once Watch() has queued the first load, a change goes unseen if its event *)
(* is not queued or names another file, until the next change that is seen.  *)
ChangeFile(c, name) ==
    /\ file.v <= MaxChanges
    /\ c # file.c
    /\ file' = [c |-> c, v |-> file.v + 1]
    /\ kernelEvent(name)
    /\ unseen' = (watch # "new" /\ ~(Queued /\ name = "file"))
    /\ UNCHANGED <<others, watchVars, queueVars, workerVars>>

ChangeOther ==
    /\ others < MaxOthers
    /\ others' = others + 1
    /\ kernelEvent("other")
    /\ UNCHANGED <<file, unseen, watchVars, queueVars, workerVars>>

-----------------------------------------------------------------------------
(* Watch() and the goroutine that listens for events.                      *)

(* The initial load is queued, then the worker and the listener start; if    *)
(* there is no watcher, main exits.                                          *)
Watch ==
    /\ watch = "new"
    /\ dirty' = TRUE
    /\ watch' \in {"adding", "fatal"}
    /\ UNCHANGED <<file, others, events, unseen, listening, cancelled,
                   retry, backoff, workerVars>>

(* watcher.Add(dir), or klog.Fatal; adding to a closed watcher is an error.  *)
watcherAdd ==
    /\ watch = "adding"
    /\ \/ listening /\ watch' = "watching"
       \/ watch' = "fatal"
    /\ UNCHANGED <<file, others, events, unseen, listening, cancelled, queueVars, workerVars>>

(* Mutant: an event during processing is ignored. *)
processEventWhenIdle ==
    /\ Running /\ listening /\ events # <<>>
    /\ dirty' = (dirty \/ (Head(events) = "file" /\ worker = "get"))
    /\ events' = Tail(events)
    /\ UNCHANGED <<file, others, unseen, watchVars, retry, backoff, workerVars>>

processEvent ==
    /\ Running /\ listening /\ events # <<>>
    /\ dirty' = (dirty \/ Head(events) = "file")
    /\ events' = Tail(events)
    /\ UNCHANGED <<file, others, unseen, watchVars, retry, backoff, workerVars>>

cancel ==
    /\ ~cancelled
    /\ cancelled' = TRUE
    /\ UNCHANGED <<file, others, events, unseen, watch, listening, queueVars, workerVars>>

(* The listener's ctx.Done() case closes the watcher. *)
stopListening ==
    /\ Running /\ cancelled /\ listening
    /\ listening' = FALSE
    /\ events' = <<>>
    /\ UNCHANGED <<file, others, unseen, watch, cancelled, queueVars, workerVars>>

-----------------------------------------------------------------------------
(* The worker.  Nothing shuts the queue down, so it never leaves its loop.  *)

Get ==
    /\ Running /\ worker = "get" /\ dirty
    /\ dirty' = FALSE
    /\ worker' = "stat"
    /\ UNCHANGED <<file, others, events, unseen, watchVars, retry, backoff,
                   content, cache, loaded, ioErrors>>

(* os.Stat: without a file the handler gets nil at once. *)
statFile ==
    /\ Running /\ worker = "stat"
    /\ IF file.c = Missing
       THEN worker' = "load" /\ content' = file
       ELSE worker' = "read" /\ UNCHANGED content
    /\ UNCHANGED <<file, others, events, unseen, watchVars, queueVars, cache, loaded, ioErrors>>

(* Mutant: the rate limiter has no maximum. *)
DoubledWithoutLimit == 2 * backoff

(* NewItemExponentialFailureRateLimiter doubles the delay up to a maximum. *)
Doubled == IF 2 * backoff > workqueueMaxDelay THEN workqueueMaxDelay ELSE 2 * backoff

(* Mutant: a failure is logged and not retried. *)
AddNothing ==
    /\ backoff' = Doubled
    /\ UNCHANGED <<retry, dirty>>

(* AddRateLimited; of two pending delays the earlier one counts. *)
AddRateLimited ==
    /\ retry' = IF retry # 0 /\ retry < backoff THEN retry ELSE backoff
    /\ backoff' = Doubled
    /\ UNCHANGED dirty

(* ReadFile; the file may be gone since Stat, or unreadable. *)
readFile ==
    /\ Running /\ worker = "read"
    /\ file.c # Missing
    /\ content' = file
    /\ worker' = "load"
    /\ UNCHANGED <<file, others, events, unseen, watchVars, queueVars, cache, loaded, ioErrors>>

readError ==
    /\ Running /\ worker = "read"
    /\ \/ file.c = Missing /\ UNCHANGED ioErrors
       \/ ioErrors < MaxIOErrors /\ ioErrors' = ioErrors + 1
    /\ AddRateLimited
    /\ worker' = "get"
    /\ UNCHANGED <<file, others, events, unseen, watchVars, content, cache, loaded>>

(* The identities of a content that can be loaded. *)
Listed(c) == IF c \in {Missing, EmptyFile} THEN {} ELSE c

(* Mutant: the cache is emptied before parsing. *)
LoadClearsFirst ==
    /\ Running /\ worker = "load"
    /\ IF content.c = Broken
       THEN AddRateLimited /\ cache' = {} /\ UNCHANGED loaded
       ELSE /\ cache' = Listed(content.c)
            /\ loaded' = content.v
            /\ backoff' = workqueueBaseDelay
            /\ UNCHANGED <<dirty, retry>>
    /\ worker' = "get"
    /\ UNCHANGED <<file, others, events, unseen, watchVars, content, ioErrors>>

(* Mutant: the new identities are added to the old ones. *)
LoadAdds ==
    /\ Running /\ worker = "load"
    /\ IF content.c = Broken
       THEN AddRateLimited /\ UNCHANGED <<cache, loaded>>
       ELSE /\ cache' = cache \cup Listed(content.c)
            /\ loaded' = content.v
            /\ backoff' = workqueueBaseDelay
            /\ UNCHANGED <<dirty, retry>>
    /\ worker' = "get"
    /\ UNCHANGED <<file, others, events, unseen, watchVars, content, ioErrors>>

(* FileConfig.Load under its lock, then Forget or AddRateLimited, and Done. *)
Load ==
    /\ Running /\ worker = "load"
    /\ IF content.c = Broken
       THEN AddRateLimited /\ UNCHANGED <<cache, loaded>>
       ELSE /\ cache' = Listed(content.c)
            /\ loaded' = content.v
            /\ backoff' = workqueueBaseDelay
            /\ UNCHANGED <<dirty, retry>>
    /\ worker' = "get"
    /\ UNCHANGED <<file, others, events, unseen, watchVars, content, ioErrors>>

(* The delay of a retry is over: the queue adds the key. *)
retryFires ==
    /\ Running /\ retry # 0
    /\ retry' = 0
    /\ dirty' = TRUE
    /\ UNCHANGED <<file, others, events, unseen, watchVars, backoff, workerVars>>

-----------------------------------------------------------------------------

Worker == Get \/ statFile \/ readFile \/ readError \/ Load

FileWatcherNext ==
    \/ \E c \in Contents, name \in ChangeEvents : ChangeFile(c, name)
    \/ ChangeOther
    \/ Watch
    \/ watcherAdd
    \/ processEvent
    \/ cancel
    \/ stopListening
    \/ Worker
    \/ retryFires

FileWatcherSpec == FileWatcherInit /\ [][FileWatcherNext]_fwVars

(* Goroutines run and timers fire; nobody has to change files or to cancel.  *)
FileWatcherFairSpec ==
    /\ FileWatcherSpec
    /\ WF_fwVars(Watch) /\ WF_fwVars(watcherAdd)
    /\ WF_fwVars(processEvent) /\ WF_fwVars(stopListening)
    /\ WF_fwVars(Worker) /\ WF_fwVars(retryFires)

-----------------------------------------------------------------------------
(* Properties.                                                             *)

(* The worker is going to read the file again. *)
ReloadPending ==
    \/ \E i \in 1 .. Len(events) : events[i] = "file"
    \/ dirty
    \/ retry # 0
    \/ worker \in {"stat", "read"}

(* The first content and every change whose event names the path are never   *)
(* forgotten, whatever the worker was doing at the time and however often    *)
(* loading fails (file_watcher.go:107-146): the cache has the current        *)
(* version, or the worker holds it, or will read the file again.  A change   *)
(* that went unseen (lost to a full kernel queue, made while the watch was   *)
(* being set up, or behind a link) is made up for by the next seen one.      *)
NoUpdateForgotten ==
    Running /\ listening /\ ~unseen
    => \/ loaded = file.v
       \/ worker = "load" /\ content.v = file.v
       \/ ReloadPending

(* Once nothing is queued, pending or in progress, and the last change was   *)
(* seen, FileConfig.Get answers from the file as it is on disk, and its JSON *)
(* parses: with content that does not, there is always a retry to come       *)
(* (file_watcher.go:107-146, config.go:72-98).                               *)
CacheCurrentAtRest ==
    Running /\ listening /\ ~unseen /\ worker = "get" /\ ~ReloadPending
    => file.c # Broken /\ cache = Listed(file.c)

(* FileConfig.Get follows the file: it ends up with the identities of the    *)
(* file's last content, if that was seen and its JSON parses.                *)
CacheFollowsFile ==
    <>[](Running /\ listening /\ ~unseen /\ file.c # Broken
         => cache = Listed(file.c))

(* Loads never go back to an older version, and a load that fails leaves the *)
(* identities of the last loadable version in place (config.go:72-98).       *)
LoadsMoveForward ==
    [][loaded' >= loaded /\ (loaded' = loaded => cache' = cache)]_fwVars

(* "When the file is updated, Load will be invoked, and thus will refresh    *)
(* the cache." (config.go:65-66), with no condition on when it is updated.   *)
UpdatesAreLoaded ==
    <>[](watch = "watching" /\ listening /\ file.c # Broken => cache = Listed(file.c))
=============================================================================
