------------------------- MODULE FileWatcherProofs -------------------------
(***************************************************************************)
(* That the file watcher forgets no update and never goes back, for any    *)
(* contents, any number of changes, events and failed reads.               *)
(***************************************************************************)
EXTENDS FileWatcher, TLAPS

(* What the worker holds lies between what is loaded and what is on disk,    *)
(* and the cache has the identities of the loaded version.                   *)
Forward ==
    /\ loaded <= content.v /\ content.v <= file.v
    /\ content.v = file.v => content = file
    /\ content.v = loaded => content.c # Broken /\ cache = Listed(content.c)

FWInv == FileWatcherTypeOK /\ Forward /\ NoUpdateForgotten

LEMMA ListedType ==
    ASSUME NEW c \in Contents, c # Broken PROVE Listed(c) \in SUBSET Accounts
BY FileWatcherAssumption DEF Listed

LEMMA DelayBounds ==
    /\ workqueueBaseDelay \in Nat \ {0} /\ workqueueMaxDelay \in Nat
    /\ workqueueBaseDelay <= workqueueMaxDelay
BY SMT DEF workqueueBaseDelay, workqueueMaxDelay

LEMMA AddRateLimitedType ==
    ASSUME FileWatcherTypeOK, AddRateLimited
    PROVE  /\ retry' \in 0 .. workqueueMaxDelay /\ retry' # 0
           /\ backoff' \in workqueueBaseDelay .. workqueueMaxDelay
           /\ dirty' = dirty
BY DelayBounds DEF FileWatcherTypeOK, AddRateLimited, Doubled

LEMMA FWInit == FileWatcherInit => FWInv
<1> SUFFICES ASSUME FileWatcherInit PROVE FWInv
  OBVIOUS
<1>1. FileWatcherTypeOK
  <2>1. PICK c \in Contents : file = [c |-> c, v |-> 1]
    BY DEF FileWatcherInit
  <2>2. events \in Seq({"file", "other"}) /\ Len(events) <= EventLimit
    BY FileWatcherAssumption DEF FileWatcherInit
  <2>3. file \in File /\ content \in File
    BY <2>1 DEF FileWatcherInit, File
  <2>4. retry \in 0 .. workqueueMaxDelay /\ backoff \in workqueueBaseDelay .. workqueueMaxDelay
    BY DelayBounds DEF FileWatcherInit
  <2>5. others \in Nat /\ loaded \in Nat /\ ioErrors \in Nat
    BY DEF FileWatcherInit
  <2> QED
    BY <2>2, <2>3, <2>4, <2>5 DEF FileWatcherInit, FileWatcherTypeOK
<1>2. Forward
  BY DEF FileWatcherInit, Forward
<1> QED
  BY <1>1, <1>2 DEF FWInv, NoUpdateForgotten, Running, FileWatcherInit

LEMMA KernelEventType ==
    ASSUME FileWatcherTypeOK, NEW name \in {"file", "other"}, kernelEvent(name)
    PROVE  events' \in Seq({"file", "other"}) /\ Len(events') <= EventLimit
<1>1. CASE UNCHANGED events
  BY <1>1 DEF FileWatcherTypeOK
<1>2. CASE Len(events) < EventLimit /\ events' = Append(events, name)
  BY <1>2, FileWatcherAssumption DEF FileWatcherTypeOK
<1> QED
  BY <1>1, <1>2 DEF kernelEvent, Queued

LEMMA TypeStep == FileWatcherTypeOK /\ [FileWatcherNext]_fwVars => FileWatcherTypeOK'
<1> SUFFICES ASSUME FileWatcherTypeOK, [FileWatcherNext]_fwVars PROVE FileWatcherTypeOK'
  OBVIOUS
<1> USE DEF File, watchVars, queueVars, workerVars
<1>1. ASSUME NEW c \in Contents, NEW name \in ChangeEvents, ChangeFile(c, name)
      PROVE  FileWatcherTypeOK'
  <2>1. events' \in Seq({"file", "other"}) /\ Len(events') <= EventLimit
    BY <1>1, KernelEventType, FileWatcherAssumption DEF ChangeFile
  <2>2. unseen' \in BOOLEAN
    BY <1>1 DEF ChangeFile
  <2> QED
    BY <1>1, <2>1, <2>2 DEF ChangeFile, FileWatcherTypeOK
<1>2. CASE ChangeOther
  BY <1>2, KernelEventType DEF ChangeOther, FileWatcherTypeOK
<1>3. CASE Watch
  BY <1>3 DEF Watch, FileWatcherTypeOK
<1>4. CASE watcherAdd
  BY <1>4 DEF watcherAdd, FileWatcherTypeOK
<1>5. CASE processEvent
  <2>1. events' \in Seq({"file", "other"}) /\ Len(events') <= EventLimit
    BY <1>5, FileWatcherAssumption DEF processEvent, FileWatcherTypeOK
  <2>2. dirty' \in BOOLEAN
    BY <1>5 DEF processEvent
  <2> QED
    BY <1>5, <2>1, <2>2 DEF processEvent, FileWatcherTypeOK
<1>6. CASE cancel
  BY <1>6 DEF cancel, FileWatcherTypeOK
<1>7. CASE stopListening
  <2>1. events' \in Seq({"file", "other"}) /\ Len(events') <= EventLimit
    BY <1>7, FileWatcherAssumption DEF stopListening
  <2> QED
    BY <1>7, <2>1 DEF stopListening, FileWatcherTypeOK
<1>8. CASE Get
  BY <1>8 DEF Get, FileWatcherTypeOK
<1>9. CASE statFile
  BY <1>9 DEF statFile, FileWatcherTypeOK
<1>10. CASE readFile
  BY <1>10 DEF readFile, FileWatcherTypeOK
<1>11. CASE readError
  BY <1>11, AddRateLimitedType DEF readError, FileWatcherTypeOK
<1>12. CASE Load
  <2>1. CASE content.c = Broken
    BY <1>12, <2>1, AddRateLimitedType DEF Load, FileWatcherTypeOK
  <2>2. CASE content.c # Broken
    BY <1>12, <2>2, ListedType, DelayBounds DEF Load, FileWatcherTypeOK
  <2> QED
    BY <2>1, <2>2
<1>13. CASE retryFires
  BY <1>13, DelayBounds DEF retryFires, FileWatcherTypeOK
<1>14. CASE UNCHANGED fwVars
  BY <1>14 DEF fwVars, FileWatcherTypeOK
<1> QED
  BY <1>1, <1>2, <1>3, <1>4, <1>5, <1>6, <1>7, <1>8, <1>9, <1>10, <1>11, <1>12, <1>13, <1>14
  DEF FileWatcherNext, Worker

LEMMA ForwardStep == FileWatcherTypeOK /\ Forward /\ [FileWatcherNext]_fwVars => Forward'
<1> SUFFICES ASSUME FileWatcherTypeOK, Forward, [FileWatcherNext]_fwVars PROVE Forward'
  OBVIOUS
<1> USE DEF File, FileWatcherTypeOK
<1>1. ASSUME NEW c \in Contents, NEW name \in ChangeEvents, ChangeFile(c, name)
      PROVE  Forward'
  BY <1>1 DEF ChangeFile, Forward, Listed, workerVars
<1>2. CASE statFile \/ readFile
  <2>1. UNCHANGED <<file, cache, loaded>> /\ (content' = content \/ content' = file)
    BY <1>2 DEF statFile, readFile
  <2>2. CASE content' = content
    BY <2>1, <2>2 DEF Forward, Listed
  <2>3. CASE content' = file
    <3>1. file.v = loaded => content = file
      BY DEF Forward
    <3> QED
      BY <2>1, <2>3, <3>1 DEF Forward, Listed
  <2> QED
    BY <2>1, <2>2, <2>3
<1>3. CASE Load
  BY <1>3 DEF Load, Forward, Listed
<1>4. CASE UNCHANGED <<file, content, cache, loaded>>
  BY <1>4 DEF Forward, Listed
<1> QED
  BY <1>1, <1>2, <1>3, <1>4
  DEF FileWatcherNext, Worker, ChangeOther, Watch, watcherAdd, processEvent, cancel,
      stopListening, Get, readError, retryFires, fwVars, workerVars

FilePending(s) == \E i \in 1 .. Len(s) : s[i] = "file"

LEMMA PendingAppend ==
    ASSUME NEW s \in Seq({"file", "other"}), NEW name \in {"file", "other"},
           FilePending(s) \/ name = "file"
    PROVE  FilePending(Append(s, name))
<1>1. CASE FilePending(s)
  <2>1. PICK i \in 1 .. Len(s) : s[i] = "file"
    BY <1>1 DEF FilePending
  <2>2. i \in 1 .. Len(Append(s, name)) /\ Append(s, name)[i] = "file"
    BY <2>1
  <2> QED
    BY <2>2 DEF FilePending
<1>2. CASE name = "file"
  <2>1. Len(s) + 1 \in 1 .. Len(Append(s, name)) /\ Append(s, name)[Len(s) + 1] = "file"
    BY <1>2
  <2> QED
    BY <2>1 DEF FilePending
<1> QED
  BY <1>1, <1>2

LEMMA PendingTail ==
    ASSUME NEW s \in Seq({"file", "other"}), s # <<>>, FilePending(s)
    PROVE  FilePending(Tail(s)) \/ Head(s) = "file"
<1>1. PICK i \in 1 .. Len(s) : s[i] = "file"
  BY DEF FilePending
<1>2. CASE i = 1
  BY <1>1, <1>2
<1>3. CASE i # 1
  <2>1. i - 1 \in 1 .. Len(Tail(s)) /\ Tail(s)[i - 1] = "file"
    BY <1>1, <1>3
  <2> QED
    BY <2>1 DEF FilePending
<1> QED
  BY <1>2, <1>3

LEMMA UpdateStep == FWInv /\ [FileWatcherNext]_fwVars => NoUpdateForgotten'
<1> SUFFICES ASSUME FWInv, [FileWatcherNext]_fwVars PROVE NoUpdateForgotten'
  OBVIOUS
<1> USE DEF NoUpdateForgotten, ReloadPending, Running
<1>0. FileWatcherTypeOK /\ Forward /\ NoUpdateForgotten
  BY DEF FWInv
<1>1. ASSUME NEW c \in Contents, NEW name \in ChangeEvents, ChangeFile(c, name)
      PROVE  NoUpdateForgotten'
  <2> SUFFICES ASSUME Running', ~unseen' PROVE FilePending(events')
    BY DEF FilePending
  <2>1. watch # "new"
    BY <1>1 DEF ChangeFile, watchVars, Running
  <2>2. Queued /\ name = "file"
    BY <1>1, <2>1 DEF ChangeFile
  <2>3. events' = Append(events, "file")
    BY <1>1, <2>2 DEF ChangeFile, kernelEvent
  <2> QED
    BY <1>0, <2>3, PendingAppend DEF FileWatcherTypeOK
<1>2. CASE ChangeOther
  <2>1. kernelEvent("other") /\ UNCHANGED <<file, watchVars, queueVars, workerVars>>
    BY <1>2 DEF ChangeOther
  <2>2. unseen' = unseen
    BY <1>2 DEF ChangeOther
  <2>3. FilePending(events) => FilePending(events')
    <3>1. events' = events \/ events' = Append(events, "other")
      BY <2>1 DEF kernelEvent
    <3>2. ASSUME FilePending(events) PROVE FilePending(Append(events, "other"))
      BY <1>0, <3>2, PendingAppend DEF FileWatcherTypeOK
    <3> QED
      BY <3>1, <3>2
  <2> QED
    BY <1>0, <2>1, <2>2, <2>3 DEF FilePending, watchVars, queueVars, workerVars
<1>3. CASE Watch
  BY <1>3 DEF Watch
<1>4. CASE watcherAdd
  BY <1>0, <1>4 DEF watcherAdd, queueVars, workerVars
<1>5. CASE processEvent
  <2>1. FilePending(events) => FilePending(events') \/ dirty'
    BY <1>0, <1>5, PendingTail DEF processEvent, FileWatcherTypeOK
  <2>2. dirty => dirty'
    BY <1>5 DEF processEvent
  <2> QED
    BY <1>0, <1>5, <2>1, <2>2 DEF processEvent, FilePending, watchVars, workerVars
<1>6. CASE cancel
  BY <1>0, <1>6 DEF cancel, queueVars, workerVars
<1>7. CASE stopListening
  BY <1>7 DEF stopListening
<1>8. CASE Get
  BY <1>0, <1>8 DEF Get, watchVars
<1>9. CASE statFile
  BY <1>0, <1>9 DEF statFile, watchVars, queueVars
<1>10. CASE readFile
  BY <1>0, <1>10 DEF readFile, watchVars, queueVars
<1>11. CASE readError
  BY <1>0, <1>11, AddRateLimitedType DEF readError
<1>12. CASE Load
  <2>1. CASE content.c = Broken
    BY <1>0, <1>12, <2>1, AddRateLimitedType DEF Load
  <2>2. CASE content.c # Broken
    <3>1. /\ loaded' = content.v
          /\ UNCHANGED <<file, events, unseen, watchVars, dirty, retry>>
          /\ worker = "load"
      BY <1>12, <2>2 DEF Load
    <3>2. loaded = file.v => content.v = file.v
      BY <1>0 DEF Forward, FileWatcherTypeOK, File
    <3> QED
      BY <1>0, <3>1, <3>2 DEF watchVars
  <2> QED
    BY <2>1, <2>2
<1>13. CASE retryFires
  BY <1>13 DEF retryFires
<1>14. CASE UNCHANGED fwVars
  BY <1>0, <1>14 DEF fwVars, watchVars, queueVars, workerVars
<1> QED
  BY <1>1, <1>2, <1>3, <1>4, <1>5, <1>6, <1>7, <1>8, <1>9, <1>10, <1>11, <1>12, <1>13, <1>14
  DEF FileWatcherNext, Worker

LEMMA FWInvariant == FileWatcherSpec => []FWInv
<1>1. FWInv /\ [FileWatcherNext]_fwVars => FWInv'
  BY TypeStep, ForwardStep, UpdateStep DEF FWInv
<1> QED
  BY <1>1, FWInit, PTL DEF FileWatcherSpec

(* The watcher, the queue, the worker and the cache stay well-formed; the    *)
(* rate limiter's delay never leaves its range.                              *)
THEOREM FileWatcherTypeCorrect == FileWatcherSpec => []FileWatcherTypeOK
BY FWInvariant, PTL DEF FWInv

(* The first content and every change whose event names the path is loaded,  *)
(* being loaded, or going to be read again: in no interleaving of writers,   *)
(* listener, worker and retry timer is it forgotten.                         *)
THEOREM UpdatesNeverForgotten == FileWatcherSpec => []NoUpdateForgotten
BY FWInvariant, PTL DEF FWInv

(* With no work left the cache is that of the file on disk, for any contents *)
(* and any number of changes, overlapping loads, retries and failed reads.   *)
THEOREM CacheIsCurrentAtRest == FileWatcherSpec => []CacheCurrentAtRest
<1>1. FWInv => CacheCurrentAtRest
  <2> SUFFICES ASSUME FWInv, Running, listening, ~unseen, worker = "get", ~ReloadPending
               PROVE  file.c # Broken /\ cache = Listed(file.c)
    BY DEF CacheCurrentAtRest
  <2>1. loaded = file.v
    BY DEF FWInv, NoUpdateForgotten
  <2>2. content = file
    BY <2>1 DEF FWInv, Forward, FileWatcherTypeOK, File
  <2> QED
    BY <2>1, <2>2 DEF FWInv, Forward
<1> QED
  BY <1>1, FWInvariant, PTL

(* No load replaces the identities by those of an older version of the file, *)
(* and only a successful load of a newer version changes them.               *)
THEOREM LoadsOnlyMoveForward == FileWatcherSpec => LoadsMoveForward
<1>1. FWInv /\ [FileWatcherNext]_fwVars
        => [loaded' >= loaded /\ (loaded' = loaded => cache' = cache)]_fwVars
  <2> SUFFICES ASSUME FWInv, FileWatcherNext
               PROVE  loaded' >= loaded /\ (loaded' = loaded => cache' = cache)
    OBVIOUS
  <2>1. CASE Load
    BY <2>1 DEF Load, FWInv, Forward, FileWatcherTypeOK, File
  <2>2. CASE UNCHANGED <<loaded, cache>>
    BY <2>2 DEF FWInv, FileWatcherTypeOK
  <2> QED
    BY <2>1, <2>2
    DEF FileWatcherNext, Worker, ChangeFile, ChangeOther, Watch, watcherAdd, processEvent,
        cancel, stopListening, Get, statFile, readFile, readError, retryFires, workerVars
<1> QED
  BY <1>1, FWInvariant, PTL DEF FileWatcherSpec, LoadsMoveForward
=============================================================================
