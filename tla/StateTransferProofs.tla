------------------------ MODULE StateTransferProofs ------------------------
(***************************************************************************)
(* Theorems of StateTransfer, for every set of jobs, events, harvesters    *)
(* and tasks and every bound.                                              *)
(***************************************************************************)
EXTENDS StateTransfer, TLAPS

LEMMA StatusNotNoState == NoState \notin Status
BY DEF NoState, Status, PEND, EXIT

LEMMA EmptyMapType == EmptyMap \in StatusMap
BY DEF EmptyMap, StatusMap

\* A status getState finds is one of the map's.
LEMMA GetStateType == \A e \in Events : getState(e) \in Status \cup {NoState}
BY ConstantsAssumption
   DEF getState, eventStateMapping, Status, PEND, RUN, EXIT, NoState

LEMMA GetReasonType == \A e \in Events : getReason(e) \in Reasons
BY ConstantsAssumption
   DEF getReason, getExitReason, Reasons, exitReason, NoReason, JobSubmitted, JobStarts

\* The message of a changed status is well formed.
LEMMA MessageType ==
    ASSUME TypeOK, NEW e \in Events, getState(e) # NoState
    PROVE  stateToMessageWithTopic(e.job, mmap[e.job], getState(e), getReason(e),
                                   recordJobProperty(e)[e.job]) \in Messages
<1>1. e.job \in Jobs /\ e.prop \in PropVals
  BY ConstantsAssumption
<1>2. mmap[e.job] \in Status \cup {NoState}
  BY <1>1 DEF TypeOK, StatusMap
<1>3. getState(e) \in Status
  BY GetStateType
<1>4. recordJobProperty(e)[e.job] \in PropVals \cup {NoProp}
  BY <1>1 DEF TypeOK, recordJobProperty
<1> QED
  BY <1>1, <1>2, <1>3, <1>4, GetReasonType DEF stateToMessageWithTopic, Messages, Published

-----------------------------------------------------------------------------
(* Type correctness, with what makes it inductive: the parser goroutine has  *)
(* a message whenever it is at work.                                         *)

TypeInv ==
    /\ TypeOK
    /\ pc # "idle" => msg \in Messages

LEMMA LoadFileType == TypeOK => LoadFile \in StatusMap
BY EmptyMapType DEF TypeOK, LoadFile

LEMMA TypeInit == Init => TypeInv
<1> SUFFICES ASSUME Init PROVE TypeInv
  OBVIOUS
<1>1. modified \in BOOLEAN /\ booted \in BOOLEAN /\ cron \in BOOLEAN
  BY DEF Init
<1>2. events \in Nat /\ crashes \in Nat /\ errors \in Nat
  BY DEF Init
<1> QED
  BY <1>1, <1>2, EmptyMapType DEF Init, TypeInv, TypeOK

LEMMA TypeNext == TypeInv /\ [Next]_vars => TypeInv'
<1> SUFFICES ASSUME TypeInv, [Next]_vars PROVE TypeInv'
  OBVIOUS
<1> USE DEF TypeInv, TypeOK
<1>1. ASSUME NEW h \in Harvesters, NEW e \in Events, HandleUnchanged(h, e)
      PROVE  TypeInv'
  BY <1>1, ConstantsAssumption DEF HandleUnchanged, Post, recordJobProperty, syncVars
<1>2. ASSUME NEW h \in Harvesters, NEW e \in Events, HandleChange(h, e)
      PROVE  TypeInv'
  <2>1. msg' \in Messages
    BY <1>2, MessageType DEF HandleChange
  <2>2. pmap' \in [Jobs -> PropVals \cup {NoProp}] /\ events' \in Nat
    BY <1>2, ConstantsAssumption DEF HandleChange, Post, recordJobProperty
  <2> QED
    BY <1>2, <2>1, <2>2 DEF HandleChange, Post, syncVars
<1>3. CASE WriteState
  BY <1>3 DEF WriteState, WriteMap, syncVars, Messages, StatusMap
<1>4. CASE DeleteFinished
  BY <1>4 DEF DeleteFinished, DelMap, syncVars, Messages, StatusMap
<1>5. ASSUME NEW h \in Harvesters, Reply(h)
      PROVE  TypeInv'
  BY <1>5 DEF Reply, syncVars, mapVars
<1>6. ASSUME NEW t \in Tasks, Task(t)
      PROVE  TypeInv'
  <2>1. CASE Tick(t) \/ CheckModified(t)
    BY <2>1 DEF Tick, CheckModified, mapVars, handlerVars
  <2>2. CASE ClearModified(t)
    BY <2>2 DEF ClearModified, UnsetModified, handlerVars
  <2>3. CASE TaskBeginSync(t)
    BY <2>3 DEF TaskBeginSync, Truncate, Error, mapVars, handlerVars, Syncers
  <2>4. CASE TaskEndSync(t)
    BY <2>4, EmptyMapType DEF TaskEndSync, WriteFile, Error, mapVars, handlerVars, Syncers
  <2> QED
    BY <1>6, <2>1, <2>2, <2>3, <2>4 DEF Task
<1>7. ASSUME NEW h \in Harvesters, StartHarvester(h)
      PROVE  TypeInv'
  BY <1>7, LoadFileType DEF StartHarvester, handlerVars
<1>8. ASSUME NEW h \in Harvesters, EndHarvester(h)
      PROVE  TypeInv'
  BY <1>8 DEF EndHarvester, mapVars, handlerVars, syncVars
<1>9. ASSUME NEW h \in Harvesters, StopSyncTask(h)
      PROVE  TypeInv'
  <2>1. cron' \in BOOLEAN
    BY <1>9 DEF StopSyncTask, StopBeginSync, StopEndSync
  <2>2. errors' \in Nat
    BY <1>9 DEF StopSyncTask, StopBeginSync, StopEndSync, Truncate, WriteFile, Error
  <2>3. CASE StopBeginSync(h)
    BY <2>1, <2>2, <2>3 DEF StopBeginSync, Truncate, Error, mapVars, handlerVars, Syncers
  <2>4. CASE StopEndSync(h)
    BY <2>1, <2>2, <2>4, EmptyMapType
       DEF StopEndSync, WriteFile, Error, mapVars, handlerVars, Syncers
  <2> QED
    BY <1>9, <2>3, <2>4 DEF StopSyncTask
<1>10. CASE Crash
  <2>1. modified' \in BOOLEAN /\ booted' \in BOOLEAN /\ cron' \in BOOLEAN
    BY <1>10 DEF Crash
  <2>2. crashes' \in Nat /\ events' \in Nat /\ errors' \in Nat
    BY <1>10 DEF Crash
  <2> QED
    BY <1>10, <2>1, <2>2, EmptyMapType DEF Crash
<1>11. CASE UNCHANGED vars
  BY <1>11 DEF vars, mapVars, handlerVars, syncVars
<1> QED
  BY <1>1, <1>2, <1>3, <1>4, <1>5, <1>6, <1>7, <1>8, <1>9, <1>10, <1>11
     DEF Next, StableNext, Handle

\* Type correctness of the status map, its snapshot and its goroutines.
THEOREM TypeCorrect == Spec => []TypeOK
<1>1. Init => TypeInv
  BY TypeInit
<1>2. TypeInv /\ [Next]_vars => TypeInv'
  BY TypeNext
<1>3. TypeInv => TypeOK
  BY DEF TypeInv
<1> QED
  BY <1>1, <1>2, <1>3, PTL DEF Spec

-----------------------------------------------------------------------------
(* The invariant behind the snapshot and the properties.  By itself none of   *)
(* CleanMeansSaved, StoppedMeansSaved and PropsTracked is inductive: they     *)
(* need that a text on its way to the file is the map (the read lock), that a *)
(* harvester waits while the parser goroutine is at work (so one that ends    *)
(* has seen its records through) and that nothing runs before the map is      *)
(* loaded.                                                                    *)

LockInv == \A p \in Syncers : Syncing(p) => buf[p] = mmap

Waited == pc # "idle" => \E h \in Harvesters : hpc[h] = "waiting"

Unbooted ==
    ~booted =>
        /\ ~cron
        /\ pc = "idle"
        /\ \A h \in Harvesters : hpc[h] = "stopped"
        /\ \A t \in Tasks : tpc[t] = "off"
        /\ \A j \in Jobs : pmap[j] = NoProp

PropsInv ==
    \A j \in Jobs : pmap[j] # NoProp =>
        mmap[j] # NoState \/ (pc = "write" /\ msg.job = j)

SavedInv ==
    /\ TypeInv
    /\ LockInv
    /\ Waited
    /\ Unbooted
    /\ PropsInv
    /\ CleanMeansSaved
    /\ StoppedMeansSaved

USE ConstantsAssumption

LEMMA SavedInit == Init => SavedInv
<1> SUFFICES ASSUME Init PROVE SavedInv
  OBVIOUS
<1>1. TypeInv
  BY TypeInit
<1>2. LockInv /\ Waited /\ Unbooted /\ PropsInv
  BY DEF Init, LockInv, Waited, Unbooted, PropsInv, Syncing, Syncers
<1>3. CleanMeansSaved /\ StoppedMeansSaved
  BY DEF Init, CleanMeansSaved, StoppedMeansSaved
<1> QED
  BY <1>1, <1>2, <1>3 DEF SavedInv

\* The parser goroutine at work keeps the invariant.
LEMMA SavedHandle == SavedInv /\ Handle => SavedInv'
<1> SUFFICES ASSUME SavedInv, Handle PROVE SavedInv'
  OBVIOUS
<1>1. TypeInv'
  BY TypeNext DEF SavedInv, Next, StableNext
<1> USE DEF SavedInv, TypeInv, TypeOK, StatusMap
<1>2. ASSUME NEW h \in Harvesters, NEW e \in Events, HandleUnchanged(h, e)
      PROVE  SavedInv'
  <2>1. UNCHANGED <<mmap, modified, hpc, tpc, buf, pc, msg, snapshot, booted, cron, errors>>
    BY <1>2 DEF HandleUnchanged, Post, syncVars
  <2>2. hpc[h] = "running" /\ booted
    BY <1>2 DEF HandleUnchanged, Post, Unbooted
  <2>3. PropsInv'
    BY <1>2, <2>1 DEF PropsInv, HandleUnchanged, Post, recordJobProperty, getState,
                      eventStateMapping, PEND, NoState
  <2> QED
    BY <1>1, <2>1, <2>2, <2>3
       DEF LockInv, Waited, Unbooted, CleanMeansSaved, StoppedMeansSaved, Syncing,
           NoReader, LoadFile, Promised
<1>3. ASSUME NEW h \in Harvesters, NEW e \in Events, HandleChange(h, e)
      PROVE  SavedInv'
  <2>1. UNCHANGED <<mmap, modified, tpc, buf, snapshot, booted, cron, errors>>
    BY <1>3 DEF HandleChange, Post, syncVars
  <2>2. hpc[h] = "running" /\ booted /\ hpc' = [hpc EXCEPT ![h] = "waiting"]
    BY <1>3 DEF HandleChange, Post, Unbooted
  <2>3. \A p \in Syncers : Syncing(p)' <=> Syncing(p)
    BY <2>1, <2>2 DEF Syncing, Syncers
  <2>4. PropsInv'
    <3>1. e.job \in Jobs /\ pc = "idle" /\ msg'.job = e.job
      BY <1>3 DEF HandleChange, Post, stateToMessageWithTopic
    <3>2. CASE e.type = "JOB_NEW"
      <4>1. getState(e) = PEND
        BY <3>2 DEF getState, eventStateMapping
      <4>2. mmap[e.job] # NoState \/ pc' = "write"
        BY <1>3, <4>1 DEF HandleChange, Finished, PEND, UNKWN
      <4> QED
        BY <1>3, <2>1, <3>1, <4>2 DEF PropsInv, HandleChange, Post, recordJobProperty
    <3>3. CASE e.type # "JOB_NEW"
      BY <1>3, <2>1, <3>1, <3>3 DEF PropsInv, HandleChange, Post, recordJobProperty
    <3> QED
      BY <3>2, <3>3
  <2> QED
    BY <1>1, <2>1, <2>2, <2>3, <2>4
       DEF LockInv, Waited, Unbooted, CleanMeansSaved, StoppedMeansSaved,
           NoReader, LoadFile, Promised
<1>4. ASSUME WriteState \/ DeleteFinished
      PROVE  SavedInv'
  <2>1. /\ NoReader /\ modified' = TRUE /\ pc # "idle"
        /\ UNCHANGED <<hpc, tpc, buf, booted, cron, msg>>
    BY <1>4 DEF WriteState, DeleteFinished, WriteMap, DelMap, syncVars
  <2>2. \E h \in Harvesters : hpc[h] = "waiting"
    BY <2>1 DEF Waited
  <2>3. LockInv' /\ Waited' /\ Unbooted' /\ CleanMeansSaved' /\ StoppedMeansSaved'
    BY <2>1, <2>2
       DEF LockInv, Waited, Unbooted, CleanMeansSaved, StoppedMeansSaved, NoReader, Syncing
  <2>4. PropsInv'
    BY <1>4, <2>1, StatusNotNoState
       DEF PropsInv, WriteState, DeleteFinished, WriteMap, DelMap, Messages
  <2> QED
    BY <1>1, <2>3, <2>4
<1>5. ASSUME NEW h \in Harvesters, Reply(h)
      PROVE  SavedInv'
  <2>1. /\ UNCHANGED <<mmap, modified, pmap, tpc, buf, snapshot, booted, cron, errors>>
        /\ pc = "reply" /\ pc' = "idle"
        /\ hpc' = [hpc EXCEPT ![h] = "running"]
    BY <1>5 DEF Reply, mapVars, syncVars
  <2>2. hpc[h] = "waiting" /\ booted
    BY <1>5, <2>1 DEF Reply, Unbooted
  <2>3. \A p \in Syncers : Syncing(p)' <=> Syncing(p)
    BY <2>1, <2>2 DEF Syncing, Syncers
  <2> QED
    BY <1>1, <2>1, <2>2, <2>3
       DEF LockInv, Waited, Unbooted, PropsInv, CleanMeansSaved, StoppedMeansSaved,
           NoReader, LoadFile, Promised
<1> QED
  BY <1>2, <1>3, <1>4, <1>5 DEF Handle

\* A scheduled task keeps it: the flag is cleared before the map is read, and the
\* map cannot change while the file is written.
LEMMA SavedTask ==
    ASSUME SavedInv, NEW t \in Tasks, Task(t)
    PROVE  SavedInv'
<1>1. TypeInv'
  BY TypeNext DEF SavedInv, Next, StableNext
<1> USE DEF SavedInv, TypeInv, TypeOK, StatusMap
<1>2. /\ UNCHANGED <<mmap, pmap, pc, msg, booted, cron, hpc>>
      /\ tpc' \in [Tasks -> {"off", "check", "unset", "sync", "writing"}]
      /\ \A u \in Tasks : u # t => tpc'[u] = tpc[u]
  <2>1. UNCHANGED <<mmap, pmap, pc, msg, booted, cron, hpc>>
    BY DEF Task, Tick, CheckModified, ClearModified, UnsetModified, TaskBeginSync,
           TaskEndSync, mapVars, handlerVars
  <2>2. tpc' \in [Tasks -> {"off", "check", "unset", "sync", "writing"}]
    BY <1>1
  <2>3. \A u \in Tasks : u # t => tpc'[u] = tpc[u]
    <3>1. CASE Tick(t)
      BY <3>1 DEF Tick
    <3>2. CASE CheckModified(t)
      BY <3>2 DEF CheckModified
    <3>3. CASE ClearModified(t)
      BY <3>3 DEF ClearModified
    <3>4. CASE TaskBeginSync(t)
      BY <3>4 DEF TaskBeginSync
    <3>5. CASE TaskEndSync(t)
      BY <3>5 DEF TaskEndSync
    <3> QED
      BY <3>1, <3>2, <3>3, <3>4, <3>5 DEF Task
  <2> QED
    BY <2>1, <2>2, <2>3
<1>3. Waited' /\ PropsInv'
  BY <1>2 DEF Waited, PropsInv
<1>4. Unbooted'
  BY <1>2 DEF Unbooted, Task, Tick, CheckModified, ClearModified, TaskBeginSync, TaskEndSync
<1>5. CASE Tick(t) \/ CheckModified(t)
  <2>1. UNCHANGED <<modified, snapshot, buf, errors>> /\ tpc[t] \in {"off", "check"}
        /\ tpc'[t] \in {"off", "check", "unset"}
    BY <1>5 DEF Tick, CheckModified, mapVars
  <2>2. \A p \in Syncers : Syncing(p)' <=> Syncing(p)
    BY <2>1, <1>2 DEF Syncing, Syncers
  <2>3. Promised' <=> Promised
    BY <2>1, <1>2 DEF Promised
  <2>4. LockInv'
    BY <1>2, <2>1, <2>2 DEF LockInv
  <2>5. CleanMeansSaved' /\ StoppedMeansSaved'
    BY <1>2, <2>1, <2>2, <2>3 DEF CleanMeansSaved, StoppedMeansSaved, NoReader, LoadFile
  <2> QED
    BY <1>1, <1>3, <1>4, <2>4, <2>5
<1>6. CASE ClearModified(t)
  <2>1. UNCHANGED <<snapshot, buf, errors>> /\ tpc[t] = "unset" /\ tpc'[t] = "sync"
    BY <1>6 DEF ClearModified, UnsetModified
  <2>2. \A p \in Syncers : Syncing(p)' <=> Syncing(p)
    BY <2>1, <1>2 DEF Syncing, Syncers
  <2>3. Promised'
    BY <2>1 DEF Promised
  <2>4. LockInv'
    BY <1>2, <2>1, <2>2 DEF LockInv
  <2>5. CleanMeansSaved' /\ StoppedMeansSaved'
    BY <1>2, <2>1, <2>2, <2>3 DEF CleanMeansSaved, StoppedMeansSaved, NoReader, LoadFile
  <2> QED
    BY <1>1, <1>3, <1>4, <2>4, <2>5
<1>7. CASE TaskBeginSync(t)
  <2>1. CASE Truncate(t) /\ tpc' = [tpc EXCEPT ![t] = "writing"]
    <3>1. Syncing(t)' /\ buf' = [buf EXCEPT ![t] = mmap] /\ t \in Syncers
      BY <2>1 DEF Truncate, Syncing, Syncers
    <3>2. LockInv'
      BY <1>2, <3>1 DEF LockInv, Syncing, Syncers
    <3>3. ~NoReader'
      BY <3>1 DEF NoReader
    <3> QED
      BY <1>1, <1>3, <1>4, <3>2, <3>3 DEF CleanMeansSaved, StoppedMeansSaved
  <2>2. CASE Error /\ tpc' = [tpc EXCEPT ![t] = "off"] /\ UNCHANGED buf
    <3>1. errors' # 0
      BY <2>2 DEF Error
    <3>2. LockInv'
      BY <1>2, <2>2 DEF LockInv, Syncing, Syncers
    <3> QED
      BY <1>1, <1>3, <1>4, <3>1, <3>2 DEF CleanMeansSaved, StoppedMeansSaved
  <2> QED
    BY <1>7, <2>1, <2>2 DEF TaskBeginSync
<1>8. CASE TaskEndSync(t)
  <2>1. t \in Syncers /\ buf[t] = mmap /\ buf' = [buf EXCEPT ![t] = EmptyMap]
        /\ tpc'[t] = "off"
    BY <1>8 DEF TaskEndSync, WriteFile, LockInv, Syncing, Syncers
  <2>2. LockInv'
    BY <1>2, <2>1 DEF LockInv, Syncing, Syncers
  <2>3. errors' = 0 => snapshot' = mmap'
    BY <1>2, <1>8, <2>1 DEF TaskEndSync, WriteFile, Error
  <2>4. mmap' # Unreadable
    BY <1>1
  <2>5. CleanMeansSaved' /\ StoppedMeansSaved'
    BY <2>3, <2>4 DEF CleanMeansSaved, StoppedMeansSaved, LoadFile
  <2> QED
    BY <1>1, <1>3, <1>4, <2>2, <2>5
<1> QED
  BY <1>5, <1>6, <1>7, <1>8 DEF Task

\* A harvester that starts, ends or stops the task keeps it.
LEMMA SavedHarvester ==
    ASSUME SavedInv, NEW h \in Harvesters,
           StartHarvester(h) \/ EndHarvester(h) \/ StopSyncTask(h)
    PROVE  SavedInv'
<1>1. TypeInv'
  BY TypeNext DEF SavedInv, Next, StableNext
<1> USE DEF SavedInv, TypeInv, TypeOK, StatusMap
<1>2. CASE StartHarvester(h)
  <2>1. /\ UNCHANGED <<modified, pmap, pc, msg, snapshot, tpc, buf, errors>>
        /\ hpc[h] = "stopped" /\ hpc' = [hpc EXCEPT ![h] = "running"] /\ booted'
    BY <1>2 DEF StartHarvester, handlerVars
  <2>2. \A p \in Syncers : Syncing(p)' <=> Syncing(p)
    BY <2>1 DEF Syncing, Syncers
  <2>3. CASE booted
    <3>1. mmap' = mmap
      BY <1>2, <2>3 DEF StartHarvester
    <3> QED
      BY <1>1, <2>1, <2>2, <2>3, <3>1
         DEF LockInv, Waited, Unbooted, PropsInv, CleanMeansSaved, StoppedMeansSaved,
             NoReader, LoadFile, Promised
  <2>4. CASE ~booted
    <3>1. mmap' = LoadFile /\ LoadFile' = LoadFile
      BY <1>2, <2>1, <2>4 DEF StartHarvester, LoadFile
    <3>2. \A p \in Syncers : ~Syncing(p)'
      BY <2>2, <2>4 DEF Unbooted, Syncing, Syncers
    <3>3. Waited' /\ Unbooted' /\ PropsInv'
      BY <2>1, <2>4 DEF Waited, Unbooted, PropsInv
    <3> QED
      BY <1>1, <2>1, <3>1, <3>2, <3>3 DEF LockInv, CleanMeansSaved, StoppedMeansSaved
  <2> QED
    BY <2>3, <2>4
<1>3. CASE EndHarvester(h)
  <2>1. /\ UNCHANGED <<mmap, modified, pmap, pc, msg, snapshot, booted, cron, tpc, buf,
                     errors>>
        /\ hpc[h] = "running" /\ hpc' = [hpc EXCEPT ![h] = "sync"]
    BY <1>3 DEF EndHarvester, mapVars, handlerVars, syncVars
  <2>2. \A p \in Syncers : Syncing(p)' <=> Syncing(p)
    BY <2>1 DEF Syncing, Syncers
  <2> QED
    BY <1>1, <2>1, <2>2
       DEF LockInv, Waited, Unbooted, PropsInv, CleanMeansSaved, StoppedMeansSaved,
           NoReader, LoadFile, Promised
<1>4. CASE StopSyncTask(h)
  <2>1. /\ UNCHANGED <<mmap, modified, pmap, pc, msg, booted, tpc>>
        /\ hpc[h] \in {"sync", "writing"}
        /\ \A g \in Harvesters : g # h => hpc'[g] = hpc[g]
    BY <1>4 DEF StopSyncTask, StopBeginSync, StopEndSync, mapVars, handlerVars
  <2>2. Waited' /\ Unbooted' /\ PropsInv'
    BY <2>1 DEF Waited, Unbooted, PropsInv
  <2>3. h \in Syncers /\ h \notin Tasks
    BY DEF Syncers
  <2>4. CASE Truncate(h) /\ hpc' = [hpc EXCEPT ![h] = "writing"]
    <3>1. Syncing(h)' /\ buf' = [buf EXCEPT ![h] = mmap]
      BY <2>3, <2>4 DEF Truncate, Syncing
    <3>2. LockInv'
      BY <2>1, <2>4, <3>1 DEF LockInv, Syncing, Syncers
    <3>3. ~NoReader'
      BY <2>3, <3>1 DEF NoReader
    <3> QED
      BY <1>1, <2>2, <3>2, <3>3 DEF CleanMeansSaved, StoppedMeansSaved
  <2>5. CASE Error /\ hpc' = [hpc EXCEPT ![h] = "stopped"] /\ UNCHANGED buf
    <3>1. errors' # 0
      BY <2>5 DEF Error
    <3>2. LockInv'
      BY <2>1, <2>5 DEF LockInv, Syncing, Syncers
    <3> QED
      BY <1>1, <2>2, <3>1, <3>2 DEF CleanMeansSaved, StoppedMeansSaved
  <2>6. CASE StopEndSync(h)
    <3>1. buf[h] = mmap /\ buf' = [buf EXCEPT ![h] = EmptyMap] /\ hpc'[h] = "stopped"
      BY <2>3, <2>6 DEF StopEndSync, WriteFile, LockInv, Syncing
    <3>2. LockInv'
      BY <2>1, <3>1 DEF LockInv, Syncing, Syncers
    <3>3. errors' = 0 => snapshot' = mmap'
      BY <2>1, <2>6, <3>1 DEF StopEndSync, WriteFile, Error
    <3>4. mmap' # Unreadable
      BY <1>1
    <3>5. CleanMeansSaved' /\ StoppedMeansSaved'
      BY <3>3, <3>4 DEF CleanMeansSaved, StoppedMeansSaved, LoadFile
    <3> QED
      BY <1>1, <2>2, <3>2, <3>5
  <2> QED
    BY <1>4, <2>4, <2>5, <2>6 DEF StopSyncTask, StopBeginSync
<1> QED
  BY <1>2, <1>3, <1>4

LEMMA SavedNext == SavedInv /\ [Next]_vars => SavedInv'
<1> SUFFICES ASSUME SavedInv, [Next]_vars PROVE SavedInv'
  OBVIOUS
<1>1. TypeInv'
  BY TypeNext DEF SavedInv
<1>2. CASE Crash
  <2>1. LockInv' /\ Waited' /\ Unbooted' /\ PropsInv'
    BY <1>2 DEF Crash, LockInv, Waited, Unbooted, PropsInv, Syncing, Syncers
  <2>2. CleanMeansSaved' /\ StoppedMeansSaved'
    BY <1>2 DEF Crash, CleanMeansSaved, StoppedMeansSaved
  <2> QED
    BY <1>1, <2>1, <2>2 DEF SavedInv
<1>3. CASE UNCHANGED vars
  BY <1>1, <1>3
     DEF SavedInv, LockInv, Waited, Unbooted, PropsInv, CleanMeansSaved, StoppedMeansSaved,
         Syncing, NoReader, LoadFile, Promised, vars, mapVars, handlerVars, syncVars
<1> QED
  BY <1>2, <1>3, SavedHandle, SavedTask, SavedHarvester DEF Next, StableNext

\* SavedInv is an invariant.
LEMMA SavedAlways == Spec => []SavedInv
BY SavedInit, SavedNext, PTL DEF Spec

\* A clear Modified flag can be trusted.
THEOREM CleanSaved == Spec => []CleanMeansSaved
<1>1. SavedInv => CleanMeansSaved
  BY DEF SavedInv
<1> QED
  BY <1>1, SavedAlways, PTL

\* Once every harvester has ended the file holds the map.
THEOREM StoppedSaved == Spec => []StoppedMeansSaved
<1>1. SavedInv => StoppedMeansSaved
  BY DEF SavedInv
<1> QED
  BY <1>1, SavedAlways, PTL

\* The properties of a job do not outlive its status.
THEOREM PropsFollowStatus == Spec => []PropsTracked
<1>1. SavedInv => PropsTracked
  BY DEF SavedInv, PropsInv, PropsTracked
<1> QED
  BY <1>1, SavedAlways, PTL

\* What gets into the file is the map of that moment.
THEOREM FileIsCurrent == Spec => SnapshotIsCurrent
<1>1. SavedInv /\ [Next]_vars
      => [snapshot' # snapshot /\ snapshot' # Unreadable => snapshot' = mmap']_vars
  <2> SUFFICES ASSUME SavedInv, [Next]_vars, snapshot' # snapshot, snapshot' # Unreadable
               PROVE  snapshot' = mmap'
    OBVIOUS
  <2>1. ~Handle /\ ~Crash
    BY DEF Handle, HandleUnchanged, HandleChange, Post, WriteState, DeleteFinished, Reply,
           Crash, syncVars
  <2>2. ~UNCHANGED vars
    BY DEF vars, syncVars
  <2>3. ASSUME NEW t \in Tasks, Task(t) PROVE snapshot' = mmap'
    <3>1. TaskEndSync(t)
      BY <2>3 DEF Task, Tick, CheckModified, ClearModified, TaskBeginSync, Truncate, Error
    <3>2. Syncing(t) /\ t \in Syncers
      BY <3>1 DEF TaskEndSync, Syncing, Syncers
    <3> QED
      BY <3>1, <3>2 DEF TaskEndSync, WriteFile, Error, SavedInv, LockInv, mapVars
  <2>4. ASSUME NEW h \in Harvesters, StartHarvester(h) \/ EndHarvester(h) \/ StopSyncTask(h)
        PROVE  snapshot' = mmap'
    <3>1. StopEndSync(h)
      BY <2>4 DEF StartHarvester, EndHarvester, StopSyncTask, StopBeginSync, Truncate, Error,
                  syncVars
    <3>2. Syncing(h) /\ h \in Syncers
      BY <3>1 DEF StopEndSync, Syncing, Syncers
    <3> QED
      BY <3>1, <3>2 DEF StopEndSync, WriteFile, Error, SavedInv, LockInv, mapVars
  <2> QED
    BY <2>1, <2>2, <2>3, <2>4 DEF Next, StableNext
<1> QED
  BY <1>1, SavedAlways, PTL DEF Spec, SnapshotIsCurrent

-----------------------------------------------------------------------------
(* How far processJobEvent has got with the map entry of its message: not      *)
(* written, written and to be deleted, or as it leaves it.  A crash ends it.   *)

Progress ==
    /\ msg.cur # msg.last
    /\ msg.lastStatus = Published(msg.last)
    /\ pc = "write" => mmap[msg.job] = msg.last
    /\ pc = "delete" => Finished(msg.cur)
    /\ pc = "reply" => mmap[msg.job] = IF Finished(msg.cur) THEN NoState ELSE msg.cur

ProgressInv ==
    /\ SavedInv
    /\ pc # "idle" => Progress

LEMMA ProgressInit == Init => ProgressInv
BY SavedInit DEF Init, ProgressInv

LEMMA ProgressStep == ProgressInv /\ [Next]_vars => ProgressInv'
<1> SUFFICES ASSUME ProgressInv, [Next]_vars PROVE ProgressInv'
  OBVIOUS
<1>1. SavedInv'
  BY SavedNext DEF ProgressInv
<1> USE DEF ProgressInv, SavedInv, TypeInv, TypeOK, StatusMap
<1>2. ASSUME NEW h \in Harvesters, NEW e \in Events, HandleUnchanged(h, e)
      PROVE  ProgressInv'
  <2>1. UNCHANGED <<mmap, pc, msg>>
    BY <1>2 DEF HandleUnchanged, Post
  <2> QED
    BY <1>1, <2>1 DEF Progress
<1>3. ASSUME NEW h \in Harvesters, NEW e \in Events, HandleChange(h, e)
      PROVE  ProgressInv'
  <2>1. UNCHANGED mmap /\ pc = "idle" /\ pc' \in {"reply", "write"}
    BY <1>3 DEF HandleChange, Post
  <2>2. /\ msg'.job = e.job /\ msg'.last = mmap[e.job] /\ msg'.cur = getState(e)
        /\ msg'.lastStatus = Published(mmap[e.job])
    BY <1>3 DEF HandleChange, stateToMessageWithTopic
  <2>3. Progress'
    BY <1>3, <2>1, <2>2 DEF Progress, HandleChange
  <2> QED
    BY <1>1, <2>3
<1>4. CASE WriteState
  <2>1. /\ pc = "write" /\ msg' = msg /\ mmap' = [mmap EXCEPT ![msg.job] = msg.cur]
        /\ pc' = IF Finished(msg.cur) THEN "delete" ELSE "reply"
    BY <1>4 DEF WriteState, WriteMap
  <2>2. msg.job \in Jobs
    BY <2>1 DEF Messages
  <2> QED
    BY <1>1, <2>1, <2>2 DEF Progress
<1>5. CASE DeleteFinished
  <2>1. /\ pc = "delete" /\ msg' = msg /\ mmap' = [mmap EXCEPT ![msg.job] = NoState]
        /\ pc' = "reply"
    BY <1>5 DEF DeleteFinished, DelMap
  <2>2. msg.job \in Jobs
    BY <2>1 DEF Messages
  <2> QED
    BY <1>1, <2>1, <2>2 DEF Progress
<1>6. CASE (\E h \in Harvesters : Reply(h)) \/ Crash
  <2>1. pc' = "idle"
    BY <1>6 DEF Reply, Crash
  <2> QED
    BY <1>1, <2>1
<1>7. ASSUME NEW t \in Tasks, Task(t)
      PROVE  ProgressInv'
  <2>1. UNCHANGED <<mmap, pc, msg>>
    BY <1>7 DEF Task, Tick, CheckModified, ClearModified, UnsetModified, TaskBeginSync,
                TaskEndSync, mapVars, handlerVars
  <2> QED
    BY <1>1, <2>1 DEF Progress
<1>8. ASSUME NEW h \in Harvesters, StartHarvester(h)
      PROVE  ProgressInv'
  <2>1. UNCHANGED <<pc, msg>> /\ (booted => UNCHANGED mmap)
    BY <1>8 DEF StartHarvester, handlerVars
  <2>2. pc # "idle" => booted
    BY DEF Unbooted
  <2> QED
    BY <1>1, <2>1, <2>2 DEF Progress
<1>9. ASSUME NEW h \in Harvesters, EndHarvester(h) \/ StopSyncTask(h)
      PROVE  ProgressInv'
  <2>1. UNCHANGED <<mmap, pc, msg>>
    BY <1>9 DEF EndHarvester, StopSyncTask, StopBeginSync, StopEndSync, mapVars,
                handlerVars, syncVars
  <2> QED
    BY <1>1, <2>1 DEF Progress
<1>10. CASE UNCHANGED vars
  BY <1>1, <1>10 DEF Progress, vars, mapVars, handlerVars
<1> QED
  BY <1>2, <1>3, <1>4, <1>5, <1>6, <1>7, <1>8, <1>9, <1>10 DEF Next, StableNext, Handle

LEMMA ProgressAlways == Spec => []ProgressInv
BY ProgressInit, ProgressStep, PTL DEF Spec

-----------------------------------------------------------------------------
(* The refinement: Reply is the step that reports, a crash the one that        *)
(* restarts, and every other one stutters.                                     *)

\* The statuses of the abstract specification are those of this one.
LEMMA SameStatuses ==
    /\ Trace!NoState = NoState
    /\ Trace!Status = Status
    /\ \A s : Trace!Finished(s) <=> Finished(s)
    /\ \A s : Trace!Published(s) = Published(s)
BY DEF Trace!NoState, NoState, Trace!Status, Status, Trace!PEND, PEND, Trace!EXIT, EXIT,
       Trace!Finished, Finished, Trace!UNKWN, UNKWN, Trace!Published, Published

LEMMA TraceStutter ==
    ASSUME ProgressInv, ProgressInv', [Next]_vars, ~Crash, \A h \in Harvesters : ~Reply(h)
    PROVE  UNCHANGED <<tracked, reports, crashes>>
<1> USE DEF ProgressInv, SavedInv, TypeInv, TypeOK, StatusMap
<1>1. ASSUME NEW h \in Harvesters, NEW e \in Events, HandleUnchanged(h, e)
      PROVE  UNCHANGED <<tracked, reports, crashes>>
  BY <1>1 DEF HandleUnchanged, Post, tracked, reports, LoadFile, syncVars
<1>2. ASSUME NEW h \in Harvesters, NEW e \in Events, HandleChange(h, e)
      PROVE  UNCHANGED <<tracked, reports, crashes>>
  <2>1. /\ pc = "idle" /\ pc' # "idle" /\ UNCHANGED <<mmap, out, booted, snapshot, crashes>>
        /\ msg'.job = e.job /\ msg'.last = mmap[e.job]
    BY <1>2 DEF HandleChange, Post, stateToMessageWithTopic, syncVars
  <2> QED
    BY <2>1 DEF tracked, reports, LoadFile
<1>3. CASE WriteState \/ DeleteFinished
  <2>1. /\ pc # "idle" /\ pc' # "idle"
        /\ UNCHANGED <<msg, out, booted, snapshot, crashes>>
        /\ \E s : mmap' = [mmap EXCEPT ![msg.job] = s]
    BY <1>3 DEF WriteState, DeleteFinished, WriteMap, DelMap, syncVars
  <2> QED
    BY <2>1 DEF tracked, reports, LoadFile, Messages
<1>4. ASSUME NEW t \in Tasks, Task(t)
      PROVE  UNCHANGED <<tracked, reports, crashes>>
  <2>1. UNCHANGED <<mmap, pc, msg, out, booted, crashes>>
    BY <1>4 DEF Task, Tick, CheckModified, ClearModified, UnsetModified, TaskBeginSync,
                TaskEndSync, mapVars, handlerVars
  <2>2. booted
    BY <1>4 DEF Unbooted, Task, Tick, CheckModified, ClearModified, TaskBeginSync, TaskEndSync
  <2> QED
    BY <2>1, <2>2 DEF tracked, reports
<1>5. ASSUME NEW h \in Harvesters, StartHarvester(h)
      PROVE  UNCHANGED <<tracked, reports, crashes>>
  <2>1. /\ UNCHANGED <<pc, msg, out, crashes>> /\ booted'
        /\ mmap' = IF booted THEN mmap ELSE LoadFile
    BY <1>5 DEF StartHarvester, handlerVars
  <2>2. ~booted => pc = "idle"
    BY DEF Unbooted
  <2> QED
    BY <2>1, <2>2 DEF tracked, reports
<1>6. ASSUME NEW h \in Harvesters, EndHarvester(h) \/ StopSyncTask(h)
      PROVE  UNCHANGED <<tracked, reports, crashes>>
  <2>1. UNCHANGED <<mmap, pc, msg, out, booted, crashes>>
    BY <1>6 DEF EndHarvester, StopSyncTask, StopBeginSync, StopEndSync, mapVars,
                handlerVars, syncVars
  <2>2. booted
    BY <1>6 DEF Unbooted, EndHarvester, StopSyncTask, StopBeginSync, StopEndSync
  <2> QED
    BY <2>1, <2>2 DEF tracked, reports
<1>7. CASE UNCHANGED vars
  BY <1>7 DEF vars, mapVars, handlerVars, syncVars, tracked, reports, LoadFile
<1> QED
  BY <1>1, <1>2, <1>3, <1>4, <1>5, <1>6, <1>7 DEF Next, StableNext, Handle

LEMMA TraceReport ==
    ASSUME ProgressInv, NEW h \in Harvesters, Reply(h)
    PROVE  Trace!Report(msg.job, msg.cur) /\ reports' # reports
<1> USE DEF ProgressInv, SavedInv, TypeInv, TypeOK, StatusMap
<1>1. /\ msg \in Messages /\ Progress /\ out \in Seq(Messages) /\ booted /\ booted'
      /\ pc = "reply" /\ pc' = "idle" /\ mmap' = mmap /\ out' = Append(out, msg)
      /\ crashes' = crashes
  BY DEF Reply, mapVars, syncVars, Unbooted
<1>2. tracked[msg.job] = msg.last
  BY <1>1 DEF tracked, Messages
<1>3. tracked' = [tracked EXCEPT ![msg.job] = IF Finished(msg.cur) THEN NoState ELSE msg.cur]
  BY <1>1 DEF tracked, Progress, Messages
<1>4. reports' = Append(reports, [job |-> msg.job, last |-> msg.lastStatus, cur |-> msg.cur])
      /\ reports' # reports
  <2> DEFINE Shown(m) == [job |-> m.job, last |-> m.lastStatus, cur |-> m.cur]
  <2>1. Len(out') = Len(out) + 1 /\ Len(out) \in Nat
    BY <1>1
  <2>2. \A i \in 1 .. Len(out) : out'[i] = out[i]
    BY <1>1
  <2>3. out'[Len(out) + 1] = msg
    BY <1>1
  <2>4. reports \in Seq({Shown(out[i]) : i \in 1 .. Len(out)}) /\ Len(reports) = Len(out)
    BY <2>1 DEF reports
  <2>5. Append(reports, Shown(msg)) =
          [i \in 1 .. Len(reports) + 1 |->
              IF i = Len(reports) + 1 THEN Shown(msg) ELSE reports[i]]
    BY <2>4
  <2>6. reports' = Append(reports, Shown(msg))
    BY <2>1, <2>2, <2>3, <2>4, <2>5 DEF reports
  <2>7. Len(Append(reports, Shown(msg))) # Len(reports)
    BY <2>1, <2>4
  <2> QED
    BY <2>6, <2>7
<1>5. msg.lastStatus = Published(tracked[msg.job])
  BY <1>1, <1>2 DEF Progress
<1> QED
  BY <1>1, <1>2, <1>3, <1>4, <1>5, SameStatuses DEF Trace!Report, Progress, Messages

LEMMA TraceRestart ==
    ASSUME ProgressInv, ProgressInv', Crash
    PROVE  Trace!Restart
<1>1. ~booted' /\ LoadFile' \in StatusMap /\ crashes' = crashes + 1 /\ out' = out
  BY LoadFileType DEF Crash, ProgressInv, SavedInv, TypeInv, TypeOK, LoadFile, EmptyMap,
                      StatusMap
<1>2. tracked' \in [Jobs -> Status \cup {NoState}]
  BY <1>1 DEF tracked, StatusMap
<1>3. reports' = reports
  BY <1>1 DEF reports
<1> QED
  BY <1>1, <1>2, <1>3, SameStatuses DEF Trace!Restart

\* The messages StateTransfer publishes, whatever runs beside the parser and whenever
\* the process dies, are those of StatusTrace.
THEOREM Refinement == Spec => ImplementsTrace
<1>1. Init => Trace!TraceInit
  <2> SUFFICES ASSUME Init PROVE Trace!TraceInit
    OBVIOUS
  <2>1. tracked = [j \in Jobs |-> NoState]
    BY DEF Init, tracked, LoadFile, EmptyMap
  <2>2. reports = <<>> /\ crashes = 0
    BY DEF Init, reports
  <2> QED
    BY <2>1, <2>2, SameStatuses DEF Trace!TraceInit
<1>2. ProgressInv /\ ProgressInv' /\ [Next]_vars => [Trace!TraceNext]_(Trace!traceVars)
  <2> SUFFICES ASSUME ProgressInv, ProgressInv', [Next]_vars
               PROVE  [Trace!TraceNext]_(Trace!traceVars)
    OBVIOUS
  <2>1. CASE ~Crash /\ \A h \in Harvesters : ~Reply(h)
    BY <2>1, TraceStutter DEF Trace!traceVars
  <2>2. CASE Crash
    BY <2>2, TraceRestart DEF Trace!TraceNext
  <2>3. CASE \E h \in Harvesters : Reply(h)
    <3>1. msg.job \in Jobs /\ msg.cur \in Status
      BY <2>3 DEF Reply, ProgressInv, SavedInv, TypeInv, Messages
    <3> QED
      BY <2>3, <3>1, TraceReport, SameStatuses DEF Trace!TraceNext
  <2> QED
    BY <2>1, <2>2, <2>3
<1> QED
  BY <1>1, <1>2, ProgressAlways, PTL DEF Spec, ImplementsTrace, Trace!TraceSpec

-----------------------------------------------------------------------------
(* While the process lives, a finished status is in the map only between the   *)
(* two halves of processJobEvent's end.                                        *)

OnlyMessageFinished ==
    \A j \in Jobs : Finished(mmap[j]) => pc = "delete" /\ msg.job = j

\* Before the first harvester starts there is nothing on disk: this is the first
\* run of the program.
Fresh == ~booted => snapshot = Unreadable /\ mmap = EmptyMap

StableInv ==
    /\ ProgressInv
    /\ OnlyMessageFinished
    /\ Fresh

LEMMA StableInit == Init => StableInv
<1> SUFFICES ASSUME Init PROVE StableInv
  OBVIOUS
<1>1. OnlyMessageFinished
  BY DEF Init, OnlyMessageFinished, EmptyMap, Finished, NoState, UNKWN
<1> QED
  BY <1>1, ProgressInit DEF Init, StableInv, Fresh

LEMMA StableStep == StableInv /\ [StableNext]_vars => StableInv'
<1> SUFFICES ASSUME StableInv, [StableNext]_vars PROVE StableInv'
  OBVIOUS
<1>1. ProgressInv'
  BY ProgressStep DEF StableInv, Next
<1> USE DEF StableInv, ProgressInv, SavedInv, TypeInv, TypeOK, StatusMap
<1>2. ASSUME NEW h \in Harvesters, NEW e \in Events, HandleUnchanged(h, e)
      PROVE  StableInv'
  <2>1. UNCHANGED <<mmap, pc, msg, snapshot, booted>>
    BY <1>2 DEF HandleUnchanged, Post, syncVars
  <2> QED
    BY <1>1, <2>1 DEF Progress, OnlyMessageFinished, Fresh
<1>3. ASSUME NEW h \in Harvesters, NEW e \in Events, HandleChange(h, e)
      PROVE  StableInv'
  <2>1. UNCHANGED <<mmap, snapshot, booted>> /\ pc = "idle" /\ pc' \in {"reply", "write"}
    BY <1>3 DEF HandleChange, Post, syncVars
  <2> QED
    BY <1>1, <2>1 DEF OnlyMessageFinished, Fresh
<1>4. CASE WriteState
  <2>1. /\ pc = "write" /\ msg' = msg /\ mmap' = [mmap EXCEPT ![msg.job] = msg.cur]
        /\ pc' = IF Finished(msg.cur) THEN "delete" ELSE "reply"
        /\ UNCHANGED <<snapshot, booted>>
    BY <1>4 DEF WriteState, WriteMap, syncVars
  <2>2. booted /\ msg.job \in Jobs
    BY <2>1 DEF Unbooted, Messages
  <2> QED
    BY <1>1, <2>1, <2>2 DEF Progress, OnlyMessageFinished, Fresh
<1>5. CASE DeleteFinished
  <2>1. /\ pc = "delete" /\ msg' = msg /\ mmap' = [mmap EXCEPT ![msg.job] = NoState]
        /\ pc' = "reply" /\ UNCHANGED <<snapshot, booted>>
    BY <1>5 DEF DeleteFinished, DelMap, syncVars
  <2>2. booted /\ msg.job \in Jobs
    BY <2>1 DEF Unbooted, Messages
  <2>3. ~Finished(NoState)
    BY DEF Finished, NoState, UNKWN
  <2> QED
    BY <1>1, <2>1, <2>2, <2>3 DEF Progress, OnlyMessageFinished, Fresh
<1>6. ASSUME NEW h \in Harvesters, Reply(h)
      PROVE  StableInv'
  <2>1. pc = "reply" /\ pc' = "idle" /\ UNCHANGED <<mmap, snapshot, booted>>
    BY <1>6 DEF Reply, mapVars, syncVars
  <2> QED
    BY <1>1, <2>1 DEF OnlyMessageFinished, Fresh
<1>7. ASSUME NEW t \in Tasks, Task(t)
      PROVE  StableInv'
  <2>1. UNCHANGED <<mmap, pc, msg, booted>>
    BY <1>7 DEF Task, Tick, CheckModified, ClearModified, UnsetModified, TaskBeginSync,
                TaskEndSync, mapVars, handlerVars
  <2>2. booted
    BY <1>7 DEF Unbooted, Task, Tick, CheckModified, ClearModified, TaskBeginSync, TaskEndSync
  <2> QED
    BY <1>1, <2>1, <2>2 DEF Progress, OnlyMessageFinished, Fresh
<1>8. ASSUME NEW h \in Harvesters, StartHarvester(h)
      PROVE  StableInv'
  <2>1. UNCHANGED <<mmap, pc, msg>> /\ booted'
    BY <1>8 DEF StartHarvester, handlerVars, LoadFile, Fresh
  <2> QED
    BY <1>1, <2>1 DEF Progress, OnlyMessageFinished, Fresh
<1>9. ASSUME NEW h \in Harvesters, EndHarvester(h) \/ StopSyncTask(h)
      PROVE  StableInv'
  <2>1. UNCHANGED <<mmap, pc, msg, booted>>
    BY <1>9 DEF EndHarvester, StopSyncTask, StopBeginSync, StopEndSync, mapVars,
                handlerVars, syncVars
  <2>2. booted
    BY <1>9 DEF Unbooted, EndHarvester, StopSyncTask, StopBeginSync, StopEndSync
  <2> QED
    BY <1>1, <2>1, <2>2 DEF Progress, OnlyMessageFinished, Fresh
<1>10. CASE UNCHANGED vars
  BY <1>1, <1>10 DEF Progress, OnlyMessageFinished, Fresh, vars, mapVars, handlerVars, syncVars
<1> QED
  BY <1>2, <1>3, <1>4, <1>5, <1>6, <1>7, <1>8, <1>9, <1>10 DEF StableNext, Handle

LEMMA StableAlways == StableSpec => []StableInv
BY StableInit, StableStep, PTL DEF StableSpec

\* Between two records no finished job is left in the map.
THEOREM FinishedForgotten == StableSpec => []NoFinishedTracked
<1>1. StableInv => NoFinishedTracked
  BY DEF StableInv, OnlyMessageFinished, NoFinishedTracked
<1> QED
  BY <1>1, StableAlways, PTL
=============================================================================
