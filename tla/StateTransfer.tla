--------------------------- MODULE StateTransfer ---------------------------
(***************************************************************************)
(* The job status map of lsfeventsbeat and its snapshot on disk:           *)
(* filebeat/parselsb/maptransfer.go over filebeat/parselsb/safemap.        *)
(*                                                                         *)
(* Three kinds of goroutine meet on the map.                               *)
(*   - The one parser goroutine runs processJobEvent for the record a      *)
(*     harvester posted; the harvester waits for the answer.               *)
(*   - Every second the cron scheduler starts a goroutine that writes the  *)
(*     map to job.states.snapshot if it was modified.  Nothing stops it    *)
(*     from starting one while the one before is still at work.            *)
(*   - A harvester that ends runs StopSyncTask: it writes the snapshot     *)
(*     itself and stops the scheduler.                                     *)
(* A step is one critical section of the map's RWMutex, or one half of     *)
(* SyncFile's: the file is truncated and then written while the read lock  *)
(* is held, and the process may die between the two.                       *)
(***************************************************************************)
EXTENDS JobStates, Sequences, FiniteSets

CONSTANTS
    Jobs,           \* the uids of getUid
    PropVals,       \* what a JOB_NEW event may say of a job
    NoProp,         \* no such event was seen
    Harvesters,     \* goroutines that post records
    Tasks,          \* goroutines the scheduler may have at work at once
    Events,         \* the parsed events a harvester may post
    Unreadable,     \* a snapshot that is missing, or truncated and not yet rewritten
    MaxEvents,      \* bound: events posted
    MaxFaults       \* bound: deaths of the process and errors of ioutil.WriteFile

StatusMap == [Jobs -> Status \cup {NoState}]

ASSUME ConstantsAssumption ==
    /\ NoProp \notin PropVals
    /\ Unreadable \notin StatusMap
    /\ MaxEvents \in Nat /\ MaxFaults \in Nat
    /\ Tasks \cap Harvesters = {}
    /\ \A e \in Events :
        /\ e.type \in EventTypes
        /\ e.job \in Jobs
        /\ e.status \in Status \cup {NoState}
        /\ e.exit.status \in Int /\ e.exit.info \in Int
        /\ e.prop \in PropVals

VARIABLES
    mmap,       \* job -> status last recorded, NoState if absent
    modified,   \* SafeMap.Modified of mmap
    pmap,       \* job -> properties of its JOB_NEW event, NoProp if absent
    snapshot,   \* what job.states.snapshot holds
    booted,     \* NewLsbParser's once.Do has run in this process
    cron,       \* the scheduler is running
    hpc,        \* where each harvester is
    tpc,        \* where each scheduled task is
    buf,        \* the text each SyncFile is about to write
    pc,         \* where the parser goroutine is in processJobEvent
    msg,        \* the message processJobEvent will return
    out,        \* the messages returned, in order
    events,     \* how many events were posted
    crashes,    \* how many times the process died
    errors      \* how many times the snapshot could not be written

mapVars == <<mmap, modified, pmap>>
handlerVars == <<pc, msg, out, events>>
syncVars == <<snapshot, booted, cron, tpc, buf, crashes, errors>>
vars == <<mapVars, handlerVars, syncVars, hpc>>

Syncers == Tasks \cup Harvesters
EmptyMap == [j \in Jobs |-> NoState]

\* stateMessage with the last_status that stateToMessageWithTopic publishes of it.
Messages == [job: Jobs, last: Status \cup {NoState}, lastStatus: Status \cup {NoState},
             cur: Status, reason: Reasons, prop: PropVals \cup {NoProp}]
NoMsg == [job |-> NoState]

\* Mutant: the test is lastState >= 0.
stateToMessageWithTopicPend(j, last, cur, reason, prop) ==
    [job |-> j, last |-> last, lastStatus |-> last,
     cur |-> cur, reason |-> reason, prop |-> prop]

stateToMessageWithTopic(j, last, cur, reason, prop) ==
    [job |-> j, last |-> last, lastStatus |-> Published(last),
     cur |-> cur, reason |-> reason, prop |-> prop]

-----------------------------------------------------------------------------
(* The locks of SafeMap.  SyncFile holds the read lock until the file is    *)
(* written; every other critical section is a single step.                  *)

Syncing(p) == IF p \in Tasks THEN tpc[p] = "writing" ELSE hpc[p] = "writing"
\* Mutant: writers do not wait for SyncFile.
NoReaderUnlocked == TRUE

NoReader == \A p \in Syncers : ~Syncing(p)

WriteMap(j, s) ==
    /\ NoReader
    /\ mmap' = [mmap EXCEPT ![j] = s]
    /\ modified' = TRUE

\* Mutant: a deletion is not a modification.
DelMapUnflagged(j) ==
    /\ NoReader
    /\ mmap' = [mmap EXCEPT ![j] = NoState]
    /\ UNCHANGED modified

DelMap(j) ==
    /\ NoReader
    /\ mmap' = [mmap EXCEPT ![j] = NoState]
    /\ modified' = TRUE

UnsetModified ==
    /\ NoReader
    /\ modified' = FALSE
    /\ UNCHANGED <<mmap, pmap>>

\* Mutant: a snapshot that does not parse is taken for a map.
LoadFileUnchecked == snapshot

LoadFile == IF snapshot = Unreadable THEN EmptyMap ELSE snapshot

-----------------------------------------------------------------------------
(* processJobEvent, run by the parser goroutine for harvester h.            *)

recordJobProperty(e) ==
    IF e.type = "JOB_NEW" THEN [pmap EXCEPT ![e.job] = e.prop] ELSE pmap

Post(h, e) ==
    /\ hpc[h] = "running"
    /\ pc = "idle"
    /\ events < MaxEvents
    /\ events' = events + 1
    /\ pmap' = recordJobProperty(e)
    /\ UNCHANGED <<mmap, modified, syncVars, out>>

\* The event has no status, or the one the map holds: no message.
HandleUnchanged(h, e) ==
    /\ Post(h, e)
    /\ getState(e) \in {NoState, mmap[e.job]}
    /\ UNCHANGED <<hpc, pc, msg>>

\* Otherwise there is a message; a finished status of a job the map does not
\* hold is not written to it.
HandleChange(h, e) ==
    /\ Post(h, e)
    /\ getState(e) \notin {NoState, mmap[e.job]}
    /\ msg' = stateToMessageWithTopic(e.job, mmap[e.job], getState(e), getReason(e),
                                      recordJobProperty(e)[e.job])
    /\ pc' = IF mmap[e.job] = NoState /\ Finished(getState(e)) THEN "reply" ELSE "write"
    /\ hpc' = [hpc EXCEPT ![h] = "waiting"]

WriteState ==
    /\ pc = "write"
    /\ WriteMap(msg.job, msg.cur)
    /\ pc' = IF Finished(msg.cur) THEN "delete" ELSE "reply"
    /\ UNCHANGED <<pmap, msg, out, events, syncVars, hpc>>

\* Mutant: the properties of the job are kept.
DeleteFinishedStatus ==
    /\ pc = "delete"
    /\ DelMap(msg.job)
    /\ pc' = "reply"
    /\ UNCHANGED <<pmap, msg, out, events, syncVars, hpc>>

DeleteFinished ==
    /\ pc = "delete"
    /\ DelMap(msg.job)
    /\ pmap' = [pmap EXCEPT ![msg.job] = NoProp]
    /\ pc' = "reply"
    /\ UNCHANGED <<msg, out, events, syncVars, hpc>>

\* The message goes back on RetChan and the harvester carries on.
Reply(h) ==
    /\ pc = "reply"
    /\ hpc[h] = "waiting"
    /\ hpc' = [hpc EXCEPT ![h] = "running"]
    /\ out' = Append(out, msg)
    /\ pc' = "idle"
    /\ msg' = NoMsg
    /\ UNCHANGED <<mapVars, events, syncVars>>

Handle ==
    \/ \E h \in Harvesters, e \in Events : HandleUnchanged(h, e) \/ HandleChange(h, e)
    \/ WriteState
    \/ DeleteFinished
    \/ \E h \in Harvesters : Reply(h)

-----------------------------------------------------------------------------
(* The scheduled task of registerSyncTask.                                  *)

Tick(t) ==
    /\ cron
    /\ tpc[t] = "off"
    /\ tpc' = [tpc EXCEPT ![t] = "check"]
    /\ UNCHANGED <<mapVars, handlerVars, snapshot, booted, cron, buf, crashes, errors, hpc>>

CheckModified(t) ==
    /\ tpc[t] = "check"
    /\ tpc' = [tpc EXCEPT ![t] = IF modified THEN "unset" ELSE "off"]
    /\ UNCHANGED <<mapVars, handlerVars, snapshot, booted, cron, buf, crashes, errors, hpc>>

\* Mutant: the task ends once it has cleared the flag.
ClearModifiedOnly(t) ==
    /\ tpc[t] = "unset"
    /\ UnsetModified
    /\ tpc' = [tpc EXCEPT ![t] = "off"]
    /\ UNCHANGED <<handlerVars, snapshot, booted, cron, buf, crashes, errors, hpc>>

ClearModified(t) ==
    /\ tpc[t] = "unset"
    /\ UnsetModified
    /\ tpc' = [tpc EXCEPT ![t] = "sync"]
    /\ UNCHANGED <<handlerVars, snapshot, booted, cron, buf, crashes, errors, hpc>>

(* SyncFile, by a task or a harvester p: marshal and truncate, then write.  *)
(* An error of ioutil.WriteFile, in opening the file or in writing it, is   *)
(* logged and forgotten.                                                    *)

Truncate(p) ==
    /\ buf' = [buf EXCEPT ![p] = mmap]
    /\ snapshot' = Unreadable
    /\ UNCHANGED errors

Error ==
    /\ crashes + errors < MaxFaults
    /\ errors' = errors + 1
    /\ UNCHANGED snapshot

WriteFile(p) ==
    /\ buf' = [buf EXCEPT ![p] = EmptyMap]
    /\ \/ snapshot' = buf[p] /\ UNCHANGED errors
       \/ Error

TaskBeginSync(t) ==
    /\ tpc[t] = "sync"
    /\ \/ Truncate(t) /\ tpc' = [tpc EXCEPT ![t] = "writing"]
       \/ Error /\ tpc' = [tpc EXCEPT ![t] = "off"] /\ UNCHANGED buf
    /\ UNCHANGED <<mapVars, handlerVars, booted, cron, crashes, hpc>>

\* Mutant: the read lock is not released.
TaskEndSyncLocked(t) ==
    /\ tpc[t] = "writing"
    /\ WriteFile(t)
    /\ UNCHANGED <<mapVars, handlerVars, booted, cron, tpc, crashes, hpc>>

TaskEndSync(t) ==
    /\ tpc[t] = "writing"
    /\ WriteFile(t)
    /\ tpc' = [tpc EXCEPT ![t] = "off"]
    /\ UNCHANGED <<mapVars, handlerVars, booted, cron, crashes, hpc>>

Task(t) ==
    \/ Tick(t) \/ CheckModified(t) \/ ClearModified(t)
    \/ TaskBeginSync(t) \/ TaskEndSync(t)

-----------------------------------------------------------------------------
(* A harvester's life around the map.                                       *)

\* NewLsbParser: the first harvester of the process loads the snapshot and
\* registers the task; the ones after it find the singleton.
StartHarvester(h) ==
    /\ hpc[h] = "stopped"
    /\ hpc' = [hpc EXCEPT ![h] = "running"]
    /\ booted' = TRUE
    /\ cron' = IF booted THEN cron ELSE TRUE
    /\ mmap' = IF booted THEN mmap ELSE LoadFile
    /\ UNCHANGED <<modified, pmap, handlerVars, snapshot, tpc, buf, crashes, errors>>

\* Mutant: the harvester ends without StopSyncTask.
EndHarvesterUnsaved(h) ==
    /\ hpc[h] = "running"
    /\ hpc' = [hpc EXCEPT ![h] = "stopped"]
    /\ UNCHANGED <<mapVars, handlerVars, syncVars>>

EndHarvester(h) ==
    /\ hpc[h] = "running"
    /\ hpc' = [hpc EXCEPT ![h] = "sync"]
    /\ UNCHANGED <<mapVars, handlerVars, syncVars>>

\* stopSyncTask writes the file, modified or not, and then stops the scheduler,
\* whoever else still needs it.
StopBeginSync(h) ==
    /\ hpc[h] = "sync"
    /\ \/ Truncate(h) /\ hpc' = [hpc EXCEPT ![h] = "writing"] /\ UNCHANGED cron
       \/ Error /\ hpc' = [hpc EXCEPT ![h] = "stopped"] /\ cron' = FALSE /\ UNCHANGED buf
    /\ UNCHANGED <<mapVars, handlerVars, booted, tpc, crashes>>

StopEndSync(h) ==
    /\ hpc[h] = "writing"
    /\ WriteFile(h)
    /\ hpc' = [hpc EXCEPT ![h] = "stopped"]
    /\ cron' = FALSE
    /\ UNCHANGED <<mapVars, handlerVars, booted, tpc, crashes>>

StopSyncTask(h) == StopBeginSync(h) \/ StopEndSync(h)

\* The process dies (or exits) and is started again: only the file survives.
Crash ==
    /\ crashes + errors < MaxFaults
    /\ crashes' = crashes + 1
    /\ mmap' = EmptyMap
    /\ modified' = FALSE
    /\ pmap' = [j \in Jobs |-> NoProp]
    /\ booted' = FALSE
    /\ cron' = FALSE
    /\ hpc' = [h \in Harvesters |-> "stopped"]
    /\ tpc' = [t \in Tasks |-> "off"]
    /\ buf' = [p \in Syncers |-> EmptyMap]
    /\ pc' = "idle"
    /\ msg' = NoMsg
    /\ UNCHANGED <<snapshot, out, events, errors>>

-----------------------------------------------------------------------------
Init ==
    /\ mmap = EmptyMap
    /\ modified = FALSE
    /\ pmap = [j \in Jobs |-> NoProp]
    /\ snapshot = Unreadable
    /\ booted = FALSE
    /\ cron = FALSE
    /\ hpc = [h \in Harvesters |-> "stopped"]
    /\ tpc = [t \in Tasks |-> "off"]
    /\ buf = [p \in Syncers |-> EmptyMap]
    /\ pc = "idle"
    /\ msg = NoMsg
    /\ out = <<>>
    /\ events = 0
    /\ crashes = 0
    /\ errors = 0

\* Everything but the death of the process.
StableNext ==
    \/ Handle
    \/ \E t \in Tasks : Task(t)
    \/ \E h \in Harvesters : StartHarvester(h) \/ EndHarvester(h) \/ StopSyncTask(h)

Next == StableNext \/ Crash

Spec == Init /\ [][Next]_vars
StableSpec == Init /\ [][StableNext]_vars

(* A goroutine that can run is run, and sync.RWMutex lets no reader pass a  *)
(* writer that waits, so a lock that is free again and again is obtained:   *)
(* strong fairness for the steps that take it.  The scheduler ticks for     *)
(* ever.  No harvester has to start, to read or to end, and the process may *)
(* die.                                                                     *)
Fairness ==
    /\ SF_vars(WriteState \/ DeleteFinished)
    /\ \A h \in Harvesters : WF_vars(Reply(h) \/ StopSyncTask(h))
    /\ \A t \in Tasks : WF_vars(Task(t)) /\ SF_vars(ClearModified(t))

FairSpec == Spec /\ Fairness

-----------------------------------------------------------------------------
(* Correctness.                                                            *)

TypeOK ==
    /\ mmap \in StatusMap
    /\ modified \in BOOLEAN
    /\ pmap \in [Jobs -> PropVals \cup {NoProp}]
    /\ snapshot \in StatusMap \cup {Unreadable}
    /\ booted \in BOOLEAN
    /\ cron \in BOOLEAN
    /\ hpc \in [Harvesters -> {"stopped", "running", "waiting", "sync", "writing"}]
    /\ tpc \in [Tasks -> {"off", "check", "unset", "sync", "writing"}]
    /\ buf \in [Syncers -> StatusMap]
    /\ pc \in {"idle", "write", "delete", "reply"}
    /\ msg \in Messages \cup {NoMsg}
    /\ out \in Seq(Messages)
    /\ events \in Nat /\ crashes \in Nat /\ errors \in Nat

\* Between two records no finished job is left in the status map: what the
\* comment "delete finished job from status snapshot" is about.  It is true only
\* while the process lives.
NoFinishedTracked == pc = "idle" => \A j \in Jobs : ~Finished(mmap[j])

\* The properties kept of a job are dropped with its status: the map of them does
\* not grow with every job LSF ever ran, although only one branch of
\* processJobEvent deletes from it and a restart empties it but not the other map.
PropsTracked ==
    pc = "idle" => \A j \in Jobs : pmap[j] # NoProp => mmap[j] # NoState

\* A task that has cleared the flag and not yet read the map.
Promised == \E t \in Tasks : tpc[t] = "sync"

\* A clear Modified flag can be trusted, whatever events, tasks and ending
\* harvesters did between a task's test of the flag, its clearing and its reading
\* of the map: the file holds the map, or a task is about to write it.
CleanMeansSaved ==
    errors = 0 /\ ~modified /\ NoReader /\ booted => LoadFile = mmap \/ Promised

\* Once every harvester has ended, a restart finds the map as they left it,
\* although the first of them to end has stopped the scheduler.
StoppedMeansSaved ==
    /\ errors = 0
    /\ booted
    /\ \A h \in Harvesters : hpc[h] = "stopped"
    /\ NoReader
    => LoadFile = mmap

\* A text that gets into the file is the map of that moment, never an older one
\* written over a newer one nor one overtaken while it was written, although tasks
\* and harvesters write the file side by side.
SnapshotIsCurrent ==
    [][snapshot' # snapshot /\ snapshot' # Unreadable => snapshot' = mmap']_vars

\* What StatusTrace has tracked of the jobs: before the map is loaded what the file
\* holds, and while processJobEvent is at work on a job the status it had before.
tracked ==
    [j \in Jobs |->
        IF ~booted THEN LoadFile[j]
        ELSE IF pc # "idle" /\ msg.job = j THEN msg.last ELSE mmap[j]]

reports ==
    [i \in 1 .. Len(out) |->
        [job |-> out[i].job, last |-> out[i].lastStatus, cur |-> out[i].cur]]

Trace == INSTANCE StatusTrace
         WITH Jobs <- Jobs, tracked <- tracked, reports <- reports, lives <- crashes

\* The messages, as published, are those of StatusTrace, in its order: each names the
\* status of the message before it of the job, unless the job was finished or that
\* status was PEND, or the process died in between.
ImplementsTrace == Trace!TraceSpec

\* The harvester that waits on its RetChan is answered, whatever the tasks do with
\* the lock.
Answered == pc # "idle" ~> pc = "idle"

\* Once no write fails any more, a change of the map reaches the file while the
\* scheduler runs, however long changes and tasks go on.  (A change whose write failed
\* is not promised: the flag was cleared before, and only the next change sets it.)
EventuallySaved ==
    modified /\ crashes + errors = MaxFaults ~> ~cron \/ LoadFile = mmap
=============================================================================
