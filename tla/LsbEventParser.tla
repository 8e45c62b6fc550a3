---------------------------- MODULE LsbEventParser ----------------------------
(***************************************************************************)
(* readlsbStream, readlsbEvents, readlsbAcct and readlsbStatus of          *)
(* lsfeventsparser/lsbevent_parse.c: a line of an LSF file in, the text of *)
(* a JSON object or NULL out.                                              *)
(*                                                                         *)
(* The four share initstream and its static stream, and differ in how they *)
(* read the record, in what they release, and when.  Go calls them from    *)
(* one goroutine, one line after the other, and never with NULL.           *)
(*                                                                         *)
(* liblsbstream.so and LSF answer as they please: the library or one of    *)
(* its functions may be missing, a line may not be a record, and the local *)
(* cluster may have no name.  Memory is never short.                       *)
(***************************************************************************)
EXTENDS LsbRecords

CONSTANTS
    Records,    \* the records of the lines, each with its type, and whether the first
                \* word of the line is quoted
    Cluster,    \* the name of the local cluster
    MaxCalls    \* bound: lines parsed

ASSUME ConstantsAssumption ==
    /\ NULL \notin Records /\ NULL \notin STRING
    /\ Cluster # NULL
    /\ NULL \notin {"text", "command", "copied", "ERROR"} \cup {c[2] : c \in JstatusStrings}
    /\ \A i \in 0 .. 31 : NULL # Term({i})

\* The types with id and index of the job packed in one number.
PackedTypes == {"JOB_FINISH2", "JOB_STARTLIMIT", "JOB_STATUS2", "JOB_CHUNK"}

\* LSF's numbers of jobs: an id is below LSB_ARRAY_BASE, by itself and in the string of a
\* JOB_MODIFY2.
ASSUME NumbersAssumption ==
    /\ LSB_ARRAY_BASE \in Nat \ {0} /\ NULL \notin Int
    /\ \A r \in Records :
          /\ r.idx \in Int /\ r.jobId \in Int
          /\ r.type \notin PackedTypes => r.jobId < LSB_ARRAY_BASE
          /\ r.type \in {"JOB_FINISH2", "JOB_STARTLIMIT"} => r.jobId >= 0
          /\ r.jobIdStr # NULL =>
                /\ r.jobIdStr.id \in Int /\ r.jobIdStr.id < LSB_ARRAY_BASE
                /\ r.jobIdStr.idx \in Int \cup {NULL}

\* The lengths of what LSF lists: names of hosts and of files, and digits of the ids of
\* processes and jobs.  Those of jobs, with the index packed in, have at most the 15 that
\* putJobChunk reckons with.
AtMost(lens, most) == lens \in Seq(Nat) /\ \A i \in DOMAIN lens : lens[i] <= most

ASSUME LengthsAssumption ==
    \A r \in Records :
        /\ AtMost(r.askedHosts, 64) /\ AtMost(r.reserHosts, 64)
        /\ AtMost(r.xf, 2 * 4093 + 10)
        /\ AtMost(r.pidDigits, 4 * 9) /\ AtMost(r.pgidDigits, 10)
        /\ AtMost(r.membDigits, 15)

\* The hosts of a record, named one by one or in the short form; a JOB_FINISH2 names each
\* with its slots.
ASSUME HostsAssumption ==
    \A r \in Records :
        /\ r.type # "JOB_FINISH2" /\ r.execHosts # NULL =>
              /\ r.execHosts \in Seq([times : Nat, host : Seq(STRING)])
              /\ getExecHostsHashmapArray(r.execHosts) # NULL
        /\ r.type = "JOB_FINISH2" =>
              /\ r.ru_utime \in Int /\ r.slotUsages \in Seq(Nat)
              /\ r.execHosts # NULL => DOMAIN r.execHosts = DOMAIN r.slotUsages

\* The combinations of bits LSF writes for a job: the cases of transformJstatus, those of
\* an exited job after its post-job process, and any other whose host is not reached.
JobStatuses ==
    {c[1] : c \in JstatusStrings} \cup
    {JOB_STAT_EXIT + JOB_STAT_PDONE, JOB_STAT_EXIT + JOB_STAT_PERR} \cup
    {s + JOB_STAT_UNKWN :
        s \in {JOB_STAT_PEND, JOB_STAT_PSUSP, JOB_STAT_RUN, JOB_STAT_SSUSP, JOB_STAT_USUSP}}

ASSUME StatusesAssumption ==
    \A r \in Records : r.type = "JOB_STATUS" => r.jStatus \in JobStatuses

VARIABLES
    handle,     \* stream.handle: NULL, open, or closed and not NULL
    pc,         \* where the call is
    reader,     \* which of the four
    rec,        \* the record of the line
    cluster,    \* what ls_getclustername returned
    logrec,     \* the memory of the record
    object,     \* and of objHeadHashmap, a local without a value at first
    json,       \* the object
    ret,
    calls

memory == <<logrec, object>>
input == <<reader, rec, calls>>
vars == <<handle, pc, input, cluster, memory, json, ret>>

Readers == {"Stream", "Events", "Acct", "Status"}

\* Stream and Status have the record from the library, the others from LSF in memory of
\* their own.
UsesLibrary == reader \in {"Stream", "Status"}

-----------------------------------------------------------------------------
(* The switch on the type of the record.                                    *)

ExecHosts(hosts) == [exec_hosts |-> getExecHostsHashmapArray(hosts)]

\* The types of readlsbStream and readlsbEvents.
EventMembers(r) ==
    CASE r.type = "JOB_NEW" -> putJobNew(r)
      [] r.type = "JOB_MODIFY2" -> putJobModify2(r)
      [] r.type \in {"JOB_START", "PRE_EXEC_START"} -> putJobStart(r) \o <<ExecHosts(r.execHosts)>>
      [] r.type = "JOB_START_ACCEPT" -> putJobStartAccept(r)
      [] r.type = "JOB_EXECUTE" -> putJobExecute(r)
      [] r.type = "JOB_CHUNK" -> putJobChunk(r) \o <<ExecHosts(r.execHosts)>>
      [] r.type = "JOB_FORCE" -> putJobForce(r) \o <<ExecHosts(r.execHosts)>>
      [] r.type = "JOB_RUN_RUSAGE" -> putRunRusage(r)
      [] r.type = "JOB_STATUS" -> putJobStatus(r)
      [] r.type = "SBD_UNREPORTED_STATUS" -> putSBDUnreportedStatus(r)
      [] r.type = "JOB_SIGACT" -> putJobSigact(r)
      [] r.type = "JOB_SWITCH" -> putJobSwitch(r)
      [] r.type = "JOB_MOVE" -> putJobMove(r)
      [] r.type = "UNFULFILL" -> putUnfulfillLog(r)
      [] r.type = "MIG" -> putMig(r)
      [] r.type = "JOB_SIGNAL" -> putJobSignal(r)
      [] r.type = "JOB_FORWARD" -> putJobForward(r)
      [] r.type = "JOB_ACCEPT" -> putJobAccept(r)
      [] r.type = "JOB_REQUEUE" -> putJobRequeue(r)
      [] r.type = "JOB_CLEAN" -> putJobClean(r)
      [] r.type = "JOB_EXCEPTION" -> putJobException(r)
      [] r.type \in {"JOB_EXT_MSG", "JOB_ATTA_DATA"} -> putJobExtMsg(r)
      [] r.type = "METRIC_LOG" -> putMetricLog(r)
      [] r.type = "JOB_FINISH" -> putJobFinish(r) \o <<ExecHosts(r.execHosts)>>
      [] r.type = "JOB_FINISH2" ->
            putJobFinish2(r) \o
            <<[exec_hosts |-> IF r.execHosts = NULL THEN NULL ELSE getJobExecHostsHashmapArray(r)]>>
      [] r.type = "JOB_STARTLIMIT" -> putJobStartLimit(r)

EventTypes ==
    {"JOB_NEW", "JOB_MODIFY2", "JOB_START", "PRE_EXEC_START", "JOB_START_ACCEPT", "JOB_EXECUTE",
     "JOB_CHUNK", "JOB_FORCE", "JOB_RUN_RUSAGE", "JOB_STATUS", "SBD_UNREPORTED_STATUS",
     "JOB_SIGACT", "JOB_SWITCH", "JOB_MOVE", "UNFULFILL", "MIG", "JOB_SIGNAL", "JOB_FORWARD",
     "JOB_ACCEPT", "JOB_REQUEUE", "JOB_CLEAN", "JOB_EXCEPTION", "JOB_EXT_MSG", "JOB_ATTA_DATA",
     "METRIC_LOG", "JOB_FINISH", "JOB_FINISH2", "JOB_STARTLIMIT"}

\* getJobRunTimeHostsHashmapArray gives up before its first host: there are no exec_hosts.
StatusMembers(r) ==
    IF r.jobId > 0 THEN putJobStatus2(r)
    ELSE IF r.jobId = 0 THEN putJobStatus2Pend(r) ELSE <<>>

Types(which) ==
    CASE which \in {"Stream", "Events"} -> EventTypes
      [] which = "Acct" -> {"JOB_FINISH"}
      [] which = "Status" -> {"JOB_STATUS2"}

\* All but readlsbStatus add the name of the local cluster, last.
Members(which, r, name) ==
    <<[event_type |-> r.type]>> \o
    (IF which = "Status" THEN StatusMembers(r)
     ELSE EventMembers(r) \o <<[cluster_name |-> name]>>)

\* A format or text that is NULL, of an exit reason there is no text for.
FormatsNull(r) ==
    \/ r.type = "JOB_FINISH2" /\ ReasonOrNull(r) = NULL
    \/ r.type = "JOB_FINISH" /\ r.jStatus # JOB_STAT_DONE /\ r.exitInfo = 31

-----------------------------------------------------------------------------
(* A call.                                                                  *)

Goto(l) == pc' = l

Return(value) ==
    /\ pc' = "returned"
    /\ ret' = value

Call ==
    /\ pc = "returned" /\ calls < MaxCalls
    /\ reader' \in Readers
    /\ rec' \in Records
    /\ calls' = calls + 1
    /\ logrec' = "none" /\ object' = "unset"
    /\ cluster' = NULL /\ json' = <<>>
    /\ ret' = NULL
    /\ Goto("init")
    /\ UNCHANGED handle

\* Only the first call loads the library; one that is closed again counts as loaded.
InitAgain ==
    /\ pc = "init" /\ handle # NULL
    /\ Goto("read")
    /\ UNCHANGED <<handle, input, cluster, memory, json, ret>>

InitNoLibrary ==
    /\ pc = "init" /\ handle = NULL
    /\ Return(NULL)
    /\ UNCHANGED <<handle, input, cluster, memory, json>>

InitLoads ==
    /\ pc = "init" /\ handle = NULL
    /\ handle' = "open"
    /\ Goto("read")
    /\ UNCHANGED <<input, cluster, memory, json, ret>>

\* screwed: one of the two functions is not in it.
InitScrewed ==
    /\ pc = "init" /\ handle = NULL
    /\ handle' = "closed"
    /\ Return(NULL)
    /\ UNCHANGED <<input, cluster, memory, json>>

\* A call of a function that is NULL or no longer mapped.
ReadCrashes ==
    /\ pc = "read" /\ UsesLibrary /\ handle = "closed"
    /\ Goto("crashed")
    /\ UNCHANGED <<handle, input, cluster, memory, json, ret>>

\* The memory lsb_geteventrecbyline was to fill is left.
ReadFails ==
    /\ pc = "read" /\ (UsesLibrary => handle = "open")
    /\ logrec' = IF UsesLibrary THEN "none" ELSE "live"
    /\ Return(NULL)
    /\ UNCHANGED <<handle, input, cluster, object, json>>

ReadRecord ==
    /\ pc = "read" /\ (UsesLibrary => handle = "open")
    /\ logrec' = "live"
    /\ Goto("type")
    /\ UNCHANGED <<handle, input, cluster, object, json, ret>>

HasType ==
    /\ pc = "type" /\ rec.quoted
    /\ object' = "live"
    /\ Goto("put")
    /\ UNCHANGED <<handle, input, cluster, logrec, json, ret>>

\* Mutant: readlsbAcct has a goto, too.
NoTypeEndsAcct ==
    /\ pc = "type" /\ ~rec.quoted
    /\ IF reader # "Status" THEN Goto("end") /\ UNCHANGED ret ELSE Return(NULL)
    /\ UNCHANGED <<handle, input, cluster, memory, json>>

\* A goto in readlsbStream and readlsbEvents, a return in the other two.
NoType ==
    /\ pc = "type" /\ ~rec.quoted
    /\ IF reader \in {"Stream", "Events"} THEN Goto("end") /\ UNCHANGED ret ELSE Return(NULL)
    /\ UNCHANGED <<handle, input, cluster, memory, json>>

PutUnknown ==
    /\ pc = "put" /\ rec.type \notin Types(reader)
    /\ Return(NULL)
    /\ UNCHANGED <<handle, input, cluster, memory, json>>

PutMembers ==
    /\ pc = "put" /\ rec.type \in Types(reader)
    /\ cluster' \in {Cluster, NULL}
    /\ json' = Json(Members(reader, rec, cluster'))
    /\ Goto("end")
    /\ UNCHANGED <<handle, input, memory, ret>>

PutCrashes ==
    /\ pc = "put" /\ rec.type \in Types(reader) /\ FormatsNull(rec)
    /\ Goto("crashed")
    /\ UNCHANGED <<handle, input, cluster, memory, json, ret>>

\* Mutant: readlsbStatus keeps the record.
EndKeepsStatus ==
    /\ pc = "end"
    /\ logrec' = IF reader = "Stream" THEN "freed" ELSE logrec
    /\ Goto("text")
    /\ UNCHANGED <<handle, input, cluster, object, json, ret>>

\* The library frees its record before the object is made a text.
End ==
    /\ pc = "end"
    /\ logrec' = IF UsesLibrary THEN "freed" ELSE logrec
    /\ Goto("text")
    /\ UNCHANGED <<handle, input, cluster, object, json, ret>>

\* readlsbEvents frees its own after it, readlsbAcct never.
FreeLogrec == logrec' = IF reader = "Events" THEN "freed" ELSE logrec

Finish ==
    /\ pc = "text" /\ object = "live"
    /\ object' = "freed"
    /\ FreeLogrec
    /\ Return("text")
    /\ UNCHANGED <<handle, input, cluster, json>>

\* The local that was never set is whatever the stack holds: NULL, which has no text and
\* is not freed, or no object at all.
FinishUnset ==
    /\ pc = "text" /\ object = "unset"
    /\ \/ FreeLogrec /\ Return(NULL)
       \/ Goto("crashed") /\ UNCHANGED <<logrec, ret>>
    /\ UNCHANGED <<handle, input, cluster, object, json>>

Init ==
    /\ handle = NULL
    /\ pc = "returned" /\ ret = NULL /\ calls = 0
    /\ reader = NULL /\ rec = NULL /\ cluster = NULL
    /\ logrec = "none" /\ object = "unset" /\ json = <<>>

Next ==
    \/ Call
    \/ InitAgain \/ InitNoLibrary \/ InitLoads \/ InitScrewed
    \/ ReadCrashes \/ ReadFails \/ ReadRecord
    \/ HasType \/ NoType
    \/ PutUnknown \/ PutMembers \/ PutCrashes
    \/ End \/ Finish \/ FinishUnset

Spec == Init /\ [][Next]_vars

-----------------------------------------------------------------------------
(* Properties.                                                              *)

\* The memory of a record and of its object is left behind only where the code leaves
\* it: the record by readlsbAcct, which never frees it; both by a type the function has
\* no case for, which returns at once; and the record alone by readlsbEvents when the
\* line is none and by readlsbStatus when its first word is not quoted.
NothingLeft ==
    pc = "returned" /\ calls > 0 =>
        /\ object = "live" => rec.type \notin Types(reader)
        /\ logrec = "live" =>
              \/ reader = "Acct"
              \/ object = "live"
              \/ ret = NULL /\ reader = "Events"
              \/ ret = NULL /\ reader = "Status" /\ ~rec.quoted

\* The process dies of a line in three ways only, none of them by readlsbAcct alone: a
\* library that lacked a function at the first call is called all the same at the next;
\* the object of a line whose first word is not quoted is not one; an exit reason has
\* no text.
CrashesExplained ==
    pc = "crashed" =>
        \/ UsesLibrary /\ handle = "closed" /\ logrec = "none"
        \/ reader \in {"Stream", "Events"} /\ ~rec.quoted /\ object = "unset"
        \/ rec.type \in Types(reader) /\ FormatsNull(rec)

Done == pc = "returned" /\ ret = "text"

Has(keys) == keys \subseteq DOMAIN json

\* The job a record is of, as LSF numbers it.
JobNumber(r) ==
    CASE r.type \in PackedTypes -> r.jobId
      [] r.type = "JOB_MODIFY2" ->
            r.jobIdStr.id +
            (IF r.jobIdStr.idx = NULL THEN 0 ELSE r.jobIdStr.idx * LSB_ARRAY_BASE)
      [] OTHER -> r.idx * LSB_ARRAY_BASE + r.jobId

\* METRIC_LOG is of no job, and neither is a pending JOB_STATUS2, which counts those of a
\* user, nor a JOB_MODIFY2 without a job id.
OfNoJob(r) ==
    \/ r.type = "METRIC_LOG"
    \/ r.type = "JOB_STATUS2" /\ r.jobId <= 0
    \/ r.type = "JOB_MODIFY2" /\ r.jobIdStr = NULL

\* The fields of a JOB_NEW that mapTransfer keeps for the status messages of its job.
extraFields ==
    {"user_name", "queue_name", "job_name", "project_name", "user_group_name", "job_group",
     "app_profile"}

\* What getUid makes of the object is the same for all records of a job, however each
\* type packs, splits or prints its number: id and index of the object are those of the
\* job, except that a chunk is named by the packed number of its first member.  The
\* cluster is the local one, or, when LSF did not name it, absent but for the types that
\* have one of their own.  A JOB_NEW has the fields recordJobProperty looks for.
UidIsJob ==
    Done =>
        /\ OfNoJob(rec) <=> ~Has({"job_id", "job_arr_idx"})
        /\ ~OfNoJob(rec) =>
              /\ json["job_arr_idx"] * LSB_ARRAY_BASE + json["job_id"] = JobNumber(rec)
              /\ rec.type = "JOB_CHUNK" \/ json["job_id"] < LSB_ARRAY_BASE
        /\ IF reader = "Status"
           THEN Has({"cluster_name"}) => json["cluster_name"] \in {rec.clusterName, "-"}
           ELSE IF cluster # NULL THEN json["cluster_name"] = Cluster
           ELSE rec.type \in {"JOB_FINISH2", "JOB_STARTLIMIT"} \/ ~Has({"cluster_name"})
        /\ rec.type = "JOB_NEW" => Has(extraFields)

Go == INSTANCE JobStates

Bit(n, b) == (n \div b) % 2 = 1

\* The name of a JOB_STATUS reaches the Go side as a status whatever combination of bits
\* LSF writes for a job that has one, and as a finished one, at which the job is
\* forgotten, when LSF is through with the job or does not know it and at no other time.
\* A combination without a name of its own is an "ERROR", which is finished, too.
StatusReachesGo ==
    Done /\ rec.type = "JOB_STATUS" =>
        LET s == Go!StatusOf(json["job_status"])
            over == {JOB_STAT_EXIT, JOB_STAT_DONE, JOB_STAT_PDONE, JOB_STAT_PERR, JOB_STAT_UNKWN}
        IN /\ s = Go!NoState <=> rec.jStatus = JOB_STAT_NULL
           /\ Go!Finished(s) <=> \E b \in over : Bit(rec.jStatus, b)

\* A JOB_FINISH and a JOB_FINISH2 of the same job give the same reason, the one the exit
\* info names, for each the table has a text of its own for.
ReasonNamesExitInfo ==
    /\ Done
    /\ rec.type \in {"JOB_FINISH", "JOB_FINISH2"}
    /\ rec.jStatus = JOB_STAT_EXIT
    /\ rec.exitInfo \in 1 .. 29
    => json["exit_reason"] = Term({rec.exitInfo})

\* Slots by host of a record that names hosts one by one or in the short form.
Slots(hosts, h) ==
    SumFunction([i \in DOMAIN hosts |->
        IF hosts[i].host # h THEN 0 ELSE IF hosts[i].times > 0 THEN hosts[i].times ELSE 1])

\* A host in the short form is named once.
ShortOnce(hosts) ==
    \A i, j \in DOMAIN hosts :
        i # j /\ hosts[i].host = hosts[j].host => hosts[i].times = 0 /\ hosts[j].times = 0

Listed(r) == "exec_hosts" \in DOMAIN json /\ r.type # "JOB_FINISH2"

\* The table of hosts has each slot of the job once, under its host, and the list of a
\* JOB_FINISH counts the names as the table does.  The hosts of a JOB_FINISH2 have
\* between them its processors and its usage, when LSF does not give the usage of each.
HostsAgree ==
    Done =>
        /\ Listed(rec) /\ ShortOnce(rec.execHosts) =>
              \A e \in Range(json["exec_hosts"]) :
                  e.num_slots = Slots(rec.execHosts, e.host_name)
        /\ Listed(rec) => Cardinality(DOMAIN json["exec_hosts"]) <= json["num_exec_hosts"]
        /\ Has({"exec_hosts_list"}) =>
              \A n \in DOMAIN json["exec_hosts"] :
                  n.times = 0 => json["exec_hosts"][n].num_slots = json["exec_hosts_list"].counts[n]
        /\ rec.type = "JOB_FINISH2" /\ Has({"exec_hosts"}) =>
              LET hosts == json["exec_hosts"]
              IN /\ json["num_processors"] =
                        SumFunction([i \in DOMAIN hosts |-> hosts[i].num_slots])
                 /\ rec.hostRusage = <<>> /\ json["num_processors"] > 0 /\ rec.ru_utime >= 0 =>
                        /\ \A i \in DOMAIN hosts : hosts[i].usage.utime.by = json["num_processors"]
                        /\ rec.ru_utime * json["num_processors"] =
                               SumFunction([i \in DOMAIN hosts |-> hosts[i].usage.utime.of])

Buffers ==
    LET Of(key) == IF key \in DOMAIN json THEN {json[key]} ELSE {}
    IN Of("asked_hosts") \cup Of("reserve_hosts") \cup Of("xfer_files")
       \cup {t.text : t \in Of("exec_hosts_list")}
       \cup UNION {{t.pid_info, t.pgids} : t \in Of("run_rusage")}

\* A chunk each of whose ids has the 15 digits there is room for.
FullMembers(r) == \A i \in DOMAIN r.membDigits : r.membDigits[i] = 15

\* No list of hosts, files or processes is longer than the buffer it is put together in,
\* with its last blank and its NUL.  That of the members of a chunk is, by the byte of its
\* NUL, when all their ids have 15 digits, and at no other time.
BuffersFit ==
    Done =>
        /\ \A b \in Buffers \ {NULL} : b.used <= b.size
        /\ Has({"memb_job_id"}) =>
              json["memb_job_id"].used <=
                  json["memb_job_id"].size + (IF FullMembers(rec) THEN 1 ELSE 0)

\* "support jobid lenght is 15bit" (putJobChunk, on its buffer of 16 bytes for each id): the
\* list of ids of at most 15 digits fits its buffer.
MembersFit ==
    Done /\ Has({"memb_job_id"}) => json["memb_job_id"].used <= json["memb_job_id"].size
=============================================================================
