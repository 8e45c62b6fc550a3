------------------------------ MODULE LsbRecords ------------------------------
(***************************************************************************)
(* The put functions of lsfeventsparser/lsbevent_parse.c: the members each *)
(* type of LSF record gives the JSON object, with the keys of              *)
(* lsbevent_fields.h and lsbevent_parse.h.                                 *)
(*                                                                         *)
(* A put function is the sequence of the groups of members it adds.  A     *)
(* member that is a field of the record as it is, with no other part in    *)
(* the system than to be passed on, is "copied".  A string that is NULL is *)
(* not added.  The object is what encoding/json makes of the text: of two  *)
(* members with one key the last.                                          *)
(*                                                                         *)
(* A record r has the fields of its type that are read here, and eventTime *)
(* and times, a function of the keys of its times.                         *)
(***************************************************************************)
EXTENDS LsbValues

Written(members) == {k \in DOMAIN members : members[k] # NULL}

Json(groups) ==
    LET written == [i \in DOMAIN groups |-> Written(groups[i])]
    IN [k \in UNION Range(written) |->
            groups[CHOOSE i \in DOMAIN groups :
                        /\ k \in written[i]
                        /\ \A j \in i + 1 .. Len(groups) : k \notin written[j]][k]]

Copies(keys) == [k \in keys |-> "copied"]

-----------------------------------------------------------------------------
(* Groups of members several types have.                                    *)

putJobHEAD(r) ==
    <<[version |-> "copied", event_time |-> timeConvert(r.eventTime), event_time_utc |-> r.eventTime]>>

\* The head of JOB_FINISH2 and JOB_STARTLIMIT.
Epoch(r) ==
    <<[version |-> "copied", event_time_str |-> timeConvert(r.eventTime), epoch |-> r.eventTime]>>

Job(r) == [job_id |-> r.jobId, job_arr_idx |-> r.idx]

\* Mutant: index and id the wrong way round.
PackedJobSwapped(r) == [job_id |-> LSB_ARRAY_IDX(r.jobId), job_arr_idx |-> LSB_ARRAY_JOBID(r.jobId)]

PackedJob(r) == [job_id |-> LSB_ARRAY_JOBID(r.jobId), job_arr_idx |-> LSB_ARRAY_IDX(r.jobId)]

JobStatus(r) == [job_status_code |-> r.jStatus, job_status |-> transformJstatus(r.jStatus)]

TimeStr ==
    [submit_time |-> "submit_time_str", begin_time |-> "begin_time_str",
     term_time |-> "term_time_str", start_time |-> "start_time_str", end_time |-> "end_time_str"]

\* Each time as a number and, if it is one, as a text.
Times(r, keys) ==
    [k \in keys \cup {TimeStr[t] : t \in keys} |->
        IF k \in keys THEN r.times[k]
        ELSE timeConvert(r.times[CHOOSE t \in keys : TimeStr[t] = k])]

\* Milliseconds: putJobFinish2 multiplies ints, putJobFinish longs.
UtcKeys == {"submit_time_utc", "start_time_utc", "end_time_utc"}

JobName(r) ==
    LET name == IF r.jobName \in {NULL, ""} THEN "command" ELSE r.jobName
    IN [job_name |-> name, job_name_full |-> name]

\* "" is no directory, "/" one from the root and any other one below home.
Cwd(dir, home) ==
    [cwd |-> IF dir = NULL \/ dir = "" THEN home ELSE IF dir = "/" THEN dir ELSE home \o "/"]

\* countJobByName: indices is the list JobArray ends with, NULL for a name without one.
ArrayElements(r) ==
    IF r.indices = NULL THEN [num_arr_elements |-> 1]
    ELSE [num_arr_elements |-> IF r.indices = <<>> THEN NULL ELSE Len(r.indices),
          job_idx_list |-> r.indices]

putLsfRusage ==
    Copies({"utime", "stime", "max_rss", "ixrss", "ismrss", "idrss", "isrss", "minor_faults",
            "major_faults", "num_swapout", "block_in", "block_out", "io_chars", "msgsnd", "msgrcv",
            "num_signals", "num_v_csw", "num_inv_csw", "exutime"})

putRLimitArray ==
    [resource_limit |->
        Copies({"cpu", "fsize", "data", "stack", "core", "rss", "files", "open_max", "vmem",
                "runtime", "process", "thread"})]

putXFStructure(r) == [num_xfer_files |-> Len(r.xf), xfer_files |-> FileList(r.xf)]

putAskedhostlist(r) == [num_asked_hosts |-> Len(r.askedHosts), asked_hosts |-> HostList(r.askedHosts)]

NumExecHosts(hosts) == [num_exec_hosts |-> IF hosts = NULL THEN 0 ELSE Len(hosts)]

\* What getExecHostsStr adds to the object of its caller.
NumProcessors(hosts) == IF hosts = NULL THEN <<>> ELSE [num_processors |-> TotalSlots(hosts)]

-----------------------------------------------------------------------------
(* lsb.events and lsb.stream: submission.                                   *)

\* What a JOB_NEW copies.
JobNewFields ==
    {"uid", "user_name", "job_opts", "job_opts_2", "req_num_procs_min", "signal_value",
     "checkpoint_interval", "restart_pid", "host_spec", "host_cpu_factor", "umask",
     "queue_name", "res_req", "submission_host_name", "src_cluster_name", "checkpoint_dir",
     "in_file", "out_file", "err_file", "in_file_spool", "command_spool", "job_spool_dir",
     "submitter_home", "job_file", "depend_cond", "time_event", "command", "preexec_cmd",
     "mail_user", "project_name", "nios_port", "req_num_procs_max", "sched_host_type",
     "login_shell", "user_group_name", "except_list", "prio", "adv_rsv_id", "job_group",
     "extsched", "warning_time_period", "warning_action", "sla", "sla_run_limit",
     "lic_project_name", "job_description", "postexec_cmd", "runtime_est", "job_opts_3",
     "app_profile", "flow_id"}

putJobNew(r) ==
    putJobHEAD(r) \o
    <<Job(r), Times(r, {"submit_time", "begin_time", "term_time"}),
      [job_status |-> IF r.hold THEN transformJstatus(JOB_STAT_PSUSP) ELSE NULL],
      [resource_limit |-> putRLimitArray],
      Cwd(r.subcwd, r.subHomeDir), JobName(r), putXFStructure(r), putAskedhostlist(r),
      ArrayElements(r),
      Copies(JobNewFields)>>

\* The index, 0 at first, is written again when the string has one.
ModifiedJob(r) ==
    <<[job_arr_idx |-> 0],
      IF r.jobIdStr = NULL THEN <<>> ELSE [job_id |-> r.jobIdStr.id, job_arr_idx |-> r.jobIdStr.idx]>>

\* What a JOB_MODIFY2 copies.
JobModify2Fields ==
    {"uid", "job_opts", "job_opts_2", "job_opts_delete", "job_opts_2_delete", "user_name",
     "umask", "req_num_procs_min", "signal_value", "restart_pid", "queue_name", "res_req",
     "host_spec", "depend_cond", "time_event", "submitter_home", "in_file", "out_file",
     "err_file", "command", "in_file_spool", "command_spool", "checkpoint_interval",
     "checkpoint_dir", "job_file", "submission_host_name", "preexec_cmd", "mail_user",
     "project_name", "nios_port", "req_num_procs_max", "login_shell", "sched_host_type",
     "user_group_name", "except_list", "prio", "adv_rsv_id", "extsched", "warning_time_period",
     "warning_action", "job_group", "sla", "lic_project_name", "job_opts_3",
     "job_opts_3_delete", "app_profile", "aps_string", "postexec_cmd", "runtime_est"}

\* The name that is counted is read as a JOB_NEW's: any, with any list.
putJobModify2(r) ==
    putJobHEAD(r) \o ModifiedJob(r) \o
    <<Times(r, {"submit_time", "begin_time", "term_time"}),
      [job_name |-> r.jobName, job_name_full |-> r.jobName],
      IF r.subcwd \in {NULL, ""} THEN <<>> ELSE Cwd(r.subcwd, "$HOME"),
      [resource_limit |-> putRLimitArray], putXFStructure(r), putAskedhostlist(r),
      ArrayElements(r),
      Copies(JobModify2Fields)>>

-----------------------------------------------------------------------------
(* Dispatch and execution.                                                  *)

putJobStart(r) ==
    putJobHEAD(r) \o
    <<Job(r), JobStatus(r),
      [start_time |-> r.eventTime, start_time_str |-> timeConvert(r.eventTime)],
      NumExecHosts(r.execHosts), NumProcessors(r.execHosts),
      Copies({"job_pid", "job_pgid", "host_cpu_factor", "queue_pre_cmd", "queue_post_cmd",
        "job_flags", "user_group_name", "additional_info", "preempt_backfill",
        "effective_res_req", "alloc_slots_num"})>>

\* event_time, a text in the head, is written again as a number.
putJobStartAccept(r) ==
    putJobHEAD(r) \o
    <<Job(r), [start_time |-> r.eventTime, event_time |-> r.eventTime,
               start_time_str |-> timeConvert(r.eventTime),
               event_time_str |-> timeConvert(r.eventTime)],
      Copies({"job_pid", "job_pgid"})>>

putJobExecute(r) ==
    putJobHEAD(r) \o
    <<Job(r), [start_time |-> r.eventTime, start_time_str |-> timeConvert(r.eventTime)],
      Copies({"exec_uid", "exec_home", "cwd", "job_pgid", "exec_user_name", "job_pid",
        "additional_info", "sla_scaled_run_limit", "position", "exec_rusage",
        "preempt_backfill"})>>

\* The first member's id, as it is, names the record.
putJobChunk(r) ==
    putJobHEAD(r) \o
    <<[memb_size |-> Len(r.membDigits), memb_job_id |-> MemberList(r.membDigits)],
      [job_arr_idx |-> 0, job_id |-> r.jobId], NumExecHosts(r.execHosts)>>

putJobForce(r) ==
    putJobHEAD(r) \o
    <<Job(r), NumExecHosts(r.execHosts),
      Copies({"uid", "run_options", "user_name", "queue_name"})>>

putJRusage(r) ==
    [run_rusage |->
        [num_pids |-> Len(r.pidDigits), pid_info |-> PidList(r.pidDigits),
         num_pgids |-> Len(r.pgidDigits), pgids |-> PgidList(r.pgidDigits)]]

putRunRusage(r) == putJobHEAD(r) \o <<Job(r), putJRusage(r)>>

putJobStatus(r) ==
    putJobHEAD(r) \o
    <<Job(r), JobStatus(r), Times(r, {"end_time"}), putLsfRusage,
      [exit_status |-> r.exitStatus, exit_info |-> r.exitInfo],
      Copies({"pend_reason", "pend_subreason", "cpu_time", "rusage_flag", "job_flags", "max_mem",
        "avg_mem"})>>

\* The code of the new status, without its name.
putSBDUnreportedStatus(r) ==
    putJobHEAD(r) \o
    <<Job(r), [job_status_code |-> r.jStatus], putLsfRusage,
      [exit_status |-> r.exitStatus, exit_info |-> r.exitInfo],
      Copies({"action_pid", "job_pid", "job_pgid", "pend_reason", "pend_subreason", "exec_uid",
        "cwd", "exec_home", "exec_user_name", "msg_idx", "signal_value",
        "action_log_status_code", "sequence"}), putJRusage(r)>>

putJobSigact(r) ==
    putJobHEAD(r) \o
    <<Job(r), JobStatus(r),
      Copies({"action_period", "action_pid", "pend_subreason", "action_flags", "signal_symbol",
        "action_status_code"})>>

-----------------------------------------------------------------------------
(* Control, remote clusters and messages.                                   *)

putJobSwitch(r) == putJobHEAD(r) \o <<Job(r), Copies({"uid", "queue_name", "user_name"})>>

putJobMove(r) == putJobHEAD(r) \o <<Job(r), Copies({"uid", "position", "base", "user_name"})>>

putUnfulfillLog(r) ==
    putJobHEAD(r) \o
    <<Job(r), Copies({"not_switched", "sig", "sig1", "sig1_flags", "checkpoint_interval",
        "not_modified", "misc_opts_4_pend_sig"})>>

putMig(r) == putJobHEAD(r) \o <<Job(r), putAskedhostlist(r), Copies({"uid", "user_name"})>>

putJobSignal(r) ==
    putJobHEAD(r) \o <<Job(r), Copies({"uid", "signal_symbol", "run_count", "user_name"})>>

putReservhostlist(r) ==
    [num_reserve_hosts |-> Len(r.reserHosts), reserve_hosts |-> HostList(r.reserHosts)]

putJobForward(r) ==
    putJobHEAD(r) \o
    <<Job(r), putReservhostlist(r), Copies({"remote_cluster_name", "remote_job_attrs"})>>

putJobAccept(r) ==
    putJobHEAD(r) \o <<Job(r), Copies({"src_job_id", "src_cluster_name", "remote_job_attrs"})>>

putJobRequeue(r) == putJobHEAD(r) \o <<Job(r)>>

putJobClean(r) == putJobHEAD(r) \o <<Job(r)>>

putJobException(r) ==
    putJobHEAD(r) \o
    <<Job(r), Copies({"except_mask", "action_mask", "time_event", "exception_code"})>>

putJobExtMsg(r) ==
    putJobHEAD(r) \o
    <<Job(r), Copies({"msg_idx", "desc", "uid", "data_size", "post_time", "data_status",
        "file_name", "user_name"})>>

\* All of it one level down, the members that name no job among them; the version is
\* in tenths.
putMetricLog(r) ==
    putJobHEAD(r) \o
    <<[performance_metrics |->
        Copies({"logstart", "loginterval", "mbatchd_requests", "job_queries", "queue_queries",
          "host_queries", "job_submit_reqs", "jobs_submitted", "jobs_dispatched",
          "jobs_completed", "job_id", "job_arr_idx", "job_status_code", "job_pid",
          "jobs_to_remote", "jobs_from_remote"} \cup
          (IF r.version >= 91 THEN {"mbd_files_free", "mbd_files_used", "sched_interval",
                                   "match_host_crit", "job_buckets"} ELSE {}))]>>

-----------------------------------------------------------------------------
(* Finished jobs.                                                           *)

\* The figures of bacct; the two factors, quotients of these, are copied.
Statistics(r) ==
    LET wait == IF r.times["start_time"] > 0 THEN r.times["start_time"] ELSE r.times["end_time"]
    IN [done_flag |-> IF r.jStatus = JOB_STAT_DONE THEN 1 ELSE 0,
        exit_flag |-> IF r.jStatus = JOB_STAT_EXIT THEN 1 ELSE 0,
        pend_time |-> wait - r.times["submit_time"],
        turnaround_time |-> r.times["end_time"] - r.times["submit_time"]]

\* What a JOB_FINISH copies.
JobFinishFields ==
    {"hog_factor", "expand_factor", "effective_res_req", "total_provision_time", "uid",
     "user_name", "job_opts", "req_num_procs_min", "queue_name", "res_req",
     "submission_host_name", "run_time", "in_file", "out_file", "err_file", "in_file_spool",
     "command_spool", "job_file", "host_cpu_factor", "cpu_time", "command", "depend_cond",
     "time_event", "preexec_cmd", "mail_user", "project_name", "req_num_procs_max",
     "login_shell", "max_mem", "avg_mem", "max_swap", "adv_rsv_id", "sla", "except_mask",
     "additional_info", "warning_time_period", "warning_action", "charged_saap",
     "lic_project_name", "job_description", "runlimit", "postexec_cmd", "runtime_est",
     "job_group", "app_profile", "flow_id"}

putJobFinish(r) ==
    putJobHEAD(r) \o
    <<Statistics(r), Job(r), JobStatus(r),
      Times(r, {"submit_time", "begin_time", "term_time", "start_time", "end_time"}),
      [k \in UtcKeys |-> "milliseconds"],
      IF r.subcwd \in {NULL, ""} THEN <<>> ELSE Cwd(r.subcwd, "$HOME"),
      JobName(r), putLsfRusage, putAskedhostlist(r), NumExecHosts(r.execHosts),
      NumProcessors(r.execHosts),
      [exec_hosts_list |-> IF r.execHosts = NULL THEN NULL ELSE getExecHostsStr(r.execHosts)],
      [exit_reason |-> getExitReason(r), exit_info |-> r.exitInfo, exit_status |-> r.exitStatus],
      Copies(JobFinishFields)>>

JobType(r) ==
    IF r.interactive
    THEN IF r.numProcessors > 1 THEN "interactive & parallel" ELSE "interactive"
    ELSE IF r.numProcessors > 1 THEN "parallel" ELSE "batch"

\* WIFEXITED: the low seven bits are zero.
JobSignalCode(r) ==
    IF r.exitStatus % 128 = 0 THEN (r.exitStatus \div 256) % 256 ELSE r.exitStatus % 128

\* What a JOB_FINISH2 copies.
JobFinish2Fields ==
    {"user_name", "job_opts", "req_num_procs_min", "queue_name", "res_req",
     "submission_host_name", "cwd", "in_file", "out_file", "job_file", "cpu_time", "job_name",
     "command", "preexec_cmd", "project_name", "req_num_procs_max", "sla", "charged_saap",
     "lic_project_name", "runlimit", "job_description", "job_opts_3", "requeue_exit_vals",
     "depend_cond", "job_opts_2", "host_cpu_factor", "except_mask", "adv_rsv_id",
     "effective_res_req", "flow_id", "forward_time", "src_cluster_name", "src_job_id",
     "dst_cluster_name", "dst_job_id", "postexec_cmd", "job_group", "app_profile",
     "exec_rusage", "user_group_name", "run_time", "total_provision_time"}

putJobFinish2(r) ==
    Epoch(r) \o
    <<PackedJob(r), JobStatus(r), [job_type |-> JobType(r), num_processors |-> getNumExecProc(r)],
      Times(r, {"submit_time", "begin_time", "term_time", "start_time", "end_time"}),
      [k \in UtcKeys |-> "milliseconds mod 2^32"],
      [exit_status |-> r.exitStatus, exit_info |-> r.exitInfo, exit_reason |-> formatExitReason(r),
       signal_value |-> JobSignalCode(r), exit_code |-> JobSignalCode(r)],
      putLsfRusage, NumExecHosts(r.execHosts), [cluster_name |-> r.clusterName],
      [virtualization |-> IF r.vmjob THEN "Y" ELSE "N"],
      Copies(JobFinish2Fields)>>

putJobStartLimit(r) ==
    Epoch(r) \o
    <<PackedJob(r), [cluster_name |-> r.clusterName],
      [k \in {"cluster_rlimit", "job_rlimit"} |->
        Copies({"cpu", "fsize", "data", "stack", "core", "mem", "nofile", "open_max", "swap",
                "runtime", "process", "thread"})]>>

-----------------------------------------------------------------------------
(* lsb.status.                                                              *)

OrDash(s) == IF s \in {NULL, ""} THEN "-" ELSE s

DashedFields(r) ==
    <<[cluster_name |-> OrDash(r.clusterName), job_status |-> transformJstatus(r.jStatus)],
      [k \in {"user_name", "queue_name", "res_req", "project_name", "job_group", "app_profile",
              "user_group_name"} |-> "copied or -"],
      Copies({"sample_interval", "req_num_procs_min", "num_jobs", "job_rmt_attr",
              "pend_reason"})>>

putJobStatus2(r) ==
    putJobHEAD(r) \o DashedFields(r) \o
    <<PackedJob(r), Times(r, {"submit_time", "start_time", "end_time"}), putLsfRusage,
      NumExecHosts(r.execHosts), [slot_flag |-> getSlotFlag(r)],
      [virtualization |-> IF r.vmjob THEN "Y" ELSE "N"],
      [exec_rusage |-> "copied or -"], Copies({"runtime_delta", "provtime_delta"})>>

\* The pending jobs of a user are one record, with no index.
putJobStatus2Pend(r) ==
    putJobHEAD(r) \o DashedFields(r) \o <<[job_id |-> r.jobId], Copies({"num_processors"})>>
=============================================================================
