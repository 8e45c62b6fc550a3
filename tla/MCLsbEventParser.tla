--------------------------- MODULE MCLsbEventParser ---------------------------
(* Records for TLC: of each type one with nothing in it, and those that differ in *)
(* what the properties look at.                                            *)
EXTENDS LsbEventParser

Of(times, host) == [times |-> times, host |-> host]
a == Of(0, <<"a">>)
b == Of(0, <<"b", "b">>)
aa == Of(2, <<"a">>)

TimesOf(t) ==
    [k \in DOMAIN TimeStr |->
        CASE k = "submit_time" -> 3
          [] k = "end_time" -> 9
          [] OTHER -> t]

Plain ==
    [type |-> "JOB_REQUEUE", quoted |-> TRUE, version |-> 101, eventTime |-> 9,
     times |-> TimesOf(0), jobId |-> 3, idx |-> 2, jStatus |-> JOB_STAT_RUN, hold |-> FALSE,
     subcwd |-> "", subHomeDir |-> "home", jobName |-> "j", indices |-> NULL, xf |-> <<>>,
     askedHosts |-> <<>>, reserHosts |-> <<>>, jobIdStr |-> NULL, execHosts |-> NULL,
     membDigits |-> <<1, 9>>, pidDigits |-> <<>>, pgidDigits |-> <<>>, exitStatus |-> 0,
     exitInfo |-> 0, exceptMask |-> 0, interactive |-> FALSE, numProcessors |-> 1,
     slotUsages |-> <<>>, hostRusage |-> <<>>, ru_maxrss |-> 0, ru_utime |-> 0, ru_stime |-> 0,
     clusterName |-> "remote", vmjob |-> FALSE, preempted |-> FALSE, reserved |-> FALSE]

\* A name of LSF's longest host, file and process id.
Longest == 63
LongPath == 2 * 4093 + 10
LongPids == 4 * 7

Hosts ==
    {NULL, <<a>>, <<a, b>>, <<a, a>>, <<a, b, a>>, <<aa, b>>, <<aa>>, <<b, b, b>>}

Packed == {3, 3 + 2 * LSB_ARRAY_BASE, LSB_ARRAY_BASE}

Types1 == {[Plain EXCEPT !.type = t] : t \in EventTypes \cup {"JOB_STATUS2", "OTHER"}}

Unquoted ==
    {[Plain EXCEPT !.type = t, !.quoted = FALSE] : t \in {"JOB_NEW", "JOB_FINISH", "OTHER"}}

Submitted ==
    {[Plain EXCEPT !.type = "JOB_NEW", !.idx = 0, !.hold = (v[1] = NULL), !.jobName = v[1],
                   !.subcwd = v[2], !.indices = v[3], !.xf = <<LongPath, LongPath>>,
                   !.askedHosts = <<Longest, Longest, 1>>] :
        v \in {<<NULL, NULL, NULL>>, <<"", "/", <<>> >>, <<"j", "dir", <<1, 3>> >>}}

Modified ==
    {[Plain EXCEPT !.type = "JOB_MODIFY2", !.jobIdStr = i, !.jobName = NULL, !.subcwd = "dir"] :
        i \in {NULL} \cup [id : {3}, idx : {NULL, 2}]}

Started ==
    {[Plain EXCEPT !.type = t, !.execHosts = h] :
        t \in {"JOB_START", "JOB_CHUNK"}, h \in Hosts}

Chunks ==
    {[Plain EXCEPT !.type = "JOB_CHUNK", !.jobId = i, !.membDigits = d] :
        i \in Packed, d \in {<<9, 9, 15>>, <<15, 15>>}}

Statuses ==
    {[Plain EXCEPT !.type = "JOB_STATUS", !.jStatus = s] : s \in JobStatuses}

Processes ==
    {[Plain EXCEPT !.type = t, !.pidDigits = p, !.pgidDigits = <<7>>] :
        t \in {"JOB_RUN_RUSAGE", "SBD_UNREPORTED_STATUS"},
        p \in {<<LongPids>>, <<LongPids, 4>>}}

Lists ==
    {[Plain EXCEPT !.type = "JOB_FORWARD", !.reserHosts = <<Longest, 1>>],
     [Plain EXCEPT !.type = "MIG", !.askedHosts = <<Longest, Longest>>],
     [Plain EXCEPT !.type = "METRIC_LOG", !.version = 80]}

Exits ==
    {[Plain EXCEPT !.type = t, !.jStatus = s, !.exitInfo = i, !.exceptMask = m, !.exitStatus = e] :
        t \in {"JOB_FINISH", "JOB_FINISH2"}, s \in {JOB_STAT_EXIT, JOB_STAT_DONE},
        i \in {0, 29}, m \in {0, 2, 3}, e \in {0, 256}} \cup
    {[Plain EXCEPT !.type = t, !.jStatus = JOB_STAT_EXIT, !.exitInfo = i, !.exitStatus = i] :
        t \in {"JOB_FINISH", "JOB_FINISH2"}, i \in {1, 30, 31, 40, 33024, 35072}}

Finished ==
    {[Plain EXCEPT !.type = "JOB_FINISH", !.jStatus = JOB_STAT_DONE, !.execHosts = h,
                   !.times = TimesOf(5)] : h \in Hosts}

Finished2 ==
    {[Plain EXCEPT !.type = "JOB_FINISH2", !.jobId = i, !.jStatus = JOB_STAT_DONE,
                   !.execHosts = <<"a", "b">>, !.slotUsages = s, !.hostRusage = u,
                   !.ru_utime = n, !.ru_maxrss = 12, !.ru_stime = -1, !.interactive = (i = 3),
                   !.numProcessors = 3, !.vmjob = (i = 3)] :
        i \in Packed, s \in {<<1, 2>>, <<0, 0>>}, n \in {-1, 7},
        u \in {<<>>, <<[name |-> "b", mem |-> 1, utime |-> 7, stime |-> 2]>>}}

Limits == {[Plain EXCEPT !.type = "JOB_STARTLIMIT", !.jobId = i] : i \in Packed}

Polled ==
    {[Plain EXCEPT !.type = "JOB_STATUS2", !.jobId = i, !.clusterName = c, !.preempted = TRUE,
                   !.reserved = r] :
        i \in Packed \cup {0, -1}, c \in {NULL, "remote"}, r \in BOOLEAN}

MCRecords ==
    UNION {Types1, Unquoted, Submitted, Modified, Started, Chunks, Statuses, Processes, Lists,
           Exits, Finished, Finished2, Limits, Polled}
=============================================================================
