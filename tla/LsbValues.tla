------------------------------ MODULE LsbValues ------------------------------
(***************************************************************************)
(* The values lsfeventsparser/lsbevent_parse.c computes from the fields of *)
(* an LSF record before it writes them: names of statuses, exit reasons,   *)
(* tables and texts of hosts, and the texts it puts together in a buffer.  *)
(*                                                                         *)
(* NULL stands for a string, an array or a list that is not there.  A text *)
(* is abstracted to what it names: "APP EXIT: 3" is [reason |-> "APP EXIT",*)
(* code |-> 3].  One built in a buffer is the bytes it takes there and the *)
(* bytes allocated.  A host of an LSF record is [times, host]: "host" when *)
(* times is 0, else the short form "times*host".                           *)
(***************************************************************************)
EXTENDS Integers, Sequences, FiniteSets, Functions

CONSTANTS
    NULL,
    LSB_ARRAY_BASE      \* a packed job id is index * LSB_ARRAY_BASE + id

-----------------------------------------------------------------------------
(* Times, job ids and statuses.                                             *)

\* An "invalid" time is not converted.
timeConvert(l) == IF l <= 0 THEN NULL ELSE [at |-> l]

\* Mutant: the whole packed id.
LSB_ARRAY_JOBIDPacked(jobId) == jobId

LSB_ARRAY_IDX(jobId) == jobId \div LSB_ARRAY_BASE
LSB_ARRAY_JOBID(jobId) == jobId % LSB_ARRAY_BASE

JOB_STAT_PEND == 1
JOB_STAT_PSUSP == 2
JOB_STAT_RUN == 4
JOB_STAT_SSUSP == 8
JOB_STAT_USUSP == 16
JOB_STAT_EXIT == 32
JOB_STAT_DONE == 64
JOB_STAT_PDONE == 128
JOB_STAT_PERR == 256
JOB_STAT_WAIT == 512
JOB_STAT_UNKWN == 65536
JOB_STAT_NULL == 0

\* The cases of transformJstatus.
JstatusStrings ==
    {<<JOB_STAT_NULL, "NULL">>, <<JOB_STAT_PEND, "PEND">>, <<JOB_STAT_PSUSP, "PSUSP">>,
     <<JOB_STAT_RUN, "RUN">>, <<JOB_STAT_SSUSP, "SSUSP">>, <<JOB_STAT_USUSP, "USUSP">>,
     <<JOB_STAT_EXIT, "EXIT">>, <<JOB_STAT_DONE, "DONE">>, <<JOB_STAT_PDONE, "PDONE">>,
     <<JOB_STAT_PERR, "PERR">>, <<JOB_STAT_WAIT, "WAIT">>, <<JOB_STAT_UNKWN, "UNKWN">>,
     <<JOB_STAT_RUN + JOB_STAT_WAIT, "WAIT">>, <<JOB_STAT_DONE + JOB_STAT_PDONE, "DONE+PDONE">>,
     <<JOB_STAT_DONE + JOB_STAT_WAIT, "DONE+WAIT">>,
     <<JOB_STAT_DONE + JOB_STAT_PERR, "DONE+PERR">>}

\* Mutant: no case for a chunk job that waits on its host.
transformJstatusNoWait(jstatus) ==
    IF \E c \in JstatusStrings : c[1] = jstatus /\ jstatus # JOB_STAT_RUN + JOB_STAT_WAIT
    THEN (CHOOSE c \in JstatusStrings : c[1] = jstatus)[2]
    ELSE "ERROR"

transformJstatus(jstatus) ==
    IF \E c \in JstatusStrings : c[1] = jstatus
    THEN (CHOOSE c \in JstatusStrings : c[1] = jstatus)[2]
    ELSE "ERROR"

getSlotFlag(r) ==
    IF /\ r.jStatus \in {JOB_STAT_RUN, JOB_STAT_SSUSP, JOB_STAT_USUSP}
       /\ ~(r.preempted /\ ~r.reserved)
    THEN 1 ELSE 0

-----------------------------------------------------------------------------
(* Exit reasons.                                                            *)

Reason(text) == [reason |-> text]
Coded(text, n) == [reason |-> text, code |-> n]

\* The TERM_ texts of a set of values of exitInfo.
Term(infos) == [reason |-> "TERM", of |-> infos]

\* What sprintf leaves in the buffer for a NULL format, if it returns.
Nothing == [reason |-> ""]

ExceptMasks ==
    {<<2, "JOB_OVERRUN">>, <<4, "JOB_UNDERRUN">>, <<128, "JOB_IDLE">>,
     <<256, "JOB_RUNTIME_EST_EXCEEDED">>}

getExceptMaskReason(mask) ==
    IF \E m \in ExceptMasks : m[1] = mask
    THEN Reason((CHOOSE m \in ExceptMasks : m[1] = mask)[2])
    ELSE NULL

\* The part of both functions on a status or code above 255.
Shifted(n) == n \div 256
IsApp(n) == Shifted(n) <= 128 \/ Shifted(n) > 165

\* What sprintf is given as format or text; NULL crashes it, or prints nothing.
ReasonOrNull(r) ==
    IF r.jStatus \in {JOB_STAT_DONE, JOB_STAT_PDONE} THEN Reason("FINISHED_JOB")
    ELSE IF r.exitInfo = 0 /\ r.exceptMask = 0 THEN Reason("-")
    ELSE IF r.exitInfo \in 1 .. 29 THEN Term({r.exitInfo})
    ELSE IF r.exceptMask > 0 THEN getExceptMaskReason(r.exceptMask)
    ELSE IF r.exitStatus = 0 THEN Reason("RECALLED JOB")
    ELSE IF r.exitStatus <= 255
         THEN Coded("OS SIGNAL(L), OR APP EXIT", Shifted(r.exitStatus))
    ELSE IF IsApp(r.exitStatus) THEN Coded("APP EXIT", Shifted(r.exitStatus))
    ELSE Coded("OS SIGNAL(U)", r.exitStatus % 128)

formatExitReason(r) == IF ReasonOrNull(r) = NULL THEN Nothing ELSE ReasonOrNull(r)

\* The names in each text of the table: without the comma the last two are one, and
\* the thirty-second is NULL.
expandedExitInfoMapping ==
    [i \in 0 .. 31 |-> IF i = 30 THEN {30, 31} ELSE IF i = 31 THEN {} ELSE {i}]

InvalidMask(mask) ==
    IF getExceptMaskReason(mask) = NULL THEN Reason("invalid except mask value")
    ELSE getExceptMaskReason(mask)

\* Mutant: the mask comes before the exit info.
getExitReasonMaskFirst(r) ==
    IF r.jStatus = JOB_STAT_DONE THEN Reason("FINISHED_JOB")
    ELSE IF r.exceptMask > 0 THEN InvalidMask(r.exceptMask)
    ELSE IF r.exitInfo \in 1 .. 31 THEN Term(expandedExitInfoMapping[r.exitInfo])
    ELSE Reason("RECALLED JOB")

\* exitStatus is a parameter of the function and is not used.
getExitReason(r) ==
    IF r.jStatus = JOB_STAT_DONE THEN Reason("FINISHED_JOB")
    ELSE IF r.exitInfo = 31 THEN Nothing
    ELSE IF r.exitInfo \in 1 .. 30 THEN Term(expandedExitInfoMapping[r.exitInfo])
    ELSE IF r.exceptMask > 0 THEN InvalidMask(r.exceptMask)
    ELSE IF r.exitInfo = 0 THEN Reason("RECALLED JOB")
    ELSE IF r.exitInfo <= 255 THEN Coded("OS SIGNAL(L)", r.exitInfo % 128)
    ELSE IF IsApp(r.exitInfo) THEN Coded("APP EXIT", Shifted(r.exitInfo))
    ELSE Coded("OS SIGNAL(U), OR APP EXIT", Shifted(r.exitInfo))

-----------------------------------------------------------------------------
(* Hosts.                                                                   *)

Occurrences(hosts, name) == Cardinality({i \in DOMAIN hosts : hosts[i] = name})

\* Mutant: the short form counts once.
getExecHostsHashmapArrayShort(hosts) ==
    IF hosts = NULL THEN NULL
    ELSE [name \in Range(hosts) |->
            [host_name |-> name.host, num_slots |-> Occurrences(hosts, name)]]

\* The array has an object per name, under which it is kept here.
getExecHostsHashmapArray(hosts) ==
    IF hosts = NULL THEN NULL
    ELSE [name \in Range(hosts) |->
            [host_name |-> name.host,
             num_slots |-> IF name.times > 0 THEN name.times ELSE Occurrences(hosts, name)]]

getNumExecProc(r) == SumFunction(r.slotUsages)

\* The share of one host in the usage of the job, a double, as a quotient; an unknown
\* usage (negative) is not shared.
Share(r, i, n) == IF n < 0 THEN n ELSE [of |-> n * r.slotUsages[i], by |-> getNumExecProc(r)]

HostUsage(r, i) ==
    IF r.hostRusage # <<>>
    THEN IF \E j \in DOMAIN r.hostRusage : r.hostRusage[j].name = r.execHosts[i]
         THEN LET j == CHOOSE j \in DOMAIN r.hostRusage :
                        /\ r.hostRusage[j].name = r.execHosts[i]
                        /\ \A m \in 1 .. j - 1 : r.hostRusage[m].name # r.execHosts[i]
              IN [mem_usage |-> r.hostRusage[j].mem, utime |-> r.hostRusage[j].utime,
                  stime |-> r.hostRusage[j].stime]
         ELSE <<>>
    ELSE IF getNumExecProc(r) = 0
         THEN [mem_usage |-> 0, utime |-> 0, stime |-> 0]
         ELSE [mem_usage |-> Share(r, i, r.ru_maxrss), utime |-> Share(r, i, r.ru_utime),
               stime |-> Share(r, i, r.ru_stime)]

\* An object per entry of the record; cpu_time is the sum of the two times and the swap
\* usage is shared as the memory is.
getJobExecHostsHashmapArray(r) ==
    [i \in DOMAIN r.execHosts |->
        [host_name |-> r.execHosts[i], num_slots |-> r.slotUsages[i], usage |-> HostUsage(r, i)]]

-----------------------------------------------------------------------------
(* Texts built in a buffer of a size computed before: used counts the NUL.  *)

Text(used, size) == [used |-> used, size |-> size]

Digits(n) == IF n < 10 THEN 1 ELSE IF n < 100 THEN 2 ELSE 3

\* strlen of the name, the short form with its own count.
NameLen(name) == Len(name.host) + (IF name.times > 0 THEN Digits(name.times) + 1 ELSE 0)

\* Characters of a name in the text, with the blank after it.
Entry(hosts, name) ==
    (IF Occurrences(hosts, name) > 1 THEN Digits(Occurrences(hosts, name)) + 1 ELSE 0)
    + NameLen(name) + 1

\* Every name with how often it occurs, and its buffer; the last blank becomes the NUL.
getExecHostsStr(hosts) ==
    [counts |-> [name \in Range(hosts) |-> Occurrences(hosts, name)],
     text |-> LET total == SumFunction([name \in Range(hosts) |-> Entry(hosts, name)])
              IN Text(total + 1, total + 1)]

\* The num_processors getExecHostsStr adds: the slots of the names that occur again.
TotalSlots(hosts) ==
    SumFunction([name \in {n \in Range(hosts) : Occurrences(hosts, n) > 1} |->
                    Occurrences(hosts, name)])

\* Lists as the lengths of their entries, each written with the given extra characters
\* into as many bytes as there are entries of a fixed size.
Listing(lens, extra, size) ==
    Text(SumFunction([i \in DOMAIN lens |-> lens[i] + extra]) + 1, Len(lens) * size)

ListText(lens, extra, size) == IF lens = <<>> THEN NULL ELSE Listing(lens, extra, size)

HostList(lens) == ListText(lens, 1, 512)
PgidList(digits) == ListText(digits, 1, 20)

\* The ids of a chunk are put together without a test that there are any.
MemberList(digits) == Listing(digits, 1, 16)

\* Mutant: a process id as long as a job id is not expected.
PidListShort(digits) == ListText(digits, 4, 4 * (7 + 1))

\* Four numbers for each process, whose digits are added up here.
PidList(digits) == ListText(digits, 4, 44)

\* Two names and the options of each file.
FileList(lens) == ListText(lens, 3, 4094 * 2 + 128)
=============================================================================
