----------------------------- MODULE JobStates -----------------------------
(***************************************************************************)
(* The job statuses and the two pure functions of                          *)
(* filebeat/parselsb/statedef.go that turn a parsed LSF event into one.    *)
(*                                                                         *)
(* An event is the JSON object the C parser returned, abstracted to        *)
(*    type     its "event_type" (every type the code does not look for is  *)
(*             "OTHER")                                                    *)
(*    job      what getUid reads: cluster_name, job_id and job_arr_idx     *)
(*    status   its "job_status", as the number of the status that name     *)
(*             stands for; NoState for a name getState does not know, such *)
(*             as the "NULL" of transformJstatus                           *)
(*    exit     its "exit_status" and "exit_info"                           *)
(*    prop     the seven extraFields copied out of a JOB_NEW event         *)
(***************************************************************************)
EXTENDS Integers

PEND == 0
PSUSP == 1
RUN == 2
SSUSP == 3
USUSP == 4
WAIT == 5
UNKWN == 6
PDONE == 7
PERR == 8
DONE_PDONE == 9
DONE_WAIT == 10
DONE_PERR == 11
ERROR == 12
DONE == 13
EXIT == 14

Status == PEND .. EXIT

\* No status: getState's nil, the "not in the map" of ReadMap, and the -1 that
\* processJobEvent then puts in stateMessage.lastState.
NoState == -1

\* The previous status a message names: stateToMessageWithTopic says none after PEND.
Published(last) == IF last > PEND THEN last ELSE NoState

\* The test "state >= 6" that decides which jobs the status map forgets.
Finished(s) == s >= UNKWN

stateNameMapping ==
    <<"PEND", "PSUSP", "RUN", "SSUSP", "USUSP", "WAIT", "UNKWN", "PDONE", "PERR", "DONE+PDONE",
      "DONE+WAIT", "DONE+PERR", "ERROR", "DONE", "EXIT">>

\* The switch of getState on the name in "job_status".
StatusOf(name) ==
    IF \E s \in Status : stateNameMapping[s + 1] = name
    THEN CHOOSE s \in Status : stateNameMapping[s + 1] = name
    ELSE NoState

eventStateMapping == [JOB_NEW |-> PEND, JOB_START_ACCEPT |-> RUN]

EventTypes == {"JOB_NEW", "JOB_START_ACCEPT", "JOB_STATUS", "OTHER"}

getState(event) ==
    IF event.type \in DOMAIN eventStateMapping
    THEN eventStateMapping[event.type]
    ELSE IF event.type = "JOB_STATUS" THEN event.status ELSE NoState

\* The change_reason of a message: a number of the exitReason table, one of the
\* two fixed texts of eventStateMapping, or the empty text.
exitReason == 0 .. 31
NoReason == -1
JobSubmitted == -2
JobStarts == -3
Reasons == exitReason \cup {NoReason, JobSubmitted, JobStarts}

getExitReason(event) ==
    IF /\ event.type = "JOB_STATUS"
       /\ event.exit.status > 0
       /\ event.exit.info \in 0 .. 26
    THEN event.exit.info
    ELSE NoReason

\* The reason getState returns beside the status: of a JOB_STATUS, only the
\* finished statuses have one.
getReason(event) ==
    CASE event.type = "JOB_NEW" -> JobSubmitted
      [] event.type = "JOB_START_ACCEPT" -> JobStarts
      [] OTHER -> IF Finished(getState(event)) THEN getExitReason(event) ELSE NoReason
=============================================================================
