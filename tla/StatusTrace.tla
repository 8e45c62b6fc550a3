---------------------------- MODULE StatusTrace ----------------------------
(***************************************************************************)
(* What the messages of the job.status.trace topic say (README.md, "Job    *)
(* status tracing, published whenever a job status is changed"): one       *)
(* message per change of a job's status, saying the status after it and,   *)
(* unless that was PEND, the one before.  (README.md:9 promises the        *)
(* previous status without that exception.)  A job whose status is a       *)
(* finished one is forgotten, so what is said of it later starts from      *)
(* nothing again.  A restart starts from what was saved, of which nothing  *)
(* is said here; the messages already returned stay as they are.           *)
(*                                                                         *)
(* This is the abstract specification; StateTransfer implements it.        *)
(***************************************************************************)
EXTENDS JobStates, Sequences

CONSTANTS Jobs

VARIABLES
    tracked,    \* the status last reported of each job, NoState if none
    reports,    \* the changes reported, in order
    lives       \* how many times the program was started again

traceVars == <<tracked, reports, lives>>

Change == [job: Jobs, last: Status \cup {NoState}, cur: Status]

TraceInit ==
    /\ tracked = [j \in Jobs |-> NoState]
    /\ reports = <<>>
    /\ lives = 0

Report(j, s) ==
    /\ s # tracked[j]
    /\ tracked' = [tracked EXCEPT ![j] = IF Finished(s) THEN NoState ELSE s]
    /\ reports' = Append(reports, [job |-> j, last |-> Published(tracked[j]), cur |-> s])
    /\ UNCHANGED lives

Restart ==
    /\ lives' = lives + 1
    /\ tracked' \in [Jobs -> Status \cup {NoState}]
    /\ UNCHANGED reports

\* (The first conjunct follows from Report; it spares TLC the search over jobs and
\* statuses in a step that reports nothing.)
TraceNext ==
    \/ Restart
    \/ /\ reports' # reports
       /\ \E j \in Jobs, s \in Status : Report(j, s)

TraceSpec == TraceInit /\ [][TraceNext]_traceVars
=============================================================================
