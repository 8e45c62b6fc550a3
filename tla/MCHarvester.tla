---------------------------- MODULE MCHarvester ----------------------------
(* Harvester for TLC: the life of one job, as a short log. *)
EXTENDS Harvester

Event(type, job, status) ==
    [type |-> type, job |-> job, status |-> status, prop |-> "p",
     exit |-> [status |-> 0, info |-> 0]]

MCJobs == {1}
New == Event("JOB_NEW", 1, NoState)
Start == Event("JOB_START_ACCEPT", 1, NoState)
Finish == Event("JOB_STATUS", 1, DONE)
Other == Event("OTHER", 1, NoState)

MCLogs == {<<New, Finish>>, <<Start, Finish>>, <<Other, New>>}
MCOneLog == {<<New, Start, Finish>>}

RawThenTrace == <<"job.raw", "job.status.trace">>
TraceOnly == <<"job.status.trace">>
=============================================================================
