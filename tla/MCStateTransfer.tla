-------------------------- MODULE MCStateTransfer --------------------------
(* StateTransfer for TLC: two jobs, of which the second only has the events  *)
(* that interfere with the first one's map entry.                            *)
EXTENDS StateTransfer

Event(type, job, status, prop) ==
    [type |-> type, job |-> job, status |-> status, prop |-> prop,
     exit |-> [status |-> 1, info |-> 5]]

MCJobs == {1, 2}
MCProps == {"p"}

MCEvents ==
    {Event("JOB_NEW", 1, NoState, "p"), Event("JOB_START_ACCEPT", 1, NoState, "p"),
     Event("JOB_STATUS", 1, DONE, "p"), Event("JOB_STATUS", 2, UNKWN, "p")}
=============================================================================
