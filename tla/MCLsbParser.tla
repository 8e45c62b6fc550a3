---------------------------- MODULE MCLsbParser ----------------------------
(* LsbParser for TLC: pairs of topics with every kind of option, and records *)
(* of one job, with and without the field a topic adds.                     *)
EXTENDS LsbParser

MCFields == {"event_type", "job_id", "job_status", "user_name"}
MCValues == {"JOB_NEW", "JOB_STATUS", "101", "DONE", "u1", "u2"}

Rec(type, status, user) ==
    [event_type |-> type, job_id |-> "101", job_status |-> status, user_name |-> user]

MCRecords == {Rec("JOB_NEW", Missing, "u1"), Rec("JOB_STATUS", "DONE", Missing), Null}

NoAdd == [f \in MCFields |-> Missing]
AddUser == [NoAdd EXCEPT !["user_name"] = "u2"]

Raw(add, include, exclude, routing) ==
    [type |-> "job.raw", add |-> add, include |-> include, exclude |-> exclude,
     routing |-> routing]
Trace(add, include) ==
    [type |-> "job.status.trace", add |-> add, include |-> include, exclude |-> {},
     routing |-> <<"user_name">>]
Other(add) ==
    [type |-> "other", add |-> add, include |-> {}, exclude |-> {}, routing |-> <<>>]

MCTopics ==
    {Raw(NoAdd, {}, {"job_id"}, <<"job_id", "user_name">>),
     Raw(AddUser, {"job_id", "user_name"}, {"job_id"}, <<"job_id">>),
     Trace(NoAdd, {"user_name"}), Trace(AddUser, {}), Other(AddUser)}

\* Pairs of different ones, the one of an unsupported type first.
MCTopicLists == {l \in MCTopics \X MCTopics : l[1] # l[2] /\ l[2].type # "other"}
=============================================================================
