--------------------------- MODULE MCOutputClient ---------------------------
(* OutputClient for TLC: two batches, with and without an event that has no  *)
(* topic, and one of two exchanges configured.                              *)
EXTENDS OutputClient

MCKinds == {"rabbitmq", "rocketmq"}
MCTopics == {"events", "status"}
MCBatches == <<<<1, 2, 3>>, <<4>>>>
MCTopicings ==
    {[e \in 1 .. 4 |-> IF e = 1 THEN "status" ELSE "events"],
     [e \in 1 .. 4 |-> IF e = 2 THEN NoTopic ELSE "status"]}
MCExchanges == {"events"}
=============================================================================
