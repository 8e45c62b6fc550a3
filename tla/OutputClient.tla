---------------------------- MODULE OutputClient ----------------------------
(***************************************************************************)
(* The two outputs of src/outputs: rabbitmq/client.go and                  *)
(* rocketmq/client.go.  Their Publish is the same: the events of a batch   *)
(* are sent one by one, past those that fail; the batch is acknowledged if *)
(* none did, else the failed ones are handed back to be retried.           *)
(*                                                                         *)
(* libbeat hands a client one batch at a time, calls Connect before the    *)
(* first and after each Publish that returned an error, and gives retried  *)
(* batches back in no particular order with new ones.  The RabbitMQ broker *)
(* may close the channel at any time, and does when a declaration or a     *)
(* publication is wrong: what it has not processed by then is lost.        *)
(* RocketMQ's Send waits for the broker.                                   *)
(***************************************************************************)
EXTENDS Naturals, Sequences, FiniteSets

CONSTANTS
    Kinds,          \* the clients to look at: "rabbitmq", "rocketmq"
    Topics,
    NoTopic,        \* an event without a topic in its Meta
    Batches,        \* the batches in their order, each a sequence of events
    Topicings,      \* what the topics of the events may be
    Exchanges,      \* the option of that name: topics to declare in Connect
    MaxFaults       \* bound: channels closed, declarations, connections and sends that fail

Events == UNION {{Batches[b][i] : i \in 1 .. Len(Batches[b])} : b \in 1 .. Len(Batches)}

ASSUME OutputAssumption ==
    /\ Kinds \subseteq {"rabbitmq", "rocketmq"}
    /\ NoTopic \notin Topics
    /\ Batches \in Seq(Seq(Nat))
    /\ Topicings \subseteq [Events -> Topics \cup {NoTopic}]
    /\ Exchanges \subseteq Topics
    /\ MaxFaults \in Nat

VARIABLES
    kind,
    topicOf,        \* the topic of each event
    fetched,        \* libbeat: batches handed out so far
    work,           \* libbeat: batches waiting for the client, with the events still to send
    acked,          \* batches acknowledged
    connected,      \* Connect has succeeded since the last error
    batch, pos,     \* the batch in Publish (0: none) and the events of it handled
    events,         \* its events
    failed,         \* those that failed
    channel,        \* RabbitMQ: c.ch is open
    exchangeMap,    \* RabbitMQ: exchanges taken to be declared
    inflight,       \* RabbitMQ: written to the channel and not processed
    sent,           \* events the client was told are sent
    delivered,      \* what the broker has, in order: event and destination
    faults

pipeline == <<fetched, work, acked, connected>>
publish == <<batch, pos, events, failed>>
rabbit == <<channel, exchangeMap, inflight>>
input == <<kind, topicOf>>
vars == <<input, pipeline, publish, rabbit, sent, delivered, faults>>

Fault == faults < MaxFaults /\ faults' = faults + 1

-----------------------------------------------------------------------------
(* libbeat.                                                                 *)

Fetch ==
    /\ fetched < Len(Batches)
    /\ work = {}
    /\ fetched' = fetched + 1
    /\ work' = {[id |-> fetched + 1, events |-> Batches[fetched + 1]]}
    /\ UNCHANGED <<input, acked, connected, publish, rabbit, sent, delivered, faults>>

\* Mutant: the failed events of the batch before are still there.
TakeKeeping ==
    /\ connected /\ batch = 0
    /\ \E w \in work :
        /\ work' = work \ {w}
        /\ batch' = w.id
        /\ events' = w.events
    /\ pos' = 0
    /\ UNCHANGED <<input, fetched, acked, connected, failed, rabbit, sent, delivered, faults>>

Take ==
    /\ connected /\ batch = 0
    /\ \E w \in work :
        /\ work' = work \ {w}
        /\ batch' = w.id
        /\ events' = w.events
    /\ pos' = 0
    /\ failed' = <<>>
    /\ UNCHANGED <<input, fetched, acked, connected, rabbit, sent, delivered, faults>>

-----------------------------------------------------------------------------
(* Connect.                                                                 *)

\* A new connection and channel; the exchanges of the configuration.
RabbitConnect ==
    /\ kind = "rabbitmq" /\ ~connected
    /\ channel' = TRUE
    /\ exchangeMap' = exchangeMap \cup Exchanges
    /\ inflight' = <<>>
    /\ connected' = TRUE
    /\ UNCHANGED <<input, fetched, work, acked, publish, sent, delivered, faults>>

\* The dial fails, or a declaration, some having been made: the channel it closes
\* is the client's all the same.
RabbitConnectFails ==
    /\ kind = "rabbitmq" /\ ~connected
    /\ Fault
    /\ channel' = FALSE
    /\ \E done \in SUBSET Exchanges : exchangeMap' = exchangeMap \cup done
    /\ inflight' = <<>>
    /\ UNCHANGED <<input, pipeline, publish, sent, delivered>>

RocketConnect ==
    /\ kind = "rocketmq" /\ ~connected
    /\ \/ connected' = TRUE /\ UNCHANGED faults
       \/ Fault /\ UNCHANGED connected
    /\ UNCHANGED <<input, fetched, work, acked, publish, rabbit, sent, delivered>>

-----------------------------------------------------------------------------
(* Publish.                                                                 *)

event == events[pos + 1]
destination == topicOf[event]

Succeed ==
    /\ sent' = sent \cup {event}
    /\ pos' = pos + 1
    /\ UNCHANGED failed

Fail ==
    /\ failed' = Append(failed, event)
    /\ pos' = pos + 1
    /\ UNCHANGED sent

Write(dest) == inflight' = Append(inflight, [event |-> event, dest |-> dest])

Publishing(k) ==
    /\ kind = k /\ batch # 0 /\ pos < Len(events)
    /\ UNCHANGED <<input, pipeline, batch, events>>

\* The exchange is declared, or there is none: then it is the default exchange.
RabbitPublish ==
    /\ Publishing("rabbitmq")
    /\ channel /\ destination \in exchangeMap \cup {NoTopic}
    /\ Write(destination)
    /\ Succeed
    /\ UNCHANGED <<channel, exchangeMap, delivered, faults>>

\* It is not: getExchange declares it first.
RabbitDeclare ==
    /\ kind = "rabbitmq" /\ batch # 0 /\ pos < Len(events)
    /\ channel /\ destination \notin exchangeMap \cup {NoTopic}
    /\ exchangeMap' = exchangeMap \cup {destination}
    /\ UNCHANGED <<input, pipeline, publish, channel, inflight, sent, delivered, faults>>

\* Mutant: the declaration has a channel of its own.
RabbitDeclareApart ==
    /\ Publishing("rabbitmq")
    /\ channel /\ destination \notin exchangeMap \cup {NoTopic}
    /\ Fault
    /\ Write(NoTopic)
    /\ Succeed
    /\ UNCHANGED <<channel, exchangeMap, delivered>>

\* The broker refuses and closes the channel; getExchange names the default exchange,
\* and Publish finds the channel closed.
RabbitDeclareFails ==
    /\ Publishing("rabbitmq")
    /\ channel /\ destination \notin exchangeMap \cup {NoTopic}
    /\ Fault
    /\ channel' = FALSE /\ inflight' = <<>>
    /\ Fail
    /\ UNCHANGED <<exchangeMap, delivered>>

\* Mutant: Publish opens a channel when it finds it closed.
RabbitPublishReopens ==
    /\ Publishing("rabbitmq")
    /\ ~channel
    /\ channel' = TRUE
    /\ Fail
    /\ UNCHANGED <<exchangeMap, inflight, delivered, faults>>

RabbitPublishClosed ==
    /\ Publishing("rabbitmq")
    /\ ~channel
    /\ Fail
    /\ UNCHANGED <<rabbit, delivered, faults>>

RocketSend ==
    /\ Publishing("rocketmq")
    /\ destination # NoTopic
    /\ delivered' = Append(delivered, [event |-> event, dest |-> destination])
    /\ Succeed
    /\ UNCHANGED <<rabbit, faults>>

\* getMessage has no topic, or Send has an error, also when only its answer is lost.
RocketSendFails ==
    /\ Publishing("rocketmq")
    /\ \/ destination = NoTopic /\ UNCHANGED <<faults, delivered>>
       \/ /\ destination # NoTopic
          /\ Fault
          /\ \/ UNCHANGED delivered
             \/ delivered' = Append(delivered, [event |-> event, dest |-> destination])
    /\ Fail
    /\ UNCHANGED rabbit

Finished == batch # 0 /\ pos = Len(events)

\* Mutant: the batch is acknowledged although events failed.
AckAnyway ==
    /\ Finished
    /\ acked' = acked \cup {batch}
    /\ batch' = 0
    /\ UNCHANGED <<input, fetched, work, connected, pos, events, failed, rabbit, sent,
                   delivered, faults>>

Ack ==
    /\ Finished
    /\ failed = <<>>
    /\ acked' = acked \cup {batch}
    /\ batch' = 0
    /\ UNCHANGED <<input, fetched, work, connected, pos, events, failed, rabbit, sent,
                   delivered, faults>>

\* Mutant: no error is returned with the failed events, so nothing reconnects.
RetryEventsSilent ==
    /\ Finished
    /\ failed # <<>>
    /\ work' = work \cup {[id |-> batch, events |-> failed]}
    /\ batch' = 0
    /\ UNCHANGED <<input, fetched, acked, connected, pos, events, failed, rabbit, sent,
                   delivered, faults>>

\* Mutant: the batch goes back with none of its events.
RetryEventsDone ==
    /\ Finished
    /\ failed # <<>>
    /\ work' = work \cup {[id |-> batch, events |-> SubSeq(events, Len(failed) + 1, pos)]}
    /\ batch' = 0
    /\ connected' = FALSE
    /\ UNCHANGED <<input, fetched, acked, pos, events, failed, rabbit, sent, delivered, faults>>

RetryEvents ==
    /\ Finished
    /\ failed # <<>>
    /\ work' = work \cup {[id |-> batch, events |-> failed]}
    /\ batch' = 0
    /\ connected' = FALSE
    /\ UNCHANGED <<input, fetched, acked, pos, events, failed, rabbit, sent, delivered, faults>>

-----------------------------------------------------------------------------
(* The RabbitMQ broker.                                                     *)

Process ==
    /\ inflight # <<>>
    /\ delivered' = Append(delivered, Head(inflight))
    /\ inflight' = Tail(inflight)
    /\ UNCHANGED <<input, pipeline, publish, channel, exchangeMap, sent, faults>>

CloseChannel ==
    /\ channel
    /\ Fault
    /\ channel' = FALSE
    /\ inflight' = <<>>
    /\ UNCHANGED <<input, pipeline, publish, exchangeMap, sent, delivered>>

-----------------------------------------------------------------------------
Init ==
    /\ kind \in Kinds /\ topicOf \in Topicings
    /\ fetched = 0 /\ work = {} /\ acked = {} /\ connected = FALSE
    /\ batch = 0 /\ pos = 0 /\ events = <<>> /\ failed = <<>>
    /\ channel = FALSE /\ exchangeMap = {} /\ inflight = <<>>
    /\ sent = {} /\ delivered = <<>>
    /\ faults = 0

Connect == RabbitConnect \/ RocketConnect

PublishEvent ==
    \/ RabbitPublish \/ RabbitDeclare \/ RabbitDeclareFails \/ RabbitPublishClosed
    \/ RocketSend \/ RocketSendFails

Next ==
    \/ Fetch \/ Take \/ Connect \/ RabbitConnectFails \/ PublishEvent \/ Ack \/ RetryEvents
    \/ Process \/ CloseChannel

Spec == Init /\ [][Next]_vars

(* libbeat's worker goes on for ever, and the broker processes what it has. *)
Fairness ==
    /\ WF_vars(Fetch) /\ WF_vars(Connect) /\ WF_vars(PublishEvent) /\ WF_vars(Ack)
    /\ WF_vars(RetryEvents) /\ WF_vars(Process) /\ WF_vars(Take)

FairSpec == Spec /\ Fairness

-----------------------------------------------------------------------------
(* Correctness.                                                             *)

InBatch(b) == {Batches[b][i] : i \in 1 .. Len(Batches[b])}

TypeOK ==
    /\ kind \in Kinds /\ topicOf \in Topicings
    /\ fetched \in 0 .. Len(Batches) /\ acked \subseteq 1 .. fetched
    /\ \A w \in work : w.id \in 1 .. fetched /\ w.events \in Seq(InBatch(w.id))
    /\ batch \in 0 .. fetched
    /\ pos \in 0 .. Len(events) /\ Len(failed) \in 0 .. pos
    /\ exchangeMap \subseteq Topics /\ sent \subseteq Events

\* A batch is acknowledged only when every one of its events was taken without an
\* error, over however many attempts, errors and connections.
AckedWereSent == \A b \in acked : InBatch(b) \subseteq sent

\* What RocketMQ acknowledged the broker has; what RabbitMQ acknowledged it has, or
\* is about to have, unless a channel was closed: nobody waits for its confirmation.
AckedArrive ==
    \A b \in acked : \A e \in InBatch(b) :
        \/ \E i \in 1 .. Len(delivered) : delivered[i].event = e
        \/ kind = "rabbitmq" /\ (faults > 0 \/ \E i \in 1 .. Len(inflight) : inflight[i].event = e)

\* No event is diverted to the default exchange, although getExchange names it when
\* a declaration fails and publishing to it is no error.
DestinationKept ==
    \A i \in 1 .. Len(delivered) : delivered[i].dest = topicOf[delivered[i].event]

\* RabbitMQ keeps the order of a batch over its retries: publishEvents goes on after
\* an error, but all that follows fails, too.
FailedAreLast ==
    kind = "rabbitmq" => failed = SubSeq(events, pos - Len(failed) + 1, pos)

\* Every batch is acknowledged once nothing fails any more.  An event without a topic
\* never leaves RocketMQ's client.
Sendable == kind = "rabbitmq" \/ \A e \in Events : topicOf[e] # NoTopic

EveryBatchAcked == \A b \in 1 .. Len(Batches) : Sendable ~> b \in acked
=============================================================================
