-------------------------- MODULE OutputClientProofs --------------------------
(***************************************************************************)
(* Theorems about OutputClient, for any batches, topics, exchanges and     *)
(* number of faults: what is acknowledged, where events go and in which    *)
(* order they fail.                                                        *)
(***************************************************************************)
EXTENDS OutputClient, SequenceTheorems, TLAPS

Written == [event: Events, dest: Topics \cup {NoTopic}]
Elements(s) == {s[i] : i \in 1 .. Len(s)}

-----------------------------------------------------------------------------
(* The batches.                                                             *)

LEMMA BatchElements ==
    ASSUME NEW b \in 1 .. Len(Batches)
    PROVE  /\ Batches[b] \in Seq(InBatch(b))
           /\ InBatch(b) \subseteq Events
           /\ Elements(Batches[b]) = InBatch(b)
<1>1. Batches[b] \in Seq(Nat)
  BY OutputAssumption, ElementOfSeq
<1>2. DOMAIN Batches[b] = 1 .. Len(Batches[b])
  BY <1>1, LenProperties
<1>3. Batches[b] \in Seq(Range(Batches[b]))
  BY <1>1, SeqOfRange
<1>4. Range(Batches[b]) = InBatch(b)
  BY <1>2 DEF Range, InBatch
<1>5. InBatch(b) \subseteq Events
  BY DEF InBatch, Events
<1> QED  BY <1>3, <1>4, <1>5 DEF Elements, InBatch

LEMMA SeqOfBatch ==
    ASSUME NEW b \in 1 .. Len(Batches), NEW s \in Seq(InBatch(b))
    PROVE  s \in Seq(Events)
BY BatchElements, SeqMonotonic

-----------------------------------------------------------------------------
(* Types.                                                                   *)

PipelineType ==
    /\ kind \in Kinds /\ topicOf \in Topicings
    /\ fetched \in 0 .. Len(Batches) /\ acked \subseteq 1 .. fetched
    /\ \A w \in work : w.id \in 1 .. fetched /\ w.events \in Seq(InBatch(w.id))

\* The events of the batch in Publish are its own.
PublishType ==
    /\ batch \in 0 .. fetched
    /\ events \in Seq(Events) /\ failed \in Seq(Events)
    /\ batch # 0 => events \in Seq(InBatch(batch)) /\ failed \in Seq(InBatch(batch))
    /\ pos \in 0 .. Len(events) /\ Len(failed) \in 0 .. pos

BrokerType ==
    /\ exchangeMap \subseteq Topics
    /\ inflight \in Seq(Written) /\ delivered \in Seq(Written)
    /\ sent \subseteq Events /\ faults \in Nat

TypeInv == PipelineType /\ PublishType /\ BrokerType

LEMMA TypeInit == Init => TypeInv
<1> SUFFICES ASSUME Init PROVE TypeInv
    OBVIOUS
<1>1. Len(Batches) \in Nat  BY OutputAssumption, LenProperties
<1>2. PipelineType  BY <1>1 DEF Init, PipelineType
<1>3. PublishType  BY <1>1, EmptySeq DEF Init, PublishType
<1>4. BrokerType  BY EmptySeq DEF Init, BrokerType
<1> QED  BY <1>2, <1>3, <1>4 DEF TypeInv

\* The event Publish is at, and its topic.
LEMMA EventType ==
    ASSUME TypeInv, batch # 0, pos < Len(events)
    PROVE  /\ pos + 1 \in 1 .. Len(events)
           /\ event \in InBatch(batch) /\ event \in Events
           /\ destination \in Topics \cup {NoTopic}
           /\ [event |-> event, dest |-> destination] \in Written
<1>1. pos + 1 \in 1 .. Len(events)
  BY LenProperties DEF TypeInv, PublishType
<1>2. event \in InBatch(batch)
  BY <1>1, ElementOfSeq DEF TypeInv, PublishType, event
<1>3. event \in Events
  BY <1>1, ElementOfSeq DEF TypeInv, PublishType, event
<1>4. topicOf \in [Events -> Topics \cup {NoTopic}]
  BY OutputAssumption DEF TypeInv, PipelineType
<1> QED  BY <1>1, <1>2, <1>3, <1>4 DEF destination, Written

LEMMA TypeStep == TypeInv /\ [Next]_vars => TypeInv'
<1> SUFFICES ASSUME TypeInv, [Next]_vars PROVE TypeInv'
    OBVIOUS
<1> USE DEF TypeInv, input, pipeline, publish, rabbit
<1>0. Len(Batches) \in Nat  BY OutputAssumption, LenProperties
<1>1. CASE Fetch
  <2>1. fetched + 1 \in 1 .. Len(Batches)  BY <1>0, <1>1 DEF Fetch, PipelineType
  <2>2. PipelineType'  BY <1>0, <1>1, <2>1, BatchElements DEF Fetch, PipelineType
  <2> QED  BY <1>0, <1>1, <2>1, <2>2 DEF Fetch, PipelineType, PublishType, BrokerType
<1>2. CASE Take
  <2>1. PICK w \in work : batch' = w.id /\ events' = w.events /\ work' = work \ {w}
    BY <1>2 DEF Take
  <2>2. w.id \in 1 .. Len(Batches) /\ events' \in Seq(InBatch(w.id))
    BY <2>1, <1>0 DEF PipelineType
  <2>3. events' \in Seq(Events)  BY <2>2, SeqOfBatch
  <2>4. Len(events') \in Nat  BY <2>3, LenProperties
  <2>5. PublishType'
    BY <1>2, <2>1, <2>2, <2>3, <2>4, <1>0, EmptySeq DEF Take, PublishType, PipelineType
  <2> QED  BY <1>2, <2>1, <2>5 DEF Take, PipelineType, BrokerType
<1>3. CASE Connect \/ RabbitConnectFails
  <2> USE EmptySeq, OutputAssumption DEF PipelineType, PublishType, BrokerType
  <2>1. CASE RabbitConnect  BY <2>1 DEF RabbitConnect
  <2>2. CASE RocketConnect  BY <2>2 DEF RocketConnect, Fault
  <2>3. CASE RabbitConnectFails  BY <2>3 DEF RabbitConnectFails, Fault
  <2> QED  BY <1>3, <2>1, <2>2, <2>3 DEF Connect
<1>4. CASE PublishEvent
  <2>1. batch # 0 /\ pos < Len(events)
    BY <1>4 DEF PublishEvent, RabbitPublish, RabbitDeclare, RabbitDeclareFails,
                RabbitPublishClosed, RocketSend, RocketSendFails, Publishing
  <2> DEFINE written == [event |-> event, dest |-> destination]
  <2>2. /\ pos + 1 \in 1 .. Len(events) /\ event \in InBatch(batch) /\ event \in Events
        /\ destination \in Topics \cup {NoTopic} /\ written \in Written
    BY <2>1, EventType
  <2>3. /\ Append(inflight, written) \in Seq(Written)
        /\ Append(delivered, written) \in Seq(Written)
    BY <2>2, AppendProperties DEF BrokerType
  <2>4. /\ Append(failed, event) \in Seq(Events)
        /\ Append(failed, event) \in Seq(InBatch(batch))
        /\ Len(Append(failed, event)) = Len(failed) + 1
    BY <2>1, <2>2, AppendProperties DEF PublishType
  <2>5. Succeed /\ UNCHANGED <<batch, events, input, pipeline>>
        => PipelineType' /\ PublishType' /\ sent' \subseteq Events
    BY <2>2, LenProperties DEF Succeed, PublishType, PipelineType, BrokerType
  <2>6. Fail /\ UNCHANGED <<batch, events, input, pipeline>>
        => PipelineType' /\ PublishType' /\ sent' \subseteq Events
    BY <2>2, <2>4, LenProperties DEF Fail, PublishType, PipelineType, BrokerType
  <2>7. CASE RabbitPublish
    BY <2>3, <2>5, <2>7 DEF RabbitPublish, Publishing, Write, BrokerType
  <2>8. CASE RabbitDeclare
    BY <2>2, <2>8 DEF RabbitDeclare, PublishType, PipelineType, BrokerType
  <2>9. CASE RabbitDeclareFails
    BY <2>6, <2>9, EmptySeq DEF RabbitDeclareFails, Publishing, Fault, BrokerType
  <2>10. CASE RabbitPublishClosed
    BY <2>6, <2>10 DEF RabbitPublishClosed, Publishing, BrokerType
  <2>11. CASE RocketSend
    BY <2>3, <2>5, <2>11 DEF RocketSend, Publishing, BrokerType
  <2>12. CASE RocketSendFails
    <3>1. delivered' \in {delivered, Append(delivered, written)}
      BY <2>12 DEF RocketSendFails
    <3>2. faults' \in Nat
      BY <2>12 DEF RocketSendFails, Fault, BrokerType
    <3>3. PipelineType' /\ PublishType' /\ sent' \subseteq Events
      BY <2>6, <2>12 DEF RocketSendFails, Publishing
    <3> QED  BY <2>3, <2>12, <3>1, <3>2, <3>3 DEF RocketSendFails, BrokerType
  <2> QED  BY <1>4, <2>7, <2>8, <2>9, <2>10, <2>11, <2>12 DEF PublishEvent
<1>5. CASE Ack
  BY <1>5, <1>0 DEF Ack, Finished, PipelineType, PublishType, BrokerType
<1>6. CASE RetryEvents
  <2>1. [id |-> batch, events |-> failed].id \in 1 .. fetched
    BY <1>6, <1>0 DEF RetryEvents, Finished, PublishType, PipelineType
  <2>2. failed \in Seq(InBatch(batch))  BY <1>6 DEF RetryEvents, Finished, PublishType
  <2> QED
    BY <1>6, <1>0, <2>1, <2>2 DEF RetryEvents, PipelineType, PublishType, BrokerType
<1>7. CASE Process
  <2>1. /\ Head(inflight) \in Written /\ Tail(inflight) \in Seq(Written)
    BY <1>7, HeadTailProperties DEF Process, BrokerType
  <2>2. Append(delivered, Head(inflight)) \in Seq(Written)
    BY <2>1, AppendProperties DEF BrokerType
  <2> QED  BY <1>7, <2>1, <2>2 DEF Process, PipelineType, PublishType, BrokerType
<1>8. CASE CloseChannel
  BY <1>8, EmptySeq DEF CloseChannel, Fault, PipelineType, PublishType, BrokerType
<1>9. CASE UNCHANGED vars
  BY <1>9 DEF vars, PipelineType, PublishType, BrokerType
<1> QED  BY <1>1, <1>2, <1>3, <1>4, <1>5, <1>6, <1>7, <1>8, <1>9 DEF Next

LEMMA TypeAlways == Spec => []TypeInv
<1>1. TypeInv /\ [Next]_vars => TypeInv'  BY TypeStep
<1> QED  BY TypeInit, <1>1, PTL DEF Spec

\* The variables have their types, and a batch has only events of its own.
THEOREM TypeCorrect == Spec => []TypeOK
<1>1. TypeInv => TypeOK  BY DEF TypeInv, TypeOK, PipelineType, PublishType, BrokerType
<1> QED  BY <1>1, TypeAlways, PTL

-----------------------------------------------------------------------------
(* Where events go.                                                         *)

Kept(q) == \A i \in 1 .. Len(q) : q[i].dest = topicOf[q[i].event]

DestinationInv == Kept(inflight) /\ Kept(delivered)

LEMMA KeptAppend ==
    ASSUME NEW q \in Seq(Written), NEW w \in Written, Kept(q), w.dest = topicOf[w.event]
    PROVE  Kept(Append(q, w))
BY AppendProperties DEF Kept

LEMMA DestinationInit == Init => DestinationInv
BY DEF Init, DestinationInv, Kept

LEMMA DestinationStep == TypeInv /\ DestinationInv /\ [Next]_vars => DestinationInv'
<1> SUFFICES ASSUME TypeInv, DestinationInv, [Next]_vars PROVE DestinationInv'
    OBVIOUS
<1> USE DEF DestinationInv, input, pipeline, publish, rabbit
<1> DEFINE written == [event |-> event, dest |-> destination]
<1>1. /\ inflight \in Seq(Written) /\ delivered \in Seq(Written)
      /\ Kept(inflight) /\ Kept(delivered)
  BY DEF TypeInv, BrokerType
<1>2. Kept(<<>>)
  BY DEF Kept
<1>3. ASSUME batch # 0, pos < Len(events)
      PROVE  Kept(Append(inflight, written)) /\ Kept(Append(delivered, written))
  <2>1. written \in Written  BY <1>3, EventType
  <2> QED  BY <1>1, <2>1, KeptAppend DEF destination
<1>4. CASE \/ Fetch \/ Take \/ Ack \/ RetryEvents \/ RocketConnect \/ RabbitDeclare
           \/ RabbitPublishClosed \/ UNCHANGED vars
  <2>1. UNCHANGED <<topicOf, inflight, delivered>>
    BY <1>4 DEF Fetch, Take, Ack, RetryEvents, RocketConnect, RabbitDeclare,
                RabbitPublishClosed, Publishing, vars
  <2> QED  BY <1>1, <2>1 DEF Kept
<1>5. CASE RabbitConnect \/ RabbitConnectFails \/ RabbitDeclareFails \/ CloseChannel
  <2>1. inflight' = <<>> /\ UNCHANGED <<topicOf, delivered>>
    BY <1>5 DEF RabbitConnect, RabbitConnectFails, RabbitDeclareFails, CloseChannel, Publishing
  <2> QED  BY <1>1, <2>1 DEF Kept
<1>6. CASE RabbitPublish
  <2>1. inflight' = Append(inflight, written) /\ UNCHANGED <<topicOf, delivered>>
    BY <1>6 DEF RabbitPublish, Publishing, Write
  <2>2. batch # 0 /\ pos < Len(events)  BY <1>6 DEF RabbitPublish, Publishing
  <2> QED  BY <1>1, <1>3, <2>1, <2>2 DEF Kept
<1>7. CASE RocketSend \/ RocketSendFails
  <2>1. /\ delivered' \in {delivered, Append(delivered, written)}
        /\ UNCHANGED <<topicOf, inflight>>
    BY <1>7 DEF RocketSend, RocketSendFails, Publishing
  <2>2. batch # 0 /\ pos < Len(events)  BY <1>7 DEF RocketSend, RocketSendFails, Publishing
  <2> QED  BY <1>1, <1>3, <2>1, <2>2 DEF Kept
<1>8. CASE Process
  <2>1. /\ inflight' = Tail(inflight) /\ delivered' = Append(delivered, Head(inflight))
        /\ inflight # <<>> /\ UNCHANGED topicOf
    BY <1>8 DEF Process
  <2>2. Kept(Tail(inflight))
    BY <1>1, <2>1, HeadTailProperties, LenProperties DEF Kept
  <2>3. Head(inflight) = inflight[1] /\ 1 \in 1 .. Len(inflight) /\ Head(inflight) \in Written
    BY <1>1, <2>1, HeadTailProperties, EmptySeq, LenProperties
  <2>4. Kept(Append(delivered, Head(inflight)))
    BY <1>1, <2>3, KeptAppend DEF Kept
  <2> QED  BY <2>1, <2>2, <2>4 DEF Kept
<1> QED
  BY <1>4, <1>5, <1>6, <1>7, <1>8 DEF Next, Connect, PublishEvent

\* No event is diverted, whatever exchanges are refused and however often channels close.
THEOREM DestinationsKept == Spec => []DestinationKept
<1>1. DestinationInv => DestinationKept  BY DEF DestinationInv, Kept, DestinationKept
<1>2. TypeInv /\ DestinationInv /\ [Next]_vars => DestinationInv'  BY DestinationStep
<1> QED  BY <1>1, <1>2, DestinationInit, TypeAlways, PTL DEF Spec

-----------------------------------------------------------------------------
(* What is acknowledged.                                                    *)

\* The events of the batch Publish has not come to.
Left == {events[i] : i \in pos + 1 .. Len(events)}

\* An event of a batch that was not sent failed, waits in Publish or waits to be retried.
SentInv ==
    /\ \A w \in work : InBatch(w.id) \subseteq sent \cup Elements(w.events)
    /\ batch # 0 => InBatch(batch) \subseteq sent \cup Elements(failed) \cup Left
    /\ AckedWereSent

LEMMA SentInit == Init => SentInv
BY DEF Init, SentInv, AckedWereSent

LEMMA SentStep == TypeInv /\ SentInv /\ [Next]_vars => SentInv'
<1> SUFFICES ASSUME TypeInv, SentInv, [Next]_vars PROVE SentInv'
    OBVIOUS
<1> USE DEF SentInv, AckedWereSent, input, pipeline, publish, rabbit
<1>0. /\ Len(Batches) \in Nat /\ events \in Seq(Events) /\ failed \in Seq(Events)
      /\ Len(events) \in Nat /\ Len(failed) \in Nat /\ pos \in 0 .. Len(events)
  BY OutputAssumption, LenProperties DEF TypeInv, PublishType
<1>1. CASE Fetch
  <2>1. fetched + 1 \in 1 .. Len(Batches)
    BY <1>0, <1>1 DEF Fetch, TypeInv, PipelineType
  <2>2. Elements(Batches[fetched + 1]) = InBatch(fetched + 1)
    BY <2>1, BatchElements
  <2> QED  BY <1>1, <2>2 DEF Fetch, Left, Elements
<1>2. CASE Take
  <2>1. PICK w \in work : batch' = w.id /\ events' = w.events /\ work' = work \ {w}
    BY <1>2 DEF Take
  <2>2. /\ pos' = 0 /\ failed' = <<>> /\ UNCHANGED <<sent, acked>>
    BY <1>2 DEF Take
  <2>3. Left' = Elements(w.events)  BY <2>1, <2>2 DEF Left, Elements
  <2> QED  BY <2>1, <2>2, <2>3 DEF Elements
<1>3. CASE \/ RabbitConnect \/ RocketConnect \/ RabbitConnectFails \/ RabbitDeclare \/ Process
           \/ CloseChannel \/ UNCHANGED vars
  <2>1. UNCHANGED <<work, acked, batch, pos, events, failed, sent>>
    BY <1>3 DEF RabbitConnect, RocketConnect, RabbitConnectFails, RabbitDeclare, Process,
                CloseChannel, vars
  <2> QED  BY <2>1 DEF Elements, Left
<1>4. CASE \/ RabbitPublish \/ RabbitDeclareFails \/ RabbitPublishClosed \/ RocketSend
           \/ RocketSendFails
  <2>1. /\ batch # 0 /\ pos < Len(events) /\ pos' = pos + 1
        /\ UNCHANGED <<work, acked, batch, events>>
        /\ Succeed \/ Fail
    BY <1>4 DEF RabbitPublish, RabbitDeclareFails, RabbitPublishClosed, RocketSend,
                RocketSendFails, Publishing, Succeed, Fail
  <2>2. Left \subseteq Left' \cup {event}
    BY <1>0, <2>1 DEF Left, event
  <2>3. event \in Events  BY <2>1, EventType
  <2>4. CASE Succeed
    BY <2>1, <2>2, <2>4 DEF Succeed
  <2>5. CASE Fail
    <3>1. Elements(failed) \cup {event} \subseteq Elements(Append(failed, event))
      BY <1>0, <2>3, AppendProperties DEF Elements
    <3> QED  BY <2>1, <2>2, <2>5, <3>1 DEF Fail
  <2> QED  BY <2>1, <2>4, <2>5
<1>5. Finished => Left = {}
  BY <1>0 DEF Finished, Left
<1>6. CASE Ack
  <2>1. InBatch(batch) \subseteq sent
    BY <1>5, <1>6 DEF Ack, Finished, Elements
  <2> QED  BY <1>6, <2>1 DEF Ack, Elements
<1>7. CASE RetryEvents
  <2>1. InBatch(batch) \subseteq sent \cup Elements(failed)
    BY <1>5, <1>7 DEF RetryEvents, Finished
  <2> QED  BY <1>7, <2>1 DEF RetryEvents, Elements
<1> QED
  BY <1>1, <1>2, <1>3, <1>4, <1>6, <1>7 DEF Next, Connect, PublishEvent

LEMMA SentAlways == Spec => []SentInv
<1>1. TypeInv /\ SentInv /\ [Next]_vars => SentInv'  BY SentStep
<1> QED  BY <1>1, SentInit, TypeAlways, PTL DEF Spec

\* However often a batch is retried, no event of it is lost on the way to its Ack.
THEOREM AckedSent == Spec => []AckedWereSent
<1>1. SentInv => AckedWereSent  BY DEF SentInv
<1> QED  BY <1>1, SentAlways, PTL

-----------------------------------------------------------------------------
(* The channel.                                                             *)

\* A channel that is closed stays so while the batch is in Publish: the client connects
\* again only after it was returned.  Without a fault there is nothing to connect for.
ChannelInv ==
    /\ batch # 0 => connected
    /\ batch # 0 /\ kind = "rabbitmq" /\ failed # <<>> => ~channel
    /\ kind = "rabbitmq" /\ faults = 0 =>
          /\ connected => channel
          /\ ~connected => inflight = <<>>
          /\ failed = <<>>

LEMMA ChannelInit == Init => ChannelInv
BY DEF Init, ChannelInv

LEMMA ChannelStep == TypeInv /\ ChannelInv /\ [Next]_vars => ChannelInv'
<1> SUFFICES ASSUME TypeInv, ChannelInv, [Next]_vars PROVE ChannelInv'
    OBVIOUS
<1> USE DEF ChannelInv, input, pipeline, publish, rabbit, Fault
<1>0. faults \in Nat  BY DEF TypeInv, BrokerType
<1>1. CASE Fetch \/ UNCHANGED vars  BY <1>1 DEF Fetch, vars
<1>2. CASE Take  BY <1>2 DEF Take
<1>3. CASE RabbitConnect  BY <1>3 DEF RabbitConnect
<1>4. CASE RabbitConnectFails  BY <1>0, <1>4 DEF RabbitConnectFails
<1>5. CASE RocketConnect  BY <1>5 DEF RocketConnect
<1>6. CASE RabbitPublish  BY <1>6 DEF RabbitPublish, Publishing, Succeed
<1>7. CASE RabbitDeclare  BY <1>7 DEF RabbitDeclare
<1>8. CASE RabbitDeclareFails  BY <1>0, <1>8 DEF RabbitDeclareFails, Publishing
<1>9. CASE RabbitPublishClosed  BY <1>9 DEF RabbitPublishClosed, Publishing
<1>10. CASE RocketSend \/ RocketSendFails
  BY <1>10 DEF RocketSend, RocketSendFails, Publishing
<1>11. CASE Ack  BY <1>11 DEF Ack
<1>12. CASE RetryEvents  BY <1>12 DEF RetryEvents
<1>13. CASE Process  BY <1>13 DEF Process
<1>14. CASE CloseChannel  BY <1>0, <1>14 DEF CloseChannel
<1> QED
  BY <1>1, <1>2, <1>3, <1>4, <1>5, <1>6, <1>7, <1>8, <1>9, <1>10, <1>11, <1>12, <1>13, <1>14
     DEF Next, Connect, PublishEvent

LEMMA ChannelAlways == Spec => []ChannelInv
<1>1. TypeInv /\ ChannelInv /\ [Next]_vars => ChannelInv'  BY ChannelStep
<1> QED  BY <1>1, ChannelInit, TypeAlways, PTL DEF Spec

-----------------------------------------------------------------------------
(* What arrives.                                                            *)

In(e, q) == \E i \in 1 .. Len(q) : q[i].event = e

\* What the client was told is sent the broker has or is about to have, but for a fault.
ArriveInv ==
    \A e \in sent :
        \/ In(e, delivered)
        \/ kind = "rabbitmq" /\ (faults > 0 \/ In(e, inflight))

LEMMA InAppend ==
    ASSUME NEW q \in Seq(Written), NEW w \in Written
    PROVE  /\ In(w.event, Append(q, w))
           /\ \A e : In(e, q) => In(e, Append(q, w))
<1>1. /\ Len(Append(q, w)) = Len(q) + 1 /\ Len(q) \in Nat
      /\ \A i \in 1 .. Len(q) : Append(q, w)[i] = q[i]
      /\ Append(q, w)[Len(q) + 1] = w
  BY AppendProperties, LenProperties
<1> QED  BY <1>1 DEF In

LEMMA ArriveInit == Init => ArriveInv
BY DEF Init, ArriveInv

LEMMA ArriveStep ==
    TypeInv /\ ChannelInv /\ ArriveInv /\ [Next]_vars => ArriveInv'
<1> SUFFICES ASSUME TypeInv, ChannelInv, ArriveInv, [Next]_vars PROVE ArriveInv'
    OBVIOUS
<1> USE DEF ArriveInv, input, pipeline, publish, rabbit
<1> DEFINE written == [event |-> event, dest |-> destination]
<1>0. /\ inflight \in Seq(Written) /\ delivered \in Seq(Written) /\ faults \in Nat
  BY DEF TypeInv, BrokerType
<1>1. CASE \/ Fetch \/ Take \/ Ack \/ RetryEvents \/ RocketConnect \/ RabbitDeclare
           \/ RabbitPublishClosed \/ UNCHANGED vars
  <2>1. /\ UNCHANGED <<kind, inflight, delivered, sent>>
        /\ faults' = faults \/ faults' = faults + 1
    BY <1>1 DEF Fetch, Take, Ack, RetryEvents, RocketConnect, RabbitDeclare, Fault,
                RabbitPublishClosed, Publishing, Fail, vars
  <2> QED  BY <1>0, <2>1 DEF In
<1>2. CASE RabbitConnectFails \/ RabbitDeclareFails \/ CloseChannel
  <2>1. UNCHANGED <<kind, delivered, sent>> /\ faults' = faults + 1
    BY <1>2 DEF RabbitConnectFails, RabbitDeclareFails, CloseChannel, Publishing, Fail, Fault
  <2> QED  BY <1>0, <2>1 DEF In
<1>3. CASE RabbitConnect
  <2>1. /\ kind = "rabbitmq" /\ ~connected /\ inflight' = <<>>
        /\ UNCHANGED <<kind, delivered, sent, faults>>
    BY <1>3 DEF RabbitConnect
  <2>2. faults > 0 \/ inflight = <<>>  BY <1>0, <2>1 DEF ChannelInv
  <2> QED  BY <2>1, <2>2 DEF In
<1>4. CASE RabbitPublish
  <2>1. /\ inflight' = Append(inflight, written) /\ sent' = sent \cup {event}
        /\ kind = "rabbitmq" /\ batch # 0 /\ pos < Len(events)
        /\ UNCHANGED <<kind, delivered, faults>>
    BY <1>4 DEF RabbitPublish, Publishing, Write, Succeed
  <2>2. written \in Written  BY <2>1, EventType
  <2>3. In(event, inflight') /\ \A e : In(e, inflight) => In(e, inflight')
    BY <1>0, <2>1, <2>2, InAppend
  <2> QED  BY <2>1, <2>3 DEF In
<1>5. CASE RocketSend \/ RocketSendFails
  <2>1. /\ delivered' \in {delivered, Append(delivered, written)}
        /\ kind = "rocketmq" /\ batch # 0 /\ pos < Len(events)
        /\ UNCHANGED kind
        /\ \/ UNCHANGED sent
           \/ sent' = sent \cup {event} /\ delivered' = Append(delivered, written)
    BY <1>5 DEF RocketSend, RocketSendFails, Publishing, Succeed, Fail
  <2>2. written \in Written  BY <2>1, EventType
  <2>3. /\ In(event, Append(delivered, written))
        /\ \A e : In(e, delivered) => In(e, delivered')
    BY <1>0, <2>1, <2>2, InAppend
  <2> QED  BY <2>1, <2>3 DEF In
<1>6. CASE Process
  <2>1. /\ inflight' = Tail(inflight) /\ delivered' = Append(delivered, Head(inflight))
        /\ inflight # <<>> /\ UNCHANGED <<kind, sent, faults>>
    BY <1>6 DEF Process
  <2>2. Head(inflight) = inflight[1] /\ Head(inflight) \in Written
    BY <1>0, <2>1, HeadTailProperties
  <2>3. /\ In(Head(inflight).event, delivered')
        /\ \A e : In(e, delivered) => In(e, delivered')
    BY <1>0, <2>1, <2>2, InAppend
  <2>4. \A e : In(e, inflight) => e = Head(inflight).event \/ In(e, inflight')
    <3>1. /\ Len(Tail(inflight)) = Len(inflight) - 1 /\ Len(inflight) \in Nat
          /\ \A i \in 1 .. Len(Tail(inflight)) : Tail(inflight)[i] = inflight[i + 1]
      BY <1>0, <2>1, HeadTailProperties, LenProperties
    <3> TAKE e
    <3> HAVE In(e, inflight)
    <3>2. PICK i \in 1 .. Len(inflight) : inflight[i].event = e  BY DEF In
    <3>3. CASE i = 1  BY <2>2, <3>2, <3>3
    <3>4. CASE i > 1
      <4>1. i - 1 \in 1 .. Len(Tail(inflight)) /\ Tail(inflight)[i - 1] = inflight[i]
        BY <3>1, <3>4
      <4> QED  BY <2>1, <3>2, <4>1 DEF In
    <3> QED  BY <3>1, <3>3, <3>4
  <2> QED  BY <2>1, <2>3, <2>4 DEF In
<1> QED
  BY <1>1, <1>2, <1>3, <1>4, <1>5, <1>6 DEF Next, Connect, PublishEvent

\* What is acknowledged arrives, from AckedSent and what ArriveInv says of each event sent.
THEOREM AckedOrLost == Spec => []AckedArrive
<1>1. TypeInv /\ SentInv /\ ArriveInv => AckedArrive
  BY DEF SentInv, ArriveInv, AckedWereSent, AckedArrive, In
<1>2. TypeInv /\ ChannelInv /\ ArriveInv /\ [Next]_vars => ArriveInv'  BY ArriveStep
<1>3. Init => ArriveInv  BY ArriveInit
<1> QED  BY <1>1, <1>2, <1>3, TypeAlways, SentAlways, ChannelAlways, PTL DEF Spec

-----------------------------------------------------------------------------
(* Order.                                                                   *)

LEMMA SubSeqAppend ==
    ASSUME NEW s \in Seq(Events), NEW n \in 0 .. Len(s) - 1, NEW l \in 0 .. n
    PROVE  Append(SubSeq(s, n - l + 1, n), s[n + 1])
               = SubSeq(s, n + 1 - (l + 1) + 1, n + 1)
<1> DEFINE m == n - l + 1
<1>1. /\ m \in 1 .. n + 1 /\ n \in Int /\ m \in Int /\ Len(s) \in Nat
      /\ n + 1 \in m .. Len(s) /\ m \in 1 .. Len(s)
  BY LenProperties
<1>2. SubSeq(s, m, n + 1) = SubSeq(s, m, n + 1 - 1) \o <<s[n + 1]>>
  BY <1>1, SubSeqRecursiveSecond
<1>3. SubSeq(s, m, n) \in Seq(Events)
  <2>1. \A i \in m .. n : s[i] \in Events
    BY <1>1, ElementOfSeq
  <2> QED  BY <1>1, <2>1, SubSeqProperties
<1>4. s[n + 1] \in Events
  BY <1>1, ElementOfSeq
<1>5. Append(SubSeq(s, m, n), s[n + 1]) = SubSeq(s, m, n) \o <<s[n + 1]>>
  BY <1>3, <1>4, AppendIsConcat
<1>6. n + 1 - 1 = n /\ n + 1 - (l + 1) + 1 = m
  BY <1>1
<1> QED  BY <1>2, <1>5, <1>6

LEMMA OrderInit == Init => FailedAreLast
<1> SUFFICES ASSUME Init PROVE FailedAreLast
    OBVIOUS
<1>1. failed = <<>> /\ pos = 0  BY DEF Init
<1>2. SubSeq(events, pos - Len(failed) + 1, pos) = <<>>
  BY <1>1, SubSeqEmpty
<1> QED  BY <1>1, <1>2 DEF FailedAreLast

LEMMA OrderStep ==
    TypeInv /\ ChannelInv /\ FailedAreLast /\ [Next]_vars => FailedAreLast'
<1> SUFFICES ASSUME TypeInv, ChannelInv, FailedAreLast, [Next]_vars, kind = "rabbitmq"
             PROVE  FailedAreLast'
  BY DEF FailedAreLast, Next, vars, Fetch, Take, Connect, RabbitConnect, RocketConnect,
         RabbitConnectFails, PublishEvent, RabbitPublish, RabbitDeclare, RabbitDeclareFails,
         RabbitPublishClosed, RocketSend, RocketSendFails, Publishing, Ack, RetryEvents,
         Process, CloseChannel, input
<1> USE DEF FailedAreLast, input, pipeline, publish, rabbit
<1>0. /\ events \in Seq(Events) /\ Len(events) \in Nat
      /\ pos \in 0 .. Len(events) /\ Len(failed) \in 0 .. pos
  BY LenProperties DEF TypeInv, PublishType
<1>1. CASE \/ Fetch \/ RabbitConnect \/ RabbitConnectFails \/ RabbitDeclare \/ Ack
           \/ RetryEvents \/ Process \/ CloseChannel \/ UNCHANGED vars
  BY <1>1 DEF Fetch, RabbitConnect, RabbitConnectFails, RabbitDeclare, Ack, RetryEvents,
              Process, CloseChannel, vars
<1>2. CASE Take
  <2>1. failed' = <<>> /\ pos' = 0  BY <1>2 DEF Take
  <2>2. SubSeq(events', pos' - Len(failed') + 1, pos') = <<>>
    BY <2>1, SubSeqEmpty
  <2> QED  BY <2>1, <2>2
<1>3. CASE RabbitPublish
  <2>1. failed = <<>> /\ failed' = <<>> /\ pos' = pos + 1
    BY <1>3 DEF RabbitPublish, Publishing, Succeed, ChannelInv
  <2>2. SubSeq(events', pos' - Len(failed') + 1, pos') = <<>>
    <3>1. pos' - Len(failed') + 1 = pos + 2 /\ pos' = pos + 1 /\ pos + 1 < pos + 2
          /\ pos + 1 \in Int /\ pos + 2 \in Int
      BY <1>0, <2>1
    <3> QED  BY <3>1, SubSeqEmpty
  <2> QED  BY <2>1, <2>2
<1>4. CASE RabbitDeclareFails \/ RabbitPublishClosed
  <2>1. /\ failed' = Append(failed, events[pos + 1]) /\ pos' = pos + 1
        /\ pos < Len(events) /\ UNCHANGED events
    BY <1>4 DEF RabbitDeclareFails, RabbitPublishClosed, Publishing, Fail, event
  <2>2. pos \in 0 .. Len(events) - 1
    BY <1>0, <2>1
  <2>3. events[pos + 1] \in Events /\ failed \in Seq(Events)
    BY <1>0, <2>2, ElementOfSeq DEF TypeInv, PublishType
  <2>4. Len(failed') = Len(failed) + 1
    BY <2>1, <2>3, AppendProperties
  <2>5. failed = SubSeq(events, pos - Len(failed) + 1, pos)
    OBVIOUS
  <2>6. Append(SubSeq(events, pos - Len(failed) + 1, pos), events[pos + 1])
            = SubSeq(events, pos + 1 - (Len(failed) + 1) + 1, pos + 1)
    BY <1>0, <2>2, SubSeqAppend
  <2>7. failed' = SubSeq(events, pos + 1 - (Len(failed) + 1) + 1, pos + 1)
    BY <2>1, <2>5, <2>6
  <2>8. pos' - Len(failed') + 1 = pos + 1 - (Len(failed) + 1) + 1
    BY <1>0, <2>1, <2>4
  <2> QED  BY <2>1, <2>7, <2>8
<1>5. CASE RocketConnect \/ RocketSend \/ RocketSendFails
  BY <1>5 DEF RocketConnect, RocketSend, RocketSendFails, Publishing
<1> QED
  BY <1>1, <1>2, <1>3, <1>4, <1>5 DEF Next, Connect, PublishEvent

\* RabbitMQ's retries keep the order of a batch: from ChannelInv, all that follows a
\* failure fails.
THEOREM OrderKept == Spec => []FailedAreLast
<1>1. TypeInv /\ ChannelInv /\ FailedAreLast /\ [Next]_vars => FailedAreLast'  BY OrderStep
<1> QED  BY <1>1, OrderInit, TypeAlways, ChannelAlways, PTL DEF Spec
=============================================================================
