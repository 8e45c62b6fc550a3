--------------------------- MODULE HarvesterProofs ---------------------------
(***************************************************************************)
(* Theorems about Harvester, for any logs, topics and any number of stops  *)
(* and crashes: how far the registry may be, and the order of delivery;    *)
(* and, while nothing stops or dies, which status messages there are.      *)
(***************************************************************************)
EXTENDS Harvester, LeastElement, SequenceTheorems, TLAPS

States == Status \cup {NoState}
Messages == [line: Nat, tp: Nat, dest: Nat, last: States, cur: States]
Entries == [msg: Messages, off: 0 .. Len(log)]

AtLine == hpc \in {"parsing", "sending"}

-----------------------------------------------------------------------------
(* Types.                                                                   *)

\* Run is at a line only while there is one, and has no more messages of it than
\* topics, the ones already sent included.
RunType ==
    /\ log \in Logs
    /\ hpc \in {"down", "starting", "reading", "parsing", "sending", "cleanup", "stopping"}
    /\ done \in BOOLEAN
    /\ offset \in 0 .. Len(log) /\ input \in 0 .. Len(log)
    /\ AtLine => offset < Len(log)
    /\ topic \in 0 .. Len(Topics) /\ sent \in Nat /\ msgs \in Seq(Messages)
    /\ sent + Len(msgs) <= Len(Topics)
    /\ hpc = "parsing" => sent = 0 /\ Len(msgs) <= topic

PipeType ==
    /\ queue \in Seq(Entries) /\ delivered \in Seq(Messages)
    /\ acked \in 0 .. Len(log) /\ registry \in 0 .. Len(log)

MapType == mmap \in [Jobs -> States] /\ snapshot \in [Jobs -> States]

TypeInv == RunType /\ PipeType /\ MapType

LEMMA LogType ==
    ASSUME TypeInv
    PROVE  /\ Len(log) \in Nat /\ Len(Topics) \in Nat
           /\ \A i \in 1 .. Len(log) : log[i].job \in Jobs /\ log[i].status \in States
BY HarvesterAssumption, LenProperties DEF TypeInv, RunType, States

LEMMA TypeInit == Init => TypeInv
<1> SUFFICES ASSUME Init PROVE TypeInv
    OBVIOUS
<1>1. Len(log) \in Nat /\ Len(Topics) \in Nat
  BY HarvesterAssumption, LenProperties DEF Init
<1>2. RunType
  <2>1. msgs \in Seq(Messages) /\ Len(msgs) = 0 /\ sent = 0
    BY EmptySeq DEF Init
  <2>2. log \in Logs /\ hpc = "down" /\ done = FALSE /\ offset = 0 /\ input = 0 /\ topic = 0
    BY DEF Init
  <2>3. sent + Len(msgs) <= Len(Topics) /\ sent \in Nat
    BY <1>1, <2>1
  <2>4. offset \in 0 .. Len(log) /\ input \in 0 .. Len(log) /\ topic \in 0 .. Len(Topics)
    BY <1>1, <2>2
  <2>5. ~AtLine /\ hpc # "parsing"
    BY <2>2 DEF AtLine
  <2> QED  BY <2>1, <2>2, <2>3, <2>4, <2>5 DEF RunType
<1>3. PipeType
  BY <1>1, EmptySeq DEF Init, PipeType
<1>4. MapType
  BY DEF Init, MapType, EmptyMap, States
<1> QED  BY <1>2, <1>3, <1>4 DEF TypeInv

LEMMA StateType ==
    ASSUME NEW e, e.status \in States
    PROVE  getState(e) \in States
<1>1. {PEND, RUN, NoState} \subseteq States
  BY DEF PEND, RUN, EXIT, Status, States
<1>2. /\ DOMAIN eventStateMapping = {"JOB_NEW", "JOB_START_ACCEPT"}
      /\ eventStateMapping["JOB_NEW"] = PEND /\ eventStateMapping["JOB_START_ACCEPT"] = RUN
  BY DEF eventStateMapping
<1>3. getState(e) \in {PEND, RUN, NoState, e.status}
  BY <1>2 DEF getState
<1> QED  BY <1>1, <1>3

LEMMA PublishedType == \A s \in States : Published(s) \in States
BY DEF Published, States

LEMMA MessageType ==
    ASSUME NEW l \in Nat, NEW tp \in Nat, NEW last \in States, NEW cur \in States
    PROVE  Message(l, tp, last, cur) \in Messages
BY DEF Message, Messages

\* The message and the map of a topic at a line.
LEMMA TopicType ==
    ASSUME TypeInv, hpc = "parsing"
    PROVE  /\ line \in 1 .. Len(log) /\ event.job \in Jobs
           /\ getState(event) \in States /\ mmap[event.job] \in States
           /\ StatusAfter(mmap, event) \in [Jobs -> States]
<1>1. line \in 1 .. Len(log)
  BY LogType DEF TypeInv, RunType, AtLine, line
<1>2. event.job \in Jobs /\ getState(event) \in States
  BY <1>1, LogType, StateType DEF event
<1>3. mmap \in [Jobs -> States] /\ NoState \in States
  BY DEF TypeInv, MapType, States
<1>4. StatusAfter(mmap, event) \in [Jobs -> States]
  BY <1>2, <1>3 DEF StatusAfter
<1> QED  BY <1>1, <1>2, <1>3, <1>4

\* One more message of a line.
LEMMA AppendIs ==
    ASSUME NEW ms \in Seq(Messages), NEW m
    PROVE  /\ Len(Append(ms, m)) = Len(ms) + 1
           /\ \A i \in 1 .. Len(ms) : Append(ms, m)[i] = ms[i]
           /\ Append(ms, m)[Len(ms) + 1] = m
OBVIOUS

\* Publish adds an event and changes only where others go.
LEMMA PublishAdds ==
    ASSUME queue \in Seq(Entries), sent \in Nat, log' = log,
           NEW m \in Messages, NEW off \in 0 .. Len(log), Publish(m, off)
    PROVE  /\ queue' \in Seq(Entries) /\ Len(queue') = Len(queue) + 1
           /\ \A i \in 1 .. Len(queue) :
                  /\ queue'[i].off = queue[i].off
                  /\ queue'[i].msg.tp = queue[i].msg.tp
                  /\ queue'[i].msg.line = queue[i].msg.line
                  /\ queue'[i].msg.last = queue[i].msg.last
                  /\ queue'[i].msg.cur = queue[i].msg.cur
           /\ queue'[Len(queue) + 1] = [msg |-> m, off |-> off]
<1> DEFINE moved == [i \in 1 .. Len(queue) |->
                        IF i > Len(queue) - sent THEN [queue[i] EXCEPT !.msg.dest = m.dest]
                                                 ELSE queue[i]]
           e == [msg |-> m, off |-> off]
<1>1. queue' = Append(moved, e)
  BY DEF Publish
<1>2. Len(queue) \in Nat /\ \A i \in 1 .. Len(queue) : queue[i] \in Entries
  BY LenProperties, ElementOfSeq
<1>3. ASSUME NEW i \in 1 .. Len(queue)
      PROVE  /\ moved[i] \in Entries /\ moved[i].off = queue[i].off
             /\ moved[i].msg.tp = queue[i].msg.tp /\ moved[i].msg.line = queue[i].msg.line
             /\ moved[i].msg.last = queue[i].msg.last /\ moved[i].msg.cur = queue[i].msg.cur
  BY <1>2, <1>3 DEF Entries, Messages
<1>4. moved \in Seq(Entries) /\ Len(moved) = Len(queue)
  <2> DEFINE n == Len(queue)
  <2>1. moved = [i \in 1 .. n |-> moved[i]]
    OBVIOUS
  <2>2. n \in Nat /\ \A i \in 1 .. n : moved[i] \in Entries
    BY <1>2, <1>3
  <2> QED  BY <2>1, <2>2, IsASeq, LenProperties
<1>5. e \in Entries
  BY DEF Entries
<1> HIDE DEF moved, e
<1>6. /\ Append(moved, e) \in Seq(Entries) /\ Len(Append(moved, e)) = Len(moved) + 1
      /\ \A i \in 1 .. Len(moved) : Append(moved, e)[i] = moved[i]
      /\ Append(moved, e)[Len(moved) + 1] = e
  BY <1>4, <1>5, AppendProperties
<1> QED  BY <1>1, <1>3, <1>4, <1>6 DEF e

-----------------------------------------------------------------------------
(* Types: the steps.                                                        *)

LEMMA TypeStep == TypeInv /\ [Next]_vars => TypeInv'
<1> SUFFICES ASSUME TypeInv, [Next]_vars PROVE TypeInv'
    OBVIOUS
<1> USE DEF TypeInv, RunType, AtLine
<1>0. Len(log) \in Nat /\ Len(Topics) \in Nat
  BY LogType
<1>1. CASE Setup \/ RefuseRun \/ BeginRun \/ LeaveLoop \/ Answer
  BY <1>0, <1>1 DEF Setup, RefuseRun, BeginRun, LeaveLoop, Answer, mapvars, pipevars, bounds,
                    PipeType, MapType, Entries
<1>2. CASE ReadLine
  <2>1. msgs' \in Seq(Messages) /\ Len(msgs') = 0
    BY <1>2, EmptySeq DEF ReadLine
  <2>2. RunType'
    BY <1>0, <1>2, <2>1 DEF ReadLine, bounds
  <2> QED  BY <1>2, <2>2 DEF ReadLine, mapvars, pipevars, bounds, PipeType, MapType, Entries
<1>3. CASE RawTopic
  <2> DEFINE m == Message(line, topic + 1, NoState, NoState)
  <2>1. m \in Messages
    <3>1. line \in Nat /\ topic + 1 \in Nat
      BY <1>0, <1>3 DEF RawTopic, line
    <3>2. NoState \in States
      BY DEF States
    <3> QED  BY <3>1, <3>2, MessageType
  <2>2. msgs' = Append(msgs, m) /\ topic' = topic + 1 /\ topic < Len(Topics)
    BY <1>3 DEF RawTopic
  <2> HIDE DEF m
  <2>3. msgs' \in Seq(Messages) /\ Len(msgs') = Len(msgs) + 1 /\ Len(msgs) \in Nat
    BY <2>1, <2>2, AppendProperties, LenProperties
  <2>4. RunType'
    BY <1>0, <1>3, <2>2, <2>3 DEF RawTopic, bounds
  <2> QED  BY <1>3, <2>4 DEF RawTopic, mapvars, pipevars, bounds, PipeType, MapType, Entries
<1>4. CASE TraceTopic
  <2> DEFINE m == Message(line, topic + 1, Published(mmap[event.job]), getState(event))
  <2>1. m \in Messages /\ StatusAfter(mmap, event) \in [Jobs -> States]
    <3>1. /\ line \in Nat /\ topic + 1 \in Nat /\ getState(event) \in States
          /\ mmap[event.job] \in States /\ StatusAfter(mmap, event) \in [Jobs -> States]
      BY <1>0, <1>4, TopicType DEF TraceTopic
    <3>2. Published(mmap[event.job]) \in States
      BY <3>1, PublishedType
    <3> QED  BY <3>1, <3>2, MessageType
  <2>2. /\ msgs' \in {msgs, Append(msgs, m)} /\ topic' = topic + 1 /\ topic < Len(Topics)
        /\ mmap' = StatusAfter(mmap, event)
    BY <1>4 DEF TraceTopic
  <2> HIDE DEF m
  <2>3. msgs' \in Seq(Messages) /\ Len(msgs') <= Len(msgs) + 1 /\ Len(msgs) \in Nat
                                 /\ Len(msgs') \in Nat
    BY <2>1, <2>2, AppendProperties, LenProperties
  <2>4. RunType'
    BY <1>0, <1>4, <2>2, <2>3 DEF TraceTopic, bounds
  <2> QED  BY <1>4, <2>1, <2>2, <2>4 DEF TraceTopic, pipevars, bounds, PipeType, MapType, Entries
<1>5. CASE SendNext
  <2>1. /\ line \in 1 .. Len(log) /\ msgs # <<>> /\ log' = log
        /\ Publish(Head(msgs), line)
    BY <1>0, <1>5 DEF SendNext, line, bounds
  <2>2. /\ Head(msgs) \in Messages /\ Tail(msgs) \in Seq(Messages)
        /\ Len(Tail(msgs)) = Len(msgs) - 1 /\ Len(msgs) \in Nat
    BY <2>1, HeadTailProperties, LenProperties
  <2>3. queue' \in Seq(Entries)
    <3>1. queue \in Seq(Entries) /\ sent \in Nat /\ line \in 0 .. Len(log)
      BY <1>0, <2>1 DEF PipeType
    <3> HIDE DEF TypeInv, RunType, AtLine
    <3> QED  BY <2>1, <2>2, <3>1, PublishAdds
  <2>4. queue' \in Seq(Entries')
    BY <2>1, <2>3 DEF Entries
  <2>5. RunType'
    BY <1>0, <1>5, <2>1, <2>2 DEF SendNext, bounds
  <2> QED  BY <1>5, <2>4, <2>5 DEF SendNext, mapvars, bounds, PipeType, MapType
<1>6. CASE SendRefused
  <2>1. /\ line \in 1 .. Len(log) /\ msgs # <<>> /\ log' = log
        /\ Publish(Head(msgs), line) \/ queue' = queue
    BY <1>0, <1>6 DEF SendRefused, line, bounds
  <2>2. Head(msgs) \in Messages
    BY <2>1, HeadTailProperties
  <2>3. queue' \in Seq(Entries)
    <3>1. queue \in Seq(Entries) /\ sent \in Nat /\ line \in 0 .. Len(log)
      BY <1>0, <2>1 DEF PipeType
    <3> HIDE DEF TypeInv, RunType, AtLine
    <3> QED  BY <2>1, <2>2, <3>1, PublishAdds
  <2>4. queue' \in Seq(Entries')
    BY <2>1, <2>3 DEF Entries
  <2>5. RunType'
    BY <1>0, <1>6, <2>1 DEF SendRefused, bounds
  <2> QED  BY <1>6, <2>4, <2>5 DEF SendRefused, mapvars, bounds, PipeType, MapType
<1>7. CASE FinishLine
  <2>1. RunType'
    BY <1>0, <1>7 DEF FinishLine, line, bounds
  <2> QED  BY <1>7, <2>1 DEF FinishLine, mapvars, pipevars, bounds, PipeType, MapType, Entries
<1>8. CASE Cleanup
  <2>1. NoMessage \in Messages
    BY MessageType DEF NoMessage, States
  <2>2. [msg |-> NoMessage, off |-> offset] \in Entries
    BY <2>1 DEF Entries
  <2>3. queue' \in Seq(Entries) /\ log' = log
    BY <1>8, <2>2, AppendProperties DEF Cleanup, PipeType, bounds
  <2>4. queue' \in Seq(Entries')
    BY <2>3 DEF Entries
  <2>5. RunType'
    BY <1>0, <1>8 DEF Cleanup, bounds
  <2> QED  BY <1>8, <2>4, <2>5 DEF Cleanup, mapvars, bounds, PipeType, MapType
<1>9. CASE StopSyncTask \/ Crash
  <2>1. msgs' \in Seq(Messages) /\ Len(msgs') = 0 /\ log' = log
        /\ sent' = 0 /\ topic' = 0 /\ hpc' = "down"
    BY <1>9, EmptySeq DEF StopSyncTask, Crash, bounds
  <2>2. offset' = offset /\ done' \in BOOLEAN /\ input' \in 0 .. Len(log)
    BY <1>9 DEF StopSyncTask, Crash, PipeType
  <2>3. RunType'
    BY <1>0, <2>1, <2>2
  <2>4. PipeType'
    BY <1>9, <2>1, EmptySeq DEF StopSyncTask, Crash, PipeType, pipevars, Entries
  <2>5. MapType'
    BY <1>9 DEF StopSyncTask, Crash, MapType
  <2> QED  BY <2>3, <2>4, <2>5
<1>10. CASE Stop
  BY <1>10 DEF Stop, mapvars, pipevars, PipeType, MapType, Entries
<1>11. CASE Sync \/ Persist
  BY <1>11 DEF Sync, Persist, hvars, mapvars, pipevars, bounds, PipeType, MapType, Entries
<1>12. CASE Deliver
  <2>1. queue # <<>> /\ Head(queue) \in Entries /\ Tail(queue) \in Seq(Entries)
    BY <1>12, HeadTailProperties DEF Deliver, PipeType
  <2>2. delivered' \in Seq(Messages)
    BY <1>12, <2>1, AppendProperties DEF Deliver, PipeType, Entries
  <2>3. PipeType'
    BY <1>12, <2>1, <2>2 DEF Deliver, PipeType, Entries, bounds
  <2> QED  BY <1>12, <2>3 DEF Deliver, hvars, mapvars, bounds, MapType
<1>13. CASE UNCHANGED vars
  BY <1>13 DEF vars, hvars, mapvars, pipevars, bounds, PipeType, MapType, Entries
<1> QED
  BY <1>1, <1>2, <1>3, <1>4, <1>5, <1>6, <1>7, <1>8, <1>9, <1>10, <1>11, <1>12, <1>13
  DEF Next, Run

LEMMA TypeAlways == Spec => []TypeInv
BY TypeInit, TypeStep, PTL DEF Spec

\* Every offset is a line's, in the harvester, the input's states, the registrar's
\* and on disk; the messages of a line are no more than its topics.
THEOREM TypeCorrect == Spec => []TypeOK
<1>1. TypeInv => TypeOK
  <2> SUFFICES ASSUME TypeInv PROVE TypeOK
    OBVIOUS
  <2>1. Len(msgs) \in Nat /\ Len(Topics) \in Nat
    BY LogType, LenProperties DEF TypeInv, RunType
  <2> QED  BY <2>1 DEF TypeInv, RunType, PipeType, MapType, TypeOK, States
<1> QED  BY <1>1, TypeAlways, PTL

-----------------------------------------------------------------------------
(* Lines whose first message was delivered (d) or is in the queue (u).      *)

Arrived(d, i) == \E k \in 1 .. Len(d) : d[k].tp = 1 /\ d[k].line = i
Waiting(u, i, q) == \E p \in 1 .. q : u[p].msg.tp = 1 /\ u[p].msg.line = i

\* The first message of lines 1 to n is there when q events of the queue are taken.
Passed(d, u, n, q) == \A i \in 1 .. n : Arrived(d, i) \/ Waiting(u, i, q)

\* No event names an offset, or a line, before the first messages of the lines up to it.
QueueInOrder(d, u) ==
    \A q \in 1 .. Len(u) :
        /\ Passed(d, u, u[q].off, q)
        /\ u[q].msg.tp = 1 => Passed(d, u, u[q].msg.line - 1, q - 1)

FirstInOrder(d) ==
    \A k \in 1 .. Len(d) : d[k].tp = 1 =>
        \A i \in 1 .. d[k].line - 1 : \E n \in 1 .. k - 1 : d[n].tp = 1 /\ d[n].line = i

Extended(u, v) ==
    /\ Len(u) \in Nat /\ Len(v) \in Nat /\ Len(u) <= Len(v)
    /\ \A p \in 1 .. Len(u) :
           v[p].off = u[p].off /\ v[p].msg.tp = u[p].msg.tp /\ v[p].msg.line = u[p].msg.line

LEMMA PassedExtended ==
    ASSUME NEW d, NEW u, NEW v, Extended(u, v), NEW n, NEW q \in 0 .. Len(u),
           NEW r \in Nat, q <= r, Passed(d, u, n, q)
    PROVE  Passed(d, v, n, r)
<1> SUFFICES ASSUME NEW i \in 1 .. n, ~Arrived(d, i) PROVE Waiting(v, i, r)
    BY DEF Passed
<1>1. PICK p \in 1 .. q : u[p].msg.tp = 1 /\ u[p].msg.line = i
  BY DEF Passed, Waiting
<1>2. p \in 1 .. r /\ v[p].msg.tp = 1 /\ v[p].msg.line = i
  BY <1>1 DEF Extended
<1> QED  BY <1>2 DEF Waiting

LEMMA QueueAdded ==
    ASSUME NEW d, NEW u, NEW v, Extended(u, v), Len(v) = Len(u) + 1, QueueInOrder(d, u),
           Passed(d, v, v[Len(v)].off, Len(v)),
           v[Len(v)].msg.tp = 1 => Passed(d, v, v[Len(v)].msg.line - 1, Len(u))
    PROVE  QueueInOrder(d, v)
<1> SUFFICES ASSUME NEW q \in 1 .. Len(v)
             PROVE  /\ Passed(d, v, v[q].off, q)
                    /\ v[q].msg.tp = 1 => Passed(d, v, v[q].msg.line - 1, q - 1)
    BY DEF QueueInOrder
<1>1. Len(u) \in Nat
  BY DEF Extended
<1>2. CASE q = Len(v)
  <2>1. q - 1 = Len(u)  BY <1>1, <1>2
  <2> QED  BY <1>2, <2>1
<1>3. CASE q # Len(v)
  <2>1. q \in 1 .. Len(u) /\ q \in 0 .. Len(u) /\ q - 1 \in 0 .. Len(u) /\ q \in Nat
        /\ q - 1 \in Nat
    BY <1>1, <1>3
  <2>2. /\ v[q].off = u[q].off /\ v[q].msg.tp = u[q].msg.tp
        /\ v[q].msg.line = u[q].msg.line
    BY <2>1 DEF Extended
  <2>3. Passed(d, v, u[q].off, q)
    BY <2>1, PassedExtended DEF QueueInOrder
  <2>4. u[q].msg.tp = 1 => Passed(d, v, u[q].msg.line - 1, q - 1)
    BY <2>1, PassedExtended DEF QueueInOrder
  <2> QED  BY <2>2, <2>3, <2>4
<1> QED  BY <1>2, <1>3

\* The oldest event is delivered, as Deliver does it.
LEMMA OneDelivered ==
    ASSUME NEW S, NEW T, NEW d \in Seq(S), NEW u \in Seq(T), u # <<>>,
           Head(u).msg \in S,
           NEW e, e = IF Head(u).msg = NoMessage THEN d ELSE Append(d, Head(u).msg),
           QueueInOrder(d, u), FirstInOrder(d)
    PROVE  /\ \A n : \A q \in 1 .. Len(u) : Passed(d, u, n, q) => Passed(e, Tail(u), n, q - 1)
           /\ \A n : Passed(d, u, n, 0) => Passed(e, Tail(u), n, 0)
           /\ QueueInOrder(e, Tail(u)) /\ FirstInOrder(e)
<1> DEFINE h == Head(u)  v == Tail(u)
<1>1. /\ Len(u) \in Nat /\ Len(u) >= 1 /\ h = u[1] /\ Len(v) = Len(u) - 1
      /\ \A p \in 1 .. Len(v) : v[p] = u[p + 1]
  BY HeadTailProperties, LenProperties, EmptySeq
<1>2. Len(d) \in Nat
  BY LenProperties
<1>3. NoMessage.tp = 0
  BY DEF NoMessage, Message
<1>4. /\ Len(e) \in Nat /\ Len(d) <= Len(e) /\ \A k \in 1 .. Len(d) : e[k] = d[k]
      /\ h.msg.tp = 1 => Len(e) = Len(d) + 1
      /\ \A k \in 1 .. Len(e) : k \notin 1 .. Len(d) => k = Len(d) + 1 /\ e[k] = h.msg
  <2>1. CASE h.msg = NoMessage
    BY <1>2, <1>3, <2>1
  <2>2. CASE h.msg # NoMessage
    <3>1. e = Append(d, h.msg) /\ h.msg \in S
      BY <2>2
    <3>2. /\ Len(e) = Len(d) + 1 /\ \A k \in 1 .. Len(d) : e[k] = d[k]
          /\ e[Len(d) + 1] = h.msg
      BY <3>1, AppendProperties
    <3> QED  BY <1>2, <3>2
  <2> QED  BY <2>1, <2>2
<1> HIDE DEF h, v
<1>5. \A i : Arrived(d, i) => Arrived(e, i)
  BY <1>2, <1>4 DEF Arrived
<1>6. \A i : \A q \in 1 .. Len(u) : Waiting(u, i, q) => Arrived(e, i) \/ Waiting(v, i, q - 1)
  <2> SUFFICES ASSUME NEW i, NEW q \in 1 .. Len(u), Waiting(u, i, q), ~Waiting(v, i, q - 1)
               PROVE  Arrived(e, i)
    OBVIOUS
  <2>1. PICK p \in 1 .. q : u[p].msg.tp = 1 /\ u[p].msg.line = i
    BY DEF Waiting
  <2>2. CASE p = 1
    <3>1. h.msg.tp = 1 /\ h.msg.line = i
      BY <1>1, <2>1, <2>2
    <3>2. Len(d) + 1 \in 1 .. Len(e) /\ e[Len(d) + 1] = h.msg
      BY <1>2, <1>4, <3>1
    <3> QED  BY <3>1, <3>2 DEF Arrived
  <2>3. CASE p # 1
    <3>1. p - 1 \in 1 .. q - 1 /\ p - 1 \in 1 .. Len(v) /\ (p - 1) + 1 = p
      BY <1>1, <2>3
    <3>2. v[p - 1] = u[p]
      BY <1>1, <3>1
    <3> QED  BY <2>1, <3>1, <3>2 DEF Waiting
  <2> QED  BY <2>2, <2>3
<1>7. \A n : \A q \in 1 .. Len(u) : Passed(d, u, n, q) => Passed(e, v, n, q - 1)
  BY <1>5, <1>6 DEF Passed
<1>8. \A n : Passed(d, u, n, 0) => Passed(e, v, n, 0)
  BY <1>5 DEF Passed, Waiting
<1>9. QueueInOrder(e, v)
  <2> SUFFICES ASSUME NEW q \in 1 .. Len(v)
               PROVE  /\ Passed(e, v, v[q].off, q)
                      /\ v[q].msg.tp = 1 => Passed(e, v, v[q].msg.line - 1, q - 1)
    BY DEF QueueInOrder
  <2>1. /\ q \in 1 .. Len(u) /\ q + 1 \in 1 .. Len(u) /\ (q + 1) - 1 = q
        /\ v[q] = u[q + 1]
    BY <1>1
  <2>2. /\ Passed(d, u, u[q + 1].off, q + 1)
        /\ u[q + 1].msg.tp = 1 => Passed(d, u, u[q + 1].msg.line - 1, q)
    BY <2>1 DEF QueueInOrder
  <2> QED  BY <1>7, <2>1, <2>2
<1>10. FirstInOrder(e)
  <2> SUFFICES ASSUME NEW k \in 1 .. Len(e), e[k].tp = 1, NEW i \in 1 .. e[k].line - 1
               PROVE  \E n \in 1 .. k - 1 : e[n].tp = 1 /\ e[n].line = i
    BY DEF FirstInOrder
  <2>1. CASE k \in 1 .. Len(d)
    <3>1. PICK n \in 1 .. k - 1 : d[n].tp = 1 /\ d[n].line = i
      BY <1>4, <2>1 DEF FirstInOrder
    <3>2. n \in 1 .. Len(d)
      BY <1>2, <2>1
    <3> QED  BY <1>4, <3>1, <3>2
  <2>2. CASE k \notin 1 .. Len(d)
    <3>1. k = Len(d) + 1 /\ e[k] = h.msg
      BY <1>4, <2>2
    <3>2. Passed(d, u, h.msg.line - 1, 0)
      BY <1>1, <3>1 DEF QueueInOrder
    <3>3. Arrived(d, i)
      BY <3>1, <3>2 DEF Passed, Waiting
    <3>4. PICK n \in 1 .. Len(d) : d[n].tp = 1 /\ d[n].line = i
      BY <3>3 DEF Arrived
    <3>5. n \in 1 .. k - 1 /\ e[n] = d[n]
      BY <1>2, <1>4, <3>1, <3>4
    <3> QED  BY <3>4, <3>5
  <2> QED  BY <2>1, <2>2
<1> QED  BY <1>7, <1>8, <1>9, <1>10 DEF v

LEMMA PassedAfter ==
    ASSUME NEW d, NEW u, NEW v, Extended(u, v), Len(v) = Len(u) + 1, NEW n
    PROVE  /\ Passed(d, u, n, 0) => Passed(d, v, n, 0)
           /\ Passed(d, u, n, Len(u)) => Passed(d, v, n, Len(u)) /\ Passed(d, v, n, Len(v))
<1>1. /\ Len(u) \in Nat /\ Len(v) \in Nat /\ Len(u) \in 0 .. Len(u) /\ 0 \in 0 .. Len(u)
      /\ Len(u) <= Len(v) /\ Len(u) <= Len(u) /\ 0 <= 0 /\ 0 \in Nat
  BY DEF Extended
<1>2. Passed(d, u, n, 0) => Passed(d, v, n, 0)
  BY <1>1, PassedExtended
<1>3. Passed(d, u, n, Len(u)) => Passed(d, v, n, Len(u))
  BY <1>1, PassedExtended
<1>4. Passed(d, u, n, Len(u)) => Passed(d, v, n, Len(v))
  BY <1>1, PassedExtended
<1> QED  BY <1>2, <1>3, <1>4

-----------------------------------------------------------------------------
(* The order, when the first topic is a raw one.                            *)

\* The messages of the line at hand are its own, the first topic's first.
LineInv ==
    AtLine =>
        /\ \A i \in 1 .. Len(msgs) : msgs[i].line = line
        /\ sent = 0 /\ (hpc = "sending" \/ topic > 0) => msgs # <<>> /\ msgs[1].tp = 1

\* No offset anywhere is beyond what was delivered or is in the queue before it.  The
\* input's is while a line is given up, until cleanup puts it back.
ReachInv ==
    /\ FirstInOrder(delivered) /\ QueueInOrder(delivered, queue)
    /\ Passed(delivered, queue, acked, 0) /\ Passed(delivered, queue, registry, 0)
    /\ hpc # "cleanup" => Passed(delivered, queue, input, Len(queue))
    /\ hpc # "down" => Passed(delivered, queue, offset, Len(queue))
    /\ AtLine /\ sent > 0 => Passed(delivered, queue, line, Len(queue))

OrderInv == RawFirst => LineInv /\ ReachInv

LEMMA OrderInit == Init => OrderInv
<1> SUFFICES ASSUME Init PROVE LineInv /\ ReachInv
    BY DEF OrderInv
<1>1. /\ hpc = "down" /\ acked = 0 /\ registry = 0 /\ input = 0
      /\ Len(delivered) = 0 /\ Len(queue) = 0
  BY EmptySeq DEF Init
<1>2. ~AtLine
  BY <1>1 DEF AtLine
<1>3. FirstInOrder(delivered) /\ QueueInOrder(delivered, queue)
  BY <1>1 DEF FirstInOrder, QueueInOrder
<1>4. Passed(delivered, queue, 0, 0)
  BY DEF Passed
<1> QED  BY <1>1, <1>2, <1>3, <1>4 DEF LineInv, ReachInv

LEMMA LineStep ==
    ASSUME RawFirst, TypeInv, LineInv, [Next]_vars
    PROVE  LineInv'
<1> USE DEF AtLine, line
<1>0. Len(Topics) \in Nat /\ Len(Topics) > 0 /\ Len(log) \in Nat
  BY LogType, HarvesterAssumption, EmptySeq, LenProperties DEF RawFirst
<1>1. CASE Setup \/ RefuseRun \/ BeginRun \/ LeaveLoop \/ FinishLine \/ Cleanup \/ SendRefused
           \/ StopSyncTask \/ Crash
  <2>1. hpc' \notin {"parsing", "sending"}
    BY <1>1 DEF Setup, RefuseRun, BeginRun, LeaveLoop, FinishLine, Cleanup, SendRefused,
                StopSyncTask, Crash
  <2> QED  BY <2>1 DEF LineInv
<1>2. CASE ReadLine
  BY <1>2, EmptySeq DEF ReadLine, LineInv
<1>3. CASE RawTopic
  <2> DEFINE m == Message(line, topic + 1, NoState, NoState)
  <2>1. /\ hpc = "parsing" /\ hpc' = hpc /\ offset' = offset /\ sent' = sent
        /\ msgs' = Append(msgs, m) /\ topic' = topic + 1
    BY <1>3 DEF RawTopic
  <2>2. m.line = line /\ m.tp = topic + 1
    BY DEF Message
  <2>3. msgs \in Seq(Messages) /\ Len(msgs) \in Nat /\ Len(msgs) <= topic /\ topic \in Nat
    BY <1>0, <2>1, LenProperties DEF TypeInv, RunType
  <2> HIDE DEF m
  <2>4. /\ Len(msgs') = Len(msgs) + 1 /\ \A i \in 1 .. Len(msgs) : msgs'[i] = msgs[i]
        /\ msgs'[Len(msgs) + 1] = m
    BY <2>1, <2>3, AppendIs
  <2>5. \A i \in 1 .. Len(msgs') : msgs'[i].line = line
    BY <2>1, <2>2, <2>3, <2>4 DEF LineInv
  <2>6. sent = 0 => msgs' # <<>> /\ msgs'[1].tp = 1
    <3>1. CASE topic = 0
      BY <2>2, <2>3, <2>4, <3>1, EmptySeq
    <3>2. CASE topic # 0
      BY <2>1, <2>3, <2>4, <3>2, EmptySeq DEF LineInv
    <3> QED  BY <3>1, <3>2
  <2> QED  BY <2>1, <2>5, <2>6 DEF LineInv
<1>4. CASE TraceTopic
  <2> DEFINE m == Message(line, topic + 1, Published(mmap[event.job]), getState(event))
  <2>1. /\ hpc = "parsing" /\ hpc' = hpc /\ offset' = offset /\ sent' = sent
        /\ msgs' = msgs \/ msgs' = Append(msgs, m)
        /\ topic' = topic + 1 /\ topic # 0
    BY <1>4 DEF TraceTopic, RawFirst
  <2>2. m.line = line
    BY DEF Message
  <2>3. msgs \in Seq(Messages) /\ Len(msgs) \in Nat /\ topic > 0
    BY <1>0, <2>1, LenProperties DEF TypeInv, RunType
  <2> HIDE DEF m
  <2>4. CASE msgs' = msgs
    BY <2>1, <2>3, <2>4 DEF LineInv
  <2>5. CASE msgs' = Append(msgs, m)
    <3>1. /\ Len(msgs') = Len(msgs) + 1 /\ \A i \in 1 .. Len(msgs) : msgs'[i] = msgs[i]
          /\ msgs'[Len(msgs) + 1] = m
      BY <2>3, <2>5, AppendIs
    <3>2. \A i \in 1 .. Len(msgs') : msgs'[i].line = line
      BY <2>1, <2>2, <2>3, <3>1 DEF LineInv
    <3>3. sent = 0 => msgs' # <<>> /\ msgs'[1].tp = 1
      BY <2>1, <2>3, <3>1, EmptySeq DEF LineInv
    <3> QED  BY <2>1, <3>2, <3>3 DEF LineInv
  <2> QED  BY <2>1, <2>4, <2>5
<1>5. CASE Answer
  BY <1>0, <1>5 DEF Answer, LineInv
<1>6. CASE SendNext
  <2>1. /\ hpc = "sending" /\ msgs # <<>> /\ msgs' = Tail(msgs) /\ sent' = sent + 1
        /\ offset' = offset
    BY <1>6 DEF SendNext
  <2>2. /\ Len(msgs) \in Nat /\ Len(msgs') = Len(msgs) - 1
        /\ \A i \in 1 .. Len(msgs') : msgs'[i] = msgs[i + 1]
    BY <2>1, HeadTailProperties, LenProperties DEF TypeInv, RunType
  <2>3. \A i \in 1 .. Len(msgs') : msgs'[i].line = line
    BY <2>1, <2>2 DEF LineInv
  <2>4. sent' # 0
    BY <2>1 DEF TypeInv, RunType
  <2> QED  BY <2>1, <2>3, <2>4 DEF LineInv
<1>7. CASE Stop \/ Sync \/ Deliver \/ Persist \/ UNCHANGED vars
  BY <1>7 DEF Stop, Sync, Deliver, Persist, hvars, vars, LineInv
<1> QED  BY <1>1, <1>2, <1>3, <1>4, <1>5, <1>6, <1>7 DEF Next, Run

\* A message of the line at hand goes into the queue.
LEMMA PublishPassed ==
    ASSUME TypeInv, LineInv, ReachInv, hpc = "sending", msgs # <<>>, log' = log,
           Publish(Head(msgs), line)
    PROVE  /\ Extended(queue, queue') /\ Len(queue') = Len(queue) + 1
           /\ QueueInOrder(delivered, queue')
           /\ Passed(delivered, queue', line, Len(queue'))
<1> DEFINE d == delivered  u == queue  v == queue'  m == Head(msgs)
<1>1. /\ m = msgs[1] /\ m \in Messages /\ 1 \in 1 .. Len(msgs)
  BY HeadTailProperties, EmptySeq, LenProperties DEF TypeInv, RunType
<1>2. /\ line \in 0 .. Len(log) /\ offset \in Nat /\ queue \in Seq(Entries) /\ sent \in Nat
  BY LogType DEF TypeInv, RunType, PipeType, AtLine, line
<1>3. /\ v \in Seq(Entries) /\ Len(v) = Len(u) + 1 /\ Len(u) \in Nat
      /\ \A i \in 1 .. Len(u) :
             v[i].off = u[i].off /\ v[i].msg.tp = u[i].msg.tp /\ v[i].msg.line = u[i].msg.line
      /\ v[Len(u) + 1] = [msg |-> m, off |-> line]
  BY <1>1, <1>2, PublishAdds, LenProperties
<1>4. Extended(u, v)
  BY <1>3 DEF Extended
<1>5. m.line = line /\ (sent = 0 => m.tp = 1)
  BY <1>1 DEF LineInv, AtLine
<1>6. Passed(d, u, offset, Len(u)) /\ (sent > 0 => Passed(d, u, line, Len(u)))
  BY DEF ReachInv, AtLine
<1> HIDE DEF m, d, u, v
<1>7. Passed(d, v, offset, Len(u)) /\ Passed(d, v, offset, Len(v))
  BY <1>3, <1>4, <1>6, PassedAfter
<1>8. Passed(d, v, line, Len(v))
  <2>1. CASE sent > 0
    BY <1>3, <1>4, <1>6, <2>1, PassedAfter
  <2>2. CASE sent = 0
    <3>1. Waiting(v, line, Len(v))
      <4>1. Len(v) \in 1 .. Len(v) /\ v[Len(v)].msg.tp = 1 /\ v[Len(v)].msg.line = line
        BY <1>3, <1>5, <2>2
      <4> QED  BY <4>1 DEF Waiting
    <3>2. \A i \in 1 .. line : i \in 1 .. offset \/ i = line
      BY <1>2 DEF line
    <3> QED  BY <1>7, <3>1, <3>2 DEF Passed
  <2> QED  BY <1>2, <2>1, <2>2
<1>9. QueueInOrder(d, v)
  <2>1. v[Len(v)].off = line /\ v[Len(v)].msg.line - 1 = offset
    BY <1>2, <1>3, <1>5 DEF line
  <2>2. QueueInOrder(d, u)
    BY DEF ReachInv, d, u
  <2> QED  BY <1>3, <1>4, <1>7, <1>8, <2>1, <2>2, QueueAdded
<1> QED  BY <1>3, <1>4, <1>8, <1>9 DEF d, u, v

LEMMA ReachStep ==
    ASSUME RawFirst, TypeInv, LineInv, ReachInv, [Next]_vars
    PROVE  ReachInv'
<1>0. /\ Len(log) \in Nat /\ queue \in Seq(Entries) /\ delivered \in Seq(Messages)
      /\ Len(queue) \in Nat
  BY LogType, LenProperties DEF TypeInv, PipeType
<1>1. CASE Setup \/ RefuseRun \/ BeginRun \/ LeaveLoop \/ ReadLine \/ RawTopic \/ TraceTopic
           \/ Answer \/ StopSyncTask
  <2>1. UNCHANGED <<delivered, queue, acked, registry, input>>
    BY <1>1 DEF Setup, RefuseRun, BeginRun, LeaveLoop, ReadLine, RawTopic, TraceTopic, Answer,
                StopSyncTask, mapvars, pipevars
  <2>2. /\ hpc # "cleanup"
        /\ hpc' # "down" => Passed(delivered, queue, offset', Len(queue))
    BY <1>1 DEF Setup, RefuseRun, BeginRun, LeaveLoop, ReadLine, RawTopic, TraceTopic, Answer,
                StopSyncTask, ReachInv
  <2>3. AtLine' /\ sent' > 0 => AtLine /\ sent' = sent /\ offset' = offset
    BY <1>1 DEF Setup, RefuseRun, BeginRun, LeaveLoop, ReadLine, RawTopic, TraceTopic, Answer,
                StopSyncTask, AtLine
  <2> QED  BY <2>1, <2>2, <2>3 DEF ReachInv, line
<1>2. CASE SendNext
  <2>1. /\ hpc = "sending" /\ msgs # <<>> /\ Publish(Head(msgs), line) /\ input' = line
        /\ UNCHANGED <<log, hpc, offset, delivered, acked, registry>>
    BY <1>2 DEF SendNext, bounds
  <2>2. /\ Extended(queue, queue') /\ Len(queue') = Len(queue) + 1
        /\ QueueInOrder(delivered, queue') /\ Passed(delivered, queue', line, Len(queue'))
    BY <2>1, PublishPassed
  <2>3. /\ Passed(delivered, queue', acked, 0) /\ Passed(delivered, queue', registry, 0)
        /\ Passed(delivered, queue', offset, Len(queue'))
    BY <2>1, <2>2, PassedAfter DEF ReachInv
  <2> QED  BY <2>1, <2>2, <2>3 DEF ReachInv, line
<1>3. CASE SendRefused
  <2>1. /\ hpc = "sending" /\ msgs # <<>> /\ hpc' = "cleanup"
        /\ Publish(Head(msgs), line) \/ queue' = queue
        /\ UNCHANGED <<log, offset, delivered, acked, registry>>
    BY <1>3 DEF SendRefused, bounds
  <2>2. CASE queue' = queue
    BY <2>1, <2>2 DEF ReachInv, AtLine
  <2>3. CASE Publish(Head(msgs), line)
    <3>1. /\ Extended(queue, queue') /\ Len(queue') = Len(queue) + 1
          /\ QueueInOrder(delivered, queue')
      BY <2>1, <2>3, PublishPassed
    <3>2. /\ Passed(delivered, queue', acked, 0) /\ Passed(delivered, queue', registry, 0)
          /\ Passed(delivered, queue', offset, Len(queue'))
      BY <2>1, <3>1, PassedAfter DEF ReachInv
    <3> QED  BY <2>1, <3>1, <3>2 DEF ReachInv, AtLine
  <2> QED  BY <2>1, <2>2, <2>3
<1>4. CASE FinishLine
  <2>1. /\ hpc = "sending" /\ msgs = <<>> /\ hpc' = "reading" /\ offset' = line
        /\ UNCHANGED <<delivered, queue, acked, registry, input>>
    BY <1>4 DEF FinishLine, pipevars
  <2>2. sent > 0
    BY <2>1 DEF LineInv, AtLine, TypeInv, RunType
  <2> QED  BY <2>1, <2>2 DEF ReachInv, AtLine
<1>5. CASE Cleanup
  <2> DEFINE e == [msg |-> NoMessage, off |-> offset]
  <2>1. /\ hpc = "cleanup" /\ hpc' = "stopping" /\ input' = offset /\ queue' = Append(queue, e)
        /\ UNCHANGED <<delivered, offset, acked, registry>>
    BY <1>5 DEF Cleanup
  <2>2. e.off = offset /\ e.msg.tp = 0
    BY DEF NoMessage, Message
  <2> HIDE DEF e
  <2>3. /\ Len(queue') = Len(queue) + 1 /\ \A i \in 1 .. Len(queue) : queue'[i] = queue[i]
        /\ queue'[Len(queue) + 1] = e
    BY <1>0, <2>1
  <2>4. Extended(queue, queue')
    BY <1>0, <2>3 DEF Extended
  <2>5. /\ Passed(delivered, queue', acked, 0) /\ Passed(delivered, queue', registry, 0)
        /\ Passed(delivered, queue', offset, Len(queue'))
    BY <2>1, <2>3, <2>4, PassedAfter DEF ReachInv
  <2>6. QueueInOrder(delivered, queue')
    BY <2>2, <2>3, <2>4, <2>5, QueueAdded DEF ReachInv
  <2> QED  BY <2>1, <2>5, <2>6 DEF ReachInv, AtLine
<1>6. CASE Deliver
  <2>1. /\ queue # <<>> /\ queue' = Tail(queue) /\ acked' = Head(queue).off
        /\ delivered' = IF Head(queue).msg = NoMessage THEN delivered
                        ELSE Append(delivered, Head(queue).msg)
        /\ UNCHANGED <<hpc, offset, sent, input, registry>>
    BY <1>6 DEF Deliver, hvars
  <2>2. /\ Head(queue) = queue[1] /\ Head(queue) \in Entries /\ Len(queue) \in 1 .. Len(queue)
        /\ Len(queue') = Len(queue) - 1 /\ 1 \in 1 .. Len(queue)
    BY <1>0, <2>1, HeadTailProperties, EmptySeq
  <2>3. Head(queue).msg \in Messages
    BY <2>2 DEF Entries
  <2>4. /\ \A n : \A q \in 1 .. Len(queue) :
               Passed(delivered, queue, n, q) => Passed(delivered', queue', n, q - 1)
        /\ \A n : Passed(delivered, queue, n, 0) => Passed(delivered', queue', n, 0)
        /\ QueueInOrder(delivered', queue') /\ FirstInOrder(delivered')
    BY <1>0, <2>1, <2>3, OneDelivered DEF ReachInv
  <2>5. Passed(delivered', queue', acked', 0)
    BY <2>1, <2>2, <2>4 DEF ReachInv, QueueInOrder
  <2>6. \A n : Passed(delivered, queue, n, Len(queue)) => Passed(delivered', queue', n, Len(queue'))
    BY <2>2, <2>4
  <2> QED  BY <2>1, <2>4, <2>5, <2>6 DEF ReachInv, AtLine, line
<1>7. CASE Crash
  <2>1. /\ hpc' = "down" /\ input' = registry /\ acked' = registry /\ queue' = <<>>
        /\ UNCHANGED <<delivered, registry>>
    BY <1>7 DEF Crash
  <2>2. Len(queue') = 0
    BY <2>1, EmptySeq
  <2>3. Passed(delivered, queue', registry, 0)
    BY DEF ReachInv, Passed, Waiting
  <2>4. QueueInOrder(delivered, queue')
    BY <2>2 DEF QueueInOrder
  <2> QED  BY <2>1, <2>2, <2>3, <2>4 DEF ReachInv, AtLine
<1>8. CASE Stop \/ Sync \/ Persist \/ UNCHANGED vars
  <2>1. /\ UNCHANGED <<hpc, offset, sent, input, queue, delivered, acked>>
        /\ registry' \in {registry, acked}
    BY <1>8 DEF Stop, Sync, Persist, hvars, mapvars, pipevars, vars
  <2> QED  BY <2>1 DEF ReachInv, AtLine, line
<1> QED  BY <1>1, <1>2, <1>3, <1>4, <1>5, <1>6, <1>7, <1>8 DEF Next, Run

LEMMA OrderAlways == Spec => []OrderInv
<1>1. TypeInv /\ OrderInv /\ [Next]_vars => OrderInv'
  BY LineStep, ReachStep DEF OrderInv
<1> QED  BY <1>1, OrderInit, TypeAlways, PTL DEF Spec

\* Of a line the registry has passed, the first message was delivered: with any number
\* of stops and crashes, no line is skipped.
THEOREM NoLineSkipped == Spec => []RegistryBehindDelivery
<1>1. TypeInv /\ OrderInv => RegistryBehindDelivery
  BY DEF OrderInv, ReachInv, Passed, Arrived, Waiting, RegistryBehindDelivery, DeliveredOf
<1> QED  BY <1>1, OrderAlways, TypeAlways, PTL

\* First deliveries are in the order of the log.
THEOREM LinesInOrder == Spec => []FirstDeliveryInOrder
<1>1. TypeInv /\ OrderInv => FirstDeliveryInOrder
  <2> SUFFICES ASSUME TypeInv, OrderInv, RawFirst, NEW k \in DeliveredOf(1),
                      NEW i \in 1 .. delivered[k].line - 1
               PROVE  \E n \in DeliveredOf(1) : n < k /\ delivered[n].line = i
    BY DEF FirstDeliveryInOrder
  <2>1. k \in 1 .. Len(delivered) /\ delivered[k].tp = 1 /\ Len(delivered) \in Nat
    BY LenProperties DEF DeliveredOf, TypeInv, PipeType
  <2>2. PICK n \in 1 .. k - 1 : delivered[n].tp = 1 /\ delivered[n].line = i
    BY <2>1 DEF OrderInv, ReachInv, FirstInOrder
  <2>3. n \in DeliveredOf(1) /\ n < k
    BY <2>1, <2>2 DEF DeliveredOf
  <2> QED  BY <2>2, <2>3
<1> QED  BY <1>1, OrderAlways, TypeAlways, PTL
-----------------------------------------------------------------------------
(* The status map, by the events alone.                                     *)

Maps == [Jobs -> States]

LEMMA AfterType ==
    ASSUME NEW l \in Logs, NEW i \in 1 .. Len(l), NEW m \in Maps
    PROVE  /\ l[i].job \in Jobs /\ getState(l[i]) \in States /\ StatusAfter(m, l[i]) \in Maps
<1>1. l[i].job \in Jobs /\ getState(l[i]) \in States
  BY HarvesterAssumption, StateType DEF States
<1>2. NoState \in States
  BY DEF States
<1> QED  BY <1>1, <1>2 DEF StatusAfter, Maps

LEMMA EmptyMapType == EmptyMap \in Maps
<1>1. NoState \in States
  BY DEF States
<1> QED  BY <1>1 DEF EmptyMap, Maps

\* The recursion that defines before has a solution: maps for the first k lines extend
\* to one line more.
LEMMA MapsExist ==
    ASSUME NEW l \in Logs
    PROVE  \E g \in [1 .. Len(l) + 1 -> Maps] :
               /\ g[1] = EmptyMap
               /\ \A i \in 1 .. Len(l) : g[i + 1] = StatusAfter(g[i], l[i])
<1> DEFINE Upto(k) == \E g \in [1 .. k -> Maps] :
               /\ g[1] = EmptyMap
               /\ \A i \in 1 .. k - 1 : g[i + 1] = StatusAfter(g[i], l[i])
           Without == {k \in Nat : k \in 1 .. Len(l) + 1 /\ ~Upto(k)}
<1>1. Len(l) \in Nat /\ EmptyMap \in Maps
  BY HarvesterAssumption, EmptyMapType
<1>2. Upto(1)
  <2>1. [i \in 1 .. 1 |-> EmptyMap] \in [1 .. 1 -> Maps]
    BY <1>1
  <2>2. [i \in 1 .. 1 |-> EmptyMap][1] = EmptyMap
    OBVIOUS
  <2>3. 1 .. 1 - 1 = {}
    OBVIOUS
    <2> QED  BY <2>1, <2>2, <2>3
<1>3. ASSUME NEW k \in 1 .. Len(l), Upto(k) PROVE Upto(k + 1)
  <2>1. PICK g \in [1 .. k -> Maps] :
            g[1] = EmptyMap /\ \A i \in 1 .. k - 1 : g[i + 1] = StatusAfter(g[i], l[i])
    BY <1>3
  <2>2. k \in Int /\ k >= 1 /\ k <= Len(l)
    BY <1>1
  <2>3. StatusAfter(g[k], l[k]) \in Maps
    BY <2>2, AfterType
  <2> DEFINE h == [i \in 1 .. k + 1 |-> IF i = k + 1 THEN StatusAfter(g[k], l[k]) ELSE g[i]]
  <2>4. h \in [1 .. k + 1 -> Maps]
    BY <2>2, <2>3
  <2>5. h[1] = EmptyMap
    BY <2>1, <2>2
  <2>6. ASSUME NEW i \in 1 .. (k + 1) - 1 PROVE h[i + 1] = StatusAfter(h[i], l[i])
    <3>1. i \in 1 .. k /\ h[i] = g[i]
      BY <2>2
    <3>2. CASE i = k
      BY <2>2, <3>1, <3>2
    <3>3. CASE i # k
      <4>1. i \in 1 .. k - 1 /\ i + 1 \in 1 .. k /\ i + 1 # k + 1
        BY <2>2, <3>1, <3>3
      <4> QED  BY <2>1, <2>2, <3>1, <4>1
    <3> QED  BY <3>2, <3>3
  <2> HIDE DEF h
  <2> QED  BY <2>4, <2>5, <2>6
<1> HIDE DEF Upto
<1>4. Without = {}
  <2> SUFFICES ASSUME Without # {} PROVE FALSE
    OBVIOUS
  <2>1. PICK k \in Without : \A n \in Without : k <= n
    BY LeastNat
  <2>2. k \in Nat /\ k \in 1 .. Len(l) + 1 /\ ~Upto(k)
    OBVIOUS
  <2>3. k # 1
    BY <1>2, <2>2
  <2>4. k - 1 \in 1 .. Len(l) /\ k - 1 \in Nat /\ k - 1 \in 1 .. Len(l) + 1 /\ ~(k <= k - 1)
    BY <1>1, <2>2, <2>3
  <2>5. Upto(k - 1)
    BY <2>1, <2>4
  <2>6. Upto((k - 1) + 1)
    BY <1>3, <2>4, <2>5
  <2> QED  BY <2>2, <2>6
<1>5. Upto(Len(l) + 1)
  BY <1>1, <1>4
<1> QED  BY <1>1, <1>5 DEF Upto

LEMMA BeforeIs ==
    ASSUME NEW l \in Logs
    PROVE  /\ before[l] \in [1 .. Len(l) + 1 -> Maps]
           /\ before[l][1] = EmptyMap
           /\ \A i \in 1 .. Len(l) : before[l][i + 1] = StatusAfter(before[l][i], l[i])
<1>1. PICK g \in [1 .. Len(l) + 1 -> Maps] :
          g[1] = EmptyMap /\ \A i \in 1 .. Len(l) : g[i + 1] = StatusAfter(g[i], l[i])
  BY MapsExist
<1>2. Len(l) \in Nat /\ EmptyMap \in Maps
  BY HarvesterAssumption, EmptyMapType
<1>3. g = [i \in 1 .. Len(l) + 1 |-> IF i = 1 THEN EmptyMap ELSE StatusAfter(g[i - 1], l[i - 1])]
  <2>1. ASSUME NEW i \in 1 .. Len(l) + 1
        PROVE  g[i] = IF i = 1 THEN EmptyMap ELSE StatusAfter(g[i - 1], l[i - 1])
    <3>1. i = 1 \/ (i - 1 \in 1 .. Len(l) /\ (i - 1) + 1 = i)
      BY <1>2
    <3> QED  BY <1>1, <3>1
  <2> QED  BY <2>1
<1>4. before[l] = [i \in 1 .. Len(l) + 1 |->
                      IF i = 1 THEN EmptyMap ELSE StatusAfter(before[l][i - 1], l[i - 1])]
  BY <1>3 DEF before
<1> DEFINE b == before[l]
<1>5. /\ b[1] = EmptyMap
      /\ \A i \in 1 .. Len(l) : b[i + 1] = StatusAfter(b[i], l[i])
  <2> HIDE DEF b
  <2>1. b = [i \in 1 .. Len(l) + 1 |-> IF i = 1 THEN EmptyMap ELSE StatusAfter(b[i - 1], l[i - 1])]
    BY <1>4 DEF b
  <2>2. \A i \in 1 .. Len(l) + 1 :
            b[i] = IF i = 1 THEN EmptyMap ELSE StatusAfter(b[i - 1], l[i - 1])
    BY <2>1
  <2>3. \A i \in 1 .. Len(l) : i + 1 \in 1 .. Len(l) + 1 /\ i + 1 # 1 /\ (i + 1) - 1 = i
    BY <1>2
  <2>4. 1 \in 1 .. Len(l) + 1
    BY <1>2
  <2> QED  BY <2>2, <2>3, <2>4
<1>6. ASSUME NEW i \in 1 .. Len(l) + 1 PROVE b[i] \in Maps
  <2> DEFINE Other == {k \in Nat : k \in 1 .. Len(l) + 1 /\ b[k] \notin Maps}
  <2> HIDE DEF b
  <2>1. Other = {}
    <3> SUFFICES ASSUME Other # {} PROVE FALSE
      OBVIOUS
    <3>1. PICK k \in Other : \A n \in Other : k <= n
      <4>1. Other \subseteq Nat
        OBVIOUS
      <4> HIDE DEF Other
      <4> QED  BY <4>1, LeastNat
    <3>2. k # 1
      BY <1>2, <1>5
    <3>3. k - 1 \in Nat /\ k - 1 \in 1 .. Len(l) /\ k - 1 \in 1 .. Len(l) + 1 /\ ~(k <= k - 1)
          /\ (k - 1) + 1 = k
      BY <1>2, <3>2
    <3>4. b[k - 1] \in Maps
      BY <3>1, <3>3
    <3>5. b[k] \in Maps
      BY <1>5, <3>3, <3>4, AfterType
    <3> QED  BY <3>5
  <2>2. i \in Nat
    BY <1>2
  <2> QED  BY <2>1, <2>2
<1>7. b \in [1 .. Len(l) + 1 -> Maps]
  <2>1. b = [i \in 1 .. Len(l) + 1 |-> b[i]]
    BY <1>4
  <2> HIDE DEF b
  <2> QED  BY <1>6, <2>1
<1> QED  BY <1>5, <1>7

\* A second trace topic leaves the map as the first one left it.
LEMMA AfterTwice ==
    ASSUME NEW m \in Maps, NEW e, e.job \in Jobs
    PROVE  StatusAfter(StatusAfter(m, e), e) = StatusAfter(m, e)
<1> DEFINE s == getState(e)  n == StatusAfter(m, e)
<1>1. CASE ~IsChange(m, e)
  BY <1>1 DEF StatusAfter
<1>2. CASE IsChange(m, e)
  <2> DEFINE v == IF Finished(s) THEN NoState ELSE s
  <2>1. n = [m EXCEPT ![e.job] = v]
    BY <1>2 DEF StatusAfter
  <2>2. n[e.job] = v
    BY <2>1 DEF Maps
  <2>3. [n EXCEPT ![e.job] = v] = n
    BY <2>1 DEF Maps
  <2>4. StatusAfter(n, e) \in {n, [n EXCEPT ![e.job] = v]}
    BY DEF StatusAfter
  <2> QED  BY <2>3, <2>4
<1> QED  BY <1>1, <1>2
-----------------------------------------------------------------------------
(* The messages on their way, in order: delivered, in the queue, of the     *)
(* line at hand.  A message that moves on leaves the sequence as it was.    *)

ChangesOf(l) == {i \in 1 .. Len(l) : IsChange(before[l][i], l[i])}

Trail(d, u, ms) ==
    [k \in 1 .. Len(d) + Len(u) + Len(ms) |->
        IF k <= Len(d) THEN d[k]
        ELSE IF k <= Len(d) + Len(u) THEN u[k - Len(d)].msg
        ELSE ms[k - Len(d) - Len(u)]]

\* Only where a message goes may differ.
Queued == [msg: Messages, off: Nat]
Alike(a, b) == a.tp = b.tp /\ a.line = b.line /\ a.last = b.last /\ a.cur = b.cur

Told(v, n, tp, c) == \E q \in 1 .. n : v[q].tp = tp /\ v[q].line = c

\* A message of the topic tells a change of the log as it is, after those before it.
OneRight(v, k, tp, l) ==
    v[k].tp = tp =>
        /\ v[k].line \in ChangesOf(l)
        /\ v[k].last = Published(before[l][v[k].line][l[v[k].line].job])
        /\ v[k].cur = getState(l[v[k].line])
        /\ \A c \in ChangesOf(l) : c < v[k].line <=> Told(v, k - 1, tp, c)

Right(v, n, tp, l) == \A k \in 1 .. n : v[k].tp # 0 /\ OneRight(v, k, tp, l)

\* They are those of the lines up to f.
Reached(v, n, tp, l, f) == \A c \in ChangesOf(l) : c <= f <=> Told(v, n, tp, c)

LEMMA RightAlike ==
    ASSUME NEW v, NEW w, NEW n \in Nat, NEW tp, NEW l, NEW f,
           \A k \in 1 .. n : Alike(v[k], w[k]),
           Right(v, n, tp, l), Reached(v, n, tp, l, f)
    PROVE  Right(w, n, tp, l) /\ Reached(w, n, tp, l, f)
<1>1. ASSUME NEW k \in 0 .. n, NEW c PROVE Told(v, k, tp, c) <=> Told(w, k, tp, c)
  BY DEF Told, Alike
<1>2. n \in 0 .. n /\ \A k \in 1 .. n : k - 1 \in 0 .. n
  OBVIOUS
<1>3. Reached(w, n, tp, l, f)
  BY <1>1, <1>2 DEF Reached
<1>4. ASSUME NEW k \in 1 .. n
      PROVE  w[k].tp # 0 /\ OneRight(w, k, tp, l)
  <2>1. w[k].tp = v[k].tp /\ w[k].line = v[k].line /\ w[k].last = v[k].last /\ w[k].cur = v[k].cur
    BY DEF Alike
  <2> QED  BY <1>1, <1>2, <2>1 DEF Right, OneRight
<1> QED  BY <1>3, <1>4 DEF Right

\* One more message: of another topic, or of the next change.
LEMMA RightMore ==
    ASSUME NEW v, NEW w, NEW n \in Nat, NEW tp, NEW l, NEW f \in Nat, NEW g \in Nat,
           \A k \in 1 .. n : w[k] = v[k],
           Right(v, n, tp, l), Reached(v, n, tp, l, f), w[n + 1].tp # 0,
           \/ w[n + 1].tp # tp /\ g = f
           \/ /\ w[n + 1].tp = tp /\ g = f + 1 /\ w[n + 1].line = g /\ g \in ChangesOf(l)
              /\ w[n + 1].last = Published(before[l][g][l[g].job]) /\ w[n + 1].cur = getState(l[g]),
           ChangesOf(l) \subseteq Nat
    PROVE  Right(w, n + 1, tp, l) /\ Reached(w, n + 1, tp, l, g)
<1>1. \A k \in 1 .. n : Alike(v[k], w[k])
  BY DEF Alike
<1>2. Right(w, n, tp, l) /\ Reached(w, n, tp, l, f)
  BY <1>1, RightAlike
<1>3. \A c : Told(w, n + 1, tp, c) <=> Told(w, n, tp, c) \/ (w[n + 1].tp = tp /\ w[n + 1].line = c)
  <2> SUFFICES ASSUME NEW c
               PROVE  Told(w, n + 1, tp, c) <=>
                          Told(w, n, tp, c) \/ (w[n + 1].tp = tp /\ w[n + 1].line = c)
    OBVIOUS
  <2>1. \A q \in 1 .. n + 1 : q \in 1 .. n \/ q = n + 1
    OBVIOUS
  <2>2. n + 1 \in 1 .. n + 1 /\ \A q \in 1 .. n : q \in 1 .. n + 1
    OBVIOUS
  <2> QED  BY <2>1, <2>2 DEF Told
<1>4. CASE w[n + 1].tp # tp
  <2>1. g = f
    BY <1>4, <1>2
  <2>2. Reached(w, n + 1, tp, l, g)
    BY <1>2, <1>3, <1>4, <2>1 DEF Reached
  <2>3. \A k \in 1 .. n + 1 : k \in 1 .. n \/ k = n + 1
    OBVIOUS
  <2>4. Right(w, n + 1, tp, l)
    BY <1>2, <1>4, <2>3 DEF Right, OneRight
  <2> QED  BY <2>2, <2>4
<1>5. CASE w[n + 1].tp = tp
  <2>1. /\ g = f + 1 /\ w[n + 1].line = g /\ g \in ChangesOf(l)
        /\ w[n + 1].last = Published(before[l][g][l[g].job]) /\ w[n + 1].cur = getState(l[g])
    BY <1>5
  <2>2. \A c \in ChangesOf(l) : (c <= g <=> c <= f \/ c = g) /\ (c < g <=> c <= f)
    BY <2>1
  <2>3. Reached(w, n + 1, tp, l, g)
    BY <1>2, <1>3, <1>5, <2>1, <2>2 DEF Reached
  <2>4. (n + 1) - 1 = n /\ \A k \in 1 .. n + 1 : k \in 1 .. n \/ k = n + 1
    OBVIOUS
  <2>5. \A c \in ChangesOf(l) : c < g <=> Told(w, n, tp, c)
    BY <1>2, <2>2 DEF Reached
  <2>6. Right(w, n + 1, tp, l)
    <3> SUFFICES ASSUME NEW k \in 1 .. n + 1
                 PROVE  w[k].tp # 0 /\ OneRight(w, k, tp, l)
      BY DEF Right
    <3>1. CASE k \in 1 .. n
      BY <1>2, <3>1 DEF Right
    <3>2. CASE k = n + 1
      BY <1>5, <2>1, <2>4, <2>5, <3>2 DEF OneRight
    <3> QED  BY <2>4, <3>1, <3>2
  <2> QED  BY <2>3, <2>6
<1> QED  BY <1>4, <1>5

LEMMA TrailMore ==
    ASSUME NEW d \in Seq(Messages), NEW u \in Seq(Queued), NEW ms \in Seq(Messages),
           NEW m \in Messages
    PROVE  LET n == Len(d) + Len(u) + Len(ms)
               more == Append(ms, m) IN
           /\ n \in Nat /\ Len(d) + Len(u) + Len(more) = n + 1
           /\ \A k \in 1 .. n : Trail(d, u, more)[k] = Trail(d, u, ms)[k]
           /\ Trail(d, u, more)[n + 1] = m
<1> DEFINE n == Len(d) + Len(u) + Len(ms)
           more == Append(ms, m)
<1>1. Len(d) \in Nat /\ Len(ms) \in Nat /\ Len(u) \in Nat /\ n \in Nat
  BY LenProperties
<1>2. /\ Len(more) = Len(ms) + 1 /\ \A i \in 1 .. Len(ms) : more[i] = ms[i]
      /\ more[Len(ms) + 1] = m
  BY AppendIs
<1> HIDE DEF more
<1>3. Len(d) + Len(u) + Len(more) = n + 1
  BY <1>1, <1>2
<1>4. ASSUME NEW k \in 1 .. n PROVE Trail(d, u, more)[k] = Trail(d, u, ms)[k]
  <2>1. k \in 1 .. n + 1 /\ k \in Int
    BY <1>1
  <2>2. CASE k <= Len(d) + Len(u)
    BY <1>3, <2>1, <2>2 DEF Trail
  <2>3. CASE ~(k <= Len(d) + Len(u))
    <3>1. k - Len(d) - Len(u) \in 1 .. Len(ms) /\ ~(k <= Len(d))
      BY <1>1, <2>1, <2>3
    <3> QED  BY <1>2, <1>3, <2>1, <2>3, <3>1 DEF Trail
  <2> QED  BY <2>2, <2>3
<1>5. Trail(d, u, more)[n + 1] = m
  <2>1. n + 1 \in 1 .. n + 1 /\ ~(n + 1 <= Len(d)) /\ ~(n + 1 <= Len(d) + Len(u))
        /\ (n + 1) - Len(d) - Len(u) = Len(ms) + 1
    BY <1>1
  <2> QED  BY <1>2, <1>3, <2>1 DEF Trail
<1> QED  BY <1>1, <1>3, <1>4, <1>5 DEF more

LEMMA TrailSent ==
    ASSUME NEW d \in Seq(Messages), NEW u \in Seq(Queued), NEW ms \in Seq(Messages), ms # <<>>,
           NEW w \in Seq(Queued), Len(w) = Len(u) + 1, Alike(Head(ms), w[Len(u) + 1].msg),
           \A p \in 1 .. Len(u) : Alike(u[p].msg, w[p].msg)
    PROVE  LET n == Len(d) + Len(u) + Len(ms)
               rest == Tail(ms) IN
           /\ n \in Nat /\ Len(d) + Len(w) + Len(rest) = n
           /\ \A k \in 1 .. n : Alike(Trail(d, u, ms)[k], Trail(d, w, rest)[k])
<1> DEFINE n == Len(d) + Len(u) + Len(ms)
           rest == Tail(ms)
<1>1. Len(d) \in Nat /\ Len(ms) \in Nat /\ Len(u) \in Nat /\ n \in Nat
  BY LenProperties
<1>2. /\ Len(rest) = Len(ms) - 1 /\ \A i \in 1 .. Len(rest) : rest[i] = ms[i + 1]
      /\ Head(ms) = ms[1]
  BY HeadTailProperties
<1> HIDE DEF rest
<1>3. Len(d) + Len(w) + Len(rest) = n
  BY <1>1, <1>2
<1>4. ASSUME NEW k \in 1 .. n PROVE Alike(Trail(d, u, ms)[k], Trail(d, w, rest)[k])
  <2>1. CASE k <= Len(d)
    BY <1>1, <1>3, <2>1 DEF Trail, Alike
  <2>2. CASE k > Len(d) /\ k <= Len(d) + Len(u)
    <3>1. k - Len(d) \in 1 .. Len(u) /\ k <= Len(d) + Len(w)
      BY <1>1, <2>2
    <3>2. Trail(d, u, ms)[k] = u[k - Len(d)].msg /\ Trail(d, w, rest)[k] = w[k - Len(d)].msg
      BY <1>1, <1>3, <2>2, <3>1 DEF Trail
    <3> QED  BY <3>1, <3>2
  <2>3. CASE k = Len(d) + Len(u) + 1
    <3>1. k - Len(d) = Len(u) + 1 /\ k - Len(d) - Len(u) = 1 /\ k <= Len(d) + Len(w)
      BY <1>1, <2>3
    <3>2. Trail(d, u, ms)[k] = ms[1] /\ Trail(d, w, rest)[k] = w[Len(u) + 1].msg
      BY <1>1, <1>3, <2>3, <3>1 DEF Trail
    <3> QED  BY <1>2, <3>2
  <2>4. CASE k > Len(d) + Len(u) + 1
    <3>1. /\ k - Len(d) - Len(w) \in 1 .. Len(rest) /\ ~(k <= Len(d) + Len(w))
          /\ (k - Len(d) - Len(w)) + 1 = k - Len(d) - Len(u)
      BY <1>1, <1>2, <2>4
    <3>2. /\ Trail(d, u, ms)[k] = ms[k - Len(d) - Len(u)]
          /\ Trail(d, w, rest)[k] = rest[k - Len(d) - Len(w)]
      BY <1>1, <1>3, <2>4, <3>1 DEF Trail
    <3> QED  BY <1>2, <3>1, <3>2 DEF Alike
  <2>5. /\ k \in Int /\ Len(d) \in Int /\ Len(u) \in Int
        /\ \/ k <= Len(d) \/ (k > Len(d) /\ k <= Len(d) + Len(u))
           \/ k = Len(d) + Len(u) + 1 \/ k > Len(d) + Len(u) + 1
    <3>1. k \in Int /\ Len(d) \in Int /\ Len(u) \in Int
      BY <1>1
    <3>2. \A x, a, b \in Int : \/ x <= a \/ (x > a /\ x <= a + b)
                                \/ x = a + b + 1 \/ x > a + b + 1
      OBVIOUS
    <3> QED  BY <3>1, <3>2
  <2> QED  BY <2>1, <2>2, <2>3, <2>4, <2>5
<1> QED  BY <1>1, <1>3, <1>4 DEF rest

LEMMA TrailDelivered ==
    ASSUME NEW d \in Seq(Messages), NEW u \in Seq(Entries), u # <<>>, NEW ms \in Seq(Messages)
    PROVE  LET n == Len(d) + Len(u) + Len(ms)
               e == Append(d, Head(u).msg) IN
           /\ n \in Nat /\ Len(d) + 1 \in 1 .. n /\ Len(e) + Len(Tail(u)) + Len(ms) = n
           /\ Trail(d, u, ms)[Len(d) + 1] = Head(u).msg
           /\ \A k \in 1 .. n : Trail(e, Tail(u), ms)[k] = Trail(d, u, ms)[k]
<1> DEFINE n == Len(d) + Len(u) + Len(ms)
           m == Head(u).msg
           e == Append(d, m)
           rest == Tail(u)
<1>1. Len(d) \in Nat /\ Len(u) \in Nat /\ Len(ms) \in Nat /\ n \in Nat
  BY LenProperties
<1>2. /\ Len(rest) = Len(u) - 1 /\ \A i \in 1 .. Len(rest) : rest[i] = u[i + 1]
      /\ m = u[1].msg
  BY HeadTailProperties
<1>3. /\ Len(e) = Len(d) + 1 /\ \A i \in 1 .. Len(d) : e[i] = d[i]
      /\ e[Len(d) + 1] = m
  <2> HIDE DEF m
  <2> QED  BY AppendIs
<1>4. Len(u) >= 1
  BY <1>1, EmptySeq
<1> HIDE DEF rest, e, m
<1>5. Len(e) + Len(rest) + Len(ms) = n
  BY <1>1, <1>2, <1>3
<1>6. ASSUME NEW k \in 1 .. n PROVE Trail(e, rest, ms)[k] = Trail(d, u, ms)[k]
  <2>1. CASE k <= Len(d)
    BY <1>1, <1>3, <1>5, <2>1 DEF Trail
  <2>2. CASE k = Len(d) + 1
    <3>1. Trail(e, rest, ms)[k] = m
      BY <1>1, <1>3, <1>5, <2>2 DEF Trail
    <3>2. Trail(d, u, ms)[k] = u[1].msg
      BY <1>1, <1>4, <2>2 DEF Trail
    <3> QED  BY <1>2, <3>1, <3>2
  <2>3. CASE k > Len(d) + 1 /\ k <= Len(d) + Len(u)
    <3>1. /\ k - Len(e) \in 1 .. Len(rest) /\ ~(k <= Len(e)) /\ k <= Len(e) + Len(rest)
          /\ (k - Len(e)) + 1 = k - Len(d) /\ ~(k <= Len(d))
      BY <1>1, <1>2, <1>3, <2>3
    <3>2. /\ Trail(e, rest, ms)[k] = rest[k - Len(e)].msg
          /\ Trail(d, u, ms)[k] = u[k - Len(d)].msg
      BY <1>1, <1>5, <2>3, <3>1 DEF Trail
    <3> QED  BY <1>2, <3>1, <3>2
  <2>4. CASE k > Len(d) + Len(u)
    <3>1. /\ ~(k <= Len(e)) /\ ~(k <= Len(e) + Len(rest)) /\ ~(k <= Len(d))
          /\ ~(k <= Len(d) + Len(u)) /\ k - Len(e) - Len(rest) = k - Len(d) - Len(u)
      BY <1>1, <1>2, <1>3, <1>4, <2>4
    <3> QED  BY <1>1, <1>5, <3>1 DEF Trail
  <2> QED  BY <1>1, <2>1, <2>2, <2>3, <2>4
<1>7. Trail(d, u, ms)[Len(d) + 1] = m /\ Len(d) + 1 \in 1 .. n
  <2>1. Len(d) + 1 \in 1 .. n /\ ~(Len(d) + 1 <= Len(d)) /\ Len(d) + 1 <= Len(d) + Len(u)
        /\ (Len(d) + 1) - Len(d) = 1
    BY <1>1, <1>4
  <2> QED  BY <1>2, <2>1 DEF Trail
<1> QED  BY <1>1, <1>5, <1>6, <1>7 DEF rest, e, m
-----------------------------------------------------------------------------
(* While nothing stops the harvester or the process.                        *)

Way == Trail(delivered, queue, msgs)
OnWay == Len(delivered) + Len(queue) + Len(msgs)

\* The lines the topic has been handled of.
Handled(tp) == IF AtLine /\ (hpc = "sending" \/ topic >= tp) THEN offset + 1 ELSE offset

Undisturbed ==
    /\ ~done /\ hpc \notin {"cleanup", "stopping"}
    /\ hpc = "down" => offset = 0 /\ input = 0
    /\ ~AtLine => msgs = <<>>

\* The map is that of the lines handled, and the messages on their way are those of
\* these lines' changes.
MapAndWay(tp) ==
    /\ mmap = before[log][Handled(tp) + 1]
    /\ Right(Way, OnWay, tp, log) /\ Reached(Way, OnWay, tp, log, Handled(tp))

TraceInv(tp) ==
    /\ stops \in Nat /\ crashes \in Nat
    /\ stops = 0 /\ crashes = 0 => Undisturbed /\ MapAndWay(tp)

LEMMA QueuedSeq ==
    ASSUME NEW n \in Nat, NEW u \in Seq([msg: Messages, off: 0 .. n])
    PROVE  u \in Seq(Queued)
<1> DEFINE E == [msg: Messages, off: 0 .. n]
<1>1. E \subseteq Queued
  BY DEF Queued
<1> HIDE DEF E
<1>2. u = [i \in 1 .. Len(u) |-> u[i]] /\ Len(u) \in Nat /\ \A i \in 1 .. Len(u) : u[i] \in E
  BY LenProperties, ElementOfSeq DEF E
<1> QED  BY <1>1, <1>2, IsASeq

LEMMA WayType ==
    ASSUME TypeInv
    PROVE  /\ delivered \in Seq(Messages) /\ queue \in Seq(Entries) /\ msgs \in Seq(Messages)
           /\ Len(delivered) \in Nat /\ Len(queue) \in Nat /\ Len(msgs) \in Nat /\ OnWay \in Nat
           /\ log \in Logs /\ Len(log) \in Nat /\ Len(Topics) \in Nat
           /\ offset \in 0 .. Len(log) /\ topic \in 0 .. Len(Topics)
           /\ AtLine => offset + 1 \in 1 .. Len(log)
           /\ ChangesOf(log) \subseteq Nat /\ queue \in Seq(Queued)
<1>1. /\ delivered \in Seq(Messages) /\ queue \in Seq(Entries) /\ msgs \in Seq(Messages)
      /\ log \in Logs /\ offset \in 0 .. Len(log) /\ topic \in 0 .. Len(Topics)
      /\ AtLine => offset < Len(log)
  BY DEF TypeInv, RunType, PipeType
<1>2. Len(delivered) \in Nat /\ Len(queue) \in Nat /\ Len(msgs) \in Nat
  BY <1>1, LenProperties
<1>3. Len(log) \in Nat /\ Len(Topics) \in Nat
  BY LogType
<1>4. OnWay \in Nat
  BY <1>2 DEF OnWay
<1>5. ChangesOf(log) \subseteq Nat
  BY <1>3 DEF ChangesOf
<1>6. queue \in Seq(Queued)
  BY <1>1, <1>3, QueuedSeq DEF Entries
<1> QED  BY <1>1, <1>2, <1>3, <1>4, <1>5, <1>6

LEMMA TraceInit == ASSUME Init, NEW tp \in 1 .. Len(Topics) PROVE TraceInv(tp)
<1>1. /\ hpc = "down" /\ done = FALSE /\ offset = 0 /\ input = 0 /\ msgs = <<>> /\ queue = <<>>
      /\ delivered = <<>> /\ mmap = EmptyMap /\ log \in Logs /\ stops = 0 /\ crashes = 0
  BY DEF Init
<1>2. Handled(tp) = 0
  BY <1>1 DEF Handled, AtLine
<1>3. OnWay = 0
  BY <1>1, EmptySeq DEF OnWay
<1>4. mmap = before[log][Handled(tp) + 1]
  BY <1>1, <1>2, BeforeIs
<1>5. Right(Way, OnWay, tp, log)
  BY <1>3 DEF Right
<1>6. Reached(Way, OnWay, tp, log, Handled(tp))
  <2>1. \A c : ~Told(Way, OnWay, tp, c)
    BY <1>3 DEF Told
  <2>2. \A c \in ChangesOf(log) : ~(c <= 0)
    <3>1. Len(log) \in Nat
      BY <1>1, HarvesterAssumption
    <3> QED  BY <3>1 DEF ChangesOf
  <2> QED  BY <1>2, <2>1, <2>2 DEF Reached
<1>7. Undisturbed
  BY <1>1 DEF Undisturbed, AtLine
<1> QED  BY <1>1, <1>4, <1>5, <1>6, <1>7 DEF TraceInv, MapAndWay

\* A step of Run that has no message to add.
LEMMA WayKept ==
    ASSUME TypeInv, NEW tp, MapAndWay(tp),
           UNCHANGED <<log, mmap>>, Handled(tp)' = Handled(tp), OnWay' = OnWay,
           \A k \in 1 .. OnWay : Alike(Way[k], Way'[k])
    PROVE  MapAndWay(tp)'
<1>1. OnWay \in Nat
  BY WayType
<1>2. Right(Way', OnWay, tp, log) /\ Reached(Way', OnWay, tp, log, Handled(tp))
  BY <1>1, RightAlike DEF MapAndWay
<1> QED  BY <1>2 DEF MapAndWay

LEMMA WaySame ==
    ASSUME TypeInv, NEW tp, MapAndWay(tp),
           UNCHANGED <<log, mmap, delivered, queue, msgs>>, Handled(tp)' = Handled(tp)
    PROVE  MapAndWay(tp)'
BY DEF MapAndWay, Way, OnWay

LEMMA WayMore ==
    ASSUME TypeInv, UNCHANGED <<delivered, queue>>, NEW m \in Messages, msgs' = Append(msgs, m)
    PROVE  /\ OnWay' = OnWay + 1 /\ \A k \in 1 .. OnWay : Way'[k] = Way[k]
           /\ Way'[OnWay + 1] = m
<1>1. delivered \in Seq(Messages) /\ msgs \in Seq(Messages) /\ queue \in Seq(Queued)
  BY WayType
<1>2. /\ Way' = Trail(delivered, queue, Append(msgs, m)) /\ Way = Trail(delivered, queue, msgs)
      /\ OnWay' = Len(delivered) + Len(queue) + Len(Append(msgs, m))
      /\ OnWay = Len(delivered) + Len(queue) + Len(msgs)
  BY DEF Way, OnWay
<1> QED  BY <1>1, <1>2, TrailMore

LEMMA WaySent ==
    ASSUME TypeInv, UNCHANGED delivered, msgs # <<>>, msgs' = Tail(msgs), queue' \in Seq(Queued),
           Len(queue') = Len(queue) + 1, Alike(Head(msgs), queue'[Len(queue) + 1].msg),
           \A p \in 1 .. Len(queue) : Alike(queue[p].msg, queue'[p].msg)
    PROVE  OnWay' = OnWay /\ \A k \in 1 .. OnWay : Alike(Way[k], Way'[k])
<1> DEFINE w == queue'
<1>1. delivered \in Seq(Messages) /\ msgs \in Seq(Messages) /\ queue \in Seq(Queued)
  BY WayType
<1>2. /\ Way' = Trail(delivered, w, Tail(msgs)) /\ Way = Trail(delivered, queue, msgs)
      /\ OnWay' = Len(delivered) + Len(w) + Len(Tail(msgs))
      /\ OnWay = Len(delivered) + Len(queue) + Len(msgs)
  BY DEF Way, OnWay
<1>3. /\ Len(w) = Len(queue) + 1 /\ Alike(Head(msgs), w[Len(queue) + 1].msg)
      /\ w \in Seq(Queued) /\ \A p \in 1 .. Len(queue) : Alike(queue[p].msg, w[p].msg)
  OBVIOUS
<1> HIDE DEF w
<1> QED  BY <1>1, <1>2, <1>3, TrailSent

LEMMA TraceStep ==
    ASSUME TypeInv, NEW tp \in 1 .. Len(Topics), FirstTrace(tp), TraceInv(tp), [Next]_vars
    PROVE  TraceInv(tp)'
<1>0. /\ delivered \in Seq(Messages) /\ queue \in Seq(Entries) /\ msgs \in Seq(Messages)
      /\ Len(delivered) \in Nat /\ Len(queue) \in Nat /\ Len(msgs) \in Nat /\ OnWay \in Nat
      /\ log \in Logs /\ Len(log) \in Nat /\ Len(Topics) \in Nat
      /\ offset \in 0 .. Len(log) /\ topic \in 0 .. Len(Topics)
      /\ AtLine => offset + 1 \in 1 .. Len(log)
      /\ ChangesOf(log) \subseteq Nat
  BY WayType
<1>1. /\ stops' \in Nat /\ crashes' \in Nat
      /\ stops' = 0 /\ crashes' = 0 => stops = 0 /\ crashes = 0 /\ ~Stop /\ ~Crash
  BY DEF TraceInv, Next, Run, Setup, RefuseRun, BeginRun, ReadLine, RawTopic, TraceTopic, Answer,
         SendNext, SendRefused, FinishLine, LeaveLoop, Cleanup, StopSyncTask, Stop, Sync, Deliver,
         Persist, Crash, vars, bounds
<1> SUFFICES ASSUME stops' = 0, crashes' = 0, Undisturbed, MapAndWay(tp), ~Stop, ~Crash
             PROVE  Undisturbed' /\ MapAndWay(tp)'
  BY <1>1 DEF TraceInv
<1>2. CASE Setup \/ BeginRun
  <2>1. /\ UNCHANGED <<log, mmap, delivered, queue, msgs>> /\ ~AtLine /\ ~AtLine' /\ ~done'
        /\ offset' = offset /\ input' = input /\ hpc' \in {"starting", "reading"}
    BY <1>2 DEF Setup, BeginRun, mapvars, pipevars, bounds, AtLine, Undisturbed
  <2>2. Handled(tp)' = Handled(tp)
    BY <2>1 DEF Handled
  <2> QED  BY <2>1, <2>2, WaySame DEF Undisturbed
<1>3. CASE RefuseRun \/ SendRefused \/ LeaveLoop \/ Cleanup \/ StopSyncTask
  BY <1>3 DEF RefuseRun, SendRefused, LeaveLoop, Cleanup, StopSyncTask, Undisturbed
<1>4. CASE ReadLine
  <2>1. /\ UNCHANGED <<log, mmap, delivered, queue, offset, done>> /\ ~AtLine /\ AtLine'
        /\ msgs' = msgs /\ topic' = 0 /\ hpc' = "parsing"
    BY <1>4 DEF ReadLine, mapvars, pipevars, bounds, AtLine, Undisturbed
  <2>2. Handled(tp)' = Handled(tp)
    BY <2>1 DEF Handled
  <2>3. Undisturbed'
    BY <2>1 DEF Undisturbed
  <2> QED  BY <2>1, <2>2, <2>3, WaySame
<1>5. CASE RawTopic
  <2> DEFINE m == Message(line, topic + 1, NoState, NoState)
             f == Handled(tp)
             w == Way'
  <2>1. /\ hpc = "parsing" /\ topic < Len(Topics) /\ Topics[topic + 1] = "job.raw"
        /\ msgs' = Append(msgs, m) /\ topic' = topic + 1
        /\ UNCHANGED <<hpc, done, offset, input, log, mmap, delivered, queue>>
    BY <1>5 DEF RawTopic, mapvars, pipevars, bounds
  <2>2. m.tp = topic + 1 /\ m.tp # 0 /\ m.tp # tp
    BY <1>0, <2>1 DEF Message, FirstTrace
  <2>0. m \in Messages
    <3>1. line \in Nat /\ topic + 1 \in Nat /\ NoState \in States
      BY <1>0 DEF line, States
    <3> QED  BY <3>1, MessageType
  <2>3. f \in Nat /\ f' = f
    BY <1>0, <2>1, <2>2 DEF Handled, AtLine
  <2> HIDE DEF m, f
  <2>4. /\ OnWay' = OnWay + 1 /\ \A k \in 1 .. OnWay : w[k] = Way[k]
        /\ w[OnWay + 1] = m
    BY <2>0, <2>1, WayMore
  <2>5. Right(Way, OnWay, tp, log) /\ Reached(Way, OnWay, tp, log, f) /\ mmap = before[log][f + 1]
    BY DEF MapAndWay, f
  <2> HIDE DEF w
  <2>6. Right(w, OnWay + 1, tp, log) /\ Reached(w, OnWay + 1, tp, log, f)
    <3>1. w[OnWay + 1].tp # 0 /\ w[OnWay + 1].tp # tp
      BY <2>2, <2>4
    <3>2. OnWay \in Nat /\ f \in Nat /\ ChangesOf(log) \subseteq Nat
      BY <1>0, <2>3
    <3> QED  BY <2>4, <2>5, <3>1, <3>2, RightMore
  <2>7. MapAndWay(tp)'
    BY <2>1, <2>3, <2>4, <2>5, <2>6 DEF MapAndWay, f, w
  <2>8. Undisturbed'
    BY <2>1 DEF Undisturbed, AtLine
  <2> QED  BY <2>7, <2>8
<1>6. CASE TraceTopic
  <2> DEFINE m == Message(line, topic + 1, Published(mmap[event.job]), getState(event))
             f == Handled(tp)
             i == offset + 1
             w == Way'
  <2>1. /\ hpc = "parsing" /\ topic < Len(Topics) /\ Topics[topic + 1] = "job.status.trace"
        /\ msgs' = IF IsChange(mmap, event) THEN Append(msgs, m) ELSE msgs
        /\ topic' = topic + 1 /\ mmap' = StatusAfter(mmap, event)
        /\ UNCHANGED <<hpc, done, offset, input, log, delivered, queue>>
    BY <1>6 DEF TraceTopic, pipevars, bounds
  <2>2. /\ m.tp = topic + 1 /\ m.tp # 0 /\ m.line = i /\ m.last = Published(mmap[log[i].job])
        /\ m.cur = getState(log[i])
    BY <1>0 DEF Message, line, event
  <2>3. tp <= topic + 1
    <3>1. topic + 1 \in 1 .. tp - 1 \/ tp <= topic + 1
      BY <1>0
    <3> QED  BY <2>1, <3>1 DEF FirstTrace
  <2>4. i \in 1 .. Len(log) /\ event = log[i] /\ AtLine /\ AtLine'
    BY <1>0, <2>1 DEF AtLine, event, line
  <2>5. before[log][i] \in Maps /\ before[log][i + 1] = StatusAfter(before[log][i], event)
    <3>1. i \in 1 .. Len(log) + 1
      BY <1>0, <2>4
    <3> QED  BY <1>0, <2>4, <3>1, BeforeIs
  <2>6. Right(Way, OnWay, tp, log) /\ Reached(Way, OnWay, tp, log, f) /\ mmap = before[log][f + 1]
    BY DEF MapAndWay
  <2>7. Undisturbed'
    BY <2>1, <2>4 DEF Undisturbed
  <2>8. IsChange(mmap, event) =>
          /\ OnWay' = OnWay + 1 /\ \A k \in 1 .. OnWay : w[k] = Way[k]
          /\ w[OnWay + 1] = m
    <3>1. m \in Messages
      <4>1. line \in Nat /\ topic + 1 \in Nat
        BY <1>0 DEF line
      <4> QED  BY <2>1, <4>1, TopicType, PublishedType, MessageType
    <3> HIDE DEF m
    <3> QED  BY <2>1, <3>1, WayMore
  <2>9. ~IsChange(mmap, event) => OnWay' = OnWay /\ w = Way /\ mmap' = mmap
    BY <2>1 DEF Way, OnWay, StatusAfter
  <2>10. CASE tp = topic + 1
    <3>1. f = offset /\ f' = i /\ f + 1 = i /\ f \in Nat /\ i \in Nat
      BY <1>0, <2>1, <2>4, <2>10 DEF Handled
    <3>2. mmap' = before[log][i + 1]
      BY <2>1, <2>5, <2>6, <3>1
    <3>3. IsChange(mmap, event) <=> i \in ChangesOf(log)
      BY <2>4, <2>6, <3>1 DEF ChangesOf
    <3> HIDE DEF m, f, i, w
    <3>4. CASE IsChange(mmap, event)
      <4>1. Right(w, OnWay + 1, tp, log) /\ Reached(w, OnWay + 1, tp, log, i)
        <5>1. m.tp = tp /\ m.last = Published(before[log][i][log[i].job])
          BY <2>2, <2>6, <2>10, <3>1
        <5>2. /\ w[OnWay + 1].tp = tp /\ w[OnWay + 1].tp # 0 /\ i = f + 1
              /\ w[OnWay + 1].line = i /\ i \in ChangesOf(log)
              /\ w[OnWay + 1].last = Published(before[log][i][log[i].job])
              /\ w[OnWay + 1].cur = getState(log[i])
          BY <2>2, <2>8, <3>1, <3>3, <3>4, <5>1
        <5>3. \A k \in 1 .. OnWay : w[k] = Way[k]
          BY <2>8, <3>4
        <5>4. /\ OnWay \in Nat /\ f \in Nat /\ i \in Nat /\ ChangesOf(log) \subseteq Nat
              /\ Right(Way, OnWay, tp, log) /\ Reached(Way, OnWay, tp, log, f)
          BY <1>0, <2>6, <3>1
        <5> QED  BY <5>2, <5>3, <5>4, RightMore
      <4>2. MapAndWay(tp)'
        BY <2>1, <2>8, <3>1, <3>2, <3>4, <4>1 DEF MapAndWay, f, w
      <4> QED  BY <2>7, <4>2
    <3>5. CASE ~IsChange(mmap, event)
      <4>1. \A c \in ChangesOf(log) : c <= i <=> c <= f
        BY <1>0, <3>1, <3>3, <3>5
      <4>2. Reached(Way, OnWay, tp, log, i)
        BY <2>6, <4>1 DEF Reached
      <4>3. MapAndWay(tp)'
        BY <2>1, <2>6, <2>9, <3>1, <3>2, <3>5, <4>2 DEF MapAndWay, f, w
      <4> QED  BY <2>7, <4>3
    <3> QED  BY <3>4, <3>5
  <2>11. CASE tp # topic + 1
    <3>1. f = i /\ f' = f /\ f \in Nat
      BY <1>0, <2>1, <2>3, <2>4, <2>11 DEF Handled
    <3>2. mmap' = mmap
      BY <1>0, <2>1, <2>4, <2>5, <2>6, <3>1, AfterTwice, AfterType
    <3> HIDE DEF m, f, i, w
    <3>3. CASE IsChange(mmap, event)
      <4>1. Right(w, OnWay + 1, tp, log) /\ Reached(w, OnWay + 1, tp, log, f)
        <5>1. w[OnWay + 1].tp # 0 /\ w[OnWay + 1].tp # tp
          BY <2>2, <2>8, <2>11, <3>3
        <5>2. \A k \in 1 .. OnWay : w[k] = Way[k]
          BY <2>8, <3>3
        <5>3. /\ OnWay \in Nat /\ f \in Nat /\ ChangesOf(log) \subseteq Nat
              /\ Right(Way, OnWay, tp, log) /\ Reached(Way, OnWay, tp, log, f)
          BY <1>0, <2>6, <3>1
        <5> QED  BY <5>1, <5>2, <5>3, RightMore
      <4>2. MapAndWay(tp)'
        BY <2>1, <2>6, <2>8, <3>1, <3>2, <3>3, <4>1 DEF MapAndWay, f, w
      <4> QED  BY <2>7, <4>2
    <3>4. CASE ~IsChange(mmap, event)
      <4>1. MapAndWay(tp)'
        BY <2>1, <2>6, <2>9, <3>1, <3>2, <3>4 DEF MapAndWay, f, w
      <4> QED  BY <2>7, <4>1
    <3> QED  BY <3>3, <3>4
  <2> QED  BY <2>10, <2>11
<1>7. CASE Answer
  <2>1. /\ hpc = "parsing" /\ topic = Len(Topics) /\ hpc' = "sending"
        /\ UNCHANGED <<done, offset, topic, msgs, input, log, mmap, delivered, queue>>
    BY <1>7 DEF Answer, mapvars, pipevars, bounds
  <2>2. Handled(tp)' = Handled(tp)
    BY <1>0, <2>1 DEF Handled, AtLine
  <2>3. Undisturbed'
    BY <2>1 DEF Undisturbed, AtLine
  <2> QED  BY <2>1, <2>2, <2>3, WaySame
<1>8. CASE SendNext
  <2>1. /\ hpc = "sending" /\ msgs # <<>> /\ Publish(Head(msgs), line) /\ msgs' = Tail(msgs)
        /\ UNCHANGED <<hpc, done, offset, topic, log, mmap, delivered>>
    BY <1>8 DEF SendNext, mapvars, bounds
  <2>2. Head(msgs) \in Messages /\ line \in 0 .. Len(log) /\ sent \in Nat
    BY <1>0, <2>1, HeadTailProperties DEF AtLine, line, TypeInv, RunType
  <2>3. /\ Len(queue') = Len(queue) + 1 /\ queue'[Len(queue) + 1].msg = Head(msgs)
        /\ \A p \in 1 .. Len(queue) : Alike(queue[p].msg, queue'[p].msg)
    <3>1. /\ Len(queue') = Len(queue) + 1
          /\ \A p \in 1 .. Len(queue) :
                 /\ queue'[p].msg.tp = queue[p].msg.tp /\ queue'[p].msg.line = queue[p].msg.line
                 /\ queue'[p].msg.last = queue[p].msg.last /\ queue'[p].msg.cur = queue[p].msg.cur
          /\ queue'[Len(queue) + 1] = [msg |-> Head(msgs), off |-> line]
      BY <1>0, <2>1, <2>2, PublishAdds
    <3> QED  BY <3>1 DEF Alike
  <2>9. queue' \in Seq(Queued)
    <3>1. queue' \in Seq(Entries)
      BY <1>0, <2>1, <2>2, PublishAdds
    <3> QED  BY <1>0, <3>1, QueuedSeq DEF Entries
  <2>4. OnWay' = OnWay /\ \A k \in 1 .. OnWay : Alike(Way[k], Way'[k])
    <3>1. Alike(Head(msgs), queue'[Len(queue) + 1].msg)
      BY <2>3 DEF Alike
    <3> QED  BY <2>1, <2>3, <2>9, <3>1, WaySent
  <2>5. Handled(tp)' = Handled(tp)
    BY <2>1 DEF Handled, AtLine
  <2>6. Undisturbed'
    BY <2>1 DEF Undisturbed, AtLine
  <2> QED  BY <2>1, <2>4, <2>5, <2>6, WayKept
<1>9. CASE FinishLine
  <2>1. /\ hpc = "sending" /\ msgs = <<>> /\ offset' = offset + 1 /\ hpc' = "reading"
        /\ UNCHANGED <<done, topic, msgs, input, log, mmap, delivered, queue>>
    BY <1>9 DEF FinishLine, mapvars, pipevars, bounds, line
  <2>2. Handled(tp)' = Handled(tp)
    BY <2>1 DEF Handled, AtLine
  <2>3. Undisturbed'
    BY <2>1 DEF Undisturbed, AtLine
  <2> QED  BY <2>1, <2>2, <2>3, WaySame
<1>10. CASE Deliver
  <2>1. /\ queue # <<>> /\ queue' = Tail(queue)
        /\ delivered' = IF Head(queue).msg = NoMessage THEN delivered
                        ELSE Append(delivered, Head(queue).msg)
        /\ UNCHANGED <<hpc, done, offset, topic, msgs, input, log, mmap>>
    BY <1>10 DEF Deliver, hvars, mapvars, bounds
  <2> DEFINE e == Append(delivered, Head(queue).msg)
             k1 == Len(delivered) + 1
  <2>2. /\ k1 \in 1 .. OnWay /\ Len(e) + Len(Tail(queue)) + Len(msgs) = OnWay
        /\ Way[k1] = Head(queue).msg
        /\ \A k \in 1 .. OnWay : Trail(e, Tail(queue), msgs)[k] = Way[k]
    BY <1>0, <2>1, TrailDelivered DEF Way, OnWay
  <2>3. Head(queue).msg # NoMessage
    <3>1. Way[k1].tp # 0
      BY <2>2 DEF MapAndWay, Right
    <3> QED  BY <2>2, <3>1 DEF NoMessage, Message
  <2>4. delivered' = e
    BY <2>1, <2>3
  <2> HIDE DEF e, k1
  <2>5. OnWay' = OnWay /\ \A k \in 1 .. OnWay : Alike(Way[k], Way'[k])
    BY <2>1, <2>2, <2>4 DEF Way, OnWay, Alike
  <2>6. Handled(tp)' = Handled(tp)
    BY <2>1 DEF Handled, AtLine
  <2>7. Undisturbed'
    BY <2>1 DEF Undisturbed, AtLine
  <2> QED  BY <2>1, <2>5, <2>6, <2>7, WayKept
<1>11. CASE Sync \/ Persist \/ UNCHANGED vars
  <2>1. UNCHANGED <<hpc, done, offset, topic, msgs, input, log, mmap, delivered, queue>>
    BY <1>11 DEF Sync, Persist, hvars, mapvars, pipevars, bounds, vars
  <2>2. Handled(tp)' = Handled(tp)
    BY <2>1 DEF Handled, AtLine
  <2>3. Undisturbed'
    BY <2>1 DEF Undisturbed, AtLine
  <2> QED  BY <2>1, <2>2, <2>3, WaySame
<1> QED
  BY <1>2, <1>3, <1>4, <1>5, <1>6, <1>7, <1>8, <1>9, <1>10, <1>11 DEF Next, Run

TraceAllInv == \A tp \in 1 .. Len(Topics) : FirstTrace(tp) => TraceInv(tp)

\* While nothing stops the harvester or the process, the messages the first trace topic
\* delivers are those of the changes of status in the log, each once, in the order of the
\* log, with the status after that the events themselves give and, unless it was PEND,
\* which a message leaves out, the one before.
THEOREM TraceIsExact == Spec => []TraceExact
<1>1. Init => TraceAllInv
  BY TraceInit DEF TraceAllInv
<1>2. TypeInv /\ TraceAllInv /\ [Next]_vars => TraceAllInv'
  BY TraceStep DEF TraceAllInv, FirstTrace
<1>3. TypeInv /\ TraceAllInv => TraceExact
  <2> SUFFICES ASSUME TypeInv, TraceAllInv, stops = 0, crashes = 0,
                      NEW tp \in 1 .. Len(Topics), FirstTrace(tp), NEW k \in DeliveredOf(tp)
               PROVE  LET i == delivered[k].line IN
                      /\ i \in Changes
                      /\ delivered[k].last = Published(before[log][i][log[i].job])
                      /\ delivered[k].cur = getState(log[i])
                      /\ {c \in Changes : c < i} =
                             {delivered[n].line : n \in {n \in DeliveredOf(tp) : n < k}}
    BY DEF TraceExact
  <2>1. Right(Way, OnWay, tp, log)
    BY DEF TraceAllInv, TraceInv, MapAndWay
  <2>2. /\ k \in 1 .. Len(delivered) /\ delivered[k].tp = tp /\ k \in Int
        /\ Len(delivered) \in Nat /\ Len(queue) \in Nat /\ Len(msgs) \in Nat
    BY WayType DEF DeliveredOf
  <2>3. Changes = ChangesOf(log)
    BY DEF Changes, ChangesOf
  <2>4. \A n \in 1 .. Len(delivered) : n \in 1 .. OnWay /\ Way[n] = delivered[n]
    BY <2>2 DEF Way, OnWay, Trail
  <2>5. OneRight(Way, k, tp, log) /\ Way[k] = delivered[k]
    BY <2>1, <2>2, <2>4 DEF Right
  <2>6. \A n \in 1 .. k - 1 : n \in 1 .. Len(delivered) /\ n \in 1 .. OnWay /\ n < k
                              /\ Way[n] = delivered[n]
    BY <2>2, <2>4
  <2> DEFINE i == delivered[k].line
             earlier == {n \in DeliveredOf(tp) : n < k}
  <2>7. \A c : Told(Way, k - 1, tp, c) <=> \E n \in earlier : delivered[n].line = c
    <3>1. \A n : n \in earlier <=> n \in 1 .. k - 1 /\ Way[n].tp = tp
      BY <2>2, <2>6 DEF DeliveredOf
    <3> HIDE DEF earlier
    <3> QED  BY <2>6, <3>1 DEF Told
  <2>8. \A n \in earlier : delivered[n].line \in ChangesOf(log)
    BY <2>1, <2>4 DEF DeliveredOf, Right, OneRight
  <2> HIDE DEF earlier
  <2>9. {c \in Changes : c < i} = {delivered[n].line : n \in earlier}
    BY <2>2, <2>3, <2>5, <2>7, <2>8 DEF OneRight
  <2> QED  BY <2>2, <2>3, <2>5, <2>9 DEF OneRight, earlier
<1> QED  BY <1>1, <1>2, <1>3, TypeAlways, PTL DEF Spec

\* README.md's "published whenever a job status is changed", which change_unpublished.cfg
\* refutes with one stop, holds when nothing stops: once the log is read to its end and
\* the queue is empty, every change has been reported.
PublishedUndisturbed ==
    /\ stops = 0 /\ crashes = 0 /\ \E tp \in 1 .. Len(Topics) : FirstTrace(tp)
    /\ hpc = "reading" /\ offset = Len(log) /\ queue = <<>>
    => \A i \in Changes : Reported(i)

\* Without stops and crashes, no change of status is lost on the way to the queue.
THEOREM ChangesPublished == Spec => []PublishedUndisturbed
<1>1. Init => TraceAllInv
  BY TraceInit DEF TraceAllInv
<1>2. TypeInv /\ TraceAllInv /\ [Next]_vars => TraceAllInv'
  BY TraceStep DEF TraceAllInv, FirstTrace
<1>3. TypeInv /\ TraceAllInv => PublishedUndisturbed
  <2> SUFFICES ASSUME TypeInv, TraceAllInv, stops = 0, crashes = 0,
                      NEW tp \in 1 .. Len(Topics), FirstTrace(tp),
                      hpc = "reading", offset = Len(log), queue = <<>>, NEW i \in Changes
               PROVE  Reported(i)
    BY DEF PublishedUndisturbed
  <2>1. /\ Right(Way, OnWay, tp, log) /\ Reached(Way, OnWay, tp, log, offset)
        /\ msgs = <<>> /\ i \in ChangesOf(log) /\ i <= offset
    BY WayType DEF TraceAllInv, TraceInv, MapAndWay, Undisturbed, Handled, AtLine, Changes,
                   ChangesOf
  <2>2. OnWay = Len(delivered) /\ \A k \in 1 .. Len(delivered) : Way[k] = delivered[k]
    <3>1. Len(queue) = 0 /\ Len(msgs) = 0 /\ Len(delivered) \in Nat
      BY <2>1, WayType, EmptySeq
    <3> QED  BY <3>1 DEF Way, OnWay, Trail
  <2>3. PICK k \in 1 .. OnWay : Way[k].tp = tp /\ Way[k].line = i
    BY <2>1 DEF Reached, Told
  <2>4. Way[k].cur = getState(log[i])
    BY <2>1, <2>3 DEF Right, OneRight
  <2> QED  BY <2>2, <2>3, <2>4 DEF Reported, FirstTrace
<1> QED  BY <1>1, <1>2, <1>3, TypeAlways, PTL DEF Spec
=============================================================================
