----------------------------- MODULE Harvester -----------------------------
(***************************************************************************)
(* One log file on its way to the message queue: the harvester of          *)
(* filebeat/log/harvester.go, the topic loop of filebeat/parselsb/         *)
(* readlsb.go, the status map behind it, and the parts of libbeat and      *)
(* filebeat they rely on (event queue, acknowledgement, registry), which   *)
(* are outside the repository.                                             *)
(*                                                                         *)
(* Two files survive the process: the registry (how far the log file was   *)
(* acknowledged) and the snapshot of the status map.  They are written     *)
(* independently.  The map is at the grain of StatusTrace: StateTransfer   *)
(* has the steps of processJobEvent and of SyncFile.                       *)
(***************************************************************************)
EXTENDS JobStates, Sequences, FiniteSets

CONSTANTS
    Jobs,
    Logs,           \* the contents the log file may have: sequences of events
    Topics,         \* lsf_topics of the input: the types of its topics, in order
    MaxStops,       \* bound: times the harvester is told to stop
    MaxCrashes      \* bound: times the process dies

ASSUME HarvesterAssumption ==
    /\ \A l \in Logs : Len(l) \in Nat
    /\ \A l \in Logs : \A i \in 1 .. Len(l) :
            l[i].job \in Jobs /\ l[i].status \in Status \cup {NoState}
    /\ Topics \in Seq({"job.raw", "job.status.trace"})
    /\ MaxStops \in Nat /\ MaxCrashes \in Nat

VARIABLES
    log,        \* the lines of the file
    hpc,        \* where Run is
    done,       \* h.done is closed
    offset,     \* h.state.Offset, in lines
    topic,      \* the topic loop: topics handled of the line at hand
    msgs,       \* messages of the line still to be sent
    sent,       \* messages of the line already sent
    openFiles,  \* harvesterOpenFiles
    mmap,       \* the status map
    snapshot,   \* the status map on disk
    input,      \* the offset in the input's states (h.states)
    queue,      \* libbeat: events published and not acknowledged
    acked,      \* filebeat: the registrar's offset
    registry,   \* filebeat: the offset on disk
    delivered,  \* the messages the message queue has acknowledged
    stops, crashes

hvars == <<hpc, done, offset, topic, msgs, sent, openFiles, input>>
mapvars == <<mmap, snapshot>>
pipevars == <<queue, acked, registry, delivered>>
bounds == <<log, stops, crashes>>
vars == <<hvars, mapvars, pipevars, bounds>>

EmptyMap == [j \in Jobs |-> NoState]

\* A message of a line: which topic it is of, the topic its Meta names when the
\* output reads it, and for a status message the statuses it says (the one before is
\* left out after PEND).
Message(line, tp, last, cur) ==
    [line |-> line, tp |-> tp, dest |-> tp, last |-> last, cur |-> cur]

NoMessage == Message(0, 0, NoState, NoState)

line == offset + 1
event == log[line]

-----------------------------------------------------------------------------
(* Run.                                                                     *)

\* The input opens the file (Setup) at the offset it remembers and starts Run.
Setup ==
    /\ hpc = "down"
    /\ hpc' = "starting"
    /\ done' = FALSE
    /\ offset' = input
    /\ openFiles' = openFiles + 1
    /\ UNCHANGED <<topic, msgs, sent, input, mapvars, pipevars, bounds>>

\* Stop was called before Run: it returns before the deferred clean-up is set up.
RefuseRun ==
    /\ hpc = "starting" /\ done
    /\ hpc' = "down"
    /\ UNCHANGED <<done, offset, topic, msgs, sent, openFiles, input, mapvars, pipevars, bounds>>

BeginRun ==
    /\ hpc = "starting" /\ ~done
    /\ hpc' = "reading"
    /\ UNCHANGED <<done, offset, topic, msgs, sent, openFiles, input, mapvars, pipevars, bounds>>

\* Mutant: the messages of the line before are still counted.
ReadLineCounting ==
    /\ hpc = "reading" /\ ~done
    /\ offset < Len(log)
    /\ hpc' = "parsing"
    /\ topic' = 0
    /\ msgs' = <<>>
    /\ UNCHANGED <<done, offset, sent, openFiles, input, mapvars, pipevars, bounds>>

\* The next line is posted to the parser, and Run waits for its messages.
ReadLine ==
    /\ hpc = "reading" /\ ~done
    /\ offset < Len(log)
    /\ hpc' = "parsing"
    /\ topic' = 0
    /\ msgs' = <<>>
    /\ sent' = 0
    /\ UNCHANGED <<done, offset, openFiles, input, mapvars, pipevars, bounds>>

\* The parser's loop over the topics: a raw topic makes a message of every line ...
RawTopic ==
    /\ hpc = "parsing"
    /\ topic < Len(Topics)
    /\ Topics[topic + 1] = "job.raw"
    /\ msgs' = Append(msgs, Message(line, topic + 1, NoState, NoState))
    /\ topic' = topic + 1
    /\ UNCHANGED <<hpc, done, offset, sent, openFiles, input, mapvars, pipevars, bounds>>

\* ... and a trace topic one of every change of status.
IsChange(m, e) == getState(e) \notin {NoState, m[e.job]}

StatusAfter(m, e) ==
    IF IsChange(m, e)
    THEN [m EXCEPT ![e.job] = IF Finished(getState(e)) THEN NoState ELSE getState(e)]
    ELSE m

\* Mutant: the new status is reported and not recorded.
TraceTopicUnrecorded ==
    /\ hpc = "parsing"
    /\ topic < Len(Topics)
    /\ Topics[topic + 1] = "job.status.trace"
    /\ msgs' = IF IsChange(mmap, event)
               THEN Append(msgs, Message(line, topic + 1, Published(mmap[event.job]),
                                         getState(event)))
               ELSE msgs
    /\ topic' = topic + 1
    /\ UNCHANGED <<hpc, done, offset, sent, openFiles, input, mapvars, pipevars, bounds>>

TraceTopic ==
    /\ hpc = "parsing"
    /\ topic < Len(Topics)
    /\ Topics[topic + 1] = "job.status.trace"
    /\ mmap' = StatusAfter(mmap, event)
    /\ msgs' = IF IsChange(mmap, event)
               THEN Append(msgs, Message(line, topic + 1, Published(mmap[event.job]),
                                         getState(event)))
               ELSE msgs
    /\ topic' = topic + 1
    /\ UNCHANGED <<hpc, done, offset, sent, openFiles, input, snapshot, pipevars, bounds>>

Answer ==
    /\ hpc = "parsing"
    /\ topic = Len(Topics)
    /\ hpc' = "sending"
    /\ UNCHANGED <<done, offset, topic, msgs, sent, openFiles, input, mapvars, pipevars, bounds>>

\* The messages of a line are sent with one util.Data: the inner "data :=" is a
\* variable of its own, so all events of the line share their Meta map, and the
\* topic written into it for this message is that of the ones before it, too.
Publish(m, off) ==
    queue' = Append([i \in 1 .. Len(queue) |->
                        IF i > Len(queue) - sent THEN [queue[i] EXCEPT !.msg = [@ EXCEPT !.dest = m.dest]]
                                                 ELSE queue[i]],
                    [msg |-> m, off |-> off])

\* sendEvent: the input's states are updated whether or not the outlet takes it.
SendNext ==
    /\ hpc = "sending" /\ msgs # <<>>
    /\ Publish(Head(msgs), line)
    /\ input' = line
    /\ msgs' = Tail(msgs)
    /\ sent' = sent + 1
    /\ UNCHANGED <<hpc, done, offset, topic, openFiles, mapvars, acked, registry, delivered,
                   bounds>>

\* Mutant: the error of the outlet is not looked at.
SendRefusedIgnored ==
    /\ hpc = "sending" /\ msgs # <<>> /\ done
    /\ input' = line
    /\ msgs' = Tail(msgs)
    /\ UNCHANGED <<hpc, done, offset, topic, sent, openFiles, mapvars, pipevars, bounds>>

\* The outlet is closed with h.done and refuses the event, which may have gone into
\* the queue all the same.
SendRefused ==
    /\ hpc = "sending" /\ msgs # <<>> /\ done
    /\ \/ Publish(Head(msgs), line)
       \/ UNCHANGED queue
    /\ input' = line
    /\ hpc' = "cleanup"
    /\ UNCHANGED <<done, offset, topic, msgs, sent, openFiles, mapvars, acked, registry,
                   delivered, bounds>>

\* The line is done with: the harvester's state moves, with or without an event.
FinishLine ==
    /\ hpc = "sending" /\ msgs = <<>>
    /\ offset' = line
    /\ hpc' = "reading"
    /\ UNCHANGED <<done, topic, msgs, sent, openFiles, input, mapvars, pipevars, bounds>>

\* h.done is seen between two lines, or the reader fails (closed, end of file,
\* inactive): the deferred stop() then closes h.done, which Stop stands for.
LeaveLoop ==
    /\ hpc = "reading" /\ done
    /\ hpc' = "cleanup"
    /\ UNCHANGED <<done, offset, topic, msgs, sent, openFiles, input, mapvars, pipevars, bounds>>

\* Mutant: cleanup reports the line it was sending.
CleanupReportsInput ==
    /\ hpc = "cleanup"
    /\ openFiles' = openFiles - 1
    /\ queue' = Append(queue, [msg |-> NoMessage, off |-> input])
    /\ hpc' = "stopping"
    /\ UNCHANGED <<done, offset, topic, msgs, sent, input, mapvars, acked, registry, delivered,
                   bounds>>

\* cleanup closes the file and sends the harvester's own state, that of the last
\* line whose messages were all sent.
Cleanup ==
    /\ hpc = "cleanup"
    /\ openFiles' = openFiles - 1
    /\ input' = offset
    /\ queue' = Append(queue, [msg |-> NoMessage, off |-> offset])
    /\ hpc' = "stopping"
    /\ UNCHANGED <<done, offset, topic, msgs, sent, mapvars, acked, registry, delivered, bounds>>

StopSyncTask ==
    /\ hpc = "stopping"
    /\ snapshot' = mmap
    /\ hpc' = "down"
    /\ topic' = 0 /\ msgs' = <<>> /\ sent' = 0
    /\ UNCHANGED <<done, offset, openFiles, input, mmap, pipevars, bounds>>

\* Stop, the close_timeout goroutine, or filebeat shutting down.
Stop ==
    /\ stops < MaxStops
    /\ hpc # "down" /\ ~done
    /\ stops' = stops + 1
    /\ done' = TRUE
    /\ UNCHANGED <<hpc, offset, topic, msgs, sent, openFiles, input, mapvars, pipevars, log,
                   crashes>>

Run ==
    \/ Setup \/ RefuseRun \/ BeginRun \/ ReadLine \/ RawTopic \/ TraceTopic \/ Answer
    \/ SendNext \/ SendRefused \/ FinishLine \/ LeaveLoop \/ Cleanup \/ StopSyncTask

-----------------------------------------------------------------------------
(* What runs beside it.                                                     *)

\* The scheduled task writes the snapshot.
Sync ==
    /\ snapshot' = mmap
    /\ UNCHANGED <<hvars, mmap, pipevars, bounds>>

\* The output publishes the oldest event and it is acknowledged.
Deliver ==
    /\ queue # <<>>
    /\ delivered' = IF Head(queue).msg = NoMessage THEN delivered
                    ELSE Append(delivered, Head(queue).msg)
    /\ acked' = Head(queue).off
    /\ queue' = Tail(queue)
    /\ UNCHANGED <<hvars, mapvars, registry, bounds>>

\* The registrar writes its file.
Persist ==
    /\ registry' = acked
    /\ UNCHANGED <<hvars, mapvars, queue, acked, delivered, bounds>>

\* The process dies and is started again: newMapTransfer loads the snapshot, the
\* input takes its offset from the registry.
Crash ==
    /\ crashes < MaxCrashes
    /\ crashes' = crashes + 1
    /\ hpc' = "down" /\ done' = FALSE
    /\ topic' = 0 /\ msgs' = <<>> /\ sent' = 0
    /\ openFiles' = 0
    /\ mmap' = snapshot
    /\ input' = registry /\ acked' = registry
    /\ queue' = <<>>
    /\ UNCHANGED <<offset, snapshot, registry, delivered, log, stops>>

Init ==
    /\ log \in Logs
    /\ hpc = "down" /\ done = FALSE
    /\ offset = 0
    /\ topic = 0 /\ msgs = <<>> /\ sent = 0
    /\ openFiles = 0
    /\ mmap = EmptyMap /\ snapshot = EmptyMap
    /\ input = 0 /\ queue = <<>> /\ acked = 0 /\ registry = 0
    /\ delivered = <<>>
    /\ stops = 0 /\ crashes = 0

Next == Run \/ Stop \/ Sync \/ Deliver \/ Persist \/ Crash

Spec == Init /\ [][Next]_vars

(* The input's scan starts a harvester again for a file that has none, the   *)
(* output and the registrar go on: weak fairness.  Nothing has to stop.      *)
Fairness == WF_vars(Run) /\ WF_vars(Deliver) /\ WF_vars(Persist)

FairSpec == Spec /\ Fairness

-----------------------------------------------------------------------------
(* Correctness.                                                             *)

TypeOK ==
    /\ hpc \in {"down", "starting", "reading", "parsing", "sending", "cleanup", "stopping"}
    /\ done \in BOOLEAN
    /\ offset \in 0 .. Len(log) /\ input \in 0 .. Len(log)
    /\ acked \in 0 .. Len(log) /\ registry \in 0 .. Len(log)
    /\ topic \in 0 .. Len(Topics) /\ sent \in 0 .. Len(Topics) /\ Len(msgs) <= Len(Topics)
    /\ mmap \in [Jobs -> Status \cup {NoState}] /\ snapshot \in [Jobs -> Status \cup {NoState}]

DeliveredOf(tp) == {i \in 1 .. Len(delivered) : delivered[i].tp = tp}

RawFirst == Topics # <<>> /\ Topics[1] = "job.raw"

\* The registry is never ahead of the message queue: of a line it has passed, the
\* first message was delivered, whatever stopped or died in between.  (Only the
\* first: the registry passes a line with the acknowledgement of its first message.)
RegistryBehindDelivery ==
    RawFirst => \A i \in 1 .. registry : \E k \in DeliveredOf(1) : delivered[k].line = i

\* A line's first message is delivered for the first time only after those of all
\* lines before it: a restart repeats lines and never swaps them.
FirstDeliveryInOrder ==
    RawFirst =>
        \A k \in DeliveredOf(1) : \A i \in 1 .. delivered[k].line - 1 :
            \E n \in DeliveredOf(1) : n < k /\ delivered[n].line = i

\* The status map before line i, by the events alone.
before[l \in Logs] ==
    LET m[i \in 1 .. Len(l) + 1] ==
            IF i = 1 THEN EmptyMap ELSE StatusAfter(m[i - 1], l[i - 1])
    IN  m

\* The changes of status the log is about.
Changes == {i \in 1 .. Len(log) : IsChange(before[log][i], log[i])}

Reported(i) ==
    \E k \in 1 .. Len(delivered) :
        /\ Topics[delivered[k].tp] = "job.status.trace"
        /\ delivered[k].line = i
        /\ delivered[k].cur = getState(log[i])

\* A second trace topic finds the map as the first one left it: it has a message only of
\* the finished statuses, which the map has forgotten already.
FirstTrace(tp) ==
    Topics[tp] = "job.status.trace" /\ \A t \in 1 .. tp - 1 : Topics[t] # "job.status.trace"

\* While nothing stops the harvester or the process, the status messages delivered to
\* the first trace topic are those of the changes of the log, once each, in order, with
\* the status the log itself gives as the one before, unless that is PEND: then they say
\* none, where README.md:9 has the previous status in every message.
TraceExact ==
    stops = 0 /\ crashes = 0 =>
        \A tp \in 1 .. Len(Topics) : FirstTrace(tp) =>
            \A k \in DeliveredOf(tp) :
                LET i == delivered[k].line IN
                /\ i \in Changes
                /\ delivered[k].last = Published(before[log][i][log[i].job])
                /\ delivered[k].cur = getState(log[i])
                /\ {c \in Changes : c < i} =
                       {delivered[n].line : n \in {n \in DeliveredOf(tp) : n < k}}

\* "Published whenever a job status is changed" (README.md): once the log is read
\* and its registry written, every change has been reported.
EveryChangePublished ==
    registry = Len(log) /\ queue = <<>> /\ hpc = "reading" => \A i \in Changes : Reported(i)

\* Each message goes to its own topic.
OwnTopic == \A k \in 1 .. Len(delivered) : delivered[k].dest = delivered[k].tp

MaxLine == CHOOSE n \in {Len(l) : l \in Logs} : \A l \in Logs : Len(l) <= n

\* Every line reaches the message queue, however often the harvester is stopped
\* and the process dies on the way.
EveryLineArrives ==
    \A i \in 1 .. MaxLine : <>(i <= Len(log) => \E k \in DeliveredOf(1) : delivered[k].line = i)
=============================================================================
