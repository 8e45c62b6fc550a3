----------------------------- MODULE LsbParser -----------------------------
(***************************************************************************)
(* The parser goroutine of filebeat/parselsb/readlsb.go and the topic      *)
(* options of sel.go and conf.go.                                          *)
(*                                                                         *)
(* Harvesters post a record and their topics on one bounded channel; the   *)
(* parser takes them in turn, decodes the record into one Go map and runs  *)
(* the topics over that map.  addFields, and filterByExcludeFields unless  *)
(* include_fields made a map of its own, change the map in place, so a     *)
(* topic's options act on the topics after it, down to the fields          *)
(* processJobEvent takes the job and its status from.                      *)
(*                                                                         *)
(* The status map is at the grain of StatusTrace, as in Harvester.  Of the *)
(* keys a trace message has beside its fields (cluster, array index,       *)
(* statuses, reason) a topic's routing names none.                         *)
(***************************************************************************)
EXTENDS JobStates, Sequences, FiniteSets

CONSTANTS
    Harvesters,
    Fields,         \* names of fields, "event_type", "job_id", "job_status" among them
    Values,         \* their values
    Missing,        \* the field is not there
    Null,           \* the nil map: the record did not parse
    NoRecord, NoHarvester,
    Records,        \* the records as the C parser decodes them
    TopicLists,     \* the lists of topics an input may have
    ChanSize,       \* capacity of rawChan
    MaxKeyLength,   \* of a routing key, in words: 255 characters in the code
    MaxPosts        \* bound: records posted

Json == [Fields -> Values \cup {Missing}]
\* A type that is neither of the two supported ones is "other".
Topic == [type: {"job.raw", "job.status.trace", "other"}, add: Json,
          include: SUBSET Fields, exclude: SUBSET Fields, routing: Seq(Fields)]

ASSUME ParserAssumption ==
    /\ {"event_type", "job_id", "job_status"} \subseteq Fields
    /\ Missing \notin Values \cup EventTypes /\ Null \notin Json
    /\ NoRecord \notin Records /\ NoHarvester \notin Harvesters
    /\ Records \subseteq Json \cup {Null}
    /\ TopicLists \subseteq Seq(Topic)
    /\ ChanSize \in Nat \ {0} /\ MaxKeyLength \in Nat /\ MaxPosts \in Nat

VARIABLES
    topics,     \* lsf_topics of each harvester's input
    posted,     \* the record each harvester waits for the messages of, NoRecord if none
    rawChan,    \* harvesters whose record is in the channel
    current,    \* the harvester whose record the parser has, NoHarvester if none
    mjson,      \* mjsonRaw, the map the topics share
    k,          \* topics handled
    msgs,       \* their messages
    mmap,       \* the status map
    pmap,       \* the properties of each job's submission, Null if none
    answered,   \* the last answer, if any: harvester, record and messages
    posts

chanvars == <<topics, posted, rawChan, posts>>
loopvars == <<current, mjson, k, msgs>>
maps == <<mmap, pmap>>
vars == <<chanvars, loopvars, maps, answered>>

\* getUid: cluster, job and array index, of which job_id stands for all three.
Uids == Values \cup {Missing}
EmptyMap == [u \in Uids |-> NoState]

extraFields ==
    Fields \cap {"user_name", "queue_name", "job_name", "project_name",
                 "user_group_name", "job_group", "app_profile"}
Properties == [extraFields -> Values \cup {Missing}]

-----------------------------------------------------------------------------
(* sel.go.                                                                  *)

\* Mutant: an option that is there replaces nothing.
addFieldsKeeping(json, add) ==
    IF json = Null THEN Null
    ELSE [f \in Fields |-> IF json[f] = Missing THEN add[f] ELSE json[f]]

addFields(json, add) ==
    IF json = Null THEN Null
    ELSE [f \in Fields |-> IF add[f] # Missing THEN add[f] ELSE json[f]]

filterByIncludeFields(json, include) ==
    IF json = Null \/ include = {} THEN json
    ELSE [f \in Fields |-> IF f \in include THEN json[f] ELSE Missing]

filterByExcludeFields(json, exclude) ==
    IF json = Null THEN Null
    ELSE [f \in Fields |-> IF f \in exclude THEN Missing ELSE json[f]]

\* Mutant: exclude_fields first, and then what include_fields names of the record.
selectFieldsIncluding(json, tp) ==
    IF tp.include # {} THEN filterByIncludeFields(json, tp.include)
    ELSE filterByExcludeFields(json, tp.exclude)

selectFields(json, tp) ==
    filterByExcludeFields(filterByIncludeFields(json, tp.include), tp.exclude)

\* What is left of the shared map: filterByIncludeFields returns the map itself
\* when there is nothing to include, and the exclusion then deletes from it.
AfterSelect(json, tp) ==
    IF tp.include = {} THEN filterByExcludeFields(json, tp.exclude) ELSE json

\* getRoutingKey: the values joined with dots, an empty word for a missing one;
\* the empty key when it is too long.
getRoutingKey(json, tp) ==
    LET word(f) == IF json = Null THEN Missing ELSE json[f] IN
    IF Len(tp.routing) > MaxKeyLength THEN <<>>
    ELSE [i \in 1 .. Len(tp.routing) |-> word(tp.routing[i])]

-----------------------------------------------------------------------------
(* A topic's message.                                                       *)

getString(json, f) == IF json = Null THEN Missing ELSE json[f]

\* The event of JobStates that a record is.
Event(json) ==
    [type |-> IF getString(json, "event_type") \in EventTypes
              THEN json["event_type"] ELSE "OTHER",
     job |-> getString(json, "job_id"),
     status |-> StatusOf(getString(json, "job_status"))]

IsChange(m, json) == getState(Event(json)) \notin {NoState, m[Event(json).job]}

StatusAfter(m, json) ==
    LET s == getState(Event(json)) IN
    IF IsChange(m, json)
    THEN [m EXCEPT ![Event(json).job] = IF Finished(s) THEN NoState ELSE s]
    ELSE m

recordJobProperty(p, json) ==
    IF Event(json).type = "JOB_NEW"
    THEN [p EXCEPT ![Event(json).job] = [f \in extraFields |-> getString(json, f)]]
    ELSE p

\* A job whose status is in the map is forgotten with its properties when it finishes.
PropsAfter(m, p, json) ==
    LET job == Event(json).job IN
    IF IsChange(m, json) /\ m[job] # NoState /\ Finished(getState(Event(json)))
    THEN [p EXCEPT ![job] = Null]
    ELSE p

RawMessage(json, i, tp) ==
    [topic |-> i, text |-> selectFields(json, tp),
     routing |-> getRoutingKey(AfterSelect(json, tp), tp)]

\* stateToMessageWithTopic: the job and its statuses, and the fields to include, of the
\* event or else of add_fields (which addFields has put there).  The properties of the
\* job's submission take their place in the routing key only, empty ones included.
TraceMessage(m, p, json, i, tp) ==
    LET text == [f \in Fields |-> IF f \in tp.include THEN json[f] ELSE Missing]
        job == Event(json).job
        routed == [f \in Fields |->
                      IF p[job] # Null /\ f \in extraFields THEN p[job][f]
                      ELSE IF f = "job_id" THEN job ELSE text[f]]
    IN  [topic |-> i, job |-> job, last |-> Published(m[job]), cur |-> getState(Event(json)),
         text |-> text, routing |-> getRoutingKey(routed, tp)]

-----------------------------------------------------------------------------
(* Harvesters and the parser.                                               *)

\* Mutant: the harvester does not wait for its answer.
PostAgain(h, r) ==
    /\ posts < MaxPosts
    /\ Len(rawChan) < ChanSize
    /\ posted' = [posted EXCEPT ![h] = r]
    /\ rawChan' = Append(rawChan, h)
    /\ posts' = posts + 1
    /\ UNCHANGED <<topics, loopvars, maps, answered>>

Post(h, r) ==
    /\ posts < MaxPosts
    /\ posted[h] = NoRecord
    /\ Len(rawChan) < ChanSize
    /\ posted' = [posted EXCEPT ![h] = r]
    /\ rawChan' = Append(rawChan, h)
    /\ posts' = posts + 1
    /\ UNCHANGED <<topics, loopvars, maps, answered>>

\* Mutant: the messages of the record before are not dropped.
ReceiveAppending ==
    /\ current = NoHarvester /\ rawChan # <<>>
    /\ current' = Head(rawChan)
    /\ rawChan' = Tail(rawChan)
    /\ mjson' = posted[Head(rawChan)]
    /\ k' = 0
    /\ UNCHANGED <<topics, posted, posts, msgs, maps, answered>>

Receive ==
    /\ current = NoHarvester /\ rawChan # <<>>
    /\ current' = Head(rawChan)
    /\ rawChan' = Tail(rawChan)
    /\ mjson' = posted[Head(rawChan)]
    /\ k' = 0
    /\ msgs' = <<>>
    /\ UNCHANGED <<topics, posted, posts, maps, answered>>

\* The next topic of the record, with add_fields put into the shared map.
HandleTopic(tp, json) ==
    \/ /\ tp.type = "job.raw"
       /\ msgs' = Append(msgs, RawMessage(json, k + 1, tp))
       /\ mjson' = AfterSelect(json, tp)
       /\ UNCHANGED maps
    \/ /\ tp.type = "job.status.trace"
       /\ LET p == recordJobProperty(pmap, json) IN
          /\ msgs' = IF IsChange(mmap, json)
                     THEN Append(msgs, TraceMessage(mmap, p, json, k + 1, tp)) ELSE msgs
          /\ pmap' = PropsAfter(mmap, p, json)
       /\ mmap' = StatusAfter(mmap, json)
       /\ mjson' = json
    \/ /\ tp.type = "other"
       /\ mjson' = json
       /\ UNCHANGED <<msgs, maps>>

NextTopic ==
    /\ current # NoHarvester
    /\ k < Len(topics[current])
    /\ HandleTopic(topics[current][k + 1], addFields(mjson, topics[current][k + 1].add))
    /\ k' = k + 1
    /\ UNCHANGED <<chanvars, current, answered>>

\* Mutant: a record that did not parse is not answered.
AnswerParsed ==
    /\ current # NoHarvester
    /\ k = Len(topics[current])
    /\ answered' = {[harvester |-> current, record |-> posted[current], msgs |-> msgs]}
    /\ posted' = [posted EXCEPT ![current] = IF mjson = Null THEN @ ELSE NoRecord]
    /\ current' = NoHarvester
    /\ UNCHANGED <<topics, rawChan, posts, mjson, k, msgs, maps>>

\* RetChan is unbuffered; its harvester is waiting.
Answer ==
    /\ current # NoHarvester
    /\ k = Len(topics[current])
    /\ answered' = {[harvester |-> current, record |-> posted[current], msgs |-> msgs]}
    /\ posted' = [posted EXCEPT ![current] = NoRecord]
    /\ current' = NoHarvester
    /\ UNCHANGED <<topics, rawChan, posts, mjson, k, msgs, maps>>

Init ==
    /\ topics \in [Harvesters -> TopicLists]
    /\ posted = [h \in Harvesters |-> NoRecord]
    /\ rawChan = <<>>
    /\ current = NoHarvester /\ mjson = Null /\ k = 0 /\ msgs = <<>>
    /\ mmap = EmptyMap /\ pmap = [u \in Uids |-> Null]
    /\ answered = {}
    /\ posts = 0

Parser == Receive \/ NextTopic \/ Answer

Next == Parser \/ \E h \in Harvesters, r \in Records : Post(h, r)

Spec == Init /\ [][Next]_vars

\* The parser goroutine never stops; no harvester has to post.
FairSpec == Spec /\ WF_vars(Parser)
-----------------------------------------------------------------------------
(* Correctness.                                                             *)

TypeOK ==
    /\ topics \in [Harvesters -> TopicLists]
    /\ posted \in [Harvesters -> Records \cup {NoRecord}]
    /\ Len(rawChan) <= ChanSize
    /\ \A i, n \in 1 .. Len(rawChan) : rawChan[i] = rawChan[n] => i = n
    /\ \A i \in 1 .. Len(rawChan) : rawChan[i] \in Harvesters \ {current}
    /\ current \in Harvesters \cup {NoHarvester}
    /\ mjson \in Json \cup {Null}
    /\ mmap \in [Uids -> Status \cup {NoState}]
    /\ pmap \in [Uids -> Properties \cup {Null}]

Of(a, m) == topics[a.harvester][m.topic]
IsRaw(tp) == tp.type = "job.raw"
IsTrace(tp) == tp.type = "job.status.trace"

\* What a raw topic would send had it the record for itself.
OwnText(r, tp) ==
    IF r = Null THEN Null
    ELSE [f \in Fields |->
            IF f \in tp.exclude \/ (tp.include # {} /\ f \notin tp.include) THEN Missing
            ELSE IF tp.add[f] # Missing THEN tp.add[f] ELSE r[f]]

\* The job and the status a trace topic would report had it the record for itself.
OwnChange(r, tp, m) ==
    LET own == [f \in Fields |-> IF tp.add[f] # Missing THEN tp.add[f] ELSE r[f]] IN
    /\ m.job = Event(own).job
    /\ m.cur = getState(Event(own))
    /\ \A f \in tp.include : m.text[f] = own[f]

OwnMessages(a) ==
    \A i \in 1 .. Len(a.msgs) :
        LET m == a.msgs[i]  tp == Of(a, m) IN
        IF IsRaw(tp) THEN m.text = OwnText(a.record, tp) ELSE OwnChange(a.record, tp, m)

\* The options of a topic act on that topic: what the README says of each of them.
TopicOptionsOwn == \A a \in answered : OwnMessages(a)

\* The fields a topic puts into the shared map or deletes from it, and those of the
\* shared map its message depends on.
Changed(tp) ==
    {f \in Fields : tp.add[f] # Missing}
        \cup (IF IsRaw(tp) /\ tp.include = {} THEN tp.exclude ELSE {})

Needed(tp) ==
    (CASE IsRaw(tp) -> (IF tp.include = {} THEN Fields ELSE tp.include) \ tp.exclude
       [] IsTrace(tp) -> {"event_type", "job_id", "job_status"} \cup tp.include
       [] OTHER -> {})
        \ {f \in Fields : tp.add[f] # Missing}

Separate(tps) ==
    \A i, n \in 1 .. Len(tps) : i < n => Changed(tps[i]) \cap Needed(tps[n]) = {}

\* It is true when no topic changes a field a later one needs, however records of
\* several harvesters with topics of their own follow one another.
SeparateTopicsKeepOwn ==
    \A a \in answered : Separate(topics[a.harvester]) => OwnMessages(a)

\* Whatever the topics before did: include_fields and then exclude_fields of the
\* topic itself decide which fields a raw message may have.
ExcludedNeverSent ==
    \A a \in answered : \A i \in 1 .. Len(a.msgs) :
        LET m == a.msgs[i]  tp == Of(a, m) IN
        IsRaw(tp) /\ m.text # Null =>
            \A f \in Fields : m.text[f] # Missing =>
                f \notin tp.exclude /\ (tp.include = {} \/ f \in tp.include)

\* A record yields the messages of its own topics in their order, one of each raw
\* topic, at most one of each trace topic and none of a topic of another type, also
\* when it did not parse.
OneMessagePerTopic ==
    \A a \in answered :
        /\ \A i, n \in 1 .. Len(a.msgs) : i < n => a.msgs[i].topic < a.msgs[n].topic
        /\ \A i \in 1 .. Len(a.msgs) : IsRaw(Of(a, a.msgs[i])) \/ IsTrace(Of(a, a.msgs[i]))
        /\ \A t \in 1 .. Len(topics[a.harvester]) :
            IsRaw(topics[a.harvester][t]) => \E i \in 1 .. Len(a.msgs) : a.msgs[i].topic = t

\* A harvester that posted a record gets its messages, whatever the record is.
EveryPostAnswered ==
    \A h \in Harvesters : posted[h] # NoRecord ~> posted[h] = NoRecord
=============================================================================
