--------------------------- MODULE LsbParserProofs ---------------------------
(***************************************************************************)
(* Theorems about LsbParser, for any harvesters, fields, records, topics   *)
(* and number of records posted: the messages of a record are those of its *)
(* own topics, and the options of each topic decide what is in them.       *)
(***************************************************************************)
EXTENDS LsbParser, SequenceTheorems, TLAPS

-----------------------------------------------------------------------------
(* Sequences whose elements have no common type.                            *)

IsSeq(s) == s \in Seq(Range(s))

LEMMA EmptyIsSeq == IsSeq(<<>>)
BY EmptySeq DEF IsSeq

LEMMA AppendIsSeq ==
    ASSUME NEW s, IsSeq(s), NEW e
    PROVE  /\ IsSeq(Append(s, e))
           /\ Len(s) \in Nat /\ Len(Append(s, e)) = Len(s) + 1
           /\ \A i \in 1 .. Len(s) : Append(s, e)[i] = s[i]
           /\ Append(s, e)[Len(s) + 1] = e
<1> DEFINE S == Range(s) \cup {e}
<1>1. s \in Seq(S)  BY SeqMonotonic DEF IsSeq
<1>2. Append(s, e) \in Seq(S)  BY <1>1, AppendProperties
<1> HIDE DEF S
<1>3. IsSeq(Append(s, e))  BY <1>2, SeqOfRange DEF IsSeq
<1>4. e \in S  BY DEF S
<1> QED  BY <1>1, <1>3, <1>4, AppendProperties, LenProperties

-----------------------------------------------------------------------------
(* sel.go.                                                                  *)

LEMMA Selection ==
    ASSUME NEW json \in Json \cup {Null}, NEW tp \in Topic
    PROVE  /\ addFields(json, tp.add) \in Json \cup {Null}
           /\ AfterSelect(json, tp) \in Json \cup {Null}
           /\ selectFields(json, tp) \in Json \cup {Null}
BY DEF Topic, Json, addFields, AfterSelect, selectFields, filterByIncludeFields,
       filterByExcludeFields

\* The fields a raw message may have, by the options of its topic alone.
Chosen(tp, m) ==
    IsRaw(tp) /\ m.text # Null =>
        \A f \in Fields : m.text[f] # Missing =>
            f \notin tp.exclude /\ (tp.include = {} \/ f \in tp.include)

LEMMA SelectedChosen ==
    ASSUME NEW json \in Json \cup {Null}, NEW tp \in Topic, NEW i
    PROVE  Chosen(tp, RawMessage(json, i, tp))
<1>1. RawMessage(json, i, tp).text = selectFields(json, tp)
  BY DEF RawMessage
<1>2. CASE json = Null
  BY <1>1, <1>2 DEF Chosen, selectFields, filterByIncludeFields, filterByExcludeFields
<1>3. CASE json # Null
  <2>1. json \in Json /\ Null \notin Json  BY <1>3, ParserAssumption
  <2>2. filterByIncludeFields(json, tp.include) \in Json
    BY <2>1 DEF Json, filterByIncludeFields
  <2>3. \A f \in Fields :
            filterByIncludeFields(json, tp.include)[f] # Missing =>
                tp.include = {} \/ f \in tp.include
    BY <1>3 DEF filterByIncludeFields
  <2>4. \A f \in Fields : selectFields(json, tp)[f] =
            IF f \in tp.exclude THEN Missing ELSE filterByIncludeFields(json, tp.include)[f]
    BY <2>1, <2>2 DEF selectFields, filterByExcludeFields
  <2> QED  BY <1>1, <2>3, <2>4 DEF Chosen
<1> QED  BY <1>2, <1>3

-----------------------------------------------------------------------------
(* statedef.go.                                                             *)

LEMMA StateType ==
    ASSUME NEW json \in Json \cup {Null}
    PROVE  /\ getState(Event(json)) \in Status \cup {NoState}
           /\ Event(json).job \in Uids
<1>1. \A name : StatusOf(name) \in Status \cup {NoState}
  BY DEF StatusOf
<1>2. {PEND, RUN} \subseteq Status
  BY DEF PEND, RUN, EXIT, Status
<1>3. /\ DOMAIN eventStateMapping = {"JOB_NEW", "JOB_START_ACCEPT"}
      /\ eventStateMapping["JOB_NEW"] = PEND /\ eventStateMapping["JOB_START_ACCEPT"] = RUN
  BY DEF eventStateMapping
<1>4. getState(Event(json)) \in {PEND, RUN, NoState, Event(json).status}
  BY <1>3 DEF getState
<1>5. Event(json).status = StatusOf(getString(json, "job_status"))
  BY DEF Event
<1>6. Event(json).job = getString(json, "job_id")
  BY DEF Event
<1>7. getString(json, "job_id") \in Uids
  BY ParserAssumption DEF getString, Json, Uids
<1> QED  BY <1>1, <1>2, <1>4, <1>5, <1>6, <1>7

LEMMA PropertiesType ==
    ASSUME NEW json \in Json \cup {Null}, NEW m, NEW p \in [Uids -> Properties \cup {Null}]
    PROVE  /\ recordJobProperty(p, json) \in [Uids -> Properties \cup {Null}]
           /\ PropsAfter(m, recordJobProperty(p, json), json) \in [Uids -> Properties \cup {Null}]
<1>1. \A f \in extraFields : getString(json, f) \in Values \cup {Missing}
  BY ParserAssumption DEF getString, Json, extraFields
<1>2. [f \in extraFields |-> getString(json, f)] \in Properties
  BY <1>1 DEF Properties
<1>3. recordJobProperty(p, json) \in [Uids -> Properties \cup {Null}]
  BY <1>2 DEF recordJobProperty
<1> QED  BY <1>3 DEF PropsAfter

\* A record that did not parse changes no status.
LEMMA NullIsNoChange == \A m : ~IsChange(m, Null)
<1>1. Event(Null).type = "OTHER"
  BY ParserAssumption DEF Event, getString
<1>2. DOMAIN eventStateMapping = {"JOB_NEW", "JOB_START_ACCEPT"}
  BY DEF eventStateMapping
<1>3. getState(Event(Null)) = NoState
  BY <1>1, <1>2 DEF getState
<1> QED  BY <1>3 DEF IsChange

-----------------------------------------------------------------------------
(* Types: a harvester is in the channel, with the parser or free to post.   *)

ChannelType ==
    /\ topics \in [Harvesters -> TopicLists]
    /\ posted \in [Harvesters -> Records \cup {NoRecord}]
    /\ rawChan \in Seq(Harvesters) /\ Len(rawChan) <= ChanSize
    /\ \A i, n \in 1 .. Len(rawChan) : rawChan[i] = rawChan[n] => i = n
    /\ \A i \in 1 .. Len(rawChan) : rawChan[i] # current /\ posted[rawChan[i]] # NoRecord

ParserType ==
    /\ current \in Harvesters \cup {NoHarvester}
    /\ current # NoHarvester =>
          posted[current] # NoRecord /\ k \in 0 .. Len(topics[current])
    /\ mjson \in Json \cup {Null}
    /\ mmap \in [Uids -> Status \cup {NoState}]
    /\ pmap \in [Uids -> Properties \cup {Null}]

TypeInv == ChannelType /\ ParserType

LEMMA TopicsType ==
    ASSUME TypeInv, NEW h \in Harvesters
    PROVE  /\ topics[h] \in Seq(Topic) /\ Len(topics[h]) \in Nat
           /\ \A i \in 1 .. Len(topics[h]) : topics[h][i] \in Topic
<1>1. topics[h] \in Seq(Topic)
  BY ParserAssumption DEF TypeInv, ChannelType
<1> QED  BY <1>1, LenProperties, ElementOfSeq

\* The topic NextTopic is at, and the record with its add_fields.
LEMMA NextTopicType ==
    ASSUME TypeInv, current # NoHarvester, k < Len(topics[current])
    PROVE  /\ current \in Harvesters
           /\ k + 1 \in 1 .. Len(topics[current]) /\ topics[current][k + 1] \in Topic
           /\ addFields(mjson, topics[current][k + 1].add) \in Json \cup {Null}
<1>1. current \in Harvesters /\ k \in 0 .. Len(topics[current])
  BY DEF TypeInv, ParserType
<1>2. k + 1 \in 1 .. Len(topics[current])
  BY <1>1, TopicsType
<1> QED  BY <1>1, <1>2, TopicsType, Selection DEF TypeInv, ParserType

LEMMA TypeInit == Init => TypeInv
<1> SUFFICES ASSUME Init PROVE TypeInv
    OBVIOUS
<1>1. ChannelType  BY ParserAssumption, EmptySeq DEF Init, ChannelType
<1>2. ParserType  BY DEF Init, ParserType, EmptyMap
<1> QED  BY <1>1, <1>2 DEF TypeInv

LEMMA TypeStep == TypeInv /\ [Next]_vars => TypeInv'
<1> SUFFICES ASSUME TypeInv, [Next]_vars PROVE TypeInv'
    OBVIOUS
<1> USE DEF TypeInv, ChannelType, ParserType
<1>0. Len(rawChan) \in Nat  BY LenProperties
<1>1. ASSUME NEW h \in Harvesters, NEW r \in Records, Post(h, r)
      PROVE  TypeInv'
  <2>1. /\ posted[h] = NoRecord /\ posted' = [posted EXCEPT ![h] = r]
        /\ Len(rawChan) < ChanSize /\ rawChan' = Append(rawChan, h)
        /\ UNCHANGED <<topics, current, mjson, k, maps>>
    BY <1>1 DEF Post, loopvars
  <2> USE DEF maps
  <2>2. h # current
    BY <2>1, ParserAssumption
  <2>3. r # NoRecord
    BY ParserAssumption
  <2>4. /\ rawChan' \in Seq(Harvesters) /\ Len(rawChan') = Len(rawChan) + 1
        /\ \A i \in 1 .. Len(rawChan) : rawChan'[i] = rawChan[i] /\ rawChan[i] # h
        /\ rawChan'[Len(rawChan) + 1] = h
    BY <2>1, <1>0, AppendProperties
  <2>5. Len(rawChan') <= ChanSize
    BY <1>0, <2>1, <2>4, ParserAssumption
  <2>6. \A i, n \in 1 .. Len(rawChan') : rawChan'[i] = rawChan'[n] => i = n
    BY <1>0, <2>4
  <2>7. \A i \in 1 .. Len(rawChan) : rawChan[i] \in Harvesters
    BY ElementOfSeq
  <2>8. \A i \in 1 .. Len(rawChan') :
            rawChan'[i] # current' /\ posted'[rawChan'[i]] # NoRecord
    BY <1>0, <2>1, <2>2, <2>3, <2>4, <2>7
  <2>9. ChannelType'
    BY <2>1, <2>4, <2>5, <2>6, <2>8
  <2> QED  BY <2>1, <2>2, <2>9
<1>2. CASE Receive
  <2>1. /\ current = NoHarvester /\ rawChan # <<>>
        /\ current' = Head(rawChan) /\ rawChan' = Tail(rawChan)
        /\ mjson' = posted[Head(rawChan)] /\ k' = 0
        /\ UNCHANGED <<topics, posted, mmap, pmap>>
    BY <1>2 DEF Receive, maps
  <2>2. /\ Head(rawChan) = rawChan[1] /\ Head(rawChan) \in Harvesters
        /\ rawChan' \in Seq(Harvesters) /\ Len(rawChan') = Len(rawChan) - 1
        /\ \A i \in 1 .. Len(rawChan') : rawChan'[i] = rawChan[i + 1]
        /\ 1 \in 1 .. Len(rawChan)
    BY <1>0, <2>1, HeadTailProperties, EmptySeq
  <2>3. ChannelType'
    BY <1>0, <2>1, <2>2, ParserAssumption
  <2>4. posted[current'] # NoRecord /\ posted[current'] \in Json \cup {Null}
    BY <2>1, <2>2, ParserAssumption
  <2>5. Len(topics[current']) \in Nat
    BY <2>1, <2>2, TopicsType
  <2> QED  BY <2>1, <2>2, <2>3, <2>4, <2>5
<1>3. CASE NextTopic
  <2> DEFINE tp == topics[current][k + 1]  added == addFields(mjson, tp.add)
  <2>1. /\ current \in Harvesters /\ current # NoHarvester /\ k < Len(topics[current])
        /\ tp \in Topic /\ added \in Json \cup {Null}
    BY <1>3, NextTopicType DEF NextTopic
  <2>2. /\ HandleTopic(tp, added) /\ k' = k + 1
        /\ UNCHANGED <<topics, posted, rawChan, current>>
    BY <1>3 DEF NextTopic, chanvars
  <2> HIDE DEF tp, added
  <2>3. mjson' \in Json \cup {Null}
    BY <2>1, <2>2, Selection DEF HandleTopic
  <2>4. mmap' \in [Uids -> Status \cup {NoState}]
    <3>1. getState(Event(added)) \in Status \cup {NoState}  BY <2>1, StateType
    <3>2. StatusAfter(mmap, added) \in [Uids -> Status \cup {NoState}]
      BY <3>1 DEF StatusAfter, IsChange
    <3> QED  BY <2>2, <3>2 DEF HandleTopic, maps
  <2>6. pmap' \in [Uids -> Properties \cup {Null}]
    <3> DEFINE recorded == recordJobProperty(pmap, added)
    <3>1. PropsAfter(mmap, recorded, added) \in [Uids -> Properties \cup {Null}]
      BY <2>1, PropertiesType
    <3>2. pmap' = pmap \/ pmap' = PropsAfter(mmap, recorded, added)
      BY <2>2 DEF HandleTopic, maps
    <3> QED  BY <3>1, <3>2
  <2>5. k' \in 0 .. Len(topics[current])
    BY <2>1, <2>2, TopicsType
  <2> QED  BY <2>1, <2>2, <2>3, <2>4, <2>5, <2>6
<1>4. CASE Answer
  <2>1. /\ current' = NoHarvester /\ current # NoHarvester
        /\ posted' = [posted EXCEPT ![current] = NoRecord]
        /\ UNCHANGED <<topics, rawChan, mjson, k, mmap, pmap>>
    BY <1>4 DEF Answer, maps
  <2>2. \A i \in 1 .. Len(rawChan) : rawChan[i] \in Harvesters
    BY ElementOfSeq
  <2> QED  BY <2>1, <2>2, ParserAssumption
<1>5. CASE UNCHANGED vars
  BY <1>5 DEF vars, chanvars, loopvars, maps
<1> QED  BY <1>1, <1>2, <1>3, <1>4, <1>5 DEF Next, Parser

LEMMA TypeAlways == Spec => []TypeInv
<1>1. TypeInv /\ [Next]_vars => TypeInv'  BY TypeStep
<1> QED  BY <1>1, TypeInit, PTL DEF Spec

\* The variables have their types; no harvester is in the channel twice, or there and with
\* the parser.
THEOREM TypeCorrect == Spec => []TypeOK
<1>1. TypeInv => TypeOK
  BY ElementOfSeq DEF TypeInv, TypeOK, ChannelType, ParserType
<1> QED  BY <1>1, TypeAlways, PTL

-----------------------------------------------------------------------------
(* The messages of n topics.                                                *)

Ordered(tps, ms, n) ==
    /\ \A i \in 1 .. Len(ms) :
          ms[i].topic \in 1 .. n /\ (IsRaw(tps[ms[i].topic]) \/ IsTrace(tps[ms[i].topic]))
    /\ \A i, j \in 1 .. Len(ms) : i < j => ms[i].topic < ms[j].topic
    /\ \A t \in 1 .. n : IsRaw(tps[t]) => \E i \in 1 .. Len(ms) : ms[i].topic = t

AllChosen(tps, ms) == \A i \in 1 .. Len(ms) : Chosen(tps[ms[i].topic], ms[i])

\* The shared map has the record's own value in each field no topic so far has changed.
Untouched(tps, n, r, json) ==
    IF r = Null THEN json = Null
    ELSE /\ json \in Json
         /\ \A f \in Fields : (\A i \in 1 .. n : f \notin Changed(tps[i])) => json[f] = r[f]

Own(r, tp, m) == IF IsRaw(tp) THEN m.text = OwnText(r, tp) ELSE OwnChange(r, tp, m)

AllOwn(tps, r, ms) ==
    Separate(tps) => \A i \in 1 .. Len(ms) : Own(r, tps[ms[i].topic], ms[i])

LEMMA NeededUntouched ==
    ASSUME NEW tps \in Seq(Topic), Separate(tps), NEW n \in 0 .. Len(tps) - 1,
           NEW r \in Json, NEW json, Untouched(tps, n, r, json)
    PROVE  /\ json \in Json
           /\ \A f \in Needed(tps[n + 1]) : f \in Fields => json[f] = r[f]
<1>1. r # Null  BY ParserAssumption
<1>2. Len(tps) \in Nat  BY LenProperties
<1>3. n + 1 \in 1 .. Len(tps) /\ 1 .. n \subseteq 1 .. Len(tps)
  BY <1>2
<1>4. \A f \in Needed(tps[n + 1]) : \A i \in 1 .. n : f \notin Changed(tps[i])
  <2> TAKE f \in Needed(tps[n + 1])
  <2> TAKE i \in 1 .. n
  <2>1. i \in 1 .. Len(tps) /\ i < n + 1
    BY <1>2
  <2>2. Changed(tps[i]) \cap Needed(tps[n + 1]) = {}
    BY <1>3, <2>1 DEF Separate
  <2> QED  BY <2>2
<1> QED  BY <1>1, <1>4 DEF Untouched

LEMMA StillUntouched ==
    ASSUME NEW tps \in Seq(Topic), NEW n \in 0 .. Len(tps) - 1, tps[n + 1] \in Topic,
           NEW r \in Json \cup {Null}, NEW json, Untouched(tps, n, r, json),
           NEW after,
           after = IF IsRaw(tps[n + 1]) THEN AfterSelect(addFields(json, tps[n + 1].add), tps[n + 1])
                   ELSE addFields(json, tps[n + 1].add)
    PROVE  Untouched(tps, n + 1, r, after)
<1> DEFINE tp == tps[n + 1]  added == addFields(json, tp.add)
<1>1. CASE r = Null
  <2>1. added = Null  BY <1>1 DEF Untouched, addFields
  <2> QED
    BY <1>1, <2>1 DEF Untouched, AfterSelect, filterByExcludeFields
<1>2. CASE r # Null
  <2>1. json \in Json /\ json # Null  BY <1>2, ParserAssumption DEF Untouched
  <2>2. added \in Json /\ added # Null /\ after \in Json
    <3>1. added \in Json
      BY <2>1 DEF addFields, Json, Topic
    <3>2. added # Null  BY <3>1, ParserAssumption
    <3>3. AfterSelect(added, tp) \in Json
      BY <3>1, <3>2 DEF AfterSelect, filterByExcludeFields, Json
    <3> QED  BY <3>1, <3>2, <3>3
  <2>3. \A f \in Fields \ Changed(tp) : added[f] = json[f]
    BY <2>1 DEF addFields, Changed
  <2>4. \A f \in Fields \ Changed(tp) : after[f] = added[f]
    BY <2>2 DEF AfterSelect, filterByExcludeFields, Changed
  <2>5. ASSUME NEW f \in Fields, \A i \in 1 .. n + 1 : f \notin Changed(tps[i])
        PROVE  after[f] = r[f]
    <3>1. f \notin Changed(tp) /\ \A i \in 1 .. n : f \notin Changed(tps[i])
      BY <2>5
    <3>2. json[f] = r[f]  BY <1>2, <3>1 DEF Untouched
    <3> QED  BY <2>3, <2>4, <3>1, <3>2
  <2> HIDE DEF tp, added
  <2> QED  BY <1>2, <2>2, <2>5 DEF Untouched
<1> QED  BY <1>1, <1>2

\* A raw topic's text, when the fields it needs are the record's own.
LEMMA RawOwn ==
    ASSUME NEW tp \in Topic, IsRaw(tp), NEW r \in Json \cup {Null}, NEW json, NEW i,
           IF r = Null THEN json = Null
           ELSE json \in Json /\ \A f \in Needed(tp) : f \in Fields => json[f] = r[f]
    PROVE  RawMessage(addFields(json, tp.add), i, tp).text = OwnText(r, tp)
<1> DEFINE added == addFields(json, tp.add)
<1>1. RawMessage(added, i, tp).text = selectFields(added, tp)
  BY DEF RawMessage
<1>2. CASE r = Null
  BY <1>1, <1>2 DEF addFields, selectFields, filterByIncludeFields, filterByExcludeFields, OwnText
<1>3. CASE r # Null
  <2>1. json \in Json /\ json # Null  BY <1>3, ParserAssumption
  <2>2. added = [f \in Fields |-> IF tp.add[f] # Missing THEN tp.add[f] ELSE json[f]]
    BY <2>1 DEF addFields
  <2>3. added # Null
    <3>1. added \in Json  BY <2>1, <2>2 DEF Json, Topic
    <3> QED  BY <3>1, ParserAssumption
  <2> HIDE DEF added
  <2> DEFINE included == filterByIncludeFields(added, tp.include)
  <2>4. included = [f \in Fields |->
                       IF tp.include = {} \/ f \in tp.include THEN added[f] ELSE Missing]
    BY <2>2, <2>3 DEF filterByIncludeFields
  <2>5. included # Null
    <3>1. included \in Json  BY <2>1, <2>2, <2>4 DEF Json, Topic
    <3> QED  BY <3>1, ParserAssumption
  <2>6. selectFields(added, tp)
            = [f \in Fields |-> IF f \in tp.exclude THEN Missing ELSE included[f]]
    BY <2>5 DEF selectFields, filterByExcludeFields
  <2> HIDE DEF included
  <2>7. ASSUME NEW f \in Fields
        PROVE  (IF f \in tp.exclude THEN Missing ELSE included[f]) = OwnText(r, tp)[f]
    <3>0. OwnText(r, tp)[f] =
            IF f \in tp.exclude \/ (tp.include # {} /\ f \notin tp.include) THEN Missing
            ELSE IF tp.add[f] # Missing THEN tp.add[f] ELSE r[f]
      BY <1>3 DEF OwnText
    <3>1. CASE f \in tp.exclude \/ (tp.include # {} /\ f \notin tp.include)
      BY <3>0, <3>1, <2>4
    <3>2. CASE ~(f \in tp.exclude \/ (tp.include # {} /\ f \notin tp.include))
      <4>1. included[f] = IF tp.add[f] # Missing THEN tp.add[f] ELSE json[f]
        BY <3>2, <2>2, <2>4
      <4>2. tp.add[f] = Missing => f \in Needed(tp)
        BY <3>2 DEF Needed, IsRaw, IsTrace
      <4>3. tp.add[f] = Missing => json[f] = r[f]
        BY <1>3, <4>2
      <4> QED  BY <3>0, <3>2, <4>1, <4>3
    <3> QED  BY <3>1, <3>2
  <2>8. OwnText(r, tp) = [f \in Fields |-> OwnText(r, tp)[f]]
    BY <1>3 DEF OwnText
  <2>9. [f \in Fields |-> IF f \in tp.exclude THEN Missing ELSE included[f]]
            = [f \in Fields |-> OwnText(r, tp)[f]]
    BY <2>7, Zenon
  <2> QED  BY <1>1, <2>6, <2>8, <2>9, Zenon DEF added
<1> QED  BY <1>2, <1>3

\* A trace topic's report, likewise.
LEMMA TraceOwn ==
    ASSUME NEW tp \in Topic, IsTrace(tp), NEW r \in Json, NEW json \in Json,
           NEW m, NEW p, NEW i,
           \A f \in Needed(tp) : f \in Fields => json[f] = r[f]
    PROVE  OwnChange(r, tp, TraceMessage(m, p, addFields(json, tp.add), i, tp))
<1> DEFINE added == addFields(json, tp.add)
           own == [f \in Fields |-> IF tp.add[f] # Missing THEN tp.add[f] ELSE r[f]]
           message == TraceMessage(m, p, added, i, tp)
<1>1. json # Null /\ r # Null  BY ParserAssumption
<1>2. added = [f \in Fields |-> IF tp.add[f] # Missing THEN tp.add[f] ELSE json[f]]
  BY <1>1 DEF addFields
<1>3. added \in Json /\ own \in Json
  BY <1>2 DEF Json, Topic
<1>4. added # Null /\ own # Null  BY <1>3, ParserAssumption
<1>5. \A f \in Fields : f \in Needed(tp) \/ tp.add[f] # Missing => added[f] = own[f]
  BY <1>2
<1>6. \A f \in Fields :
          f \in {"event_type", "job_id", "job_status"} \cup tp.include => added[f] = own[f]
  <2>1. \A f \in {"event_type", "job_id", "job_status"} \cup tp.include :
            f \in Fields /\ tp.add[f] = Missing => f \in Needed(tp)
    BY DEF Needed, IsTrace, IsRaw
  <2> QED  BY <1>5, <2>1
<1> HIDE DEF added, own
<1>7. /\ getString(added, "event_type") = getString(own, "event_type")
      /\ added["event_type"] = own["event_type"]
      /\ getString(added, "job_id") = getString(own, "job_id")
      /\ getString(added, "job_status") = getString(own, "job_status")
  BY <1>4, <1>6, ParserAssumption DEF getString
<1>8. Event(added) = Event(own)
  BY <1>7 DEF Event
<1>9. /\ message.job = Event(added).job /\ message.cur = getState(Event(added))
      /\ message.text = [f \in Fields |-> IF f \in tp.include THEN added[f] ELSE Missing]
  BY DEF TraceMessage
<1>10. \A f \in tp.include : f \in Fields /\ message.text[f] = own[f]
  BY <1>6, <1>9 DEF Topic
<1> HIDE DEF message
<1>11. /\ message.job = Event(own).job /\ message.cur = getState(Event(own))
       /\ \A f \in tp.include : message.text[f] = own[f]
  BY <1>8, <1>9, <1>10
<1>12. OwnChange(r, tp, message)
  BY <1>11 DEF OwnChange, own
<1> QED  BY <1>12 DEF message, added

-----------------------------------------------------------------------------
(* The record the parser has.                                               *)

MessagesInv ==
    current # NoHarvester =>
        LET tps == topics[current]  r == posted[current]
        IN /\ IsSeq(msgs)
           /\ Ordered(tps, msgs, k)
           /\ AllChosen(tps, msgs)
           /\ Separate(tps) => Untouched(tps, k, r, mjson)
           /\ AllOwn(tps, r, msgs)

AnswersInv == SeparateTopicsKeepOwn /\ ExcludedNeverSent /\ OneMessagePerTopic

LoopInv == MessagesInv /\ AnswersInv

LEMMA LoopInit == Init => LoopInv
BY DEF Init, LoopInv, MessagesInv, AnswersInv, SeparateTopicsKeepOwn, ExcludedNeverSent,
       OneMessagePerTopic

LEMMA LoopReceive ==
    ASSUME TypeInv, Receive
    PROVE  MessagesInv'
<1>1. /\ rawChan # <<>> /\ current' = Head(rawChan)
      /\ mjson' = posted[Head(rawChan)] /\ k' = 0 /\ msgs' = <<>>
      /\ UNCHANGED <<topics, posted>>
  BY DEF Receive
<1>2. Head(rawChan) = rawChan[1] /\ Head(rawChan) \in Harvesters /\ 1 \in 1 .. Len(rawChan)
  BY <1>1, HeadTailProperties, LenProperties, EmptySeq DEF TypeInv, ChannelType
<1>3. mjson' = posted'[current'] /\ posted'[current'] \in Json \cup {Null}
  BY <1>1, <1>2, ParserAssumption DEF TypeInv, ChannelType
<1>4. Untouched(topics'[current'], 0, posted'[current'], mjson')
  BY <1>3 DEF Untouched
<1>5. /\ Ordered(topics'[current'], <<>>, 0) /\ AllChosen(topics'[current'], <<>>)
      /\ AllOwn(topics'[current'], posted'[current'], <<>>)
  BY DEF Ordered, AllChosen, AllOwn
<1> QED  BY <1>1, <1>4, <1>5, EmptyIsSeq DEF MessagesInv

\* One more message keeps what all of them have in common.
LEMMA MessageAdded ==
    ASSUME NEW tps, NEW ms, IsSeq(ms), NEW n \in Nat, Ordered(tps, ms, n), NEW r,
           AllChosen(tps, ms), AllOwn(tps, r, ms),
           NEW m, m.topic = n + 1, Chosen(tps[n + 1], m),
           IsRaw(tps[n + 1]) \/ IsTrace(tps[n + 1]),
           Separate(tps) => Own(r, tps[n + 1], m)
    PROVE  /\ Ordered(tps, Append(ms, m), n + 1)
           /\ AllChosen(tps, Append(ms, m)) /\ AllOwn(tps, r, Append(ms, m))
<1> DEFINE new == Append(ms, m)
<1>1. /\ Len(ms) \in Nat /\ Len(new) = Len(ms) + 1
      /\ \A i \in 1 .. Len(ms) : new[i] = ms[i]
      /\ new[Len(ms) + 1] = m
  BY AppendIsSeq
<1> HIDE DEF new
<1>2. Ordered(tps, new, n + 1)
  <2>1. \A i \in 1 .. Len(new) :
            /\ new[i].topic \in 1 .. n + 1
            /\ IsRaw(tps[new[i].topic]) \/ IsTrace(tps[new[i].topic])
    <3> TAKE i \in 1 .. Len(new)
    <3>1. CASE i \in 1 .. Len(ms)  BY <1>1, <3>1 DEF Ordered
    <3>2. CASE i = Len(ms) + 1  BY <1>1, <3>2
    <3> QED  BY <1>1, <3>1, <3>2
  <2>2. \A i, j \in 1 .. Len(new) : i < j => new[i].topic < new[j].topic
    <3> SUFFICES ASSUME NEW i \in 1 .. Len(new), NEW j \in 1 .. Len(new), i < j
                 PROVE  new[i].topic < new[j].topic
      OBVIOUS
    <3>1. i \in 1 .. Len(ms) /\ new[i].topic \in 1 .. n
      BY <1>1 DEF Ordered
    <3>2. CASE j = Len(ms) + 1  BY <1>1, <3>1, <3>2
    <3>3. CASE j # Len(ms) + 1
      <4>1. j \in 1 .. Len(ms)  BY <1>1, <3>3
      <4> QED  BY <1>1, <3>1, <4>1 DEF Ordered
    <3> QED  BY <3>2, <3>3
  <2>3. \A t \in 1 .. n + 1 : IsRaw(tps[t]) => \E i \in 1 .. Len(new) : new[i].topic = t
    <3> SUFFICES ASSUME NEW t \in 1 .. n + 1, IsRaw(tps[t])
                 PROVE  \E i \in 1 .. Len(new) : new[i].topic = t
      OBVIOUS
    <3>1. CASE t = n + 1  BY <1>1, <3>1
    <3>2. CASE t # n + 1
      <4>1. PICK i \in 1 .. Len(ms) : ms[i].topic = t  BY <3>2 DEF Ordered
      <4>2. i \in 1 .. Len(new) /\ new[i].topic = t  BY <1>1, <4>1
      <4> QED  BY <4>2
    <3> QED  BY <3>1, <3>2
  <2> QED  BY <2>1, <2>2, <2>3 DEF Ordered
<1>3. \A i \in 1 .. Len(new) :
          \/ i \in 1 .. Len(ms) /\ new[i] = ms[i]
          \/ i = Len(ms) + 1 /\ new[i] = m
  BY <1>1
<1>4. AllChosen(tps, new)
  BY <1>3 DEF AllChosen
<1>5. AllOwn(tps, r, new)
  BY <1>3 DEF AllOwn
<1> QED  BY <1>2, <1>4, <1>5 DEF new

\* A trace topic without a message, or a topic of another type.
LEMMA NoMessageAdded ==
    ASSUME NEW tps, NEW ms, NEW n \in Nat, Ordered(tps, ms, n), ~IsRaw(tps[n + 1])
    PROVE  Ordered(tps, ms, n + 1)
BY DEF Ordered

LEMMA LoopTopic ==
    ASSUME TypeInv, MessagesInv, NextTopic
    PROVE  MessagesInv'
<1> DEFINE tps == topics[current]  r == posted[current]
           tp == tps[k + 1]  added == addFields(mjson, tp.add)
<1>1. /\ current # NoHarvester /\ current \in Harvesters /\ k < Len(tps)
      /\ k + 1 \in 1 .. Len(tps) /\ tp \in Topic /\ added \in Json \cup {Null}
      /\ k \in Nat /\ k \in 0 .. Len(tps) - 1
  BY NextTopicType, TopicsType DEF NextTopic, TypeInv, ParserType
<1>2. tps \in Seq(Topic) /\ r \in Json \cup {Null}
  BY <1>1, TopicsType, ParserAssumption DEF TypeInv, ChannelType, ParserType
<1>3. /\ HandleTopic(tp, added) /\ k' = k + 1
      /\ UNCHANGED <<topics, posted, current>>
  BY DEF NextTopic, chanvars
<1>4. /\ IsSeq(msgs) /\ Ordered(tps, msgs, k) /\ AllChosen(tps, msgs)
      /\ Separate(tps) => Untouched(tps, k, r, mjson)
      /\ AllOwn(tps, r, msgs)
  BY <1>1 DEF MessagesInv
<1>5. mjson' = IF IsRaw(tp) THEN AfterSelect(added, tp) ELSE added
  BY <1>3 DEF HandleTopic, IsRaw
<1>6. Separate(tps) => Untouched(tps, k + 1, r, mjson')
  BY <1>1, <1>2, <1>4, <1>5, StillUntouched
<1>7. Separate(tps) =>
          IF r = Null THEN mjson = Null
          ELSE mjson \in Json /\ \A f \in Needed(tp) : f \in Fields => mjson[f] = r[f]
  <2>1. CASE r = Null  BY <1>4, <2>1 DEF Untouched
  <2>2. CASE r # Null  BY <1>1, <1>2, <1>4, <2>2, NeededUntouched
  <2> QED  BY <2>1, <2>2
<1>8. CASE IsRaw(tp)
  <2> DEFINE m == RawMessage(added, k + 1, tp)
  <2>1. msgs' = Append(msgs, m)  BY <1>3, <1>8 DEF HandleTopic, IsRaw
  <2>2. m.topic = k + 1  BY DEF RawMessage
  <2>3. Chosen(tp, m)  BY <1>1, SelectedChosen
  <2>4. Separate(tps) => Own(r, tp, m)
    <3> SUFFICES ASSUME Separate(tps) PROVE m.text = OwnText(r, tp)
      BY <1>8 DEF Own
    <3>1. IF r = Null THEN mjson = Null
          ELSE mjson \in Json /\ \A f \in Needed(tp) : f \in Fields => mjson[f] = r[f]
      BY <1>7
    <3> QED  BY <1>1, <1>2, <1>8, <3>1, RawOwn
  <2> HIDE DEF m, tps, r, tp
  <2>5. /\ Ordered(tps, msgs', k + 1) /\ AllChosen(tps, msgs') /\ AllOwn(tps, r, msgs')
    BY <1>1, <1>4, <1>8, <2>1, <2>2, <2>3, <2>4, MessageAdded DEF tp
  <2>6. IsSeq(msgs')  BY <1>4, <2>1, AppendIsSeq
  <2> QED  BY <1>3, <1>6, <2>5, <2>6 DEF MessagesInv, tps, r
<1>9. CASE ~IsRaw(tp) /\ ~(IsTrace(tp) /\ IsChange(mmap, added))
  <2>1. msgs' = msgs  BY <1>3, <1>9 DEF HandleTopic, IsRaw, IsTrace
  <2>2. Ordered(tps, msgs', k + 1)  BY <1>1, <1>4, <1>9, <2>1, NoMessageAdded
  <2> QED  BY <1>3, <1>4, <1>6, <2>1, <2>2 DEF MessagesInv
<1>10. CASE IsTrace(tp) /\ IsChange(mmap, added)
  <2> DEFINE m == TraceMessage(mmap, recordJobProperty(pmap, added), added, k + 1, tp)
  <2>0. ~IsRaw(tp)  BY <1>10 DEF IsRaw, IsTrace
  <2>1. msgs' = Append(msgs, m)  BY <1>3, <1>10 DEF HandleTopic, IsTrace
  <2>2. m.topic = k + 1  BY DEF TraceMessage
  <2>3. Chosen(tp, m)  BY <2>0 DEF Chosen
  <2>4. Separate(tps) => Own(r, tp, m)
    <3> SUFFICES ASSUME Separate(tps) PROVE OwnChange(r, tp, m)
      BY <2>0 DEF Own
    <3>1. r # Null
      <4>1. CASE mjson = Null
        <5>1. added = Null  BY <4>1 DEF addFields
        <5> QED  BY <1>10, <5>1, NullIsNoChange
      <4>2. CASE mjson # Null  BY <1>7, <4>2
      <4> QED  BY <4>1, <4>2
    <3>2. r \in Json /\ mjson \in Json
          /\ \A f \in Needed(tp) : f \in Fields => mjson[f] = r[f]
      BY <1>2, <1>7, <3>1
    <3> QED  BY <1>1, <1>10, <3>2, TraceOwn
  <2> HIDE DEF m, tps, r, tp
  <2>5. /\ Ordered(tps, msgs', k + 1) /\ AllChosen(tps, msgs') /\ AllOwn(tps, r, msgs')
    BY <1>1, <1>4, <1>10, <2>1, <2>2, <2>3, <2>4, MessageAdded DEF tp
  <2>6. IsSeq(msgs')  BY <1>4, <2>1, AppendIsSeq
  <2> QED  BY <1>3, <1>6, <2>5, <2>6 DEF MessagesInv, tps, r
<1> QED  BY <1>8, <1>9, <1>10

LEMMA LoopAnswer ==
    ASSUME TypeInv, LoopInv, Answer
    PROVE  AnswersInv'
<1> DEFINE a == [harvester |-> current, record |-> posted[current], msgs |-> msgs]
           tps == topics[current]
<1>1. /\ current # NoHarvester /\ k = Len(tps)
      /\ answered' = {a} /\ topics' = topics
  BY DEF Answer
<1>2. /\ Ordered(tps, msgs, k) /\ AllChosen(tps, msgs) /\ AllOwn(tps, posted[current], msgs)
  BY <1>1 DEF LoopInv, MessagesInv
<1>3. SeparateTopicsKeepOwn'
  BY <1>1, <1>2 DEF SeparateTopicsKeepOwn, OwnMessages, AllOwn, Own, Of
<1>4. ExcludedNeverSent'
  BY <1>1, <1>2 DEF ExcludedNeverSent, AllChosen, Chosen, Of, IsRaw
<1>5. OneMessagePerTopic'
  BY <1>1, <1>2 DEF OneMessagePerTopic, Ordered, Of, IsRaw, IsTrace
<1> QED  BY <1>3, <1>4, <1>5 DEF AnswersInv

LEMMA AnswersStay ==
    ASSUME AnswersInv, UNCHANGED <<answered, topics>>
    PROVE  AnswersInv'
<1>1. SeparateTopicsKeepOwn'
  <2> DEFINE Keeps(ans, tops) ==
        \A a \in ans : Separate(tops[a.harvester]) =>
            \A i \in 1 .. Len(a.msgs) :
                Own(a.record, tops[a.harvester][a.msgs[i].topic], a.msgs[i])
  <2>1. SeparateTopicsKeepOwn <=> Keeps(answered, topics)
    BY DEF SeparateTopicsKeepOwn, OwnMessages, Of, Own
  <2>2. SeparateTopicsKeepOwn' <=> Keeps(answered', topics')
    BY DEF SeparateTopicsKeepOwn, OwnMessages, Of, Own
  <2>3. answered' = answered /\ topics' = topics
    OBVIOUS
  <2> HIDE DEF Keeps
  <2> QED  BY <2>1, <2>2, <2>3 DEF AnswersInv
<1>2. ExcludedNeverSent'
  BY DEF AnswersInv, ExcludedNeverSent, Of, IsRaw
<1>3. OneMessagePerTopic'
  BY DEF AnswersInv, OneMessagePerTopic, IsRaw, IsTrace, Of
<1> QED  BY <1>1, <1>2, <1>3 DEF AnswersInv

LEMMA LoopStep == TypeInv /\ LoopInv /\ [Next]_vars => LoopInv'
<1> SUFFICES ASSUME TypeInv, LoopInv, [Next]_vars PROVE LoopInv'
    OBVIOUS
<1>1. ASSUME NEW h \in Harvesters, NEW rec \in Records, Post(h, rec)
      PROVE  LoopInv'
  <2>1. /\ posted[h] = NoRecord /\ posted' = [posted EXCEPT ![h] = rec]
        /\ UNCHANGED <<topics, current, mjson, k, msgs, answered>>
    BY <1>1 DEF Post, loopvars
  <2>2. current # NoHarvester => posted'[current] = posted[current]
    BY <2>1 DEF TypeInv, ChannelType, ParserType
  <2>3. MessagesInv'  BY <2>1, <2>2 DEF LoopInv, MessagesInv
  <2> QED  BY <2>1, <2>3, AnswersStay DEF LoopInv
<1>2. CASE Receive
  BY <1>2, LoopReceive, AnswersStay DEF LoopInv, Receive
<1>3. CASE NextTopic
  BY <1>3, LoopTopic, AnswersStay DEF LoopInv, NextTopic, chanvars
<1>4. CASE Answer
  <2>1. MessagesInv'  BY <1>4 DEF Answer, MessagesInv
  <2> QED  BY <1>4, <2>1, LoopAnswer DEF LoopInv
<1>5. CASE UNCHANGED vars
  <2>1. MessagesInv'
    BY <1>5 DEF vars, chanvars, loopvars, LoopInv, MessagesInv
  <2> QED  BY <1>5, <2>1, AnswersStay DEF vars, chanvars, LoopInv
<1> QED  BY <1>1, <1>2, <1>3, <1>4, <1>5 DEF Next, Parser

LEMMA LoopAlways == Spec => []LoopInv
<1>1. TypeInv /\ LoopInv /\ [Next]_vars => LoopInv'  BY LoopStep
<1> QED  BY <1>1, LoopInit, TypeAlways, PTL DEF Spec

\* Topics that change no field a later one needs do not act on one another.
THEOREM SeparateTopics == Spec => []SeparateTopicsKeepOwn
<1>1. LoopInv => SeparateTopicsKeepOwn  BY DEF LoopInv, AnswersInv
<1> QED  BY <1>1, LoopAlways, PTL

\* A topic's exclude_fields and include_fields hold whatever the topics before it did.
THEOREM ExclusionHolds == Spec => []ExcludedNeverSent
<1>1. LoopInv => ExcludedNeverSent  BY DEF LoopInv, AnswersInv
<1> QED  BY <1>1, LoopAlways, PTL

\* Each raw topic has one message of each record, each trace topic at most one, a topic
\* of another type none.
THEOREM MessagesOfTopics == Spec => []OneMessagePerTopic
<1>1. LoopInv => OneMessagePerTopic  BY DEF LoopInv, AnswersInv
<1> QED  BY <1>1, LoopAlways, PTL
=============================================================================
