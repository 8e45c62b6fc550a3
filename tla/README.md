# lsfmq: specifications

TLA+ specifications of lsfeventsbeat, the publisher of LSF events of this
repository (a filebeat 6.4.2 with an LSF parser and two more outputs), with TLC
configurations and TLAPS proofs. Paths below are relative to the root of the
repository.

## The system

    lsb.stream --> harvester --Post--> parser goroutine --> C parser (JSON)
                       ^                    |
                       |                    +-> topics --> status map <--> snapshot file
                       +----- messages -----+
                       |
                       +--> libbeat queue --> output (RabbitMQ, RocketMQ, Kafka)
                                  |
                                  +-- acknowledgements --> registry file

| Component | State | Operations | Talks to |
|---|---|---|---|
| Status map, `src/filebeat/parselsb/maptransfer.go`, `safemap/` | `mmap` (uid to status), `Modified`, `pmap` (uid to JOB_NEW properties), the file `job.states.snapshot`, the cron scheduler | `processJobEvent`, the scheduled sync, `stopSyncTask`, `LoadFile` at start | parser goroutine, harvesters that end, the file |
| Status definitions, `statedef.go` | none | `getState`, `getExitReason` | status map |
| Harvester, `src/filebeat/log/harvester.go` | `h.state` (offset), `h.done`, the open file, the input's states | `Setup`, `Run`, `stop`, `Stop`, `sendEvent`, `cleanup` | parser (`Post`, `RetChan`), libbeat's outlet, registrar |
| Parser goroutine, `readlsb.go`, `sel.go` | `rawChan` (100 records), the JSON of one record | the loop over the topics of a record, field selection, routing keys | harvesters, C parser, status map |
| RabbitMQ output, `src/outputs/rabbitmq` | connection, channel, `exchangeMap`, wait group | `Connect`, `Publish`, `Close` | libbeat's pipeline, broker |
| RocketMQ output, `src/outputs/rocketmq` | producer | `Connect`, `Publish`, `Close` | libbeat's pipeline, name server |
| LSF record parser, `src/lsfeventsparser/lsbevent_parse.c` | the handle of `liblsbstream.so` | `readlsbStream`, `readlsbEvents`, `readlsbAcct`, `readlsbStatus` | parser goroutine |
| Job arrays, `job_array.c` | none | index lists, expansion | LSF record parser |
| JSON writer, `json4c.c`, `strreplace.c` | a tree per record | build, print, escape | LSF record parser |

What is hard here, and what makes each part correct:

* The status map is written by the parser goroutine and read by scheduled tasks
  and ending harvesters, several critical sections each; the file is truncated
  before it is written and the process may die at any point. *Correct*: one
  message per change of status, with the status reported last (unless that was PEND);
  no finished job kept; the file catches up with the map and only ever receives its current
  content.
* A harvester may be stopped at any step of a line, and two files (registry and
  snapshot) record how far things got. *Correct*: lines reach the queue at least
  once and in order; every change of status is published.
* The topics of one line work on one JSON object, and the messages of one line
  on one event. *Correct*: what is sent for a topic depends on that topic's
  options.
* The outputs retry part of a batch, reconnect and close. *Correct*: nothing is
  acknowledged that was not sent; order; no wait for ever.
* The C parser has a library handle, four functions with four ways to release a
  record, and tables, lists and names that Go code reads again. *Correct*: what is
  left behind and what kills the process is known; a job has one uid in all record
  types, a status the name Go has for it, each slot of a job its host; lists stay
  in their buffers; the tree is released once and its text is the tree.

`PROJECT.json` lists these hazards one by one, at their lines, with the
properties that cover them.

## Modules

| Module | What it is |
|---|---|
| `JobStates` | statuses, `getState`, `getExitReason`: pure functions of an event |
| `StatusTrace` | abstract specification of the `job.status.trace` topic: one report per change, over restarts |
| `StateTransfer` | status map, scheduled task, snapshot, harvesters' life around them; implements `StatusTrace` |
| `Harvester` | one log file from its lines to the message queue, over the status map at the grain of `StatusTrace`, with registry, snapshot, stops and crashes |
| `LsbParser` | the parser goroutine: the channel, the topics of a record, the JSON map they share |
| `OutputClient` | the clients of RabbitMQ and RocketMQ over libbeat's batches |
| `LsbEventParser` | the four C functions that make JSON of a line: the library, the dispatch by type, memory, ways out |
| `LsbRecords` | the `putJob*` functions: the members of each type of record |
| `LsbValues` | what those functions compute: statuses, reasons, host tables, texts in buffers |
| `JobArray` | the expansion of the index list in a job's name |
| `Json4c` | the tree of a record on the heap: building, printing, releasing, escaping |
| `StateTransferProofs`, `HarvesterProofs`, `LsbParserProofs`, `OutputClientProofs`, `LsbEventParserProofs`, `JobArrayProofs`, `Json4cProofs` | theorems about the module of the name, for every value of its constants |
| `LeastElement` | the least element of a set of natural numbers, for proofs by induction over lists |
| `MCStateTransfer`, `MCHarvester`, `MCLsbParser`, `MCOutputClient`, `MCLsbEventParser`, `MCJobArray`, `MCJson4c` | values of the constants for TLC |

`StateTransfer` implements `StatusTrace` (`Trace == INSTANCE StatusTrace`, with the
variables `tracked`, `reports` and `lives` as the mapping), `Harvester` and `LsbParser` take the
map at the grain of `StatusTrace`; `LsbEventParser` extends `LsbRecords`, which extends
`LsbValues`, and instantiates `JobStates` for what Go makes of a status name.

### JobStates

An event is a record: `type` (of the types the Go code looks for), `job` (the
uid), `status` (a number for `job_status`, `NoState` for a name `getState` does
not know), `exit`, `prop` (the extra fields of JOB_NEW). Statuses keep their
numbers because the code compares them (`state >= 6`, `lastState > 0`). A reason
is a number that stands for its text. `Published` is the previous status a message
names: none when it was PEND, the 0 that `lastState > 0` (`maptransfer.go:157`) takes
for none.

### StateTransfer

A step is one critical section of `SafeMap`'s lock. `SyncFile` holds the read
lock while it writes the file, so it is two steps (`TaskBeginSync` and
`TaskEndSync`, `StopBeginSync` and `StopEndSync`): truncation, after which the
file is `Unreadable`, and writing of the text marshalled before. `NoReader` is
the guard of every section that takes the write lock.

`processJobEvent` is `HandleUnchanged` (no message) or `HandleChange`, then
`WriteState` and `DeleteFinished`, where the code runs them, then `Reply`. The
parser is one goroutine, so `pc` is a single variable; the harvester whose
record it works on is `"waiting"`. The decoding of the record and the topic
loop are not in this module: a post of a record that leads to no call of
`processJobEvent` changes nothing here.

`Tick` lets the scheduler start a task although another one is at work, which
`cron` does: each run is a goroutine of its own. `Tasks` bounds how many.
`Crash` loses all but the file; the next `StartHarvester` loads it, as
`once.Do` in `NewLsbParser` does.

For `StatusTrace`, `tracked` is the map as it is between two records, or, while no process
runs, what the next one will load; `reports` are the messages returned, with the
`last_status` in them, not the number `processJobEvent` compared. A `Crash` is a
`Restart` there: what is tracked may change with it, what was reported may not.

### Harvester

The unit of the log is a line, and an offset is a number of lines. `Run` is cut
where another goroutine can get in between: `Setup`, the check of `h.done`,
reading, the topic loop, each `sendEvent`, the end of the line, `cleanup`,
`StopSyncTask`. `Stop` closes `h.done`: it stands for `Stop()`, for
`close_timeout`, and for the `stop()` deferred by a `Run` whose reader failed
(end of file, file removed or renamed). libbeat's queue and filebeat's registrar
are outside the repository: events are acknowledged in order, the registrar
takes the offset of the last one and writes it when it likes. An outlet whose
`h.done` is closed refuses an event, and may have queued it all the same.

The status map takes one step here, which `StateTransfer`'s refinement of
`StatusTrace` justifies. A status message has the `last_status` it publishes, `Published` of
the map's.

A message carries `dest`, the topic its `Meta` names when the output reads it:
all messages of a line share that map, so `Publish` overwrites the `dest` of the
ones still queued.

A `RefuseRun` ends the harvester before its first line; the `Setup` that may
follow is the one of the process started again, or of the next scan of the input.

### LsbParser

A record is a function from field names to values, `Missing` where it lacks one;
`Null` is the nil map of a text that does not parse. `Post` waits for room in
`rawChan`; `Receive`, one `NextTopic` per topic and `Answer` are the goroutine's
loop. `addFields`, `filterByIncludeFields` and `filterByExcludeFields` return a
map, and `AfterSelect` is what they leave of the shared one: that `selectFields`
works on it in place unless `include_fields` is set is the heart of the module.
`answered` keeps the last answer only, which the properties look at when it is
given. A topic of a type that is none of the two still has its `add_fields` put into the
shared map, and no message. `pmap` has the properties of each job's JOB_NEW, which take
the place of a trace message's fields in its routing key, not in its text.
`StateTransfer` has what this module leaves out, the critical sections of
`processJobEvent`.

### OutputClient

One module for two clients, because their `Publish` is one text: `kind` says
which is meant, and the steps that differ carry its name. libbeat's side is
`Fetch` (the next batch, when none is left to retry), `Take` and the reconnection
that follows an error; it is outside the repository. The RabbitMQ broker has the
channel's messages in `inflight` until it processes them, and loses them when the
channel is closed. `getExchange` may declare (`RabbitDeclare`) and may fail
(`RabbitDeclareFails`): it then returns the name of the default exchange, but the
channel is closed and the publication fails, too.

### JobArray

A loop of `generateJobIndexList` and one of `appendToIndexList`, one step per
token and per index; positions in the array stand for pointers into it. Numbers
are as `atoi` reads them. `getMaxJobArraySize` fails at will.

### LsbEventParser, LsbRecords, LsbValues

A line is a record with a type and the fields its `put` function reads, and whether its
first word is quoted. `Call` picks one of the four functions and a line; the calls are
serial, as the parser goroutine makes them (`readlsb.go:66-125`). `InitAgain`,
`InitNoLibrary`, `InitLoads` and `InitScrewed` are `initstream`, whose static `handle`
survives the call; `Read...` are the readers of LSF or of `liblsbstream.so`; `HasType`
and `NoType` the switch; `PutMembers`, `PutUnknown`, `PutCrashes` the `put` function;
`End`, `Finish` and `FinishUnset` the code behind the labels. `logrec` and `object` are
the two allocations whose release the ways out share. "Crashed" is a call through a null
pointer, a NULL format or the use of an object that was never made.

`LsbRecords` has one operator per `put` function, a sequence of groups of members; a
member that is only passed on has the value "copied", so that the module says which
keys a record has and computes those another part of the system reads. Two groups may
write one key: the last one wins, as in `encoding/json`. `LsbValues` has the tables:
the names of status bits, the exit reasons with their missing comma, the conversion of
host lists, and texts as pairs of bytes used and bytes allocated.

### Json4c

One action per call of `json4c.h` and, in `jToString` and `jFree`, per node visited; a
stack of the calls in progress stands for the recursion. `ksnprintf` and `vsnprintf`
cut a text that does not fit and grow the buffer, with `initLen` for the 512 of the code.
A caller attaches an instance once, to an older one, which is what all of
`lsbevent_parse.c` does.

## Runs

| Run | Shows |
|---|---|
| `state_transfer` | `TypeOK`, `PropsTracked`, `CleanMeansSaved`, `StoppedMeansSaved`, `SnapshotIsCurrent`, `ImplementsTrace`, `Answered`, `EventuallySaved` with two harvesters, two tasks, and a crash or a write error, under fairness |
| `finished_forgotten` | *violation*: a crash after a snapshot taken between `WriteMap` and `DelMap` leaves a finished job in the map |
| `harvester` | `TypeOK`, `RegistryBehindDelivery`, `FirstDeliveryInOrder`, `TraceExact`, `EveryLineArrives` with a stop and a crash |
| `change_unpublished` | *violation*: a stop before a status message is sent loses it for good |
| `shared_meta` | *violation*: the second message of a line takes the first one's topic |
| `topics` | `TypeOK`, `SeparateTopicsKeepOwn`, `ExcludedNeverSent`, `OneMessagePerTopic`, `EveryPostAnswered` for two harvesters and every pair of topics |
| `topic_options` | *violation*: a topic's message depends on the options of the topics before it |
| `outputs` | `TypeOK`, `AckedWereSent`, `AckedArrive`, `DestinationKept`, `FailedAreLast`, `EveryBatchAcked` for both clients |
| `job_array` | `TypeOK`, `NoIndexTwice`, `ListExact`, `WithinBuffers` |
| `json_writer` | `OnlyLiveTouched`, `AllReleased`, `TextIsTree`, `StringsReadBack` over every tree of five nodes |
| `event_parser` | `NothingLeft`, `CrashesExplained`, `UidIsJob`, `StatusReachesGo`, `ReasonNamesExitInfo`, `HostsAgree`, `BuffersFit` over two calls |
| `chunk_overflow` | *violation*: the member list of a chunk whose ids all have 15 digits is a byte longer than its buffer |

Bounds. `MaxEvents` 2 gives a job two statuses in turn (new and started, started and
done, a status at PEND and the one after it), or lets one event of a second job come
between; the second job only has the event that interferes. Two harvesters are enough
for one to end, stop the scheduler and write the file while the other goes on; two tasks
for writes that overlap. `MaxFaults` 1 is one death of the process or one failing write,
at any step: together they would only repeat one another's cases, and the proofs remove
all of these bounds. `EventuallySaved` speaks of the time after the last fault, which a death before
the first harvester makes the whole life.
In `harvester`, logs have two lines of one job, new and done, started and done, or a line
that says nothing before the new job: enough for one line to be in the queue
while the next is parsed, and for a restart to repeat, swap or skip one. One
stop and one crash may both happen, in either order, at any step.

In `topics`, five topics have between them each option and each kind, one of an unsupported
type among them, which is followed by each of the others; two of them
are enough for one to act on another, two posts for a record to follow one of
another harvester or a status to change, and a channel of one for a harvester to
wait. The run stops when all posts are answered. In `outputs`, a batch of three
has an event before and after one that fails, a second batch may overtake the
retries of the first; three faults let a retry fail, and its reconnection. It
stops when all batches are acknowledged, or, with an event without a topic at
RocketMQ, retries for ever. In `job_array`, three tokens are a range, one that
overlaps it and one that overlaps both; the array holds two indices at first and
grows by one, so that it grows in the middle of a range. It stops when the
function returns.

In `json_writer`, five nodes are a root with an object in an array, with siblings on
each level; buffers grow by 3 characters, so that every text is cut and grown several
times; the strings have quotes, in a row too, and backslashes. In `event_parser`, two
calls are what a second `initstream` after a failed first one, and a line after
another one, need; the records are one of each type with nothing in it and those that
differ in what a property looks at: each combination of status bits LSF
writes for a job, exit infos at both ends of the table and behind it,
eight lists of hosts, packed and plain ids, names at their full
length. A packed id uses base 10, which the ids and indices stay below. Both runs
switch deadlock checking off, since a sequence of calls ends.

Every property of a passing run has a mutant in its module: a definition with a
plausible bug (`stateToMessageWithTopicPend`: PEND is named as a previous status) under which
TLC finds the property violated.

## Fairness

`StateTransfer`: a goroutine that can run is run (weak fairness). Steps that
take the write lock have strong fairness: `sync.RWMutex` lets no new reader pass
a waiting writer, so a lock that is free again and again is obtained. The
scheduler ticks for ever. Nothing is assumed of harvesters except that one which
waits for an answer takes it, and one which has begun `StopSyncTask` completes it.
No crash and no write error has to happen.

`Harvester`: the input starts a harvester for a file that has none, `Run` goes
on, the output and the registrar go on. Neither stops nor crashes have to happen.

`LsbParser`: the parser goroutine goes on; no harvester has to post. `OutputClient`:
libbeat's worker goes on, the broker processes what it has; nothing has to fail,
and the faults are finitely many.

## Proofs

`StateTransferProofs` proves, for any finite or infinite sets of jobs,
harvesters, tasks and events and any bounds, from `ConstantsAssumption` alone:

* `TypeCorrect`: `Spec => []TypeOK`. `TypeInv` adds to it that a program counter
  other than `"idle"` has a message of its own.
* `PropsFollowStatus`, `CleanSaved`, `StoppedSaved`: from the invariant
  `SavedInv`. `CleanMeansSaved` is not inductive: that the text a task is about
  to write is the current map needs the lock (`LockInv`: nobody changes the map
  while a `SyncFile` is at work, so all buffers equal the map); that a harvester
  at rest means the parser is idle needs `Waited`; that nothing is in the map
  before the first harvester needs `Unbooted`.
* `FileIsCurrent`: `Spec => SnapshotIsCurrent`, from `LockInv` and the steps that
  write.
* `Refinement`: `Spec => ImplementsTrace`, crashes and failing writes included. `ProgressInv`
  says that until the message is returned its published status is that of the status
  tracked, whatever the map already holds, and that no message is under way while the map
  is unloaded. `Reply` is then a `StatusTrace!Report`, a `Crash` a `Restart`, and every
  other step a stutter.
* `FinishedForgotten`: `StableSpec => []NoFinishedTracked`, where `StableSpec` is the
  specification without `Crash`, from `StableInv`: a finished status is in the map only
  while `processJobEvent` is about to delete it (`OnlyMessageFinished`). The finding of
  `finished_forgotten` is why it needs `StableSpec`.

`JobArrayProofs` proves, for any set of index lists and any sizes:

* `TypeCorrect`: `Spec => []TypeOK`, from `TypeInv`, which adds that an index being
  appended is positive.
* `IndexOnce`: `Spec => []NoIndexTwice`. The invariant is `ListInv`: `Hull` (all
  indices are between `minIndex` and `maxIndex`, and there are none while
  `minIndex` is -1) makes the test sound (`OverlapTest`); `Appending` (while a range
  is appended, what it added is below `index`, and without overlap nothing before
  `tail` is in it) carries that through the loop.
* `NothingBehindBuffers`: `Spec => []WithinBuffers`. `BufferInv` bounds what is written
  by `p` times the digits of `maxIndex` and a comma; with `Hull`, no index has more
  digits (`DigitsGrow`). The numbers of a name are bounded by half of `INT_MAX`
  (`MaxNumber`), so that `index += step` stays an int.
* `ListIsTheName`: `Spec => []ListExact`. `ExactInv` splits the name at the token at work:
  those before it are in the list (`Complete`), nothing else is (`Sound`), and of the
  one at work what is below `index` (`AtWork`); `index` steps over no multiple of the step
  (`BetweenMultiples`).

`HarvesterProofs` proves, for any logs, topics and numbers of stops and crashes:

* `TypeCorrect`: `Spec => []TypeOK`, from `TypeInv`, which adds that `Run` is at a line
  only while there is one and that sent and unsent messages are no more than topics.
* `NoLineSkipped`: `Spec => []RegistryBehindDelivery`, and `LinesInOrder`:
  `Spec => []FirstDeliveryInOrder`. The registry takes its offset from the registrar,
  that from the queue's events, those from the harvester, so the invariant `ReachInv`
  bounds every one of these offsets by the lines whose first message was delivered or
  waits in the queue *before* the event that carries the offset (`Passed`). A line
  given up while it is sent breaks it for the input's offset, and `cleanup` puts it back:
  hence `hpc # "cleanup"`. `LineInv` says the first message of a line is of its first
  topic, and `OneDelivered` carries all of it over an acknowledgement.
* `TraceIsExact`: `Spec => []TraceExact`, and `ChangesPublished`. The invariant `TraceInv` speaks
  of the messages delivered, in the queue and at hand as one sequence: those of the first trace
  topic are the changes of status among the lines handled, in order, and the map holds for each
  job the status of its last line handled. A change has the status before it unless that was PEND,
as the messages do. The reference `before` is a recursive
  function over the log, which the proof goes along with the lines. `ChangesPublished` is
  README.md's "published whenever a job status is changed", which `change_unpublished`
  refutes with one stop, for a life without stops and crashes.

`LsbParserProofs` proves, for any harvesters, fields, records and lists of topics:

* `TypeCorrect`: `Spec => []TypeOK`; a harvester is in the channel, with the parser or
  free to post (`ChannelType`).
* `SeparateTopics`, `ExclusionHolds`, `MessagesOfTopics`, from `LoopInv`. Its part about
  the record at hand, `MessagesInv`, says for the first `k` topics what the properties
  say of all: which topics have a message, which fields a raw one has, and, for lists
  whose topics change nothing a later one needs, that a field none of them changed is
  still the record's (`Untouched`). `RawOwn` and `TraceOwn` are the two lemmas on
  `sel.go` from which a message is then the topic's own.

`OutputClientProofs` proves, for any batches, topics, exchanges and number of faults:

* `TypeCorrect`, from `TypeInv`: events of a batch in `Publish` are its own.
* `DestinationsKept`: messages in the channel and at the broker have their own topic's
  destination; that `RabbitDeclareFails` names another is harmless because nothing is
  written after it.
* `AckedSent`, from `SentInv`: each event of a batch was sent, is among the failed ones,
  or is still before `pos`, wherever the batch is.
* `AckedOrLost`, from `ArriveInv` and `ChannelInv` (what is sent is in the channel or
  at the broker while no fault has happened).
* `OrderKept`: `FailedAreLast` from `ChannelInv`: after a failure the channel is closed, so
  all that follows in the batch fails.

`Json4cProofs` proves, for any number of nodes, any strings and sizes of the buffers:

* `TreeInvariant`: `Spec => []JsonInv`. The pointers of every instance chain what was added
  to it, in order (`Chained`), each node hangs in one place (`Linked`), and a child is younger
  than its parent. While `jFree` runs, `FreeInv` says of each of its calls how far it is, that
  what is behind it is freed and what is before it is not.
* `NoUseAfterFree` (`OnlyLiveTouched`) and `DeepClean` (`AllReleased`) follow.
* `NothingCut`: `ksnprintf` returns the whole text, whatever `initLen` is.
* `TextIsTheTree`: `Spec => []TextIsTree`. `TextInv` gives each call of `jToString` the text it has
  so far: the begin of its node, the texts of the children printed, and a comma. The
  reference `Written` and the community modules' `FlattenSeq` are recursive functions; that they
  have values at all, and which, is proved in `WrittenIs` and `FlattenIs`.
* `StringsComeBack`: `Spec => []StringsReadBack`. `ReadConcat` is the property of a reader that
  carries it: a text is read from where the one before it left the reader. Between its quotes
  an escaped string is read as what it was (`ReadEscaped`), a key, a bracket, a number and a comma
  leave a reader outside of a string where it is, so the text of a node yields the strings
  below it (`YieldsNode`). `ValueInv` is what the tree adds: each string is escaped once, or is in
  an array and has no quote, where escaping changes nothing (`NothingEscaped`).

Induction over a list is an argument by the least counterexample (`LeastElement!LeastNat`):
the theorems of the library for induction take an operator as a parameter, which the
provers cannot instantiate, but its theorem on minimal elements does not.

`LsbEventParserProofs` proves, for any records LSF writes, any library and number of calls:

* `LeavesExplained` (`NothingLeft`) and `DeathsExplained` (`CrashesExplained`) from
  `MemoryInv`, which says of each place in a call what it holds.
* `NumbersKept` (`UidIsJob`), `TextsInBuffers` (`BuffersFit`), `ReasonsAgree`
  (`ReasonNamesExitInfo`), `StatusesReachGo` (`StatusReachesGo`) and `HostsAlwaysAgree`
  (`HostsAgree`). `ObjectInv` says that the text of a call is made of the object of its
  record, with a type its function has a case for (`Made`); the rest is about what the
  groups of members say. An object has under a key what the last group with it says
  (`HasSays`), so each of the thirty put functions is split into groups that are
  silent on the keys a property looks at (`Quiet`) and those that are not. `Named` is what
  every type says of its job, `Right` what a member with a list or a table may be.
* That texts fit is a bound on a sum: `SumBound`, by induction over the subsets of a finite
  set (`SumFunction` is a recursive function on them; `TotalIs` proves that it has values).
  `SumWhere` and `SumScaled` are the same for the slots of one host and for the
  shares of a JOB_FINISH2: numerators add up to the whole.

Its assumptions on the records are what LSF's own code guarantees and the C code relies on:
`NumbersAssumption` (an id is below `LSB_ARRAY_BASE`), `LengthsAssumption` (host names, paths and
numbers have the lengths the buffers were made for), `HostsAssumption` (a JOB_FINISH2 has the slots of each of its hosts, no
negative ones), `StatusesAssumption` (a JOB_STATUS has one of `JobStatuses`: the cases of
`transformJstatus`, a post-job process after EXIT, an unknown host with a job that is pending,
running or suspended).

The assumptions on constants are those of the modules (`ConstantsAssumption`,
`HarvesterAssumption`, `ParserAssumption`, `OutputAssumption`, `ArrayAssumption`,
`JsonAssumption`, and the four above); TLC evaluates them in every run of the module.

Model-checked only:

* liveness (`Answered`, `EventuallySaved`, `EveryLineArrives`, `EveryPostAnswered`,
  `EveryBatchAcked`), which is beyond the prover. Every invariant and every action property
  of a passing run is proved.

## Findings

Listed in `PROJECT.json`, each with the run that shows it and the line it contradicts: a
finished status that a crash makes permanent, a change of status lost by a stop, the
`Meta` map shared by the messages of a line, options of a topic that act on others, and the
list of a chunk's members that takes a byte more than it has. The last one is of
`putJobChunk`: 16 bytes for each id, its digits and a blank, and the NUL after the last one.
With the length of id line 3915 says is supported, 15 digits, which packed ids have from array
index 23284 on, that is 16n + 1 bytes of 16n; `BuffersFit` says that this is the only way a
list leaves its buffer, and by one byte.

Seen while modelling, without a text of the repository that says otherwise. The models
have them; properties are stated so as to hold with them:

* A stop between `Setup` and `Run` leaves the log file open (`harvester.go:203-211`
  returns before the deferred clean-up is registered): `RefuseRun` does not close.
* RocketMQ gets the events behind a failed one first; RabbitMQ keeps the order of a
  batch because its channel closes.
* A registry entry passes a line with the acknowledgement of the line's *first*
  message: after a crash the later ones of that line may never be sent.
  `FirstDeliveryInOrder` and `RegistryBehindDelivery` therefore speak of first messages.
* `initstream` sets the handle before it looks up the symbols (`lsbevent_parse.c:239`): after a
  failed first call the second one reports success and the next step calls through NULL.
* A line whose first word is not quoted reaches the end of `readlsbStream` and
  `readlsbEvents` with an object that was never set; unknown types leave record and object
  behind; `readlsbAcct` never frees the record. `NothingLeft` and `CrashesExplained` list
  exactly these.
* The table of exit reasons lacks a comma (line 450): exit info 30 names two reasons and
  31 has none. `getExitReason` looks at `exitInfo` only, while its comment (453-468) speaks
  of the exit code.
* `num_processors` of `getExecHostsStr` (944-968) counts only hosts named more than once.
* Without a name of the local cluster (`ls_getclustername` gives NULL) most records
  lack `cluster_name`, and the Go side makes another uid of the same job.
* `putJobChunk` names the job by the packed id of its first member, index 0.
* README.md:9 says a status message has "current status, previous status". After PEND it
  has no previous status (`maptransfer.go:157`, `lastState > 0`, PEND being 0).
  `StatusTrace`, `ImplementsTrace` and `TraceExact` state the code's rule, so that a
  message after PEND with a previous status, or one after another status without it, would
  violate them.
* A job's second trace topic reports a finished status as well, without a status before it
  and without the properties in its routing key, since the first has forgotten the job.
* JOB_NEW held at submission carries PSUSP; `getState` maps every JOB_NEW to PEND.
* `lsbevent_parse.h:24` documents the event time in seconds; `putJobHEAD` writes a text.

## Not modelled

* `malloc` failing: the C code checks few of its results.
* The static functions nothing calls: `getHostsHashmapArray`, `getJobFinish2HashmapArray`,
  `getJobStartLimitHashmapArray`, `getJobStatus2HashmapArray`,
  `getJobStatus2PendHashmapArray`; `SafeMap.SetModified`; `unsafemap`, which is not imported.
* Numbers too large for an `int`, negative steps of an index list (`job_array.c:267`, whose loop
  then goes away from its end), and a colon before the dash of a range (`job_array.c:217` then
  copies a negative length): LSF names no such arrays; the layout of LSF's unions, which is not in the repository.
* Floating point: the shares of a host in the usage of a job are doubles, printed with six
  digits; `Share` is the exact quotient.
* The values of fields that are only passed on, and the format of times: "copied".
* Of the harvester: truncation and rotation of the log file, encodings, filters of
  lines, the chain of readers, the scan of the input that starts harvesters, which is
  filebeat's own.
* Of the outputs: `Close`, which libbeat calls from the worker that calls `Publish`, failures
  of the codec, brokers other than the two (Kafka's output is filebeat's own).
* The validation of options (`config.go` of harvester and outputs): pure functions of the
  configuration, run once.

What could be added next: several topics of one line across a crash, as a property of
how many of a line's messages may be lost; two log files on one status map, composing
`Harvester` with `StateTransfer` at the grain of its critical sections.
