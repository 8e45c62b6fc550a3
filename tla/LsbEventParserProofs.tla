------------------------- MODULE LsbEventParserProofs -------------------------
(***************************************************************************)
(* Theorems about LsbEventParser, for any records LSF writes, any name of  *)
(* the local cluster and any number of lines.                              *)
(*                                                                         *)
(*   - What the four functions leave behind and what the process dies of,  *)
(*     from one invariant that says at each point of a call which memory   *)
(*     it holds.                                                           *)
(*   - What the text of a line says: the job, the hosts, the exit reason   *)
(*     and the status.  An object is the groups of members its put         *)
(*     function adds, and of two members with one key the last, so each    *)
(*     proof is about what the groups say under a few keys (Says): those   *)
(*     without the keys are Quiet, and one with a key is Right or tells    *)
(*     its value.                                                          *)
(*   - The sums and the sizes of the texts of lists, by induction over the *)
(*     subsets of a finite set.                                            *)
(***************************************************************************)
EXTENDS LsbEventParser, LeastElement, FiniteSetTheorems, TLAPS

-----------------------------------------------------------------------------
(* Memory.                                                                  *)

Gotos == {"Stream", "Events"}

\* Nothing is held before the record is read.
Fresh == pc \in {"init", "read"} => logrec = "none" /\ object = "unset" /\ ret = NULL

\* A record came from the library, if it did, through a handle that was open, and
\* stays so for the call.
Held ==
    /\ pc = "type" => logrec = "live" /\ object = "unset" /\ ret = NULL
    /\ pc = "put" => logrec = "live" /\ object = "live" /\ ret = NULL /\ rec.quoted

\* The end is reached with an object of a type there is a case for, or by a goto without
\* one.
Ending ==
    pc \in {"end", "text"} =>
        /\ ret = NULL
        /\ \/ object = "live" /\ rec.type \in Types(reader)
           \/ object = "unset" /\ ~rec.quoted /\ reader \in Gotos

\* The library has its record back before the text is made, LSF's is still there.
Record ==
    /\ pc = "end" => logrec = "live"
    /\ pc = "text" => logrec = IF UsesLibrary THEN "freed" ELSE "live"

MemoryInv ==
    /\ calls > 0 => reader \in Readers
    /\ pc # "returned" => reader \in Readers
    /\ Fresh /\ Held /\ Ending /\ Record
    /\ NothingLeft /\ CrashesExplained

LEMMA MemoryInit == Init => MemoryInv
BY DEF Init, MemoryInv, Fresh, Held, Ending, Record, NothingLeft, CrashesExplained

\* A line is taken, and the library looked for: nothing is held.
LEMMA MemoryBegins ==
    ASSUME MemoryInv, Call \/ InitAgain \/ InitNoLibrary \/ InitLoads \/ InitScrewed
    PROVE  MemoryInv'
<1> USE DEF MemoryInv, Fresh, Held, Ending, Record, NothingLeft, CrashesExplained, UsesLibrary,
            Gotos, Return, Goto, input, memory, Readers
<1>1. CASE Call  BY <1>1 DEF Call
<1>2. CASE InitAgain  BY <1>2 DEF InitAgain
<1>3. CASE InitNoLibrary  BY <1>3 DEF InitNoLibrary
<1>4. CASE InitLoads  BY <1>4 DEF InitLoads
<1>5. CASE InitScrewed  BY <1>5 DEF InitScrewed
<1> QED  BY <1>1, <1>2, <1>3, <1>4, <1>5

\* The record is read, its type looked for.
LEMMA MemoryReads ==
    ASSUME MemoryInv, ReadCrashes \/ ReadFails \/ ReadRecord \/ HasType \/ NoType
    PROVE  MemoryInv'
<1> USE DEF MemoryInv, Fresh, Held, Ending, Record, NothingLeft, CrashesExplained, UsesLibrary,
            Gotos, Return, Goto, input, memory, Readers
<1>1. CASE ReadCrashes  BY <1>1 DEF ReadCrashes
<1>2. CASE ReadFails  BY <1>2 DEF ReadFails
<1>3. CASE ReadRecord  BY <1>3 DEF ReadRecord
<1>4. CASE HasType  BY <1>4 DEF HasType
<1>5. CASE NoType  BY <1>5 DEF NoType
<1> QED  BY <1>1, <1>2, <1>3, <1>4, <1>5

\* The members are put, the memory is released.
LEMMA MemoryEnds ==
    ASSUME MemoryInv, PutUnknown \/ PutMembers \/ PutCrashes \/ End \/ Finish \/ FinishUnset
    PROVE  MemoryInv'
<1> USE DEF MemoryInv, Fresh, Held, Ending, Record, NothingLeft, CrashesExplained, UsesLibrary,
            Gotos, Return, Goto, input, memory, FreeLogrec, Readers
<1>1. CASE PutUnknown  BY <1>1 DEF PutUnknown
<1>2. CASE PutMembers  BY <1>2 DEF PutMembers
<1>3. CASE PutCrashes  BY <1>3 DEF PutCrashes
<1>4. CASE End  BY <1>4 DEF End
<1>5. CASE Finish  BY <1>5 DEF Finish
<1>6. CASE FinishUnset  BY <1>6 DEF FinishUnset
<1> QED  BY <1>1, <1>2, <1>3, <1>4, <1>5, <1>6

LEMMA MemoryStep == MemoryInv /\ [Next]_vars => MemoryInv'
<1> SUFFICES ASSUME MemoryInv, [Next]_vars PROVE MemoryInv'
    OBVIOUS
<1>1. CASE Next  BY <1>1, MemoryBegins, MemoryReads, MemoryEnds DEF Next
<1>2. CASE UNCHANGED vars
  BY <1>2 DEF vars, input, memory, MemoryInv, Fresh, Held, Ending, Record, NothingLeft,
              CrashesExplained, UsesLibrary
<1> QED  BY <1>1, <1>2

LEMMA MemoryAlways == Spec => []MemoryInv
<1>1. MemoryInv /\ [Next]_vars => MemoryInv'  BY MemoryStep
<1> QED  BY MemoryInit, <1>1, PTL DEF Spec

\* Whatever the lines, the library and LSF do, the four functions leave memory behind only
\* in the ways NothingLeft lists.
THEOREM LeavesExplained == Spec => []NothingLeft
<1>1. MemoryInv => NothingLeft  BY DEF MemoryInv
<1> QED  BY <1>1, MemoryAlways, PTL

\* And the process dies only of what CrashesExplained lists.
THEOREM DeathsExplained == Spec => []CrashesExplained
<1>1. MemoryInv => CrashesExplained  BY DEF MemoryInv
<1> QED  BY <1>1, MemoryAlways, PTL

-----------------------------------------------------------------------------
(* What groups of members say.                                              *)

At(m, k) == IF k \in DOMAIN m THEN m[k] ELSE NULL

\* What the object has under a key, NULL without it.
Says(groups, k) == IF k \in DOMAIN Json(groups) THEN Json(groups)[k] ELSE NULL

IsGroups(groups) == \E T : groups \in Seq(T)

LEMMA LastSays ==
    ASSUME NEW g, IsGroups(g), NEW k, NEW i \in DOMAIN g, At(g[i], k) # NULL,
           \A j \in i + 1 .. Len(g) : At(g[j], k) = NULL
    PROVE  k \in DOMAIN Json(g) /\ Json(g)[k] = At(g[i], k)
<1> DEFINE written == [j \in DOMAIN g |-> Written(g[j])]
           IsLast(j) == k \in written[j] /\ \A m \in j + 1 .. Len(g) : k \notin written[m]
           last == CHOOSE j \in DOMAIN g : IsLast(j)
<1>1. DOMAIN g = 1 .. Len(g) /\ Len(g) \in Nat
  BY DEF IsGroups
<1>2. \A j \in DOMAIN g : k \in written[j] <=> At(g[j], k) # NULL
  BY DEF Written, At
<1>0. DOMAIN written = DOMAIN g
  OBVIOUS
<1> HIDE DEF written
<1>3. IsLast(i)
  BY <1>1, <1>2
<1>4. ASSUME NEW j \in DOMAIN g, IsLast(j) PROVE j = i
  <2>1. i \in 1 .. Len(g) /\ j \in 1 .. Len(g)
    BY <1>1
  <2>2. ~(i > j)
    <3>1. ASSUME i > j PROVE i \in j + 1 .. Len(g)
      BY <2>1, <3>1, <1>1
    <3> QED  BY <3>1, <1>3, <1>4
  <2>3. ~(j > i)
    <3>1. ASSUME j > i PROVE j \in i + 1 .. Len(g)
      BY <2>1, <3>1, <1>1
    <3> QED  BY <3>1, <1>3, <1>4
  <2> QED  BY <2>1, <2>2, <2>3, <1>1
<1>5. last = i
  BY <1>3, <1>4
<1>6. k \in UNION Range(written)
  BY <1>0, <1>3 DEF Range
<1>7. Json(g) = [x \in UNION Range(written) |->
            g[CHOOSE j \in DOMAIN g :
                        /\ x \in written[j]
                        /\ \A m \in j + 1 .. Len(g) : x \notin written[m]][x]]
  BY DEF Json, written
<1>8. k \in DOMAIN Json(g) /\ Json(g)[k] = g[last][k]
  BY <1>6, <1>7
<1> QED  BY <1>5, <1>8 DEF At

LEMMA NoneSays ==
    ASSUME NEW g, NEW k, \A i \in DOMAIN g : At(g[i], k) = NULL
    PROVE  k \notin DOMAIN Json(g)
<1> DEFINE written == [j \in DOMAIN g |-> Written(g[j])]
<1>1. \A j \in DOMAIN g : k \notin written[j]
  BY DEF Written, At
<1>2. DOMAIN Json(g) = UNION Range(written)
  BY DEF Json
<1> QED  BY <1>1, <1>2 DEF Range

LEMMA SaysLast ==
    ASSUME NEW g, IsGroups(g), NEW k, NEW i \in DOMAIN g, At(g[i], k) # NULL,
           \A j \in i + 1 .. Len(g) : At(g[j], k) = NULL
    PROVE  Says(g, k) = At(g[i], k)
BY LastSays DEF Says

LEMMA SaysNothing ==
    ASSUME NEW g, NEW k, \A i \in DOMAIN g : At(g[i], k) = NULL
    PROVE  Says(g, k) = NULL
BY NoneSays DEF Says

\* There is a last one.
LEMMA SomeLast ==
    ASSUME NEW g, IsGroups(g), NEW k, \E i \in DOMAIN g : At(g[i], k) # NULL
    PROVE  \E i \in DOMAIN g : At(g[i], k) # NULL /\ \A j \in i + 1 .. Len(g) : At(g[j], k) = NULL
<1> DEFINE S == {n \in Nat : n < Len(g) /\ At(g[Len(g) - n], k) # NULL}
<1>1. DOMAIN g = 1 .. Len(g) /\ Len(g) \in Nat
  BY DEF IsGroups
<1>2. PICK i \in DOMAIN g : At(g[i], k) # NULL
  OBVIOUS
<1>3. Len(g) - i \in Nat /\ Len(g) - i < Len(g) /\ Len(g) - (Len(g) - i) = i
  BY <1>1
<1>4. Len(g) - i \in S
  BY <1>2, <1>3
<1>5. PICK m \in S : \A n \in S : m <= n
  BY <1>4, LeastNat
<1> DEFINE last == Len(g) - m
<1>6. last \in DOMAIN g /\ At(g[last], k) # NULL
  BY <1>1, <1>5
<1>7. ASSUME NEW j \in last + 1 .. Len(g) PROVE At(g[j], k) = NULL
  <2>1. Len(g) - j \in Nat /\ Len(g) - j < Len(g) /\ Len(g) - (Len(g) - j) = j /\ ~(m <= Len(g) - j)
    BY <1>1, <1>5, <1>6
  <2>2. Len(g) - j \notin S
    BY <1>5, <2>1
  <2> QED  BY <2>1, <2>2
<1> QED  BY <1>6, <1>7

\* An object has a key when it says something under it.
LEMMA HasSays ==
    ASSUME NEW g, IsGroups(g), NEW k
    PROVE  /\ k \in DOMAIN Json(g) <=> Says(g, k) # NULL
           /\ k \in DOMAIN Json(g) => Json(g)[k] = Says(g, k)
<1>1. CASE \A i \in DOMAIN g : At(g[i], k) = NULL
  BY <1>1, NoneSays DEF Says
<1>2. CASE \E i \in DOMAIN g : At(g[i], k) # NULL
  <2>1. PICK i \in DOMAIN g : At(g[i], k) # NULL /\ \A j \in i + 1 .. Len(g) : At(g[j], k) = NULL
    BY <1>2, SomeLast
  <2> QED  BY <2>1, LastSays DEF Says
<1> QED  BY <1>1, <1>2

LEMMA SaysOnly ==
    ASSUME NEW g, IsGroups(g), NEW k, NEW i \in DOMAIN g,
           \A j \in DOMAIN g : j # i => At(g[j], k) = NULL
    PROVE  Says(g, k) = At(g[i], k)
<1>1. DOMAIN g = 1 .. Len(g) /\ Len(g) \in Nat
  BY DEF IsGroups
<1>2. \A j \in i + 1 .. Len(g) : At(g[j], k) = NULL
  BY <1>1
<1>3. CASE At(g[i], k) # NULL
  BY <1>2, <1>3, SaysLast
<1>4. CASE At(g[i], k) = NULL
  <2>1. \A j \in DOMAIN g : At(g[j], k) = NULL
    BY <1>4
  <2> QED  BY <2>1, <1>4, SaysNothing
<1> QED  BY <1>3, <1>4

\* Of two lists of groups the later one is heard first.
LEMMA SaysConcat ==
    ASSUME NEW a, IsGroups(a), NEW b, IsGroups(b), NEW k
    PROVE  /\ IsGroups(a \o b)
           /\ Says(b, k) # NULL => Says(a \o b, k) = Says(b, k)
           /\ Says(b, k) = NULL => Says(a \o b, k) = Says(a, k)
<1> DEFINE g == a \o b
<1>1. PICK T : a \in Seq(T) /\ b \in Seq(T)
  <2>1. PICK A : a \in Seq(A)  BY DEF IsGroups
  <2>2. PICK B : b \in Seq(B)  BY DEF IsGroups
  <2>3. a \in Seq(A \cup B) /\ b \in Seq(A \cup B)
    BY <2>1, <2>2
  <2> QED  BY <2>3
<1>2. /\ g \in Seq(T) /\ Len(g) = Len(a) + Len(b) /\ DOMAIN g = 1 .. Len(g)
      /\ \A i \in 1 .. Len(a) : g[i] = a[i]
      /\ \A i \in 1 .. Len(b) : g[Len(a) + i] = b[i]
  BY <1>1
<1>3. /\ DOMAIN a = 1 .. Len(a) /\ Len(a) \in Nat
      /\ DOMAIN b = 1 .. Len(b) /\ Len(b) \in Nat
  BY <1>1
<1>4. IsGroups(g)
  BY <1>2 DEF IsGroups
<1> HIDE DEF g
<1>5. CASE \E i \in DOMAIN b : At(b[i], k) # NULL
  <2>1. PICK i \in DOMAIN b : At(b[i], k) # NULL /\ \A j \in i + 1 .. Len(b) : At(b[j], k) = NULL
    BY <1>5, SomeLast
  <2> DEFINE n == Len(a) + i
  <2>2. n \in DOMAIN g /\ g[n] = b[i]
    BY <1>2, <1>3
  <2>3. ASSUME NEW j \in n + 1 .. Len(g) PROVE At(g[j], k) = NULL
    <3>1. j - Len(a) \in i + 1 .. Len(b) /\ j = Len(a) + (j - Len(a)) /\ j - Len(a) \in 1 .. Len(b)
      BY <1>2, <1>3
    <3>2. g[j] = b[j - Len(a)]
      BY <3>1, <1>2
    <3> QED  BY <3>1, <3>2, <2>1
  <2> HIDE DEF n
  <2>4. Says(g, k) = At(b[i], k)
    BY <2>1, <2>2, <2>3, <1>4, SaysLast
  <2>5. Says(b, k) = At(b[i], k)
    BY <2>1, SaysLast
  <2> QED  BY <2>1, <2>4, <2>5, <1>4 DEF g
<1>6. CASE \A i \in DOMAIN b : At(b[i], k) = NULL
  <2>1. Says(b, k) = NULL
    BY <1>6, SaysNothing
  <2>0. ASSUME NEW j \in Len(a) + 1 .. Len(g) PROVE At(g[j], k) = NULL
    <3>1. j - Len(a) \in 1 .. Len(b) /\ j = Len(a) + (j - Len(a))
      BY <1>2, <1>3
    <3>2. g[j] = b[j - Len(a)]
      BY <3>1, <1>2
    <3> QED  BY <3>1, <3>2, <1>6, <1>3
  <2>2. CASE \E i \in DOMAIN a : At(a[i], k) # NULL
    <3>1. PICK i \in DOMAIN a : At(a[i], k) # NULL /\ \A j \in i + 1 .. Len(a) : At(a[j], k) = NULL
      BY <2>2, SomeLast
    <3>2. i \in DOMAIN g /\ g[i] = a[i]
      BY <1>2, <1>3
    <3>3. ASSUME NEW j \in i + 1 .. Len(g) PROVE At(g[j], k) = NULL
      <4>1. CASE j <= Len(a)
        <5>1. j \in 1 .. Len(a) /\ j \in i + 1 .. Len(a)
          BY <4>1, <1>3, <1>2
        <5> QED  BY <5>1, <3>1, <1>2
      <4>2. CASE ~(j <= Len(a))
        <5>1. j \in Len(a) + 1 .. Len(g)
          BY <4>2, <1>3, <1>2
        <5> QED  BY <5>1, <2>0
      <4> QED  BY <4>1, <4>2
    <3>4. Says(g, k) = At(a[i], k)
      BY <3>1, <3>2, <3>3, <1>4, SaysLast
    <3>5. Says(a, k) = At(a[i], k)
      BY <3>1, SaysLast
    <3> QED  BY <2>1, <3>4, <3>5, <1>4 DEF g
  <2>3. CASE \A i \in DOMAIN a : At(a[i], k) = NULL
    <3>1. ASSUME NEW j \in DOMAIN g PROVE At(g[j], k) = NULL
      <4>1. CASE j <= Len(a)
        <5>1. j \in 1 .. Len(a)
          BY <4>1, <1>3, <1>2
        <5> QED  BY <5>1, <2>3, <1>2, <1>3
      <4>2. CASE ~(j <= Len(a))
        <5>1. j \in Len(a) + 1 .. Len(g)
          BY <4>2, <1>3, <1>2
        <5> QED  BY <5>1, <2>0
      <4> QED  BY <4>1, <4>2
    <3>2. Says(g, k) = NULL /\ Says(a, k) = NULL
      BY <3>1, <2>3, SaysNothing
    <3> QED  BY <3>2, <2>1, <1>4 DEF g
  <2> QED  BY <2>2, <2>3
<1> QED  BY <1>5, <1>6
LEMMA IsGroupsBy == ASSUME NEW T, NEW g \in Seq(T) PROVE IsGroups(g)
BY DEF IsGroups

LEMMA OneGroup == ASSUME NEW x PROVE IsGroups(<<x>>)
<1>1. <<x>> \in Seq({x})
  OBVIOUS
<1> QED  BY <1>1, IsGroupsBy

\* A group, and a list of them, that has nothing under any of some keys.
Quiet(m, keys) == DOMAIN m \cap keys = {}

AllQuiet(g, keys) == IsGroups(g) /\ \A i \in DOMAIN g : Quiet(g[i], keys)

LEMMA QuietAt ==
    ASSUME NEW keys, NEW m, Quiet(m, keys), NEW k \in keys
    PROVE  At(m, k) = NULL
BY DEF Quiet, At

LEMMA QuietCopies ==
    ASSUME NEW keys, NEW S, S \cap keys = {}
    PROVE  Quiet(Copies(S), keys)
BY DEF Quiet, Copies

TimeKeys == {"submit_time", "begin_time", "term_time", "start_time", "end_time"}
TimeStrs == {"submit_time_str", "begin_time_str", "term_time_str", "start_time_str", "end_time_str"}

LEMMA QuietTimes ==
    ASSUME NEW keys, keys \cap (TimeKeys \cup TimeStrs) = {}, NEW r, NEW S \in SUBSET TimeKeys
    PROVE  Quiet(Times(r, S), keys)
<1>1. \A t \in S : TimeStr[t] \in TimeStrs
  BY DEF TimeStr, TimeKeys, TimeStrs
<1>2. DOMAIN Times(r, S) = S \cup {TimeStr[t] : t \in S}
  BY DEF Times
<1> QED  BY <1>1, <1>2 DEF Quiet

\* The keys of the groups that more than one type has.
LEMMA GroupKeys ==
    ASSUME NEW r
    PROVE  /\ DOMAIN Job(r) = {"job_id", "job_arr_idx"}
           /\ DOMAIN PackedJob(r) = {"job_id", "job_arr_idx"}
           /\ DOMAIN JobStatus(r) = {"job_status_code", "job_status"}
           /\ DOMAIN JobName(r) = {"job_name", "job_name_full"}
           /\ DOMAIN ArrayElements(r) \subseteq {"num_arr_elements", "job_idx_list"}
           /\ DOMAIN putXFStructure(r) = {"num_xfer_files", "xfer_files"}
           /\ DOMAIN putAskedhostlist(r) = {"num_asked_hosts", "asked_hosts"}
           /\ DOMAIN putReservhostlist(r) = {"num_reserve_hosts", "reserve_hosts"}
           /\ DOMAIN putJRusage(r) = {"run_rusage"}
           /\ DOMAIN Statistics(r) = {"done_flag", "exit_flag", "pend_time", "turnaround_time"}
<1>1. DOMAIN Job(r) = {"job_id", "job_arr_idx"}  BY DEF Job
<1>2. DOMAIN PackedJob(r) = {"job_id", "job_arr_idx"}  BY DEF PackedJob
<1>3. DOMAIN JobStatus(r) = {"job_status_code", "job_status"}  BY DEF JobStatus
<1>4. DOMAIN JobName(r) = {"job_name", "job_name_full"}  BY DEF JobName
<1>5. DOMAIN ArrayElements(r) \subseteq {"num_arr_elements", "job_idx_list"}  BY DEF ArrayElements
<1>6. DOMAIN putXFStructure(r) = {"num_xfer_files", "xfer_files"}  BY DEF putXFStructure
<1>7. DOMAIN putAskedhostlist(r) = {"num_asked_hosts", "asked_hosts"}  BY DEF putAskedhostlist
<1>8. DOMAIN putReservhostlist(r) = {"num_reserve_hosts", "reserve_hosts"}  BY DEF putReservhostlist
<1>9. DOMAIN putJRusage(r) = {"run_rusage"}  BY DEF putJRusage
<1>10. DOMAIN Statistics(r) = {"done_flag", "exit_flag", "pend_time", "turnaround_time"}
  BY DEF Statistics
<1> QED  BY <1>1, <1>2, <1>3, <1>4, <1>5, <1>6, <1>7, <1>8, <1>9, <1>10

LEMMA HostKeys ==
    ASSUME NEW hosts
    PROVE  /\ DOMAIN NumExecHosts(hosts) = {"num_exec_hosts"}
           /\ DOMAIN NumProcessors(hosts) \subseteq {"num_processors"}
           /\ DOMAIN ExecHosts(hosts) = {"exec_hosts"}
<1>1. DOMAIN NumExecHosts(hosts) = {"num_exec_hosts"}  BY DEF NumExecHosts
<1>2. DOMAIN NumProcessors(hosts) \subseteq {"num_processors"}  BY DEF NumProcessors
<1>3. DOMAIN ExecHosts(hosts) = {"exec_hosts"}  BY DEF ExecHosts
<1> QED  BY <1>1, <1>2, <1>3

LEMMA CwdKeys == ASSUME NEW dir, NEW home PROVE DOMAIN Cwd(dir, home) = {"cwd"}
BY DEF Cwd

LEMMA RusageKeys ==
    DOMAIN putLsfRusage =
        {"utime", "stime", "max_rss", "ixrss", "ismrss", "idrss", "isrss", "minor_faults",
         "major_faults", "num_swapout", "block_in", "block_out", "io_chars", "msgsnd", "msgrcv",
         "num_signals", "num_v_csw", "num_inv_csw", "exutime"}
BY DEF putLsfRusage, Copies

HeadKeys == {"version", "event_time", "event_time_utc", "event_time_str", "epoch"}

LEMMA HeadQuiet ==
    ASSUME NEW keys, keys \cap HeadKeys = {}, NEW r
    PROVE  AllQuiet(putJobHEAD(r), keys) /\ AllQuiet(Epoch(r), keys)
<1>1. IsGroups(putJobHEAD(r)) /\ IsGroups(Epoch(r))
  BY OneGroup DEF putJobHEAD, Epoch
<1>2. \A i \in DOMAIN putJobHEAD(r) : Quiet(putJobHEAD(r)[i], keys)
  BY DEF putJobHEAD, Quiet, HeadKeys
<1>3. \A i \in DOMAIN Epoch(r) : Quiet(Epoch(r)[i], keys)
  BY DEF Epoch, Quiet, HeadKeys
<1> QED  BY <1>1, <1>2, <1>3 DEF AllQuiet

LEMMA QuietSays ==
    ASSUME NEW keys, NEW g, AllQuiet(g, keys), NEW k \in keys
    PROVE  Says(g, k) = NULL
BY QuietAt, SaysNothing DEF AllQuiet

\* Lists that have nothing under a key, before and after one that may, change nothing.
LEMMA QuietBefore ==
    ASSUME NEW keys, NEW a, AllQuiet(a, keys), NEW g, IsGroups(g), NEW k \in keys
    PROVE  IsGroups(a \o g) /\ Says(a \o g, k) = Says(g, k)
<1>1. IsGroups(a)  BY DEF AllQuiet
<1>2. Says(a, k) = NULL  BY QuietSays
<1> QED  BY <1>1, <1>2, SaysConcat

LEMMA QuietAfter ==
    ASSUME NEW keys, NEW g, IsGroups(g), NEW b, AllQuiet(b, keys), NEW k \in keys
    PROVE  IsGroups(g \o b) /\ Says(g \o b, k) = Says(g, k)
<1>1. IsGroups(b)  BY DEF AllQuiet
<1>2. Says(b, k) = NULL  BY QuietSays
<1> QED  BY <1>1, <1>2, SaysConcat

\* Of one group.
LEMMA QuietOne ==
    ASSUME NEW keys, NEW x, Quiet(x, keys)
    PROVE  AllQuiet(<<x>>, keys)
<1>1. \A i \in DOMAIN <<x>> : Quiet(<<x>>[i], keys)
  OBVIOUS
<1> QED  BY <1>1, OneGroup DEF AllQuiet

\* After a head, one group among others that have nothing under the keys.
Among(t, i, keys) == IsGroups(t) /\ i \in DOMAIN t /\ \A j \in DOMAIN t : j # i => Quiet(t[j], keys)

LEMMA AmongSays ==
    ASSUME NEW keys, NEW h, AllQuiet(h, keys), NEW t, NEW i, Among(t, i, keys), NEW k \in keys
    PROVE  IsGroups(h \o t) /\ Says(h \o t, k) = At(t[i], k)
<1>1. Says(t, k) = At(t[i], k)
  <2>1. \A j \in DOMAIN t : j # i => At(t[j], k) = NULL
    BY QuietAt DEF Among
  <2> QED  BY <2>1, SaysOnly DEF Among
<1> QED  BY <1>1, QuietBefore DEF Among

-----------------------------------------------------------------------------
(* The job of an object.                                                    *)

JobKeys == {"job_id", "job_arr_idx"}

\* The keys by which getUid knows the job.
NameKeys == JobKeys \cup {"cluster_name"}

Named(g, id, idx) ==
    /\ IsGroups(g)
    /\ Says(g, "job_id") = id /\ Says(g, "job_arr_idx") = idx /\ Says(g, "cluster_name") = NULL

LEMMA NamedByJob ==
    ASSUME NEW r, NEW h, AllQuiet(h, NameKeys), NEW t, NEW i, t[i] = Job(r), Among(t, i, NameKeys)
    PROVE  Named(h \o t, r.jobId, r.idx)
<1>1. At(Job(r), "job_id") = r.jobId /\ At(Job(r), "job_arr_idx") = r.idx
      /\ At(Job(r), "cluster_name") = NULL
  BY DEF At, Job
<1>2. "job_id" \in NameKeys /\ "job_arr_idx" \in NameKeys /\ "cluster_name" \in NameKeys
  BY DEF NameKeys, JobKeys
<1> QED  BY <1>1, <1>2, AmongSays DEF Named

LEMMA NamedStays ==
    ASSUME NEW id, NEW idx, NEW g, Named(g, id, idx), NEW x, Quiet(x, NameKeys)
    PROVE  Named(g \o <<x>>, id, idx)
<1>1. "job_id" \in NameKeys /\ "job_arr_idx" \in NameKeys /\ "cluster_name" \in NameKeys
  BY DEF NameKeys, JobKeys
<1>2. AllQuiet(<<x>>, NameKeys)
  BY QuietOne
<1> QED  BY <1>1, <1>2, QuietAfter DEF Named

\* The groups of most types are the head, the job and up to five more.
LEMMA Named1 ==
    ASSUME NEW r, NEW h, AllQuiet(h, NameKeys)
    PROVE  Named(h \o <<Job(r)>>, r.jobId, r.idx)
<1> DEFINE t == <<Job(r)>>
<1>1. /\ t \in Seq({Job(r)}) /\ 1 \in DOMAIN t /\ t[1] = Job(r)
      /\ \A j \in DOMAIN t : j # 1 => Quiet(t[j], NameKeys)
  OBVIOUS
<1> HIDE DEF t
<1> QED  BY <1>1, IsGroupsBy, NamedByJob DEF t, Among

LEMMA Named2 ==
    ASSUME NEW r, NEW h, AllQuiet(h, NameKeys), NEW a, Quiet(a, NameKeys)
    PROVE  Named(h \o <<Job(r), a>>, r.jobId, r.idx)
<1> DEFINE t == <<Job(r), a>>
<1>1. /\ t \in Seq({Job(r), a}) /\ 1 \in DOMAIN t /\ t[1] = Job(r)
      /\ \A j \in DOMAIN t : j # 1 => Quiet(t[j], NameKeys)
  OBVIOUS
<1> HIDE DEF t
<1> QED  BY <1>1, IsGroupsBy, NamedByJob DEF t, Among

LEMMA Named3 ==
    ASSUME NEW r, NEW h, AllQuiet(h, NameKeys), NEW a, Quiet(a, NameKeys), NEW b, Quiet(b, NameKeys)
    PROVE  Named(h \o <<Job(r), a, b>>, r.jobId, r.idx)
<1> DEFINE t == <<Job(r), a, b>>
<1>1. t \in Seq({Job(r), a, b}) /\ 1 \in DOMAIN t /\ t[1] = Job(r)
      /\ \A j \in DOMAIN t : j # 1 => Quiet(t[j], NameKeys)
  OBVIOUS
<1> HIDE DEF t
<1> QED  BY <1>1, IsGroupsBy, NamedByJob DEF t, Among

LEMMA Named4 ==
    ASSUME NEW r, NEW h, AllQuiet(h, NameKeys), NEW a, Quiet(a, NameKeys),
           NEW b, Quiet(b, NameKeys),
           NEW c, Quiet(c, NameKeys)
    PROVE  Named(h \o <<Job(r), a, b, c>>, r.jobId, r.idx)
<1> DEFINE t == <<Job(r), a, b, c>>
<1>1. t \in Seq({Job(r), a, b, c}) /\ 1 \in DOMAIN t /\ t[1] = Job(r)
      /\ \A j \in DOMAIN t : j # 1 => Quiet(t[j], NameKeys)
  OBVIOUS
<1> HIDE DEF t
<1> QED  BY <1>1, IsGroupsBy, NamedByJob DEF t, Among

LEMMA Named6 ==
    ASSUME NEW r, NEW h, AllQuiet(h, NameKeys), NEW a, Quiet(a, NameKeys),
           NEW b, Quiet(b, NameKeys),
           NEW c, Quiet(c, NameKeys), NEW d, Quiet(d, NameKeys), NEW e, Quiet(e, NameKeys)
    PROVE  Named(h \o <<Job(r), a, b, c, d, e>>, r.jobId, r.idx)
<1> DEFINE t == <<Job(r), a, b, c, d, e>>
<1>1. t \in Seq({Job(r), a, b, c, d, e}) /\ 1 \in DOMAIN t /\ t[1] = Job(r)
      /\ \A j \in DOMAIN t : j # 1 => Quiet(t[j], NameKeys)
  OBVIOUS
<1> HIDE DEF t
<1> QED  BY <1>1, IsGroupsBy, NamedByJob DEF t, Among

LEMMA NameHead == ASSUME NEW r PROVE AllQuiet(putJobHEAD(r), NameKeys) /\ AllQuiet(Epoch(r), NameKeys)
BY HeadQuiet DEF NameKeys, JobKeys, HeadKeys

LEMMA ControlNamed ==
    ASSUME NEW r
    PROVE  /\ Named(putJobSwitch(r), r.jobId, r.idx)
           /\ Named(putJobMove(r), r.jobId, r.idx)
           /\ Named(putUnfulfillLog(r), r.jobId, r.idx)
           /\ Named(putMig(r), r.jobId, r.idx)
           /\ Named(putJobSignal(r), r.jobId, r.idx)
           /\ Named(putJobForward(r), r.jobId, r.idx)
           /\ Named(putJobAccept(r), r.jobId, r.idx)
           /\ Named(putJobRequeue(r), r.jobId, r.idx)
           /\ Named(putJobClean(r), r.jobId, r.idx)
           /\ Named(putJobException(r), r.jobId, r.idx)
           /\ Named(putJobExtMsg(r), r.jobId, r.idx)
<1> USE NameHead, QuietCopies DEF NameKeys, JobKeys
<1>0. Quiet(putAskedhostlist(r), NameKeys) /\ Quiet(putReservhostlist(r), NameKeys)
  BY GroupKeys DEF Quiet
<1>1. Named(putJobSwitch(r), r.jobId, r.idx)  BY Named2 DEF putJobSwitch
<1>2. Named(putJobMove(r), r.jobId, r.idx)  BY Named2 DEF putJobMove
<1>3. Named(putUnfulfillLog(r), r.jobId, r.idx)  BY Named2 DEF putUnfulfillLog
<1>4. Named(putMig(r), r.jobId, r.idx)  BY <1>0, Named3 DEF putMig
<1>5. Named(putJobSignal(r), r.jobId, r.idx)  BY Named2 DEF putJobSignal
<1>6. Named(putJobForward(r), r.jobId, r.idx)  BY <1>0, Named3 DEF putJobForward
<1>7. Named(putJobAccept(r), r.jobId, r.idx)  BY Named2 DEF putJobAccept
<1>8. Named(putJobRequeue(r), r.jobId, r.idx)  BY Named1 DEF putJobRequeue
<1>9. Named(putJobClean(r), r.jobId, r.idx)  BY Named1 DEF putJobClean
<1>10. Named(putJobException(r), r.jobId, r.idx)  BY Named2 DEF putJobException
<1>11. Named(putJobExtMsg(r), r.jobId, r.idx)  BY Named2 DEF putJobExtMsg
<1> QED  BY <1>1, <1>2, <1>3, <1>4, <1>5, <1>6, <1>7, <1>8, <1>9, <1>10, <1>11

\* A named job is run.
LEMMA RunNamed ==
    ASSUME NEW r
    PROVE  /\ Named(putJobStart(r), r.jobId, r.idx)
           /\ Named(putJobStartAccept(r), r.jobId, r.idx)
           /\ Named(putJobExecute(r), r.jobId, r.idx)
           /\ Named(putJobForce(r), r.jobId, r.idx)
           /\ Named(putRunRusage(r), r.jobId, r.idx)
           /\ Named(putJobStatus(r), r.jobId, r.idx)
           /\ Named(putSBDUnreportedStatus(r), r.jobId, r.idx)
           /\ Named(putJobSigact(r), r.jobId, r.idx)
<1> USE NameHead, QuietCopies DEF NameKeys, JobKeys
<1>1. /\ Quiet(JobStatus(r), NameKeys) /\ Quiet(putJRusage(r), NameKeys)
      /\ Quiet(putLsfRusage, NameKeys) /\ Quiet(NumExecHosts(r.execHosts), NameKeys)
      /\ Quiet(NumProcessors(r.execHosts), NameKeys)
  BY GroupKeys, HostKeys, RusageKeys DEF Quiet
<1>2. Quiet(Times(r, {"end_time"}), NameKeys)
  BY QuietTimes DEF TimeKeys, TimeStrs
<1>3. Quiet([start_time |-> r.eventTime, start_time_str |-> timeConvert(r.eventTime)], NameKeys)
  BY DEF Quiet
<1>4. Quiet([start_time |-> r.eventTime, event_time |-> r.eventTime,
             start_time_str |-> timeConvert(r.eventTime),
             event_time_str |-> timeConvert(r.eventTime)], NameKeys)
  BY DEF Quiet
<1>5. Quiet([exit_status |-> r.exitStatus, exit_info |-> r.exitInfo], NameKeys)
  BY DEF Quiet
<1>6. Quiet([job_status_code |-> r.jStatus], NameKeys)
  BY DEF Quiet
<1>7. Named(putJobStart(r), r.jobId, r.idx)  BY <1>1, <1>3, Named6 DEF putJobStart
<1>8. Named(putJobStartAccept(r), r.jobId, r.idx)  BY <1>4, Named3 DEF putJobStartAccept
<1>9. Named(putJobExecute(r), r.jobId, r.idx)  BY <1>3, Named3 DEF putJobExecute
<1>10. Named(putJobForce(r), r.jobId, r.idx)  BY <1>1, Named3 DEF putJobForce
<1>11. Named(putRunRusage(r), r.jobId, r.idx)  BY <1>1, Named2 DEF putRunRusage
<1>12. Named(putJobStatus(r), r.jobId, r.idx)  BY <1>1, <1>2, <1>5, Named6 DEF putJobStatus
<1>13. Named(putSBDUnreportedStatus(r), r.jobId, r.idx)
  <2> DEFINE a == [job_status_code |-> r.jStatus]
             b == [exit_status |-> r.exitStatus, exit_info |-> r.exitInfo]
             c == Copies({"action_pid", "job_pid", "job_pgid", "pend_reason", "pend_subreason",
                    "exec_uid", "cwd", "exec_home", "exec_user_name", "msg_idx", "signal_value",
                    "action_log_status_code", "sequence"})
  <2>1. Quiet(a, NameKeys) /\ Quiet(b, NameKeys) /\ Quiet(c, NameKeys)
    BY <1>5, <1>6
  <2>2. putSBDUnreportedStatus(r) =
            putJobHEAD(r) \o <<Job(r), a, putLsfRusage, b, c, putJRusage(r)>>
    BY DEF putSBDUnreportedStatus
  <2>3. Quiet(putLsfRusage, NameKeys) /\ Quiet(putJRusage(r), NameKeys)
    BY <1>1
  <2> HIDE DEF a, b, c
  <2> QED  BY <2>1, <2>2, <2>3, Named6
<1>14. Named(putJobSigact(r), r.jobId, r.idx)  BY <1>1, Named3 DEF putJobSigact
<1> QED  BY <1>7, <1>8, <1>9, <1>10, <1>11, <1>12, <1>13, <1>14

\* Nothing names the job of a METRIC_LOG.
LEMMA MetricUnnamed == ASSUME NEW r PROVE Named(putMetricLog(r), NULL, NULL)
<1> DEFINE m == Copies({"logstart", "loginterval", "mbatchd_requests", "job_queries",
                        "queue_queries",
          "host_queries", "job_submit_reqs", "jobs_submitted", "jobs_dispatched",
          "jobs_completed", "job_id", "job_arr_idx", "job_status_code", "job_pid",
          "jobs_to_remote", "jobs_from_remote"} \cup
          (IF r.version >= 91 THEN {"mbd_files_free", "mbd_files_used", "sched_interval",
                                   "match_host_crit", "job_buckets"} ELSE {}))
<1> DEFINE x == [performance_metrics |-> m]
<1> HIDE DEF m
<1>1. Quiet(x, NameKeys)
  BY DEF Quiet, NameKeys, JobKeys
<1> HIDE DEF x
<1>2. AllQuiet(<<x>>, NameKeys) /\ IsGroups(<<x>>)
  BY <1>1, QuietOne, OneGroup
<1>3. putMetricLog(r) = putJobHEAD(r) \o <<x>>
  BY DEF putMetricLog, x, m
<1>4. "job_id" \in NameKeys /\ "job_arr_idx" \in NameKeys /\ "cluster_name" \in NameKeys
  BY DEF NameKeys, JobKeys
<1>5. \A k \in NameKeys : IsGroups(putMetricLog(r)) /\ Says(putMetricLog(r), k) = NULL
  BY <1>2, <1>3, NameHead, QuietBefore, QuietSays
<1> QED  BY <1>4, <1>5 DEF Named

LEMMA Named10 ==
    ASSUME NEW r, NEW h, AllQuiet(h, NameKeys), NEW a, Quiet(a, NameKeys),
           NEW b, Quiet(b, NameKeys),
           NEW c, Quiet(c, NameKeys), NEW d, Quiet(d, NameKeys), NEW e, Quiet(e, NameKeys),
           NEW f, Quiet(f, NameKeys), NEW g, Quiet(g, NameKeys), NEW i, Quiet(i, NameKeys),
           NEW k, Quiet(k, NameKeys)
    PROVE  Named(h \o <<Job(r), a, b, c, d, e, f, g, i, k>>, r.jobId, r.idx)
<1> DEFINE t == <<Job(r), a, b, c, d, e, f, g, i, k>>
<1>1. t \in Seq({Job(r), a, b, c, d, e, f, g, i, k}) /\ 1 \in DOMAIN t /\ t[1] = Job(r)
      /\ \A j \in DOMAIN t : j # 1 => Quiet(t[j], NameKeys)
  OBVIOUS
<1> HIDE DEF t
<1> QED  BY <1>1, IsGroupsBy, NamedByJob DEF t, Among
LEMMA NewNamed == ASSUME NEW r PROVE Named(putJobNew(r), r.jobId, r.idx)
<1> DEFINE times == Times(r, {"submit_time", "begin_time", "term_time"})
           hold == [job_status |-> IF r.hold THEN transformJstatus(JOB_STAT_PSUSP) ELSE NULL]
           limits == [resource_limit |-> putRLimitArray]
<1>1. Quiet(times, NameKeys)
  BY QuietTimes DEF TimeKeys, TimeStrs, NameKeys, JobKeys
<1>2. Quiet(hold, NameKeys) /\ Quiet(limits, NameKeys)
  BY DEF Quiet, NameKeys, JobKeys
<1>3. Quiet(Copies(JobNewFields), NameKeys)
  BY QuietCopies DEF JobNewFields, NameKeys, JobKeys
<1>4. /\ Quiet(Cwd(r.subcwd, r.subHomeDir), NameKeys)
      /\ Quiet(JobName(r), NameKeys) /\ Quiet(putXFStructure(r), NameKeys)
      /\ Quiet(putAskedhostlist(r), NameKeys) /\ Quiet(ArrayElements(r), NameKeys)
  BY GroupKeys, CwdKeys DEF Quiet, NameKeys, JobKeys
<1> HIDE DEF hold, limits, times
<1> QED
  BY <1>1, <1>2, <1>3, <1>4, Named10, NameHead DEF putJobNew, hold, limits, times
LEMMA NameKeysAre == "job_id" \in NameKeys /\ "job_arr_idx" \in NameKeys /\ "cluster_name" \in NameKeys
BY DEF NameKeys, JobKeys

\* The types with the packed id, and a cluster of their own.
Packed(g, jobId, name) ==
    /\ IsGroups(g)
    /\ Says(g, "job_id") = LSB_ARRAY_JOBID(jobId) /\ Says(g, "job_arr_idx") = LSB_ARRAY_IDX(jobId)
    /\ Says(g, "cluster_name") = name

LEMMA PackedAt ==
    ASSUME NEW r
    PROVE  /\ At(PackedJob(r), "job_id") = LSB_ARRAY_JOBID(r.jobId)
           /\ At(PackedJob(r), "job_arr_idx") = LSB_ARRAY_IDX(r.jobId)
           /\ \A x : At([cluster_name |-> x], "cluster_name") = x
BY DEF At, PackedJob

LEMMA PackedByTwo ==
    ASSUME NEW r, NEW h, AllQuiet(h, NameKeys), NEW t, NEW i, NEW j, NEW name,
           t[i] = PackedJob(r), Among(t, i, JobKeys),
           At(t[j], "cluster_name") = name, Among(t, j, {"cluster_name"})
    PROVE  Packed(h \o t, r.jobId, name)
<1>1. AllQuiet(h, JobKeys) /\ AllQuiet(h, {"cluster_name"})
  BY DEF AllQuiet, Quiet, NameKeys
<1>2. "job_id" \in JobKeys /\ "job_arr_idx" \in JobKeys
  BY DEF JobKeys
<1>3. \A k \in JobKeys : IsGroups(h \o t) /\ Says(h \o t, k) = At(t[i], k)
  BY <1>1, AmongSays
<1>4. Says(h \o t, "cluster_name") = At(t[j], "cluster_name")
  BY <1>1, AmongSays
<1> QED  BY <1>2, <1>3, <1>4, PackedAt DEF Packed

LEMMA Finish2Named == ASSUME NEW r PROVE Packed(putJobFinish2(r), r.jobId, r.clusterName)
<1> DEFINE type == [job_type |-> JobType(r), num_processors |-> getNumExecProc(r)]
           times == Times(r, {"submit_time", "begin_time", "term_time", "start_time", "end_time"})
           utc == [k \in UtcKeys |-> "milliseconds mod 2^32"]
           exit == [exit_status |-> r.exitStatus, exit_info |-> r.exitInfo,
                    exit_reason |-> formatExitReason(r),
                    signal_value |-> JobSignalCode(r), exit_code |-> JobSignalCode(r)]
           name == [cluster_name |-> r.clusterName]
           vm == [virtualization |-> IF r.vmjob THEN "Y" ELSE "N"]
           copies == Copies(JobFinish2Fields)
           t == <<PackedJob(r), JobStatus(r), type, times, utc, exit, putLsfRusage,
                  NumExecHosts(r.execHosts), name, vm, copies>>
<1>1. putJobFinish2(r) = Epoch(r) \o t
  BY DEF putJobFinish2
<1>2. Quiet(times, NameKeys)
  BY QuietTimes DEF TimeKeys, TimeStrs, NameKeys, JobKeys
<1>3. Quiet(type, NameKeys) /\ Quiet(utc, NameKeys) /\ Quiet(exit, NameKeys) /\ Quiet(vm, NameKeys)
  BY DEF Quiet, NameKeys, JobKeys, UtcKeys
<1>4. Quiet(copies, NameKeys)
  BY QuietCopies DEF JobFinish2Fields, NameKeys, JobKeys
<1>5. /\ Quiet(JobStatus(r), NameKeys) /\ Quiet(putLsfRusage, NameKeys)
      /\ Quiet(NumExecHosts(r.execHosts), NameKeys)
  BY GroupKeys, RusageKeys, HostKeys DEF Quiet, NameKeys, JobKeys
<1>6. Quiet(name, JobKeys) /\ Quiet(PackedJob(r), {"cluster_name"})
  BY GroupKeys DEF Quiet, JobKeys
<1>7. At(name, "cluster_name") = r.clusterName
  BY PackedAt
<1> HIDE DEF type, times, utc, exit, name, vm, copies
<1>8. \A m : Quiet(m, NameKeys) => Quiet(m, JobKeys) /\ Quiet(m, {"cluster_name"})
  BY DEF Quiet, NameKeys
<1>9. t \in Seq({PackedJob(r), JobStatus(r), type, times, utc, exit, putLsfRusage,
                  NumExecHosts(r.execHosts), name, vm, copies})
  OBVIOUS
<1>10. /\ t[1] = PackedJob(r) /\ 1 \in DOMAIN t /\ \A j \in DOMAIN t : j # 1 => Quiet(t[j], JobKeys)
       /\ t[9] = name /\ 9 \in DOMAIN t
       /\ \A j \in DOMAIN t : j # 9 => Quiet(t[j], {"cluster_name"})
  BY <1>2, <1>3, <1>4, <1>5, <1>6, <1>8
<1> HIDE DEF t
<1>11. Among(t, 1, JobKeys) /\ Among(t, 9, {"cluster_name"})
  BY <1>9, <1>10, IsGroupsBy DEF Among
<1> QED  BY <1>1, <1>7, <1>10, <1>11, NameHead, PackedByTwo

LEMMA StartLimitNamed == ASSUME NEW r PROVE Packed(putJobStartLimit(r), r.jobId, r.clusterName)
<1> DEFINE name == [cluster_name |-> r.clusterName]
           limits == [k \in {"cluster_rlimit", "job_rlimit"} |->
                        Copies({"cpu", "fsize", "data", "stack", "core", "mem", "nofile", "open_max",
                                "swap", "runtime", "process", "thread"})]
           t == <<PackedJob(r), name, limits>>
<1>1. putJobStartLimit(r) = Epoch(r) \o t
  BY DEF putJobStartLimit
<1>2. Quiet(limits, NameKeys)
  BY DEF Quiet, NameKeys, JobKeys
<1>3. Quiet(name, JobKeys) /\ Quiet(PackedJob(r), {"cluster_name"})
  BY GroupKeys DEF Quiet, JobKeys
<1>4. At(name, "cluster_name") = r.clusterName
  BY PackedAt
<1> HIDE DEF name, limits
<1>5. Quiet(limits, JobKeys) /\ Quiet(limits, {"cluster_name"})
  BY <1>2 DEF Quiet, NameKeys
<1>6. t \in Seq({PackedJob(r), name, limits})
  OBVIOUS
<1>7. /\ t[1] = PackedJob(r) /\ 1 \in DOMAIN t /\ \A j \in DOMAIN t : j # 1 => Quiet(t[j], JobKeys)
      /\ t[2] = name /\ 2 \in DOMAIN t /\ \A j \in DOMAIN t : j # 2 => Quiet(t[j], {"cluster_name"})
  BY <1>3, <1>5
<1> HIDE DEF t
<1>8. Among(t, 1, JobKeys) /\ Among(t, 2, {"cluster_name"})
  BY <1>6, <1>7, IsGroupsBy DEF Among
<1> QED  BY <1>1, <1>4, <1>7, <1>8, NameHead, PackedByTwo

\* The fields both kinds of lsb.status records have name the cluster alone.
LEMMA DashedSays ==
    ASSUME NEW r
    PROVE  /\ AllQuiet(DashedFields(r), JobKeys)
           /\ Says(DashedFields(r), "cluster_name") = OrDash(r.clusterName)
<1> DEFINE a == [cluster_name |-> OrDash(r.clusterName), job_status |-> transformJstatus(r.jStatus)]
           b == [k \in {"user_name", "queue_name", "res_req", "project_name", "job_group",
                 "app_profile",
                        "user_group_name"} |-> "copied or -"]
           c == Copies({"sample_interval", "req_num_procs_min", "num_jobs", "job_rmt_attr",
                        "pend_reason"})
           g == <<a, b, c>>
<1>1. DashedFields(r) = g
  BY DEF DashedFields
<1>2. Quiet(a, JobKeys) /\ Quiet(b, NameKeys)
  BY DEF Quiet, JobKeys, NameKeys
<1>3. Quiet(c, NameKeys)
  BY QuietCopies DEF JobKeys, NameKeys
<1>4. At(a, "cluster_name") = OrDash(r.clusterName)
  BY DEF At
<1> HIDE DEF a, b, c
<1>5. g \in Seq({a, b, c}) /\ g[1] = a /\ 1 \in DOMAIN g
  OBVIOUS
<1>6. Quiet(b, JobKeys) /\ Quiet(b, {"cluster_name"}) /\ Quiet(c, JobKeys) /\ Quiet(c, {"cluster_name"})
  BY <1>2, <1>3 DEF Quiet, NameKeys
<1>7. \A i \in DOMAIN g : Quiet(g[i], JobKeys)
  BY <1>2, <1>6
<1>8. \A i \in DOMAIN g : i # 1 => At(g[i], "cluster_name") = NULL
  BY <1>6, QuietAt
<1> HIDE DEF g
<1>9. AllQuiet(g, JobKeys)
  BY <1>5, <1>7, IsGroupsBy DEF AllQuiet
<1>10. Says(g, "cluster_name") = At(g[1], "cluster_name")
  BY <1>5, <1>8, IsGroupsBy, SaysOnly
<1> QED  BY <1>1, <1>4, <1>5, <1>9, <1>10

LEMMA Status2Named == ASSUME NEW r PROVE Packed(putJobStatus2(r), r.jobId, OrDash(r.clusterName))
<1> DEFINE times == Times(r, {"submit_time", "start_time", "end_time"})
           slots == [slot_flag |-> getSlotFlag(r)]
           vm == [virtualization |-> IF r.vmjob THEN "Y" ELSE "N"]
           rusage == [exec_rusage |-> "copied or -"]
           copies == Copies({"runtime_delta", "provtime_delta"})
           t == <<PackedJob(r), times, putLsfRusage, NumExecHosts(r.execHosts), slots, vm,
                  rusage, copies>>
           h == putJobHEAD(r) \o DashedFields(r)
<1>1. putJobStatus2(r) = h \o t
  BY DEF putJobStatus2
<1>2. /\ Quiet(times, NameKeys)
  BY QuietTimes DEF TimeKeys, TimeStrs, NameKeys, JobKeys
<1>3. Quiet(slots, NameKeys) /\ Quiet(vm, NameKeys) /\ Quiet(rusage, NameKeys)
  BY DEF Quiet, NameKeys, JobKeys
<1>4. Quiet(copies, NameKeys)
  BY QuietCopies DEF NameKeys, JobKeys
<1>5. Quiet(putLsfRusage, NameKeys) /\ Quiet(NumExecHosts(r.execHosts), NameKeys)
  BY RusageKeys, HostKeys DEF Quiet, NameKeys, JobKeys
<1>6. Quiet(PackedJob(r), {"cluster_name"})
  BY GroupKeys DEF Quiet
<1> HIDE DEF times, slots, vm, rusage, copies
<1>7. \A m : Quiet(m, NameKeys) => Quiet(m, JobKeys) /\ Quiet(m, {"cluster_name"})
  BY DEF Quiet, NameKeys
<1>8. t \in Seq({PackedJob(r), times, putLsfRusage, NumExecHosts(r.execHosts), slots, vm, rusage,
                 copies})
  OBVIOUS
<1>9. /\ t[1] = PackedJob(r) /\ 1 \in DOMAIN t /\ \A j \in DOMAIN t : j # 1 => Quiet(t[j], JobKeys)
      /\ \A j \in DOMAIN t : Quiet(t[j], {"cluster_name"})
  BY <1>2, <1>3, <1>4, <1>5, <1>6, <1>7
<1> HIDE DEF t
<1>10. Among(t, 1, JobKeys) /\ AllQuiet(t, {"cluster_name"})
  BY <1>8, <1>9, IsGroupsBy DEF Among, AllQuiet
<1>11. AllQuiet(putJobHEAD(r), JobKeys) /\ AllQuiet(putJobHEAD(r), {"cluster_name"})
  BY NameHead DEF AllQuiet, Quiet, NameKeys
<1>12. IsGroups(DashedFields(r))
  BY DashedSays DEF AllQuiet
<1>13. IsGroups(h) /\ Says(h, "cluster_name") = OrDash(r.clusterName)
  BY <1>11, <1>12, DashedSays, QuietBefore
<1>14. \A k \in JobKeys : Says(h, k) = NULL
  BY <1>11, <1>12, DashedSays, QuietBefore, QuietSays
<1> HIDE DEF h
<1>15. IsGroups(h \o t) /\ Says(h \o t, "cluster_name") = OrDash(r.clusterName)
  BY <1>10, <1>13, QuietAfter
<1>16. IsGroups(t)
  BY <1>10 DEF Among
<1>17. \A k \in JobKeys : Says(t, k) = At(t[1], k)
  <2>1. \A k \in JobKeys : \A j \in DOMAIN t : j # 1 => At(t[j], k) = NULL
    BY <1>9, QuietAt
  <2> QED  BY <2>1, <1>9, <1>16, SaysOnly
<1>18. \A k \in JobKeys : Says(h \o t, k) = Says(t, k)
  <2>1. SUFFICES ASSUME NEW k \in JobKeys PROVE Says(h \o t, k) = Says(t, k)
    OBVIOUS
  <2>2. Says(h, k) = NULL
    BY <1>14
  <2> QED  BY <2>2, <1>13, <1>16, SaysConcat
<1>19. "job_id" \in JobKeys /\ "job_arr_idx" \in JobKeys
  BY DEF JobKeys
<1> QED  BY <1>1, <1>9, <1>15, <1>17, <1>18, <1>19, PackedAt DEF Packed

\* The pending jobs of a user have no index.
LEMMA PendNamed ==
    ASSUME NEW r
    PROVE  /\ IsGroups(putJobStatus2Pend(r))
           /\ Says(putJobStatus2Pend(r), "job_arr_idx") = NULL
           /\ Says(putJobStatus2Pend(r), "cluster_name") = OrDash(r.clusterName)
<1> DEFINE keys == {"job_arr_idx", "cluster_name"}
           id == [job_id |-> r.jobId]
           copies == Copies({"num_processors"})
           h == putJobHEAD(r) \o DashedFields(r)
           t == <<id, copies>>
<1>1. putJobStatus2Pend(r) = h \o t
  BY DEF putJobStatus2Pend
<1>2. Quiet(id, keys)
  BY DEF Quiet
<1>3. Quiet(copies, keys)
  BY QuietCopies
<1> HIDE DEF id, copies
<1>4. t \in Seq({id, copies}) /\ \A i \in DOMAIN t : Quiet(t[i], keys)
  BY <1>2, <1>3
<1> HIDE DEF t
<1>5. AllQuiet(t, keys)
  BY <1>4, IsGroupsBy DEF AllQuiet
<1>6. AllQuiet(putJobHEAD(r), keys)
  BY NameHead DEF AllQuiet, Quiet, NameKeys, JobKeys
<1>7. "job_arr_idx" \in JobKeys
  BY DEF JobKeys
<1>8. Says(DashedFields(r), "job_arr_idx") = NULL /\ IsGroups(DashedFields(r))
  BY <1>7, DashedSays, QuietSays DEF AllQuiet
<1>9. IsGroups(h) /\ Says(h, "job_arr_idx") = NULL /\ Says(h, "cluster_name") = OrDash(r.clusterName)
  BY <1>6, <1>8, DashedSays, QuietBefore
<1> HIDE DEF h
<1> QED  BY <1>1, <1>5, <1>9, QuietAfter

\* The list of groups of a JOB_MODIFY2 after those of its job.
LEMMA ModifyQuiet ==
    ASSUME NEW r
    PROVE  \E b : AllQuiet(b, NameKeys) /\ putJobModify2(r) = putJobHEAD(r) \o ModifiedJob(r) \o b
<1> DEFINE times == Times(r, {"submit_time", "begin_time", "term_time"})
           name == [job_name |-> r.jobName, job_name_full |-> r.jobName]
           cwd == IF r.subcwd \in {NULL, ""} THEN <<>> ELSE Cwd(r.subcwd, "$HOME")
           limits == [resource_limit |-> putRLimitArray]
           copies == Copies(JobModify2Fields)
           b == <<times, name, cwd, limits, putXFStructure(r), putAskedhostlist(r),
                  ArrayElements(r),
                  copies>>
<1>1. Quiet(times, NameKeys)
  BY QuietTimes DEF TimeKeys, TimeStrs, NameKeys, JobKeys
<1>2. Quiet(name, NameKeys) /\ Quiet(limits, NameKeys)
  BY DEF Quiet, NameKeys, JobKeys
<1>3. Quiet(cwd, NameKeys)
  <2>1. cwd = <<>> \/ cwd = Cwd(r.subcwd, "$HOME")
    OBVIOUS
  <2>2. Quiet(<<>>, NameKeys) /\ Quiet(Cwd(r.subcwd, "$HOME"), NameKeys)
    BY CwdKeys DEF Quiet, NameKeys, JobKeys
  <2> HIDE DEF cwd
  <2> QED  BY <2>1, <2>2
<1>4. Quiet(copies, NameKeys)
  BY QuietCopies DEF JobModify2Fields, NameKeys, JobKeys
<1>5. /\ Quiet(putXFStructure(r), NameKeys)
      /\ Quiet(putAskedhostlist(r), NameKeys) /\ Quiet(ArrayElements(r), NameKeys)
  BY GroupKeys DEF Quiet, NameKeys, JobKeys
<1>6. putJobModify2(r) = putJobHEAD(r) \o ModifiedJob(r) \o b
  BY DEF putJobModify2
<1> HIDE DEF times, name, cwd, limits, copies
<1>7. b \in Seq({times, name, cwd, limits, putXFStructure(r), putAskedhostlist(r), ArrayElements(r),
                 copies})
  OBVIOUS
<1>8. \A i \in DOMAIN b : Quiet(b[i], NameKeys)
  BY <1>1, <1>2, <1>3, <1>4, <1>5
<1> HIDE DEF b
<1>9. AllQuiet(b, NameKeys)
  BY <1>7, <1>8, IsGroupsBy DEF AllQuiet
<1> QED  BY <1>6, <1>9

\* The job a JOB_MODIFY2 names in a string, and the index it has without one there.
ModifiedId(r) == IF r.jobIdStr = NULL THEN NULL ELSE r.jobIdStr.id
ModifiedIdx(r) == IF r.jobIdStr = NULL THEN 0 ELSE IF r.jobIdStr.idx = NULL THEN 0 ELSE r.jobIdStr.idx

LEMMA ModifiedJobSays ==
    ASSUME NEW r, NULL # 0
    PROVE  Named(ModifiedJob(r), ModifiedId(r), ModifiedIdx(r))
<1> DEFINE a == [job_arr_idx |-> 0]
           m == IF r.jobIdStr = NULL THEN <<>>
                ELSE [job_id |-> r.jobIdStr.id, job_arr_idx |-> r.jobIdStr.idx]
           g == <<a, m>>
<1>1. ModifiedJob(r) = g
  BY DEF ModifiedJob
<1>2. /\ At(a, "job_id") = NULL /\ At(a, "job_arr_idx") = 0 /\ At(a, "cluster_name") = NULL
      /\ At(m, "cluster_name") = NULL /\ At(m, "job_id") = ModifiedId(r)
      /\ At(m, "job_arr_idx") = IF r.jobIdStr = NULL THEN NULL ELSE r.jobIdStr.idx
  BY DEF At, ModifiedId
<1> HIDE DEF a, m
<1>3. g \in Seq({a, m}) /\ DOMAIN g = {1, 2} /\ g[1] = a /\ g[2] = m /\ Len(g) = 2
  OBVIOUS
<1> HIDE DEF g
<1>4. IsGroups(g)
  BY <1>3, IsGroupsBy
<1>5. Says(g, "job_id") = At(m, "job_id")
  BY <1>2, <1>3, <1>4, SaysOnly
<1>6. Says(g, "cluster_name") = NULL
  BY <1>2, <1>3, SaysNothing
<1>7. Says(g, "job_arr_idx") = ModifiedIdx(r)
  <2>1. CASE At(m, "job_arr_idx") = NULL
    <3>1. Says(g, "job_arr_idx") = 0
      BY <2>1, <1>2, <1>3, <1>4, SaysOnly
    <3> QED  BY <3>1, <2>1, <1>2 DEF ModifiedIdx
  <2>2. CASE At(m, "job_arr_idx") # NULL
    <3>1. \A j \in 2 + 1 .. Len(g) : At(g[j], "job_arr_idx") = NULL
      BY <1>3
    <3>2. Says(g, "job_arr_idx") = At(m, "job_arr_idx")
      BY <3>1, <2>2, <1>3, <1>4, SaysLast
    <3> QED  BY <3>2, <2>2, <1>2 DEF ModifiedIdx
  <2> QED  BY <2>1, <2>2
<1> QED  BY <1>1, <1>2, <1>4, <1>5, <1>6, <1>7 DEF Named

LEMMA ModifyNamed ==
    ASSUME NEW r, NULL # 0
    PROVE  Named(putJobModify2(r), ModifiedId(r), ModifiedIdx(r))
<1>1. PICK b : AllQuiet(b, NameKeys) /\ putJobModify2(r) = putJobHEAD(r) \o ModifiedJob(r) \o b
  BY ModifyQuiet
<1>2. \A k \in NameKeys : /\ IsGroups(putJobHEAD(r) \o ModifiedJob(r))
                          /\ Says(putJobHEAD(r) \o ModifiedJob(r), k) = Says(ModifiedJob(r), k)
  BY ModifiedJobSays, NameHead, QuietBefore DEF Named
<1> DEFINE a == putJobHEAD(r) \o ModifiedJob(r)
<1> HIDE DEF a
<1>3. \A k \in NameKeys : IsGroups(a \o b) /\ Says(a \o b, k) = Says(a, k)
  BY <1>1, <1>2, QuietAfter DEF a
<1> QED  BY <1>1, <1>2, <1>3, ModifiedJobSays, NameKeysAre DEF Named, a

\* The groups of a chunk.
LEMMA ChunkNamed == ASSUME NEW r PROVE Named(putJobChunk(r), r.jobId, 0)
<1> DEFINE m == [memb_size |-> Len(r.membDigits), memb_job_id |-> MemberList(r.membDigits)]
           j == [job_arr_idx |-> 0, job_id |-> r.jobId]
           t == <<m, j, NumExecHosts(r.execHosts)>>
<1>1. putJobChunk(r) = putJobHEAD(r) \o t
  BY DEF putJobChunk
<1>2. Quiet(m, NameKeys) /\ Quiet(NumExecHosts(r.execHosts), NameKeys)
  BY HostKeys DEF Quiet, NameKeys, JobKeys
<1>3. At(j, "job_id") = r.jobId /\ At(j, "job_arr_idx") = 0 /\ At(j, "cluster_name") = NULL
  BY DEF At
<1> HIDE DEF m, j
<1>4. t \in Seq({m, j, NumExecHosts(r.execHosts)})
  OBVIOUS
<1>5. t[2] = j /\ 2 \in DOMAIN t /\ \A i \in DOMAIN t : i # 2 => Quiet(t[i], NameKeys)
  BY <1>2
<1> HIDE DEF t
<1>6. Among(t, 2, NameKeys)
  BY <1>4, <1>5, IsGroupsBy DEF Among
<1> QED  BY <1>1, <1>3, <1>5, <1>6, NameHead, AmongSays, NameKeysAre DEF Named

\* A job that has finished.
LEMMA FinishNamed == ASSUME NEW r PROVE Named(putJobFinish(r), r.jobId, r.idx)
<1> DEFINE times == Times(r, {"submit_time", "begin_time", "term_time", "start_time", "end_time"})
           utc == [k \in UtcKeys |-> "milliseconds"]
           cwd == IF r.subcwd \in {NULL, ""} THEN <<>> ELSE Cwd(r.subcwd, "$HOME")
           list == [exec_hosts_list |-> IF r.execHosts = NULL THEN NULL ELSE getExecHostsStr(r.execHosts)]
           exit == [exit_reason |-> getExitReason(r), exit_info |-> r.exitInfo,
                    exit_status |-> r.exitStatus]
           copies == Copies(JobFinishFields)
           t == <<Statistics(r), Job(r), JobStatus(r), times, utc, cwd, JobName(r), putLsfRusage,
                  putAskedhostlist(r), NumExecHosts(r.execHosts), NumProcessors(r.execHosts), list,
                  exit, copies>>
<1>1. putJobFinish(r) = putJobHEAD(r) \o t
  BY DEF putJobFinish
<1>2. Quiet(times, NameKeys)
  BY QuietTimes DEF TimeKeys, TimeStrs, NameKeys, JobKeys
<1>3. Quiet(utc, NameKeys) /\ Quiet(list, NameKeys) /\ Quiet(exit, NameKeys)
  BY DEF Quiet, NameKeys, JobKeys, UtcKeys
<1>4. Quiet(cwd, NameKeys)
  <2>1. cwd = <<>> \/ cwd = Cwd(r.subcwd, "$HOME")
    OBVIOUS
  <2>2. Quiet(<<>>, NameKeys) /\ Quiet(Cwd(r.subcwd, "$HOME"), NameKeys)
    BY CwdKeys DEF Quiet, NameKeys, JobKeys
  <2> HIDE DEF cwd
  <2> QED  BY <2>1, <2>2
<1>5. Quiet(copies, NameKeys)
  BY QuietCopies DEF JobFinishFields, NameKeys, JobKeys
<1>6. /\ Quiet(Statistics(r), NameKeys) /\ Quiet(JobStatus(r), NameKeys)
      /\ Quiet(JobName(r), NameKeys) /\ Quiet(putLsfRusage, NameKeys)
      /\ Quiet(putAskedhostlist(r), NameKeys) /\ Quiet(NumExecHosts(r.execHosts), NameKeys)
      /\ Quiet(NumProcessors(r.execHosts), NameKeys)
  BY GroupKeys, RusageKeys, HostKeys DEF Quiet, NameKeys, JobKeys
<1> HIDE DEF times, utc, cwd, list, exit, copies
<1>7. t \in Seq({Statistics(r), Job(r), JobStatus(r), times, utc, cwd, JobName(r), putLsfRusage,
                  putAskedhostlist(r), NumExecHosts(r.execHosts), NumProcessors(r.execHosts), list,
                  exit, copies})
  OBVIOUS
<1>8. t[2] = Job(r) /\ 2 \in DOMAIN t /\ \A j \in DOMAIN t : j # 2 => Quiet(t[j], NameKeys)
  BY <1>2, <1>3, <1>4, <1>5, <1>6
<1> HIDE DEF t
<1>9. Among(t, 2, NameKeys)
  BY <1>7, <1>8, IsGroupsBy DEF Among
<1> QED  BY <1>1, <1>8, <1>9, NameHead, NamedByJob
-----------------------------------------------------------------------------
\* What the switch makes of the record of one type.
LEMMA PlainEvents ==
    ASSUME NEW r, r.type \in EventTypes,
           r.type \notin {"JOB_MODIFY2", "JOB_CHUNK", "METRIC_LOG", "JOB_FINISH2", "JOB_STARTLIMIT"}
    PROVE  Named(EventMembers(r), r.jobId, r.idx)
<1>1. Quiet(ExecHosts(r.execHosts), NameKeys)
  BY HostKeys DEF Quiet, NameKeys, JobKeys
<1>2. /\ Named(putJobStart(r) \o <<ExecHosts(r.execHosts)>>, r.jobId, r.idx)
      /\ Named(putJobForce(r) \o <<ExecHosts(r.execHosts)>>, r.jobId, r.idx)
      /\ Named(putJobFinish(r) \o <<ExecHosts(r.execHosts)>>, r.jobId, r.idx)
  BY <1>1, RunNamed, FinishNamed, NamedStays
<1>3. CASE r.type \in {"JOB_NEW", "JOB_START", "PRE_EXEC_START", "JOB_FORCE", "JOB_FINISH"}
  BY <1>2, <1>3, NewNamed DEF EventMembers
<1>4. CASE r.type \in {"JOB_START_ACCEPT", "JOB_EXECUTE", "JOB_RUN_RUSAGE", "JOB_STATUS",
                       "SBD_UNREPORTED_STATUS", "JOB_SIGACT"}
  BY <1>4, RunNamed DEF EventMembers
<1>5. CASE r.type \in {"JOB_SWITCH", "JOB_MOVE", "UNFULFILL", "MIG", "JOB_SIGNAL", "JOB_FORWARD",
                       "JOB_ACCEPT", "JOB_REQUEUE", "JOB_CLEAN", "JOB_EXCEPTION", "JOB_EXT_MSG",
                       "JOB_ATTA_DATA"}
  BY <1>5, ControlNamed DEF EventMembers
<1> QED  BY <1>3, <1>4, <1>5 DEF EventTypes

\* The number a list of groups gives the job of a record.
JobSaid(g, r) ==
    /\ IsGroups(g)
    /\ OfNoJob(r) => Says(g, "job_id") = NULL \/ Says(g, "job_arr_idx") = NULL
    /\ ~OfNoJob(r) =>
          /\ Says(g, "job_id") \in Int /\ Says(g, "job_arr_idx") \in Int
          /\ Says(g, "job_arr_idx") * LSB_ARRAY_BASE + Says(g, "job_id") = JobNumber(r)
          /\ r.type = "JOB_CHUNK" \/ Says(g, "job_id") < LSB_ARRAY_BASE

LEMMA Divided ==
    ASSUME NEW n \in Nat, NEW b \in Nat, b > 0
    PROVE  n % b \in 0 .. b - 1 /\ n \div b \in Nat /\ n = b * (n \div b) + (n % b)
OBVIOUS

LEMMA PackedNumber ==
    ASSUME NEW n \in Nat
    PROVE  /\ LSB_ARRAY_JOBID(n) \in Int /\ LSB_ARRAY_IDX(n) \in Int
           /\ LSB_ARRAY_IDX(n) * LSB_ARRAY_BASE + LSB_ARRAY_JOBID(n) = n
           /\ LSB_ARRAY_JOBID(n) < LSB_ARRAY_BASE
<1> DEFINE b == LSB_ARRAY_BASE
           q == n \div b
           m == n % b
<1>1. b \in Nat /\ b > 0
  BY NumbersAssumption
<1> HIDE DEF b
<1>2. m \in 0 .. b - 1 /\ q \in Nat /\ n = b * q + m
  BY <1>1, Divided
<1>3. LSB_ARRAY_JOBID(n) = m /\ LSB_ARRAY_IDX(n) = q
  BY DEF LSB_ARRAY_JOBID, LSB_ARRAY_IDX, b
<1> HIDE DEF q, m
<1>4. q * b = b * q
  BY <1>1, <1>2
<1>5. q * b + m = n
  BY <1>2, <1>4
<1>6. m \in Int /\ q \in Int /\ m < b
  BY <1>1, <1>2
<1> QED  BY <1>3, <1>5, <1>6 DEF b

LEMMA PackedSaid ==
    ASSUME NEW r \in Records, r.type \in {"JOB_FINISH2", "JOB_STARTLIMIT", "JOB_STATUS2"}, ~OfNoJob(r),
           NEW g, NEW name, Packed(g, r.jobId, name)
    PROVE  JobSaid(g, r)
<1>1. r.jobId \in Nat
  BY NumbersAssumption DEF OfNoJob
<1>2. JobNumber(r) = r.jobId
  BY DEF JobNumber, PackedTypes
<1> QED  BY <1>1, <1>2, PackedNumber DEF JobSaid, Packed

LEMMA NullIsNoNumber == NULL \notin Int
BY NumbersAssumption

LEMMA ModifySaid ==
    ASSUME NEW r \in Records, r.type = "JOB_MODIFY2"
    PROVE  JobSaid(putJobModify2(r), r)
<1> DEFINE g == putJobModify2(r)
<1>1. Named(g, ModifiedId(r), ModifiedIdx(r))
  BY NullIsNoNumber, ModifyNamed
<1> HIDE DEF g
<1>2. CASE r.jobIdStr = NULL
  <2>1. OfNoJob(r) /\ ModifiedId(r) = NULL
    BY <1>2 DEF OfNoJob, ModifiedId
  <2> QED  BY <1>1, <2>1 DEF JobSaid, Named, g
<1>3. CASE r.jobIdStr # NULL
  <2>1. /\ r.jobIdStr.id \in Int /\ r.jobIdStr.id < LSB_ARRAY_BASE
        /\ r.jobIdStr.idx \in Int \cup {NULL} /\ LSB_ARRAY_BASE \in Int
    BY <1>3, NumbersAssumption
  <2>2. JobNumber(r) = r.jobIdStr.id +
            (IF r.jobIdStr.idx = NULL THEN 0 ELSE r.jobIdStr.idx * LSB_ARRAY_BASE)
    BY DEF JobNumber, PackedTypes
  <2>3. ModifiedId(r) = r.jobIdStr.id /\ ModifiedIdx(r) \in Int
    BY <1>3, <2>1 DEF ModifiedId, ModifiedIdx
  <2>4. ModifiedIdx(r) * LSB_ARRAY_BASE + ModifiedId(r) = JobNumber(r)
    <3>1. CASE r.jobIdStr.idx = NULL
      BY <3>1, <1>3, <2>1, <2>2, <2>3 DEF ModifiedIdx
    <3>2. CASE r.jobIdStr.idx # NULL
      <4> DEFINE p == r.jobIdStr.idx * LSB_ARRAY_BASE
      <4>1. p \in Int
        BY <3>2, <2>1
      <4>2. ModifiedIdx(r) * LSB_ARRAY_BASE = p /\ JobNumber(r) = r.jobIdStr.id + p
        BY <3>2, <1>3, <2>2 DEF ModifiedIdx
      <4> HIDE DEF p
      <4> QED  BY <4>1, <4>2, <2>1, <2>3
    <3> QED  BY <3>1, <3>2
  <2>5. ~OfNoJob(r)
    BY <1>3 DEF OfNoJob
  <2> QED  BY <1>1, <2>1, <2>3, <2>4, <2>5 DEF JobSaid, Named, g
<1> QED  BY <1>2, <1>3 DEF g

LEMMA EventSaid ==
    ASSUME NEW r \in Records, r.type \in EventTypes
    PROVE  /\ JobSaid(EventMembers(r), r)
           /\ \/ Says(EventMembers(r), "cluster_name") = NULL
              \/ r.type \in {"JOB_FINISH2", "JOB_STARTLIMIT"}
<1> DEFINE g == EventMembers(r)
<1>1. /\ r.idx \in Int /\ r.jobId \in Int /\ LSB_ARRAY_BASE \in Int
      /\ r.type \notin PackedTypes => r.jobId < LSB_ARRAY_BASE
  BY NumbersAssumption
<1>2. CASE r.type \notin {"JOB_MODIFY2", "JOB_CHUNK", "METRIC_LOG", "JOB_FINISH2", "JOB_STARTLIMIT"}
  <2>1. Named(g, r.jobId, r.idx)
    BY <1>2, PlainEvents
  <2>2. ~OfNoJob(r) /\ r.type \notin PackedTypes
    BY <1>2 DEF OfNoJob, PackedTypes, EventTypes
  <2>3. JobNumber(r) = r.idx * LSB_ARRAY_BASE + r.jobId
    BY <1>2, <2>2 DEF JobNumber
  <2> HIDE DEF g
  <2> QED  BY <1>1, <2>1, <2>2, <2>3 DEF JobSaid, Named, g
<1>3. CASE r.type = "JOB_MODIFY2"
  <2>1. g = putJobModify2(r)
    BY <1>3 DEF EventMembers
  <2>2. Named(g, ModifiedId(r), ModifiedIdx(r))
    BY <2>1, NullIsNoNumber, ModifyNamed
  <2> QED  BY <1>3, <2>1, <2>2, ModifySaid DEF Named
<1>4. CASE r.type = "JOB_CHUNK"
  <2>1. g = putJobChunk(r) \o <<ExecHosts(r.execHosts)>>
    BY <1>4 DEF EventMembers
  <2>2. Quiet(ExecHosts(r.execHosts), NameKeys)
    BY HostKeys DEF Quiet, NameKeys, JobKeys
  <2>3. Named(g, r.jobId, 0)
    BY <2>1, <2>2, ChunkNamed, NamedStays
  <2>4. ~OfNoJob(r) /\ JobNumber(r) = r.jobId
    BY <1>4 DEF OfNoJob, JobNumber, PackedTypes
  <2> HIDE DEF g
  <2> QED  BY <1>1, <1>4, <2>3, <2>4 DEF JobSaid, Named, g
<1>5. CASE r.type = "METRIC_LOG"
  <2>1. Named(g, NULL, NULL)
    BY <1>5, MetricUnnamed DEF EventMembers
  <2>2. OfNoJob(r)
    BY <1>5 DEF OfNoJob
  <2> HIDE DEF g
  <2> QED  BY <2>1, <2>2 DEF JobSaid, Named, g
<1>6. CASE r.type = "JOB_FINISH2"
  <2> DEFINE hosts == [exec_hosts |-> IF r.execHosts = NULL THEN NULL ELSE getJobExecHostsHashmapArray(r)]
  <2>1. g = putJobFinish2(r) \o <<hosts>>
    BY <1>6 DEF EventMembers
  <2>2. Quiet(hosts, NameKeys)
    BY DEF Quiet, NameKeys, JobKeys
  <2> HIDE DEF hosts
  <2>3. AllQuiet(<<hosts>>, NameKeys) /\ IsGroups(putJobFinish2(r))
    BY <2>2, QuietOne, Finish2Named DEF Packed
  <2>4. Packed(g, r.jobId, r.clusterName)
    BY <2>1, <2>3, Finish2Named, QuietAfter, NameKeysAre DEF Packed
  <2>5. ~OfNoJob(r)
    BY <1>6 DEF OfNoJob
  <2> QED  BY <1>6, <2>4, <2>5, PackedSaid
<1>7. CASE r.type = "JOB_STARTLIMIT"
  <2>1. Packed(g, r.jobId, r.clusterName)
    BY <1>7, StartLimitNamed DEF EventMembers
  <2>2. ~OfNoJob(r)
    BY <1>7 DEF OfNoJob
  <2> QED  BY <1>7, <2>1, <2>2, PackedSaid
<1> QED  BY <1>2, <1>3, <1>4, <1>5, <1>6, <1>7

LEMMA StatusSaid ==
    ASSUME NEW r \in Records, r.type = "JOB_STATUS2"
    PROVE  /\ JobSaid(StatusMembers(r), r)
           /\ Says(StatusMembers(r), "cluster_name") \in {NULL, r.clusterName, "-"}
<1>1. r.jobId \in Int
  BY NumbersAssumption
<1>2. OrDash(r.clusterName) \in {r.clusterName, "-"}
  BY DEF OrDash
<1>3. CASE r.jobId > 0
  <2>1. StatusMembers(r) = putJobStatus2(r) /\ ~OfNoJob(r)
    BY <1>1, <1>3 DEF StatusMembers, OfNoJob
  <2> QED  BY <2>1, <1>2, Status2Named, PackedSaid DEF Packed
<1>4. CASE r.jobId = 0
  <2>1. StatusMembers(r) = putJobStatus2Pend(r) /\ OfNoJob(r)
    BY <1>4 DEF StatusMembers, OfNoJob
  <2> QED  BY <2>1, <1>2, PendNamed DEF JobSaid
<1>5. CASE r.jobId < 0
  <2>1. StatusMembers(r) = <<>> /\ OfNoJob(r)
    BY <1>1, <1>5 DEF StatusMembers, OfNoJob
  <2>2. IsGroups(<<>>)
    <3>1. <<>> \in Seq({})
      OBVIOUS
    <3> QED  BY <3>1, IsGroupsBy
  <2>3. \A k : Says(<<>>, k) = NULL
    <3>1. \A k : \A i \in DOMAIN <<>> : At(<<>>[i], k) = NULL
      OBVIOUS
    <3> QED  BY <3>1, SaysNothing
  <2> QED  BY <2>1, <2>2, <2>3 DEF JobSaid
<1> QED  BY <1>1, <1>3, <1>4, <1>5

LEMMA NoNumberIsNull == NULL \notin Int /\ NULL # 0 /\ NULL # "text"
<1>1. NULL \notin Int  BY NumbersAssumption
<1>2. NULL # "text"  BY ConstantsAssumption
<1>3. 0 \in Int  OBVIOUS
<1> QED  BY <1>1, <1>2, <1>3

\* The type of the record comes first, the name of the cluster last; neither names the job.
LEMMA MembersSay ==
    ASSUME NEW which, which # "Status", NEW r, NEW name, IsGroups(EventMembers(r)),
           NEW k, k # "event_type"
    PROVE  /\ IsGroups(Members(which, r, name))
           /\ Says(Members(which, r, name), k) =
                IF k = "cluster_name" /\ name # NULL THEN name ELSE Says(EventMembers(r), k)
<1> DEFINE a == [event_type |-> r.type]
           e == EventMembers(r)
           b == [cluster_name |-> name]
<1>1. Members(which, r, name) = <<a>> \o (e \o <<b>>)
  BY DEF Members
<1>2. At(a, k) = NULL /\ At(b, k) = IF k = "cluster_name" THEN name ELSE NULL
  BY DEF At
<1> HIDE DEF a, b, e
<1>3. IsGroups(<<a>>) /\ IsGroups(<<b>>)
  BY OneGroup
<1>4. Says(<<a>>, k) = NULL /\ Says(<<b>>, k) = IF k = "cluster_name" THEN name ELSE NULL
  <2>1. \A x : Says(<<x>>, k) = At(x, k)
    <3>1. TAKE x
    <3>2. <<x>>[1] = x /\ 1 \in DOMAIN <<x>> /\ \A j \in DOMAIN <<x>> : j = 1
      OBVIOUS
    <3> DEFINE g == <<x>>
    <3>3. IsGroups(g)
      BY OneGroup
    <3> HIDE DEF g
    <3>4. Says(g, k) = At(g[1], k)
      BY <3>2, <3>3, SaysOnly DEF g
    <3> QED  BY <3>2, <3>4 DEF g
  <2> QED  BY <2>1, <1>2
<1>5. /\ IsGroups(e \o <<b>>)
      /\ Says(e \o <<b>>, k) = IF k = "cluster_name" /\ name # NULL THEN name ELSE Says(e, k)
  BY <1>3, <1>4, SaysConcat DEF e
<1> DEFINE t == e \o <<b>>
           h == <<a>>
<1> HIDE DEF t, h
<1>6. IsGroups(h \o t) /\ Says(h \o t, k) = Says(t, k)
  <2>1. IsGroups(h) /\ IsGroups(t) /\ Says(h, k) = NULL
    BY <1>3, <1>4, <1>5 DEF h, t
  <2> QED  BY <2>1, SaysConcat
<1> QED  BY <1>1, <1>5, <1>6 DEF h, t, e

LEMMA StatusMembersSay ==
    ASSUME NEW r, NEW name, IsGroups(StatusMembers(r)), NEW k, k # "event_type"
    PROVE  /\ IsGroups(Members("Status", r, name))
           /\ Says(Members("Status", r, name), k) = Says(StatusMembers(r), k)
<1> DEFINE a == [event_type |-> r.type]
           h == <<a>>
           t == StatusMembers(r)
           keys == {k}
<1>1. Members("Status", r, name) = h \o t
  BY DEF Members
<1>2. Quiet(a, keys) /\ k \in keys
  BY DEF Quiet
<1> HIDE DEF keys
<1>3. AllQuiet(h, keys)
  BY <1>2, QuietOne
<1> HIDE DEF h, t
<1>4. IsGroups(t)  BY DEF t
<1>5. IsGroups(h \o t) /\ Says(h \o t, k) = Says(t, k)
  BY <1>2, <1>3, <1>4, QuietBefore
<1> QED  BY <1>1, <1>5 DEF t

-----------------------------------------------------------------------------
\* The object is that of the record from where it is made to where it is a text.
Made ==
    /\ json = Json(Members(reader, rec, cluster))
    /\ rec.type \in Types(reader) /\ cluster \in {Cluster, NULL}

ObjectInv ==
    /\ pc # "returned" \/ calls > 0 => rec \in Records /\ reader \in Readers
    /\ pc # "returned" => calls > 0
    /\ pc \in {"init", "read", "type", "put"} => ret = NULL
    /\ pc \in {"init", "read", "type"} => object = "unset"
    /\ pc \in {"end", "text"} /\ object = "live" => Made
    /\ Done => calls > 0 /\ Made

LEMMA ObjectInit == Init => ObjectInv
BY NoNumberIsNull DEF Init, ObjectInv, Done

LEMMA ObjectStep == calls \in Nat /\ ObjectInv /\ [Next]_vars => calls' \in Nat /\ ObjectInv'
<1> SUFFICES ASSUME calls \in Nat, ObjectInv, [Next]_vars PROVE calls' \in Nat /\ ObjectInv'
    OBVIOUS
<1> USE NoNumberIsNull DEF ObjectInv, Done, Made, Return, Goto, input, memory
<1>1. CASE Call  BY <1>1 DEF Call
<1>2. CASE InitAgain \/ InitNoLibrary \/ InitLoads \/ InitScrewed
  BY <1>2 DEF InitAgain, InitNoLibrary, InitLoads, InitScrewed
<1>3. CASE ReadCrashes \/ ReadFails \/ ReadRecord
  BY <1>3 DEF ReadCrashes, ReadFails, ReadRecord
<1>4. CASE HasType  BY <1>4 DEF HasType
<1>5. CASE NoType  BY <1>5 DEF NoType
<1>6. CASE PutUnknown \/ PutCrashes  BY <1>6 DEF PutUnknown, PutCrashes
<1>7. CASE PutMembers  BY <1>7 DEF PutMembers
<1>8. CASE End  BY <1>8 DEF End
<1>9. CASE Finish  BY <1>9 DEF Finish
<1>10. CASE FinishUnset  BY <1>10 DEF FinishUnset
<1>11. CASE UNCHANGED vars  BY <1>11 DEF vars
<1> QED
  BY <1>1, <1>2, <1>3, <1>4, <1>5, <1>6, <1>7, <1>8, <1>9, <1>10, <1>11 DEF Next

LEMMA ObjectAlways == Spec => []ObjectInv
<1> DEFINE Inv == calls \in Nat /\ ObjectInv
<1>1. Init => Inv  BY ObjectInit DEF Init
<1>2. Inv /\ [Next]_vars => Inv'  BY ObjectStep
<1>3. Spec => []Inv  BY <1>1, <1>2, PTL DEF Spec
<1> QED  BY <1>3, PTL

LEMMA NewHas ==
    ASSUME NEW r, NEW k \in extraFields
    PROVE  Says(putJobNew(r), k) # NULL
<1> DEFINE times == Times(r, {"submit_time", "begin_time", "term_time"})
           hold == [job_status |-> IF r.hold THEN transformJstatus(JOB_STAT_PSUSP) ELSE NULL]
           limits == [resource_limit |-> putRLimitArray]
           copies == Copies(JobNewFields)
           t == <<Job(r), times, hold, limits, Cwd(r.subcwd, r.subHomeDir), JobName(r),
                  putXFStructure(r), putAskedhostlist(r), ArrayElements(r), copies>>
<1>1. putJobNew(r) = putJobHEAD(r) \o t
  BY DEF putJobNew
<1>2. At(JobName(r), "job_name") # NULL
  BY ConstantsAssumption DEF At, JobName
<1>3. k # "job_name" => At(copies, k) # NULL
  <2>1. k # "job_name" => k \in JobNewFields
    BY DEF extraFields, JobNewFields
  <2> QED  BY <2>1, ConstantsAssumption DEF At, Copies
<1> HIDE DEF times, hold, limits, copies
<1>4. /\ t \in Seq({Job(r), times, hold, limits, Cwd(r.subcwd, r.subHomeDir), JobName(r),
                  putXFStructure(r), putAskedhostlist(r), ArrayElements(r), copies})
      /\ 6 \in DOMAIN t /\ t[6] = JobName(r) /\ 10 \in DOMAIN t /\ t[10] = copies
  OBVIOUS
<1> HIDE DEF t
<1>5. IsGroups(t) /\ \E i \in DOMAIN t : At(t[i], k) # NULL
  BY <1>2, <1>3, <1>4, IsGroupsBy
<1>6. PICK i \in DOMAIN t : At(t[i], k) # NULL /\ \A j \in i + 1 .. Len(t) : At(t[j], k) = NULL
  BY <1>5, SomeLast
<1>7. Says(t, k) # NULL
  BY <1>5, <1>6, SaysLast
<1>8. IsGroups(putJobHEAD(r))
  BY NameHead DEF AllQuiet
<1> QED  BY <1>1, <1>5, <1>7, <1>8, SaysConcat

\* What JobSaid says of the groups holds of the object made of them.
LEMMA ObjectNamed ==
    ASSUME NEW r \in Records, NEW g, NEW o, JobSaid(g, r), o = Json(g)
    PROVE  /\ OfNoJob(r) <=> ~({"job_id", "job_arr_idx"} \subseteq DOMAIN o)
           /\ ~OfNoJob(r) =>
                 /\ o["job_arr_idx"] * LSB_ARRAY_BASE + o["job_id"] = JobNumber(r)
                 /\ r.type = "JOB_CHUNK" \/ o["job_id"] < LSB_ARRAY_BASE
<1>1. /\ "job_id" \in DOMAIN o <=> Says(g, "job_id") # NULL
      /\ "job_id" \in DOMAIN o => o["job_id"] = Says(g, "job_id")
      /\ "job_arr_idx" \in DOMAIN o <=> Says(g, "job_arr_idx") # NULL
      /\ "job_arr_idx" \in DOMAIN o => o["job_arr_idx"] = Says(g, "job_arr_idx")
  BY HasSays DEF JobSaid
<1>2. CASE OfNoJob(r)
  BY <1>1, <1>2 DEF JobSaid
<1>3. CASE ~OfNoJob(r)
  <2>1. "job_id" \in DOMAIN o /\ "job_arr_idx" \in DOMAIN o
    BY <1>1, <1>3, NoNumberIsNull DEF JobSaid
  <2>2. o["job_id"] = Says(g, "job_id") /\ o["job_arr_idx"] = Says(g, "job_arr_idx")
    BY <1>1, <2>1
  <2>3. /\ Says(g, "job_arr_idx") * LSB_ARRAY_BASE + Says(g, "job_id") = JobNumber(r)
        /\ r.type = "JOB_CHUNK" \/ Says(g, "job_id") < LSB_ARRAY_BASE
    BY <1>3 DEF JobSaid
  <2> QED  BY <1>3, <2>1, <2>2, <2>3
<1> QED  BY <1>2, <1>3

LEMMA MadeNamed ==
    ASSUME Made, rec \in Records, reader \in Readers
    PROVE  UidIsJob
<1> DEFINE g == Members(reader, rec, cluster)
<1>0. json = Json(g) /\ cluster \in {Cluster, NULL} /\ rec.type \in Types(reader)
  BY DEF Made
<1>1. CASE reader # "Status"
  <2>1. rec.type \in EventTypes
    BY <1>0, <1>1 DEF Types, Readers, EventTypes
  <2>2. /\ JobSaid(EventMembers(rec), rec)
        /\ \/ Says(EventMembers(rec), "cluster_name") = NULL
           \/ rec.type \in {"JOB_FINISH2", "JOB_STARTLIMIT"}
    BY <2>1, EventSaid
  <2>3. IsGroups(EventMembers(rec))
    BY <2>2 DEF JobSaid
  <2>4. /\ IsGroups(g)
        /\ \A k : k # "event_type" =>
              Says(g, k) = IF k = "cluster_name" /\ cluster # NULL THEN cluster
                           ELSE Says(EventMembers(rec), k)
    <3>1. IsGroups(g)
      BY <1>1, <2>3, MembersSay, "job_id" # "event_type"
    <3> QED  BY <3>1, <1>1, <2>3, MembersSay
  <2> HIDE DEF g
  <2>5. Says(g, "job_id") = Says(EventMembers(rec), "job_id")
        /\ Says(g, "job_arr_idx") = Says(EventMembers(rec), "job_arr_idx")
    BY <2>4
  <2>6. JobSaid(g, rec)
    BY <2>2, <2>4, <2>5 DEF JobSaid
  <2>7. IF cluster # NULL THEN json["cluster_name"] = Cluster
        ELSE rec.type \in {"JOB_FINISH2", "JOB_STARTLIMIT"} \/ ~Has({"cluster_name"})
    <3>1. CASE cluster # NULL
      <4>1. Says(g, "cluster_name") = Cluster /\ cluster = Cluster
        BY <1>0, <2>4, <3>1
      <4> QED  BY <4>1, <1>0, <2>4, <3>1, HasSays
    <3>2. CASE cluster = NULL
      <4>1. Says(g, "cluster_name") = Says(EventMembers(rec), "cluster_name")
        BY <2>4, <3>2
      <4> QED  BY <4>1, <1>0, <2>2, <2>4, <3>2, HasSays DEF Has
    <3> QED  BY <3>1, <3>2
  <2>8. ASSUME rec.type = "JOB_NEW" PROVE Has(extraFields)
    <3> SUFFICES ASSUME NEW k \in extraFields PROVE k \in DOMAIN json
      BY DEF Has
    <3>1. EventMembers(rec) = putJobNew(rec)
      BY <2>8 DEF EventMembers
    <3>2. k # "event_type" /\ k # "cluster_name"
      BY DEF extraFields
    <3>3. Says(g, k) # NULL
      BY <3>1, <3>2, <2>4, NewHas
    <3> QED  BY <3>3, <1>0, <2>4, HasSays
  <2>9. /\ OfNoJob(rec) <=> ~Has({"job_id", "job_arr_idx"})
        /\ ~OfNoJob(rec) =>
              /\ json["job_arr_idx"] * LSB_ARRAY_BASE + json["job_id"] = JobNumber(rec)
              /\ rec.type = "JOB_CHUNK" \/ json["job_id"] < LSB_ARRAY_BASE
    BY <1>0, <2>6, ObjectNamed DEF Has
  <2> QED  BY <1>1, <2>7, <2>8, <2>9 DEF UidIsJob
<1>2. CASE reader = "Status"
  <2>1. rec.type = "JOB_STATUS2"
    BY <1>0, <1>2 DEF Types
  <2>2. /\ JobSaid(StatusMembers(rec), rec)
        /\ Says(StatusMembers(rec), "cluster_name") \in {NULL, rec.clusterName, "-"}
    BY <2>1, StatusSaid
  <2>3. IsGroups(StatusMembers(rec))
    BY <2>2 DEF JobSaid
  <2>4. IsGroups(g) /\ \A k : k # "event_type" => Says(g, k) = Says(StatusMembers(rec), k)
    <3>1. IsGroups(g)
      BY <1>2, <2>3, StatusMembersSay, "job_id" # "event_type"
    <3> QED  BY <3>1, <1>2, <2>3, StatusMembersSay
  <2> HIDE DEF g
  <2>5. JobSaid(g, rec)
    <3>1. Says(g, "job_id") = Says(StatusMembers(rec), "job_id")
          /\ Says(g, "job_arr_idx") = Says(StatusMembers(rec), "job_arr_idx")
      BY <2>4
    <3> QED  BY <2>2, <2>4, <3>1 DEF JobSaid
  <2>6. Has({"cluster_name"}) => json["cluster_name"] \in {rec.clusterName, "-"}
    BY <1>0, <2>2, <2>4, HasSays DEF Has
  <2>7. /\ OfNoJob(rec) <=> ~Has({"job_id", "job_arr_idx"})
        /\ ~OfNoJob(rec) =>
              /\ json["job_arr_idx"] * LSB_ARRAY_BASE + json["job_id"] = JobNumber(rec)
              /\ rec.type = "JOB_CHUNK" \/ json["job_id"] < LSB_ARRAY_BASE
    BY <1>0, <2>5, ObjectNamed DEF Has
  <2> QED  BY <1>2, <2>1, <2>6, <2>7 DEF UidIsJob
<1> QED  BY <1>1, <1>2

\* For every record: the object names the job as LSF numbers it, whichever way its type
\* packs or splits the number and whoever names the cluster, and a record of no job names
\* none.
THEOREM NumbersKept == Spec => []UidIsJob
<1>1. ObjectInv => UidIsJob
  BY MadeNamed DEF ObjectInv, UidIsJob
<1> QED  BY <1>1, ObjectAlways, PTL

-----------------------------------------------------------------------------
(* Sums.                                                                    *)

\* The sums of a function over the subsets of a finite set, as SumFunction takes them: one element
\* after the other, chosen from those left.
Some(s) == CHOOSE x \in s : TRUE

Total(fun, S) ==
    CHOOSE g : g = [s \in SUBSET S |-> IF s = {} THEN 0 ELSE fun[Some(s)] + g[s \ {Some(s)}]]

LEMMA SumIsTotal == ASSUME NEW fun PROVE SumFunction(fun) = Total(fun, DOMAIN fun)[DOMAIN fun]
BY DEF SumFunction, SumFunctionOnSet, FoldFunctionOnSet, MapThenFoldSet, Total, Some

LEMMA SomeOf ==
    ASSUME NEW S, IsFiniteSet(S), NEW s \in SUBSET S, s # {}
    PROVE  /\ Some(s) \in s /\ s \ {Some(s)} \in SUBSET S
           /\ Cardinality(s) \in Nat \ {0}
           /\ Cardinality(s \ {Some(s)}) = Cardinality(s) - 1
<1>1. Some(s) \in s
  BY DEF Some
<1>2. IsFiniteSet(s) /\ Cardinality(s) \in Nat
  BY FS_Subset, FS_CardinalityType
<1>3. Cardinality(s) # 0
  BY <1>2, FS_EmptySet
<1>4. Cardinality(s \ {Some(s)}) = Cardinality(s) - 1
  BY <1>1, <1>2, FS_RemoveElement
<1> QED  BY <1>1, <1>2, <1>3, <1>4

LEMMA TotalIs ==
    ASSUME NEW fun, NEW S, IsFiniteSet(S)
    PROVE  \A s \in SUBSET S :
             Total(fun, S)[s] = IF s = {} THEN 0 ELSE fun[Some(s)] + Total(fun, S)[s \ {Some(s)}]
<1> DEFINE n == Cardinality(S)
           To(g, m) == /\ g = [s \in SUBSET S |-> g[s]]
                       /\ \A s \in SUBSET S : Cardinality(s) <= m =>
                             g[s] = IF s = {} THEN 0 ELSE fun[Some(s)] + g[s \ {Some(s)}]
           Bad == {m \in Nat : ~\E g : To(g, m)}
<1>0. \A s \in SUBSET S : IsFiniteSet(s) /\ Cardinality(s) \in Nat /\ Cardinality(s) <= n
  BY FS_Subset, FS_CardinalityType
<1>1. n \in Nat
  BY FS_CardinalityType
<1> HIDE DEF n
<1>2. Bad = {}
  <2> SUFFICES ASSUME Bad # {} PROVE FALSE
    OBVIOUS
  <2>1. PICK m \in Bad : \A k \in Bad : m <= k
    <3>1. Bad \subseteq Nat
      OBVIOUS
    <3> HIDE DEF Bad
    <3> QED  BY <3>1, LeastNat
  <2>2. m \in Nat /\ ~\E g : To(g, m)
    OBVIOUS
  <2>3. CASE m = 0
    <3> DEFINE g == [s \in SUBSET S |-> 0]
    <3>1. ASSUME NEW s \in SUBSET S, Cardinality(s) <= m PROVE s = {}
      <4>1. Cardinality(s) = 0
        BY <1>0, <2>3, <3>1
      <4> QED  BY <4>1, <1>0, FS_EmptySet
    <3>2. g = [s \in SUBSET S |-> g[s]]
      OBVIOUS
    <3>3. \A s \in SUBSET S : Cardinality(s) <= m =>
             g[s] = IF s = {} THEN 0 ELSE fun[Some(s)] + g[s \ {Some(s)}]
      BY <3>1
    <3> HIDE DEF g
    <3>4. To(g, m)
      BY <3>2, <3>3
    <3> HIDE DEF To
    <3> QED  BY <2>2, <3>4
  <2>4. CASE m # 0
    <3>1. m - 1 \in Nat /\ ~(m <= m - 1)
      BY <2>2, <2>4
    <3>2. PICK g : To(g, m - 1)
      <4> HIDE DEF To
      <4> QED  BY <2>1, <3>1
    <3> DEFINE new(s) == IF s = {} THEN 0 ELSE fun[Some(s)] + g[s \ {Some(s)}]
               h == [s \in SUBSET S |-> IF Cardinality(s) = m THEN new(s) ELSE g[s]]
    <3>3. h = [s \in SUBSET S |-> h[s]]
      OBVIOUS
    <3>4. \A s \in SUBSET S : h[s] = IF Cardinality(s) = m THEN new(s) ELSE g[s]
      OBVIOUS
    <3> HIDE DEF h
    <3>5. ASSUME NEW s \in SUBSET S, Cardinality(s) <= m
          PROVE  h[s] = IF s = {} THEN 0 ELSE fun[Some(s)] + h[s \ {Some(s)}]
      <4>1. Cardinality(s) \in Nat
        BY <1>0
      <4>2. h[s] = new(s)
        <5>1. CASE Cardinality(s) = m
          BY <3>4, <5>1
        <5>2. CASE Cardinality(s) # m
          <6>1. Cardinality(s) <= m - 1
            BY <2>2, <3>5, <4>1, <5>2
          <6>2. g[s] = new(s)
            BY <3>2, <6>1
          <6> QED  BY <3>4, <5>2, <6>2
        <5> QED  BY <5>1, <5>2
      <4>3. CASE s = {}
        BY <4>2, <4>3
      <4>4. CASE s # {}
        <5>1. s \ {Some(s)} \in SUBSET S /\ Cardinality(s \ {Some(s)}) = Cardinality(s) - 1
          BY <4>4, SomeOf
        <5>2. Cardinality(s \ {Some(s)}) # m
          BY <2>2, <3>5, <4>1, <5>1
        <5>3. h[s \ {Some(s)}] = g[s \ {Some(s)}]
          BY <3>4, <5>1, <5>2
        <5> QED  BY <4>2, <4>4, <5>3
      <4> QED  BY <4>3, <4>4
    <3>6. To(h, m)
      BY <3>3, <3>5
    <3> HIDE DEF To
    <3> QED  BY <2>2, <3>6
  <2> QED  BY <2>3, <2>4
<1>3. PICK g : To(g, n)
  <2>1. n \notin Bad
    BY <1>2
  <2> HIDE DEF To
  <2> QED  BY <1>1, <2>1
<1>4. g = [s \in SUBSET S |-> IF s = {} THEN 0 ELSE fun[Some(s)] + g[s \ {Some(s)}]]
  <2>1. \A s \in SUBSET S : g[s] = IF s = {} THEN 0 ELSE fun[Some(s)] + g[s \ {Some(s)}]
    BY <1>0, <1>3
  <2>2. g = [s \in SUBSET S |-> g[s]]
    BY <1>3
  <2> QED  BY <2>1, <2>2
<1>5. Total(fun, S) = [s \in SUBSET S |->
          IF s = {} THEN 0 ELSE fun[Some(s)] + Total(fun, S)[s \ {Some(s)}]]
  BY <1>4 DEF Total
<1> QED  BY <1>5

\* Induction over the subsets of a finite set, by their sizes.
LEMMA SmallestSubset ==
    ASSUME NEW S, IsFiniteSet(S), NEW Bad \in SUBSET SUBSET S, Bad # {}
    PROVE  \E s \in Bad : \A t \in Bad : Cardinality(s) <= Cardinality(t)
<1> DEFINE sizes == {Cardinality(s) : s \in Bad}
<1>1. \A s \in Bad : Cardinality(s) \in Nat
  BY FS_Subset, FS_CardinalityType
<1>2. sizes \in SUBSET Nat /\ sizes # {}
  BY <1>1
<1> HIDE DEF sizes
<1>3. PICK m \in sizes : \A n \in sizes : m <= n
  BY <1>2, LeastNat
<1>4. PICK s \in Bad : Cardinality(s) = m
  BY <1>3 DEF sizes
<1>5. \A t \in Bad : Cardinality(t) \in sizes
  BY DEF sizes
<1> QED  BY <1>3, <1>4, <1>5

\* A bound of the terms bounds the sum, which does not reach it when one term does not.
LEMMA SumBound ==
    ASSUME NEW fun, IsFiniteSet(DOMAIN fun), NEW size \in Nat,
           \A i \in DOMAIN fun : fun[i] \in Nat /\ fun[i] <= size
    PROVE  /\ SumFunction(fun) \in Nat
           /\ SumFunction(fun) <= Cardinality(DOMAIN fun) * size
           /\ (\E i \in DOMAIN fun : fun[i] < size) => SumFunction(fun) < Cardinality(DOMAIN fun) * size
<1> DEFINE S == DOMAIN fun
           T == Total(fun, S)
           Short(s) == \E i \in s : fun[i] < size
           Good(s) == /\ T[s] \in Nat
                      /\ T[s] <= Cardinality(s) * size
                      /\ Short(s) => T[s] < Cardinality(s) * size
           Bad == {s \in SUBSET S : ~Good(s)}
<1>1. \A s \in SUBSET S : T[s] = IF s = {} THEN 0 ELSE fun[Some(s)] + T[s \ {Some(s)}]
  BY TotalIs
<1>0. \A s \in SUBSET S : IsFiniteSet(s) /\ Cardinality(s) \in Nat
  BY FS_Subset, FS_CardinalityType
<1> HIDE DEF T, S
<1>2. Bad = {}
  <2> SUFFICES ASSUME Bad # {} PROVE FALSE
    OBVIOUS
  <2>1. PICK s \in Bad : \A t \in Bad : Cardinality(s) <= Cardinality(t)
    <3>1. Bad \in SUBSET SUBSET S
      OBVIOUS
    <3> HIDE DEF Bad
    <3> QED  BY <3>1, SmallestSubset DEF S
  <2>2. s \in SUBSET S /\ ~Good(s)
    OBVIOUS
  <2>3. s # {}
    <3>1. ASSUME s = {} PROVE FALSE
      <4>1. T[s] = 0 /\ ~Short(s)
        BY <1>1, <2>2, <3>1
      <4>2. Cardinality(s) * size \in Nat
        BY <1>0, <2>2
      <4> QED  BY <4>1, <4>2, <2>2
    <3> QED  BY <3>1
  <2> DEFINE x == Some(s)
             t == s \ {x}
             c == Cardinality(t)
             p == c * size
  <2>4. x \in s /\ x \in S /\ t \in SUBSET S /\ Cardinality(s) \in Nat \ {0} /\ c = Cardinality(s) - 1
    BY <2>2, <2>3, SomeOf DEF S
  <2>5. fun[x] \in Nat /\ fun[x] <= size
    BY <2>4 DEF S
  <2>6. T[s] = fun[x] + T[t]
    BY <1>1, <2>2, <2>3
  <2>7. Short(s) => fun[x] < size \/ Short(t)
    OBVIOUS
  <2> HIDE DEF x, t, c, Short
  <2>8. Good(t)
    <3>1. ~(Cardinality(s) <= c)
      BY <2>4
    <3>2. t \notin Bad
      BY <2>1, <3>1 DEF c
    <3> QED  BY <2>4, <3>2
  <2>9. c \in Nat /\ Cardinality(s) = c + 1
    BY <2>4
  <2>10. Cardinality(s) * size = p + size /\ p \in Nat
    BY <2>9
  <2>11. T[t] \in Nat /\ T[t] <= p /\ (Short(t) => T[t] < p)
    BY <2>8 DEF c
  <2> HIDE DEF p
  <2>12. fun[x] + T[t] \in Nat /\ fun[x] + T[t] <= p + size
    BY <2>5, <2>10, <2>11
  <2>13. Short(s) => fun[x] + T[t] < p + size
    BY <2>5, <2>7, <2>10, <2>11
  <2> QED  BY <2>2, <2>6, <2>10, <2>12, <2>13
<1>3. Good(S)
  <2>1. S \in SUBSET S
    OBVIOUS
  <2> HIDE DEF Good
  <2> QED  BY <1>2, <2>1
<1>4. SumFunction(fun) = T[S]
  BY SumIsTotal DEF T, S
<1> QED  BY <1>3, <1>4 DEF S

\* A list in its buffer: its entries fit, and leave a byte for the NUL.
LEMMA ListFits ==
    ASSUME NEW lens, NEW most \in Nat, AtMost(lens, most), NEW extra \in Nat, NEW size \in Nat,
           most + extra <= size, ListText(lens, extra, size) # NULL,
           most + extra < size \/ \E i \in DOMAIN lens : lens[i] < most
    PROVE  ListText(lens, extra, size).used <= ListText(lens, extra, size).size
<1> DEFINE fun == [i \in DOMAIN lens |-> lens[i] + extra]
           n == Len(lens)
<1>1. lens # <<>> /\ lens \in Seq(Nat)
  BY DEF ListText, AtMost
<1>2. n \in Nat /\ DOMAIN lens = 1 .. n /\ n # 0 /\ DOMAIN fun = DOMAIN lens
  BY <1>1
<1>3. IsFiniteSet(DOMAIN fun) /\ Cardinality(DOMAIN fun) = n
  <2> HIDE DEF fun, n
  <2>1. 1 \in Int /\ n \in Int /\ ~(1 > n) /\ n - 1 + 1 = n
    BY <1>2
  <2>2. IsFiniteSet(1 .. n) /\ Cardinality(1 .. n) = n
    BY <2>1, FS_Interval
  <2> QED  BY <1>2, <2>2
<1>4. \A i \in DOMAIN fun : fun[i] \in Nat /\ fun[i] <= size
  BY <1>1 DEF AtMost
<1>5. ListText(lens, extra, size) = Text(SumFunction(fun) + 1, n * size)
  BY <1>1 DEF ListText, Listing
<1>6. \E i \in DOMAIN fun : fun[i] < size
  <2>1. \A i \in DOMAIN lens : lens[i] \in Nat /\ lens[i] <= most
    BY <1>1 DEF AtMost
  <2>2. 1 \in DOMAIN lens
    BY <1>2
  <2>3. CASE most + extra < size
    <3>1. fun[1] < size
      BY <2>1, <2>2, <2>3
    <3> QED  BY <2>2, <3>1, <1>2
  <2>4. CASE \E i \in DOMAIN lens : lens[i] < most
    BY <2>1, <2>4, <1>2
  <2> QED  BY <2>3, <2>4
<1> HIDE DEF fun, n
<1>7. SumFunction(fun) \in Nat /\ SumFunction(fun) < n * size
  BY <1>3, <1>4, <1>6, SumBound
<1>8. n * size \in Nat
  BY <1>2
<1> DEFINE p == n * size
           q == SumFunction(fun)
<1> HIDE DEF p, q
<1>9. q + 1 <= p
  BY <1>7, <1>8 DEF p, q
<1> QED  BY <1>5, <1>9 DEF Text, p, q

\* The list of a chunk's ids: without one shorter than 15 digits, the NUL is left over.
MemberLen(r) == MemberList(r.membDigits).used
MemberRoom(r) == MemberList(r.membDigits).size + (IF FullMembers(r) THEN 1 ELSE 0)

LEMMA MembersNearlyFit ==
    ASSUME NEW r \in Records
    PROVE  MemberLen(r) <= MemberRoom(r)
<1> DEFINE lens == r.membDigits
           fun == [i \in DOMAIN lens |-> lens[i] + 1]
           n == Len(lens)
<1>1. lens \in Seq(Nat) /\ \A i \in DOMAIN lens : lens[i] <= 15
  BY LengthsAssumption DEF AtMost
<1>2. n \in Nat /\ DOMAIN lens = 1 .. n /\ DOMAIN fun = DOMAIN lens
  BY <1>1
<1>3. IsFiniteSet(DOMAIN fun) /\ Cardinality(DOMAIN fun) = n
  <2> HIDE DEF fun, n
  <2>1. 1 \in Int /\ n \in Int /\ n - 1 + 1 = n /\ (1 > n => n = 0)
    BY <1>2
  <2>2. IsFiniteSet(1 .. n) /\ Cardinality(1 .. n) = IF 1 > n THEN 0 ELSE n - 1 + 1
    BY <2>1, FS_Interval
  <2> QED  BY <1>2, <2>1, <2>2
<1>4. \A i \in DOMAIN fun : fun[i] \in Nat /\ fun[i] <= 16 /\ (lens[i] # 15 => fun[i] < 16)
  BY <1>1
<1>5. MemberList(lens) = Text(SumFunction(fun) + 1, n * 16)
  BY DEF MemberList, Listing
<1>6. ~FullMembers(r) => \E i \in DOMAIN fun : fun[i] < 16
  BY <1>2, <1>4 DEF FullMembers
<1> HIDE DEF fun, n, lens
<1> DEFINE p == n * 16
           q == SumFunction(fun)
<1>7. q \in Nat /\ q <= p /\ (~FullMembers(r) => q < p)
  <2>1. 16 \in Nat
    OBVIOUS
  <2> QED  BY <1>3, <1>4, <1>6, <2>1, SumBound
<1>8. p \in Nat
  BY <1>2
<1> HIDE DEF p, q
<1>9. q + 1 <= p + (IF FullMembers(r) THEN 1 ELSE 0)
  BY <1>7, <1>8
<1>10. MemberLen(r) = q + 1 /\ MemberRoom(r) = p + (IF FullMembers(r) THEN 1 ELSE 0)
  BY <1>5 DEF MemberLen, MemberRoom, Text, p, q, lens
<1> QED  BY <1>9, <1>10

-----------------------------------------------------------------------------
(* The texts of lists.                                                      *)

InBuffer(b) == b = NULL \/ b.used <= b.size

ListKeys ==
    {"asked_hosts", "reserve_hosts", "xfer_files", "memb_job_id", "run_rusage", "exec_hosts_list",
     "exec_hosts", "num_exec_hosts", "num_processors"}

\* The types with a table of hosts by name.
HostTypes == {"JOB_START", "PRE_EXEC_START", "JOB_CHUNK", "JOB_FORCE", "JOB_FINISH"}

\* What a member of the object of a record may be, if it is there.
RightAt(r, k, v) ==
    \/ v = NULL
    \/ CASE k = "exec_hosts_list" ->
                /\ r.type = "JOB_FINISH" /\ r.execHosts # NULL
                /\ v = getExecHostsStr(r.execHosts)
         [] k = "exec_hosts" ->
                /\ r.execHosts # NULL /\ r.type \in HostTypes \cup {"JOB_FINISH2"}
                /\ v = IF r.type = "JOB_FINISH2" THEN getJobExecHostsHashmapArray(r)
                       ELSE getExecHostsHashmapArray(r.execHosts)
         [] k = "num_exec_hosts" -> r.execHosts # NULL => v = Len(r.execHosts)
         [] k = "num_processors" -> r.type = "JOB_FINISH2" => v = getNumExecProc(r)
         [] k = "run_rusage" -> InBuffer(v.pid_info) /\ InBuffer(v.pgids)
         [] k = "memb_job_id" -> v = MemberList(r.membDigits)
         [] OTHER -> InBuffer(v)

Right(r, m) == \A k \in ListKeys : RightAt(r, k, At(m, k))

AllRight(r, g) == IsGroups(g) /\ \A i \in DOMAIN g : Right(r, g[i])

LEMMA RightSays ==
    ASSUME NEW r, NEW g, AllRight(r, g), NEW k \in ListKeys
    PROVE  RightAt(r, k, Says(g, k))
<1>1. CASE \A i \in DOMAIN g : At(g[i], k) = NULL
  BY <1>1, SaysNothing DEF RightAt
<1>2. CASE \E i \in DOMAIN g : At(g[i], k) # NULL
  <2>1. PICK i \in DOMAIN g : At(g[i], k) # NULL /\ \A j \in i + 1 .. Len(g) : At(g[j], k) = NULL
    BY <1>2, SomeLast DEF AllRight
  <2>2. Says(g, k) = At(g[i], k)
    BY <2>1, SaysLast DEF AllRight
  <2> QED  BY <2>2 DEF AllRight, Right
<1> QED  BY <1>1, <1>2

LEMMA RightConcat ==
    ASSUME NEW r, NEW a, AllRight(r, a), NEW b, AllRight(r, b)
    PROVE  AllRight(r, a \o b)
<1> DEFINE g == a \o b
<1>1. PICK T : a \in Seq(T) /\ b \in Seq(T)
  <2>1. PICK A : a \in Seq(A)  BY DEF AllRight, IsGroups
  <2>2. PICK B : b \in Seq(B)  BY DEF AllRight, IsGroups
  <2>3. a \in Seq(A \cup B) /\ b \in Seq(A \cup B)
    BY <2>1, <2>2
  <2> QED  BY <2>3
<1>2. /\ g \in Seq(T) /\ Len(g) = Len(a) + Len(b) /\ DOMAIN g = 1 .. Len(g)
      /\ \A i \in 1 .. Len(a) : g[i] = a[i]
      /\ \A i \in 1 .. Len(b) : g[Len(a) + i] = b[i]
  BY <1>1
<1>3. /\ DOMAIN a = 1 .. Len(a) /\ Len(a) \in Nat
      /\ DOMAIN b = 1 .. Len(b) /\ Len(b) \in Nat
  BY <1>1
<1> HIDE DEF g
<1>4. ASSUME NEW i \in DOMAIN g PROVE Right(r, g[i])
  <2>1. CASE i <= Len(a)
    <3>1. i \in 1 .. Len(a)
      BY <2>1, <1>2, <1>3
    <3> QED  BY <3>1, <1>2, <1>3 DEF AllRight
  <2>2. CASE ~(i <= Len(a))
    <3>1. i - Len(a) \in 1 .. Len(b) /\ i = Len(a) + (i - Len(a))
      BY <2>2, <1>2, <1>3
    <3>2. g[i] = b[i - Len(a)]
      BY <3>1, <1>2
    <3> QED  BY <3>1, <3>2, <1>3 DEF AllRight
  <2> QED  BY <2>1, <2>2
<1> QED  BY <1>2, <1>4, IsGroupsBy DEF AllRight, g

LEMMA RightQuiet == ASSUME NEW r, NEW m, Quiet(m, ListKeys) PROVE Right(r, m)
BY QuietAt DEF Right, RightAt

LEMMA RightCopies == ASSUME NEW r, NEW S, S \cap ListKeys = {} PROVE Right(r, Copies(S))
BY QuietCopies, RightQuiet

LEMMA Right1 ==
    ASSUME NEW r, NEW a, Right(r, a)
    PROVE  AllRight(r, <<a>>)
<1> DEFINE t == <<a>>
<1>1. t \in Seq({a}) /\ \A x \in DOMAIN t : Right(r, t[x])
  OBVIOUS
<1> HIDE DEF t
<1> QED  BY <1>1, IsGroupsBy DEF AllRight, t

LEMMA Right2 ==
    ASSUME NEW r, NEW a, Right(r, a), NEW b, Right(r, b)
    PROVE  AllRight(r, <<a, b>>)
<1> DEFINE t == <<a, b>>
<1>1. t \in Seq({a, b}) /\ \A x \in DOMAIN t : Right(r, t[x])
  OBVIOUS
<1> HIDE DEF t
<1> QED  BY <1>1, IsGroupsBy DEF AllRight, t

LEMMA Right3 ==
    ASSUME NEW r, NEW a, Right(r, a), NEW b, Right(r, b), NEW c, Right(r, c)
    PROVE  AllRight(r, <<a, b, c>>)
<1> DEFINE t == <<a, b, c>>
<1>1. t \in Seq({a, b, c}) /\ \A x \in DOMAIN t : Right(r, t[x])
  OBVIOUS
<1> HIDE DEF t
<1> QED  BY <1>1, IsGroupsBy DEF AllRight, t

LEMMA Right4 ==
    ASSUME NEW r, NEW a, Right(r, a), NEW b, Right(r, b), NEW c, Right(r, c), NEW d, Right(r, d)
    PROVE  AllRight(r, <<a, b, c, d>>)
<1> DEFINE t == <<a, b, c, d>>
<1>1. t \in Seq({a, b, c, d}) /\ \A x \in DOMAIN t : Right(r, t[x])
  OBVIOUS
<1> HIDE DEF t
<1> QED  BY <1>1, IsGroupsBy DEF AllRight, t

LEMMA Right6 ==
    ASSUME NEW r, NEW a, Right(r, a), NEW b, Right(r, b), NEW c, Right(r, c),
           NEW d, Right(r, d), NEW e, Right(r, e),
           NEW f, Right(r, f)
    PROVE  AllRight(r, <<a, b, c, d, e, f>>)
<1> DEFINE t == <<a, b, c, d, e, f>>
<1>1. t \in Seq({a, b, c, d, e, f}) /\ \A x \in DOMAIN t : Right(r, t[x])
  OBVIOUS
<1> HIDE DEF t
<1> QED  BY <1>1, IsGroupsBy DEF AllRight, t

LEMMA Right8 ==
    ASSUME NEW r, NEW a, Right(r, a), NEW b, Right(r, b), NEW c, Right(r, c),
           NEW d, Right(r, d), NEW e, Right(r, e),
           NEW f, Right(r, f), NEW g, Right(r, g), NEW i, Right(r, i)
    PROVE  AllRight(r, <<a, b, c, d, e, f, g, i>>)
<1> DEFINE t == <<a, b, c, d, e, f, g, i>>
<1>1. t \in Seq({a, b, c, d, e, f, g, i}) /\ \A x \in DOMAIN t : Right(r, t[x])
  OBVIOUS
<1> HIDE DEF t
<1> QED  BY <1>1, IsGroupsBy DEF AllRight, t

LEMMA Right10 ==
    ASSUME NEW r, NEW a, Right(r, a), NEW b, Right(r, b), NEW c, Right(r, c),
           NEW d, Right(r, d), NEW e, Right(r, e),
           NEW f, Right(r, f), NEW g, Right(r, g), NEW i, Right(r, i), NEW j, Right(r, j),
           NEW k, Right(r, k)
    PROVE  AllRight(r, <<a, b, c, d, e, f, g, i, j, k>>)
<1> DEFINE t == <<a, b, c, d, e, f, g, i, j, k>>
<1>1. t \in Seq({a, b, c, d, e, f, g, i, j, k}) /\ \A x \in DOMAIN t : Right(r, t[x])
  OBVIOUS
<1> HIDE DEF t
<1> QED  BY <1>1, IsGroupsBy DEF AllRight, t

LEMMA RightHead == ASSUME NEW r PROVE AllRight(r, putJobHEAD(r)) /\ AllRight(r, Epoch(r))
<1>1. AllQuiet(putJobHEAD(r), ListKeys) /\ AllQuiet(Epoch(r), ListKeys)
  BY HeadQuiet DEF ListKeys, HeadKeys
<1> QED  BY <1>1, RightQuiet DEF AllQuiet, AllRight

\* The groups without a list.
LEMMA RightGroups ==
    ASSUME NEW r
    PROVE  /\ Right(r, Job(r)) /\ Right(r, PackedJob(r)) /\ Right(r, JobStatus(r))
           /\ Right(r, JobName(r))
           /\ Right(r, ArrayElements(r)) /\ Right(r, Statistics(r)) /\ Right(r, putLsfRusage)
<1>1. /\ Quiet(Job(r), ListKeys) /\ Quiet(PackedJob(r), ListKeys)
      /\ Quiet(JobStatus(r), ListKeys) /\ Quiet(JobName(r), ListKeys)
      /\ Quiet(ArrayElements(r), ListKeys) /\ Quiet(Statistics(r), ListKeys)
  BY GroupKeys DEF Quiet, ListKeys
<1>2. Quiet(putLsfRusage, ListKeys)
  BY RusageKeys DEF Quiet, ListKeys
<1> QED  BY <1>1, <1>2, RightQuiet

\* The groups that tell of the hosts.
LEMMA RightHosts ==
    ASSUME NEW r
    PROVE  /\ Right(r, NumExecHosts(r.execHosts))
           /\ r.type # "JOB_FINISH2" => Right(r, NumProcessors(r.execHosts))
           /\ r.type \in HostTypes => Right(r, ExecHosts(r.execHosts))
<1>1. Right(r, NumExecHosts(r.execHosts))
  BY DEF NumExecHosts, Right, RightAt, At, ListKeys
<1>2. ASSUME r.type # "JOB_FINISH2" PROVE Right(r, NumProcessors(r.execHosts))
  <2>1. DOMAIN NumProcessors(r.execHosts) \subseteq {"num_processors"}
    BY HostKeys
  <2> QED  BY <1>2, <2>1 DEF Right, RightAt, At, ListKeys
<1>3. ASSUME r.type \in HostTypes PROVE Right(r, ExecHosts(r.execHosts))
  <2> DEFINE v == getExecHostsHashmapArray(r.execHosts)
             x == [exec_hosts |-> v]
  <2>1. ExecHosts(r.execHosts) = x
    BY DEF ExecHosts
  <2>2. v = NULL \/ r.execHosts # NULL
    BY DEF getExecHostsHashmapArray
  <2> HIDE DEF v
  <2>3. DOMAIN x = {"exec_hosts"} /\ x["exec_hosts"] = v
    OBVIOUS
  <2> HIDE DEF x
  <2>4. RightAt(r, "exec_hosts", v)
    BY <1>3, <2>2 DEF RightAt, HostTypes, v
  <2> QED  BY <2>1, <2>3, <2>4 DEF Right, RightAt, At, ListKeys
<1> QED  BY <1>1, <1>2, <1>3

LEMMA RightTimes == ASSUME NEW r, NEW S \in SUBSET TimeKeys PROVE Right(r, Times(r, S))
<1>1. ListKeys \cap (TimeKeys \cup TimeStrs) = {}
  BY DEF ListKeys, TimeKeys, TimeStrs
<1> QED  BY <1>1, QuietTimes, RightQuiet

LEMMA RightCwd == ASSUME NEW r, NEW dir, NEW home PROVE Right(r, Cwd(dir, home)) /\ Right(r, <<>>)
<1>1. Quiet(Cwd(dir, home), ListKeys) /\ Quiet(<<>>, ListKeys)
  BY CwdKeys DEF Quiet, ListKeys
<1> QED  BY <1>1, RightQuiet

\* The lists.
LEMMA TextsFit ==
    ASSUME NEW r \in Records
    PROVE  /\ InBuffer(HostList(r.askedHosts)) /\ InBuffer(HostList(r.reserHosts))
           /\ InBuffer(FileList(r.xf))
           /\ InBuffer(PidList(r.pidDigits)) /\ InBuffer(PgidList(r.pgidDigits))
<1> USE LengthsAssumption, ListFits DEF InBuffer
<1>1. InBuffer(HostList(r.askedHosts)) /\ InBuffer(HostList(r.reserHosts))
  BY DEF HostList
<1>2. InBuffer(FileList(r.xf))
  BY DEF FileList
<1>3. InBuffer(PidList(r.pidDigits))
  BY DEF PidList
<1>4. InBuffer(PgidList(r.pgidDigits))
  BY DEF PgidList
<1> QED  BY <1>1, <1>2, <1>3, <1>4

LEMMA RightLists ==
    ASSUME NEW r \in Records
    PROVE  /\ Right(r, putAskedhostlist(r)) /\ Right(r, putReservhostlist(r))
           /\ Right(r, putXFStructure(r))
           /\ Right(r, [memb_size |-> Len(r.membDigits), memb_job_id |-> MemberList(r.membDigits)])
           /\ Right(r, putJRusage(r))
<1> USE DEF Right, RightAt, At, ListKeys
<1>1. Right(r, putAskedhostlist(r))
  BY TextsFit DEF putAskedhostlist
<1>2. Right(r, putReservhostlist(r))
  BY TextsFit DEF putReservhostlist
<1>3. Right(r, putXFStructure(r))
  BY TextsFit DEF putXFStructure
<1>4. Right(r, [memb_size |-> Len(r.membDigits), memb_job_id |-> MemberList(r.membDigits)])
  OBVIOUS
<1>5. Right(r, putJRusage(r))
  BY TextsFit DEF putJRusage
<1> QED  BY <1>1, <1>2, <1>3, <1>4, <1>5

\* What the names of hosts take: a number, and one byte more for the NUL.
LEMMA SumNat ==
    ASSUME NEW fun, IsFiniteSet(DOMAIN fun), \A i \in DOMAIN fun : fun[i] \in Nat
    PROVE  SumFunction(fun) \in Nat
<1> DEFINE S == DOMAIN fun
           T == Total(fun, S)
           Bad == {s \in SUBSET S : T[s] \notin Nat}
<1>1. \A s \in SUBSET S : T[s] = IF s = {} THEN 0 ELSE fun[Some(s)] + T[s \ {Some(s)}]
  BY TotalIs
<1> HIDE DEF T, S
<1>2. Bad = {}
  <2> SUFFICES ASSUME Bad # {} PROVE FALSE
    OBVIOUS
  <2>1. PICK s \in Bad : \A t \in Bad : Cardinality(s) <= Cardinality(t)
    <3>1. Bad \in SUBSET SUBSET S
      OBVIOUS
    <3> HIDE DEF Bad
    <3> QED  BY <3>1, SmallestSubset DEF S
  <2>2. s \in SUBSET S /\ T[s] \notin Nat
    OBVIOUS
  <2>3. s # {}
    <3>1. ASSUME s = {} PROVE FALSE
      <4>1. T[s] = 0
        BY <1>1, <2>2, <3>1
      <4> QED  BY <4>1, <2>2
    <3> QED  BY <3>1
  <2> DEFINE x == Some(s)
             t == s \ {x}
  <2>4. /\ x \in s /\ x \in S /\ t \in SUBSET S
        /\ Cardinality(s) \in Nat \ {0} /\ Cardinality(t) = Cardinality(s) - 1
    BY <2>2, <2>3, SomeOf DEF S
  <2>5. T[s] = fun[x] + T[t]
    BY <1>1, <2>2, <2>3
  <2> HIDE DEF x, t
  <2>6. fun[x] \in Nat
    BY <2>4 DEF S
  <2>7. ~(Cardinality(s) <= Cardinality(t))
    BY <2>4
  <2>8. T[t] \in Nat
    BY <2>1, <2>4, <2>7
  <2> QED  BY <2>2, <2>5, <2>6, <2>8
<1>3. S \in SUBSET S
  OBVIOUS
<1>4. T[S] \in Nat
  BY <1>2, <1>3
<1> QED  BY <1>4, SumIsTotal DEF T, S

LEMMA SeqFinite ==
    ASSUME NEW T, NEW s \in Seq(T)
    PROVE  /\ IsFiniteSet(DOMAIN s) /\ Cardinality(DOMAIN s) = Len(s)
           /\ IsFiniteSet(Range(s)) /\ Cardinality(Range(s)) <= Len(s)
<1> DEFINE n == Len(s)
<1>1. n \in Nat /\ DOMAIN s = 1 .. n
  OBVIOUS
<1>2. IsFiniteSet(1 .. n) /\ Cardinality(1 .. n) = n
  <2> HIDE DEF n
  <2>1. 1 \in Int /\ n \in Int
    BY <1>1
  <2>2. IsFiniteSet(1 .. n) /\ Cardinality(1 .. n) = IF 1 > n THEN 0 ELSE n - 1 + 1
    BY <2>1, FS_Interval
  <2>3. (IF 1 > n THEN 0 ELSE n - 1 + 1) = n
    BY <1>1
  <2> QED  BY <2>2, <2>3
<1>3. s \in Surjection(1 .. n, Range(s))
  <2>1. s \in [1 .. n -> Range(s)]
    BY <1>1 DEF Range
  <2>2. \A t \in Range(s) : \E i \in 1 .. n : s[i] = t
    BY <1>1 DEF Range
  <2> QED  BY <2>1, <2>2 DEF Surjection
<1> HIDE DEF n
<1>4. IsFiniteSet(Range(s)) /\ Cardinality(Range(s)) <= Cardinality(1 .. n)
  BY <1>2, <1>3, FS_Surjection
<1> QED  BY <1>1, <1>2, <1>4 DEF n

LEMMA OccurrencesNat ==
    ASSUME NEW T, NEW hosts \in Seq(T), NEW name
    PROVE  Occurrences(hosts, name) \in Nat
<1>1. {i \in DOMAIN hosts : hosts[i] = name} \in SUBSET DOMAIN hosts
  OBVIOUS
<1>2. IsFiniteSet({i \in DOMAIN hosts : hosts[i] = name})
  BY <1>1, SeqFinite, FS_Subset
<1> QED  BY <1>2, FS_CardinalityType DEF Occurrences

LEMMA RangeIn == ASSUME NEW T, NEW s \in Seq(T), NEW x \in Range(s) PROVE x \in T
BY DEF Range

LEMMA HostsTextFits ==
    ASSUME NEW r \in Records, r.type = "JOB_FINISH", r.execHosts # NULL
    PROVE  InBuffer(getExecHostsStr(r.execHosts).text)
<1> DEFINE hosts == r.execHosts
           fun == [name \in Range(hosts) |-> Entry(hosts, name)]
           total == SumFunction(fun)
<1>1. hosts \in Seq([times : Nat, host : Seq(STRING)])
  BY HostsAssumption
<1>2. \A name \in Range(hosts) : Entry(hosts, name) \in Nat
  <2> SUFFICES ASSUME NEW name \in Range(hosts) PROVE Entry(hosts, name) \in Nat
    OBVIOUS
  <2>1. name.times \in Nat /\ Len(name.host) \in Nat
    <3>1. name \in [times : Nat, host : Seq(STRING)]
      BY <1>1, RangeIn
    <3>2. name.times \in Nat /\ name.host \in Seq(STRING)
      BY <3>1
    <3> QED  BY <3>2
  <2>2. Occurrences(hosts, name) \in Nat
    BY <1>1, OccurrencesNat
  <2>4. \A n : Digits(n) \in Nat
    BY DEF Digits
  <2>3. NameLen(name) \in Nat
    BY <2>1, <2>4 DEF NameLen
  <2> HIDE DEF hosts
  <2> QED  BY <2>2, <2>3, <2>4 DEF Entry
<1>3. IsFiniteSet(DOMAIN fun)
  BY <1>1, SeqFinite
<1> HIDE DEF hosts
<1>4. \A i \in DOMAIN fun : fun[i] \in Nat
  BY <1>2
<1> HIDE DEF fun
<1>5. total \in Nat
  BY <1>3, <1>4, SumNat
<1>6. getExecHostsStr(hosts).text = Text(total + 1, total + 1)
  BY DEF getExecHostsStr, fun
<1> HIDE DEF total
<1>7. total + 1 <= total + 1
  BY <1>5
<1> QED  BY <1>6, <1>7 DEF InBuffer, Text, hosts

\* A head, then groups.
LEMMA AfterHead ==
    ASSUME NEW r, NEW t, AllRight(r, t)
    PROVE  AllRight(r, putJobHEAD(r) \o t) /\ AllRight(r, Epoch(r) \o t)
BY RightHead, RightConcat

LEMMA ControlRight ==
    ASSUME NEW r \in Records
    PROVE  /\ AllRight(r, putJobSwitch(r)) /\ AllRight(r, putJobMove(r))
           /\ AllRight(r, putUnfulfillLog(r))
           /\ AllRight(r, putMig(r)) /\ AllRight(r, putJobSignal(r))
           /\ AllRight(r, putJobForward(r))
           /\ AllRight(r, putJobAccept(r)) /\ AllRight(r, putJobRequeue(r))
           /\ AllRight(r, putJobClean(r))
           /\ AllRight(r, putJobException(r)) /\ AllRight(r, putJobExtMsg(r))
<1>0. /\ Right(r, Job(r)) /\ Right(r, putAskedhostlist(r)) /\ Right(r, putReservhostlist(r))
      /\ \A S : S \cap ListKeys = {} => Right(r, Copies(S))
  BY RightGroups, RightHosts, RightLists, RightCopies
<1> USE <1>0, AfterHead DEF ListKeys
<1>1. AllRight(r, putJobSwitch(r))  BY Right2 DEF putJobSwitch
<1>2. AllRight(r, putJobMove(r))  BY Right2 DEF putJobMove
<1>3. AllRight(r, putUnfulfillLog(r))  BY Right2 DEF putUnfulfillLog
<1>4. AllRight(r, putMig(r))  BY Right3 DEF putMig
<1>5. AllRight(r, putJobSignal(r))  BY Right2 DEF putJobSignal
<1>6. AllRight(r, putJobForward(r))  BY Right3 DEF putJobForward
<1>7. AllRight(r, putJobAccept(r))  BY Right2 DEF putJobAccept
<1>8. AllRight(r, putJobRequeue(r))  BY Right1 DEF putJobRequeue
<1>9. AllRight(r, putJobClean(r))  BY Right1 DEF putJobClean
<1>10. AllRight(r, putJobException(r))  BY Right2 DEF putJobException
<1>11. AllRight(r, putJobExtMsg(r))  BY Right2 DEF putJobExtMsg
<1> QED  BY <1>1, <1>2, <1>3, <1>4, <1>5, <1>6, <1>7, <1>8, <1>9, <1>10, <1>11

LEMMA RunRight ==
    ASSUME NEW r \in Records, r.type # "JOB_FINISH2"
    PROVE  /\ AllRight(r, putJobStart(r)) /\ AllRight(r, putJobStartAccept(r))
           /\ AllRight(r, putJobExecute(r))
           /\ AllRight(r, putJobForce(r)) /\ AllRight(r, putRunRusage(r))
           /\ AllRight(r, putJobStatus(r))
           /\ AllRight(r, putSBDUnreportedStatus(r)) /\ AllRight(r, putJobSigact(r))
           /\ AllRight(r, putJobChunk(r))
<1>0. /\ Right(r, Job(r)) /\ Right(r, JobStatus(r)) /\ Right(r, putJRusage(r))
      /\ Right(r, putLsfRusage)
      /\ Right(r, NumExecHosts(r.execHosts)) /\ Right(r, NumProcessors(r.execHosts))
      /\ \A S : S \cap ListKeys = {} => Right(r, Copies(S))
  BY RightGroups, RightHosts, RightLists, RightCopies
<1>1. Right(r, Times(r, {"end_time"}))
  BY RightTimes DEF TimeKeys
<1>2. Right(r, [start_time |-> r.eventTime, start_time_str |-> timeConvert(r.eventTime)])
  BY RightQuiet DEF Quiet, ListKeys
<1>3. Right(r, [start_time |-> r.eventTime, event_time |-> r.eventTime,
            start_time_str |-> timeConvert(r.eventTime),
            event_time_str |-> timeConvert(r.eventTime)])
  BY RightQuiet DEF Quiet, ListKeys
<1>4. Right(r, [exit_status |-> r.exitStatus, exit_info |-> r.exitInfo])
  BY RightQuiet DEF Quiet, ListKeys
<1>5. Right(r, [job_status_code |-> r.jStatus]) /\ Right(r, [job_arr_idx |-> 0, job_id |-> r.jobId])
  BY RightQuiet DEF Quiet, ListKeys
<1>6. Right(r, [memb_size |-> Len(r.membDigits), memb_job_id |-> MemberList(r.membDigits)])
  BY RightLists
<1> USE <1>0, AfterHead DEF ListKeys
<1>7. AllRight(r, putJobStart(r))  BY <1>2, Right6 DEF putJobStart
<1>8. AllRight(r, putJobStartAccept(r))  BY <1>3, Right3 DEF putJobStartAccept
<1>9. AllRight(r, putJobExecute(r))  BY <1>2, Right3 DEF putJobExecute
<1>10. AllRight(r, putJobForce(r))  BY Right3 DEF putJobForce
<1>11. AllRight(r, putRunRusage(r))  BY Right2 DEF putRunRusage
<1>12. AllRight(r, putJobStatus(r))  BY <1>1, <1>4, Right6 DEF putJobStatus
<1>13. AllRight(r, putSBDUnreportedStatus(r))  BY <1>4, <1>5, Right6 DEF putSBDUnreportedStatus
<1>14. AllRight(r, putJobSigact(r))  BY Right3 DEF putJobSigact
<1>15. AllRight(r, putJobChunk(r))  BY <1>5, <1>6, Right3 DEF putJobChunk
<1> QED  BY <1>7, <1>8, <1>9, <1>10, <1>11, <1>12, <1>13, <1>14, <1>15

LEMMA SubmitRight ==
    ASSUME NEW r \in Records
    PROVE  AllRight(r, putJobNew(r)) /\ AllRight(r, putJobModify2(r))
<1> DEFINE times == Times(r, {"submit_time", "begin_time", "term_time"})
           hold == [job_status |-> IF r.hold THEN transformJstatus(JOB_STAT_PSUSP) ELSE NULL]
           limits == [resource_limit |-> putRLimitArray]
           name == [job_name |-> r.jobName, job_name_full |-> r.jobName]
           cwd == IF r.subcwd \in {NULL, ""} THEN <<>> ELSE Cwd(r.subcwd, "$HOME")
           zero == [job_arr_idx |-> 0]
           id == IF r.jobIdStr = NULL THEN <<>>
                 ELSE [job_id |-> r.jobIdStr.id, job_arr_idx |-> r.jobIdStr.idx]
           more == <<times, name, cwd, limits, putXFStructure(r), putAskedhostlist(r),
                     ArrayElements(r), Copies(JobModify2Fields)>>
<1>1. Right(r, times)
  BY RightTimes DEF TimeKeys
<1>2. Right(r, hold) /\ Right(r, limits) /\ Right(r, name) /\ Right(r, zero)
  BY RightQuiet DEF Quiet, ListKeys
<1>3. Right(r, Copies(JobNewFields)) /\ Right(r, Copies(JobModify2Fields))
  BY RightCopies DEF JobNewFields, JobModify2Fields, ListKeys
<1>4. /\ Right(r, Job(r)) /\ Right(r, JobName(r)) /\ Right(r, putXFStructure(r))
      /\ Right(r, putAskedhostlist(r))
      /\ Right(r, ArrayElements(r)) /\ Right(r, Cwd(r.subcwd, r.subHomeDir))
  BY RightGroups, RightLists, RightCwd
<1>5. Right(r, cwd)
  <2>1. cwd = <<>> \/ cwd = Cwd(r.subcwd, "$HOME")
    OBVIOUS
  <2>2. Right(r, <<>>) /\ Right(r, Cwd(r.subcwd, "$HOME"))
    BY RightCwd
  <2> HIDE DEF cwd
  <2> QED  BY <2>1, <2>2
<1>6. Right(r, id)
  <2>1. Quiet(id, ListKeys)
    BY DEF Quiet, ListKeys
  <2> QED  BY <2>1, RightQuiet
<1>7. ModifiedJob(r) = <<zero, id>>
  BY DEF ModifiedJob
<1>8. putJobModify2(r) = putJobHEAD(r) \o ModifiedJob(r) \o more
  BY DEF putJobModify2
<1> HIDE DEF times, hold, limits, name, cwd, zero, id
<1>9. AllRight(r, putJobNew(r))
  BY <1>1, <1>2, <1>3, <1>4, Right10, AfterHead DEF putJobNew, times, hold, limits
<1>10. AllRight(r, more)
  BY <1>1, <1>2, <1>3, <1>4, <1>5, Right8
<1>11. AllRight(r, ModifiedJob(r))
  BY <1>2, <1>6, <1>7, Right2
<1> HIDE DEF more
<1>12. AllRight(r, putJobHEAD(r) \o ModifiedJob(r))
  BY <1>11, AfterHead
<1> QED  BY <1>8, <1>9, <1>10, <1>12, RightConcat

LEMMA OnlyList ==
    ASSUME NEW r, NEW v, RightAt(r, "exec_hosts_list", v)
    PROVE  Right(r, [exec_hosts_list |-> v])
<1> DEFINE list == [exec_hosts_list |-> v]
<1>1. DOMAIN list = {"exec_hosts_list"} /\ list["exec_hosts_list"] = v
  OBVIOUS
<1> HIDE DEF list
<1> QED  BY <1>1 DEF Right, RightAt, At, ListKeys, list

LEMMA FinishList ==
    ASSUME NEW r, r.type = "JOB_FINISH"
    PROVE  Right(r, [exec_hosts_list |->
                        IF r.execHosts = NULL THEN NULL ELSE getExecHostsStr(r.execHosts)])
<1> DEFINE text == IF r.execHosts = NULL THEN NULL ELSE getExecHostsStr(r.execHosts)
<1>1. RightAt(r, "exec_hosts_list", text)
  <2>1. CASE r.execHosts = NULL
    <3>1. text = NULL
      BY <2>1
    <3> QED  BY <3>1 DEF RightAt
  <2>2. CASE r.execHosts # NULL
    <3>1. RightAt(r, "exec_hosts_list", getExecHostsStr(r.execHosts))
      BY <2>2 DEF RightAt
    <3>2. text = getExecHostsStr(r.execHosts)
      BY <2>2
    <3> QED  BY <3>1, <3>2
  <2> QED  BY <2>1, <2>2
<1> HIDE DEF text
<1>2. Right(r, [exec_hosts_list |-> text])
  BY <1>1, OnlyList
<1> QED  BY <1>2 DEF text

LEMMA FinishRight ==
    ASSUME NEW r \in Records, r.type = "JOB_FINISH"
    PROVE  AllRight(r, putJobFinish(r))
<1> DEFINE times == Times(r, {"submit_time", "begin_time", "term_time", "start_time", "end_time"})
           utc == [k \in UtcKeys |-> "milliseconds"]
           cwd == IF r.subcwd \in {NULL, ""} THEN <<>> ELSE Cwd(r.subcwd, "$HOME")
           text == IF r.execHosts = NULL THEN NULL ELSE getExecHostsStr(r.execHosts)
           list == [exec_hosts_list |-> text]
           exit == [exit_reason |-> getExitReason(r), exit_info |-> r.exitInfo,
                    exit_status |-> r.exitStatus]
           copies == Copies(JobFinishFields)
           t == <<Statistics(r), Job(r), JobStatus(r), times, utc, cwd, JobName(r), putLsfRusage,
                  putAskedhostlist(r), NumExecHosts(r.execHosts), NumProcessors(r.execHosts), list,
                  exit, copies>>
<1>1. putJobFinish(r) = putJobHEAD(r) \o t
  BY DEF putJobFinish
<1>2. Right(r, times)
  BY RightTimes DEF TimeKeys
<1>3. Right(r, utc) /\ Right(r, exit)
  BY RightQuiet DEF Quiet, ListKeys, UtcKeys
<1>4. Right(r, cwd)
  <2>1. cwd = <<>> \/ cwd = Cwd(r.subcwd, "$HOME")
    OBVIOUS
  <2>2. Right(r, <<>>) /\ Right(r, Cwd(r.subcwd, "$HOME"))
    BY RightCwd
  <2> HIDE DEF cwd
  <2> QED  BY <2>1, <2>2
<1>5. Right(r, list)
  BY FinishList
<1>6. Right(r, copies)
  BY RightCopies DEF JobFinishFields, ListKeys
<1>7. /\ Right(r, Statistics(r)) /\ Right(r, Job(r)) /\ Right(r, JobStatus(r))
      /\ Right(r, JobName(r))
      /\ Right(r, putLsfRusage) /\ Right(r, putAskedhostlist(r))
      /\ Right(r, NumExecHosts(r.execHosts))
      /\ Right(r, NumProcessors(r.execHosts))
  BY RightGroups, RightHosts, RightLists
<1> HIDE DEF times, utc, cwd, text, list, exit, copies
<1>8. t \in Seq({Statistics(r), Job(r), JobStatus(r), times, utc, cwd, JobName(r), putLsfRusage,
                  putAskedhostlist(r), NumExecHosts(r.execHosts), NumProcessors(r.execHosts), list,
                  exit, copies})
  OBVIOUS
<1>9. \A i \in DOMAIN t : Right(r, t[i])
  BY <1>2, <1>3, <1>4, <1>5, <1>6, <1>7
<1> HIDE DEF t
<1>10. AllRight(r, t)
  BY <1>8, <1>9, IsGroupsBy DEF AllRight
<1> QED  BY <1>1, <1>10, AfterHead

LEMMA Finish2Right == ASSUME NEW r \in Records PROVE AllRight(r, putJobFinish2(r))
<1> DEFINE type == [job_type |-> JobType(r), num_processors |-> getNumExecProc(r)]
           times == Times(r, {"submit_time", "begin_time", "term_time", "start_time", "end_time"})
           utc == [k \in UtcKeys |-> "milliseconds mod 2^32"]
           exit == [exit_status |-> r.exitStatus, exit_info |-> r.exitInfo,
                    exit_reason |-> formatExitReason(r),
                    signal_value |-> JobSignalCode(r), exit_code |-> JobSignalCode(r)]
           name == [cluster_name |-> r.clusterName]
           vm == [virtualization |-> IF r.vmjob THEN "Y" ELSE "N"]
           copies == Copies(JobFinish2Fields)
           t == <<PackedJob(r), JobStatus(r), type, times, utc, exit, putLsfRusage,
                  NumExecHosts(r.execHosts), name, vm, copies>>
<1>1. putJobFinish2(r) = Epoch(r) \o t
  BY DEF putJobFinish2
<1>2. Right(r, times)
  BY RightTimes DEF TimeKeys
<1>0. Right(r, type)
  <2> DEFINE procs == getNumExecProc(r)
  <2>1. DOMAIN type = {"job_type", "num_processors"} /\ type["num_processors"] = procs
    OBVIOUS
  <2>2. RightAt(r, "num_processors", procs)
    BY DEF RightAt
  <2> HIDE DEF type, procs
  <2> QED  BY <2>1, <2>2 DEF Right, RightAt, At, ListKeys
<1>3. Right(r, utc) /\ Right(r, exit) /\ Right(r, name) /\ Right(r, vm)
  <2>1. Quiet(utc, ListKeys) /\ Quiet(exit, ListKeys)
    BY DEF Quiet, ListKeys, UtcKeys
  <2>2. Quiet(name, ListKeys) /\ Quiet(vm, ListKeys)
    BY DEF Quiet, ListKeys
  <2> HIDE DEF utc, exit, name, vm
  <2> QED  BY <2>1, <2>2, RightQuiet
<1>4. Right(r, copies)
  BY RightCopies DEF JobFinish2Fields, ListKeys
<1>5. /\ Right(r, PackedJob(r)) /\ Right(r, JobStatus(r)) /\ Right(r, putLsfRusage)
      /\ Right(r, NumExecHosts(r.execHosts))
  BY RightGroups, RightHosts
<1> HIDE DEF type, times, utc, exit, name, vm, copies
<1>6. t \in Seq({PackedJob(r), JobStatus(r), type, times, utc, exit, putLsfRusage,
                  NumExecHosts(r.execHosts), name, vm, copies})
  OBVIOUS
<1>7. \A i \in DOMAIN t : Right(r, t[i])
  BY <1>0, <1>2, <1>3, <1>4, <1>5
<1> HIDE DEF t
<1>8. AllRight(r, t)
  BY <1>6, <1>7, IsGroupsBy DEF AllRight
<1> QED  BY <1>1, <1>8, AfterHead

\* Of a METRIC_LOG and of the limits of a job.
LEMMA OthersRight ==
    ASSUME NEW r \in Records
    PROVE  AllRight(r, putMetricLog(r)) /\ AllRight(r, putJobStartLimit(r))
<1> DEFINE m == Copies({"logstart", "loginterval", "mbatchd_requests", "job_queries",
                        "queue_queries",
          "host_queries", "job_submit_reqs", "jobs_submitted", "jobs_dispatched",
          "jobs_completed", "job_id", "job_arr_idx", "job_status_code", "job_pid",
          "jobs_to_remote", "jobs_from_remote"} \cup
          (IF r.version >= 91 THEN {"mbd_files_free", "mbd_files_used", "sched_interval",
                                   "match_host_crit", "job_buckets"} ELSE {}))
           x == [performance_metrics |-> m]
           name == [cluster_name |-> r.clusterName]
           limits == [k \in {"cluster_rlimit", "job_rlimit"} |->
                        Copies({"cpu", "fsize", "data", "stack", "core", "mem", "nofile", "open_max",
                                "swap", "runtime", "process", "thread"})]
<1> HIDE DEF m
<1>1. Right(r, x) /\ Right(r, name) /\ Right(r, limits)
  BY RightQuiet DEF Quiet, ListKeys
<1>2. putMetricLog(r) = putJobHEAD(r) \o <<x>>
  BY DEF putMetricLog, m
<1>3. putJobStartLimit(r) = Epoch(r) \o <<PackedJob(r), name, limits>>
  BY DEF putJobStartLimit
<1> HIDE DEF x, name, limits
<1>4. AllRight(r, <<x>>)
  BY <1>1, Right1
<1>5. AllRight(r, <<PackedJob(r), name, limits>>)
  BY <1>1, RightGroups, Right3
<1> QED  BY <1>2, <1>3, <1>4, <1>5, AfterHead

\* The records of lsb.status.
LEMMA StatusRight == ASSUME NEW r \in Records, r.type = "JOB_STATUS2" PROVE AllRight(r, StatusMembers(r))
<1> DEFINE a == [cluster_name |-> OrDash(r.clusterName), job_status |-> transformJstatus(r.jStatus)]
           b == [k \in {"user_name", "queue_name", "res_req", "project_name", "job_group",
                 "app_profile",
                        "user_group_name"} |-> "copied or -"]
           c == Copies({"sample_interval", "req_num_procs_min", "num_jobs", "job_rmt_attr",
                        "pend_reason"})
           times == Times(r, {"submit_time", "start_time", "end_time"})
           slots == [slot_flag |-> getSlotFlag(r)]
           vm == [virtualization |-> IF r.vmjob THEN "Y" ELSE "N"]
           rusage == [exec_rusage |-> "copied or -"]
           copies == Copies({"runtime_delta", "provtime_delta"})
           id == [job_id |-> r.jobId]
           procs == Copies({"num_processors"})
           t == <<PackedJob(r), times, putLsfRusage, NumExecHosts(r.execHosts), slots, vm,
                  rusage, copies>>
           h == putJobHEAD(r) \o DashedFields(r)
<1>1. Right(r, a) /\ Right(r, b) /\ Right(r, slots) /\ Right(r, vm) /\ Right(r, rusage) /\ Right(r, id)
  <2>1. Quiet(a, ListKeys) /\ Quiet(b, ListKeys)
    BY DEF Quiet, ListKeys
  <2>2. Quiet(slots, ListKeys) /\ Quiet(vm, ListKeys) /\ Quiet(rusage, ListKeys) /\ Quiet(id, ListKeys)
    BY DEF Quiet, ListKeys
  <2> HIDE DEF a, b, slots, vm, rusage, id
  <2> QED  BY <2>1, <2>2, RightQuiet
<1>2. Right(r, c) /\ Right(r, copies) /\ Right(r, procs)
  <2>1. Right(r, c) /\ Right(r, copies)
    BY RightCopies DEF ListKeys
  <2>2. DOMAIN procs = {"num_processors"}
    BY DEF Copies
  <2> HIDE DEF procs
  <2>3. Right(r, procs)
    BY <2>2 DEF Right, RightAt, At, ListKeys
  <2> QED  BY <2>1, <2>3
<1>3. Right(r, times)
  BY RightTimes DEF TimeKeys
<1>4. Right(r, PackedJob(r)) /\ Right(r, putLsfRusage) /\ Right(r, NumExecHosts(r.execHosts))
  BY RightGroups, RightHosts
<1>5. DashedFields(r) = <<a, b, c>>
  BY DEF DashedFields
<1>6. putJobStatus2(r) = h \o t
  BY DEF putJobStatus2
<1>7. putJobStatus2Pend(r) = h \o <<id, procs>>
  BY DEF putJobStatus2Pend
<1> HIDE DEF a, b, c, times, slots, vm, rusage, copies, id, procs
<1>8. AllRight(r, h)
  BY <1>1, <1>2, <1>5, Right3, AfterHead
<1>9. AllRight(r, t)
  BY <1>1, <1>2, <1>3, <1>4, Right8
<1>10. AllRight(r, <<id, procs>>)
  BY <1>1, <1>2, Right2
<1> HIDE DEF h, t
<1>11. AllRight(r, putJobStatus2(r)) /\ AllRight(r, putJobStatus2Pend(r))
  BY <1>6, <1>7, <1>8, <1>9, <1>10, RightConcat
<1>12. AllRight(r, <<>>)
  <2>1. <<>> \in Seq({}) /\ \A i \in DOMAIN <<>> : Right(r, <<>>[i])
    OBVIOUS
  <2> DEFINE g == <<>>
  <2> HIDE DEF g
  <2>2. g \in Seq({}) /\ \A i \in DOMAIN g : Right(r, g[i])
    BY <2>1 DEF g
  <2> QED  BY <2>2, IsGroupsBy DEF AllRight, g
<1> QED  BY <1>11, <1>12 DEF StatusMembers

LEMMA EventRight == ASSUME NEW r \in Records, r.type \in EventTypes PROVE AllRight(r, EventMembers(r))
<1> DEFINE table == [exec_hosts |-> IF r.execHosts = NULL THEN NULL ELSE getJobExecHostsHashmapArray(r)]
<1>1. r.type \in HostTypes => AllRight(r, <<ExecHosts(r.execHosts)>>)
  BY RightHosts, Right1
<1>2. r.type = "JOB_FINISH2" => Right(r, table)
  <2> DEFINE v == IF r.execHosts = NULL THEN NULL ELSE getJobExecHostsHashmapArray(r)
  <2>1. ASSUME r.type = "JOB_FINISH2" PROVE RightAt(r, "exec_hosts", v)
    <3>1. CASE r.execHosts = NULL
      <4>1. v = NULL
        BY <3>1
      <4> HIDE DEF v
      <4> QED  BY <4>1 DEF RightAt
    <3>2. CASE r.execHosts # NULL
      <4>1. v = getJobExecHostsHashmapArray(r)
        BY <3>2
      <4> HIDE DEF v
      <4> QED  BY <2>1, <3>2, <4>1 DEF RightAt
    <3> QED  BY <3>1, <3>2
  <2>2. DOMAIN table = {"exec_hosts"} /\ table["exec_hosts"] = v
    OBVIOUS
  <2> HIDE DEF v, table
  <2> QED  BY <2>1, <2>2 DEF Right, RightAt, At, ListKeys
<1> HIDE DEF table
<1>3. r.type = "JOB_FINISH2" => AllRight(r, <<table>>)
  BY <1>2, Right1
<1>4. /\ r.type \in HostTypes \ {"JOB_FINISH"} =>
            /\ AllRight(r, putJobStart(r) \o <<ExecHosts(r.execHosts)>>)
            /\ AllRight(r, putJobChunk(r) \o <<ExecHosts(r.execHosts)>>)
            /\ AllRight(r, putJobForce(r) \o <<ExecHosts(r.execHosts)>>)
      /\ r.type = "JOB_FINISH2" => AllRight(r, putJobFinish2(r) \o <<table>>)
  <2>1. r.type \in HostTypes => r.type # "JOB_FINISH2"
    BY DEF HostTypes
  <2> QED  BY <2>1, <1>1, <1>3, RunRight, Finish2Right, RightConcat
<1>5. CASE r.type \in {"JOB_NEW", "JOB_MODIFY2"}
  BY <1>5, SubmitRight DEF EventMembers
<1>6. CASE r.type \in {"JOB_START", "PRE_EXEC_START", "JOB_FORCE", "JOB_CHUNK"}
  BY <1>4, <1>6 DEF EventMembers, HostTypes
<1>7. CASE r.type \in {"JOB_START_ACCEPT", "JOB_EXECUTE", "JOB_RUN_RUSAGE", "JOB_STATUS",
                       "SBD_UNREPORTED_STATUS", "JOB_SIGACT"}
  BY <1>7, RunRight DEF EventMembers
<1>8. CASE r.type \in {"JOB_SWITCH", "JOB_MOVE", "UNFULFILL", "MIG", "JOB_SIGNAL", "JOB_FORWARD",
                       "JOB_ACCEPT", "JOB_REQUEUE", "JOB_CLEAN", "JOB_EXCEPTION", "JOB_EXT_MSG",
                       "JOB_ATTA_DATA"}
  BY <1>8, ControlRight DEF EventMembers
<1>9. CASE r.type \in {"METRIC_LOG", "JOB_STARTLIMIT"}
  BY <1>9, OthersRight DEF EventMembers
<1>10. CASE r.type = "JOB_FINISH"
  <2>1. AllRight(r, putJobFinish(r) \o <<ExecHosts(r.execHosts)>>)
    BY <1>1, <1>10, FinishRight, RightConcat DEF HostTypes
  <2> QED  BY <2>1, <1>10 DEF EventMembers
<1>11. CASE r.type = "JOB_FINISH2"
  BY <1>4, <1>11 DEF EventMembers, table
<1> QED  BY <1>5, <1>6, <1>7, <1>8, <1>9, <1>10, <1>11 DEF EventTypes

LEMMA MembersRight ==
    ASSUME NEW r \in Records, NEW which \in Readers, r.type \in Types(which), NEW name
    PROVE  AllRight(r, Members(which, r, name))
<1> DEFINE a == [event_type |-> r.type]
           c == [cluster_name |-> name]
           e == EventMembers(r)
           s == StatusMembers(r)
<1>1. Right(r, a) /\ Right(r, c)
  BY RightQuiet DEF Quiet, ListKeys
<1>2. Members(which, r, name) = <<a>> \o (IF which = "Status" THEN s ELSE e \o <<c>>)
  BY DEF Members
<1>3. which # "Status" => AllRight(r, e)
  <2>1. which # "Status" => r.type \in EventTypes
    BY DEF Types, Readers, EventTypes
  <2> QED  BY <2>1, EventRight
<1>4. which = "Status" => AllRight(r, s)
  <2>1. which = "Status" => r.type = "JOB_STATUS2"
    BY DEF Types
  <2> QED  BY <2>1, StatusRight
<1> HIDE DEF a, c, e, s
<1>5. AllRight(r, <<a>>) /\ AllRight(r, <<c>>)
  BY <1>1, Right1
<1>6. CASE which = "Status"
  <2>1. AllRight(r, <<a>> \o s)
    BY <1>4, <1>5, <1>6, RightConcat
  <2> QED  BY <2>1, <1>2, <1>6
<1>7. CASE which # "Status"
  <2> DEFINE t == e \o <<c>>
  <2>1. AllRight(r, t)
    BY <1>3, <1>5, <1>7, RightConcat
  <2> HIDE DEF t
  <2>2. AllRight(r, <<a>> \o t)
    BY <2>1, <1>5, RightConcat
  <2> QED  BY <2>2, <1>2, <1>7 DEF t
<1> QED  BY <1>6, <1>7

\* What the object has under one of the keys is right.
LEMMA MadeRight ==
    ASSUME Made, rec \in Records, reader \in Readers, NEW k \in ListKeys, k \in DOMAIN json
    PROVE  RightAt(rec, k, json[k]) /\ json[k] # NULL
<1> DEFINE g == Members(reader, rec, cluster)
<1>1. json = Json(g) /\ AllRight(rec, g)
  BY MembersRight DEF Made
<1> HIDE DEF g
<1>2. json[k] = Says(g, k) /\ Says(g, k) # NULL
  BY <1>1, HasSays DEF AllRight
<1> QED  BY <1>1, <1>2, RightSays

LEMMA MadeFits == ASSUME Made, rec \in Records, reader \in Readers PROVE BuffersFit
<1>1. ASSUME NEW b \in Buffers, b # NULL PROVE b.used <= b.size
  <2>1. CASE \E k \in {"asked_hosts", "reserve_hosts", "xfer_files"} :
                k \in DOMAIN json /\ b = json[k]
    <3>1. PICK k \in {"asked_hosts", "reserve_hosts", "xfer_files"} :
                k \in DOMAIN json /\ b = json[k]
      BY <2>1
    <3>2. RightAt(rec, k, json[k]) /\ json[k] # NULL
      BY <3>1, MadeRight DEF ListKeys
    <3> QED  BY <3>1, <3>2, <1>1 DEF RightAt, InBuffer
  <2>2. CASE "exec_hosts_list" \in DOMAIN json /\ b = json["exec_hosts_list"].text
    <3>1. RightAt(rec, "exec_hosts_list", json["exec_hosts_list"]) /\ json["exec_hosts_list"] # NULL
      BY <2>2, MadeRight DEF ListKeys
    <3>2. /\ rec.type = "JOB_FINISH" /\ rec.execHosts # NULL
          /\ json["exec_hosts_list"] = getExecHostsStr(rec.execHosts)
      BY <3>1 DEF RightAt
    <3>3. InBuffer(getExecHostsStr(rec.execHosts).text)
      BY <3>2, HostsTextFits
    <3>4. InBuffer(b)
      BY <2>2, <3>2, <3>3
    <3> QED  BY <3>4, <1>1 DEF InBuffer
  <2>3. CASE /\ "run_rusage" \in DOMAIN json
             /\ b \in {json["run_rusage"].pid_info, json["run_rusage"].pgids}
    <3>1. RightAt(rec, "run_rusage", json["run_rusage"]) /\ json["run_rusage"] # NULL
      BY <2>3, MadeRight DEF ListKeys
    <3> QED  BY <2>3, <3>1, <1>1 DEF RightAt, InBuffer
  <2> QED  BY <2>1, <2>2, <2>3, <1>1 DEF Buffers
<1>2. ASSUME "memb_job_id" \in DOMAIN json
      PROVE  json["memb_job_id"].used <=
                 json["memb_job_id"].size + (IF FullMembers(rec) THEN 1 ELSE 0)
  <2>1. RightAt(rec, "memb_job_id", json["memb_job_id"]) /\ json["memb_job_id"] # NULL
    BY <1>2, MadeRight DEF ListKeys
  <2>2. json["memb_job_id"] = MemberList(rec.membDigits)
    BY <2>1 DEF RightAt
  <2> QED  BY <2>2, MembersNearlyFit DEF MemberLen, MemberRoom
<1> QED  BY <1>1, <1>2 DEF BuffersFit, Has

\* Every list of hosts, files and processes fits the buffer it is put together in, with
\* its last blank and its NUL, however many entries it has: the lengths of the entries
\* alone matter.  The list of a chunk is one byte too long when all its ids have 15
\* digits, never more, and fits when one of them is shorter.
THEOREM TextsInBuffers == Spec => []BuffersFit
<1>1. ObjectInv => BuffersFit
  BY MadeFits DEF ObjectInv, BuffersFit
<1> QED  BY <1>1, ObjectAlways, PTL

-----------------------------------------------------------------------------
(* Exit reasons.                                                            *)

LEMMA SameReason ==
    ASSUME NEW r, r.jStatus = JOB_STAT_EXIT, r.exitInfo \in 1 .. 29
    PROVE  /\ getExitReason(r) = Term({r.exitInfo}) /\ formatExitReason(r) = Term({r.exitInfo})
           /\ Term({r.exitInfo}) # NULL
<1>1. /\ JOB_STAT_EXIT # JOB_STAT_DONE /\ JOB_STAT_EXIT # JOB_STAT_PDONE
  BY DEF JOB_STAT_EXIT, JOB_STAT_DONE, JOB_STAT_PDONE
<1>2. /\ r.exitInfo # 0 /\ r.exitInfo # 30 /\ r.exitInfo # 31
      /\ r.exitInfo \in 1 .. 30 /\ r.exitInfo \in 0 .. 31
  OBVIOUS
<1>3. Term({r.exitInfo}) # NULL
  BY <1>2, ConstantsAssumption
<1>4. expandedExitInfoMapping[r.exitInfo] = {r.exitInfo}
  BY <1>2 DEF expandedExitInfoMapping
<1>5. getExitReason(r) = Term({r.exitInfo})
  BY <1>1, <1>2, <1>4 DEF getExitReason
<1>6. ReasonOrNull(r) = Term({r.exitInfo})
  BY <1>1, <1>2 DEF ReasonOrNull
<1> QED  BY <1>3, <1>5, <1>6 DEF formatExitReason

LEMMA FinishReason ==
    ASSUME NEW r
    PROVE  IsGroups(putJobFinish(r)) /\ Says(putJobFinish(r), "exit_reason") = getExitReason(r)
<1> DEFINE keys == {"exit_reason"}
           times == Times(r, {"submit_time", "begin_time", "term_time", "start_time", "end_time"})
           utc == [k \in UtcKeys |-> "milliseconds"]
           cwd == IF r.subcwd \in {NULL, ""} THEN <<>> ELSE Cwd(r.subcwd, "$HOME")
           list == [exec_hosts_list |-> IF r.execHosts = NULL THEN NULL ELSE getExecHostsStr(r.execHosts)]
           exit == [exit_reason |-> getExitReason(r), exit_info |-> r.exitInfo,
                    exit_status |-> r.exitStatus]
           copies == Copies(JobFinishFields)
           t == <<Statistics(r), Job(r), JobStatus(r), times, utc, cwd, JobName(r), putLsfRusage,
                  putAskedhostlist(r), NumExecHosts(r.execHosts), NumProcessors(r.execHosts), list,
                  exit, copies>>
<1>1. putJobFinish(r) = putJobHEAD(r) \o t
  BY DEF putJobFinish
<1>2. Quiet(times, keys)
  BY QuietTimes DEF TimeKeys, TimeStrs
<1>3. Quiet(utc, keys) /\ Quiet(list, keys)
  BY DEF Quiet, UtcKeys
<1>4. Quiet(cwd, keys)
  <2>1. cwd = <<>> \/ cwd = Cwd(r.subcwd, "$HOME")
    OBVIOUS
  <2>2. Quiet(<<>>, keys) /\ Quiet(Cwd(r.subcwd, "$HOME"), keys)
    BY CwdKeys DEF Quiet
  <2> HIDE DEF cwd, keys
  <2> QED  BY <2>1, <2>2
<1>5. Quiet(copies, keys)
  BY QuietCopies DEF JobFinishFields
<1>6. /\ Quiet(Statistics(r), keys) /\ Quiet(JobStatus(r), keys) /\ Quiet(Job(r), keys)
      /\ Quiet(JobName(r), keys) /\ Quiet(putLsfRusage, keys)
      /\ Quiet(putAskedhostlist(r), keys) /\ Quiet(NumExecHosts(r.execHosts), keys)
      /\ Quiet(NumProcessors(r.execHosts), keys)
  BY GroupKeys, RusageKeys, HostKeys DEF Quiet
<1>7. At(exit, "exit_reason") = getExitReason(r) /\ "exit_reason" \in keys
  BY DEF At
<1>8. AllQuiet(putJobHEAD(r), keys)
  BY HeadQuiet DEF HeadKeys
<1> HIDE DEF times, utc, cwd, list, exit, copies, keys
<1>9. t \in Seq({Statistics(r), Job(r), JobStatus(r), times, utc, cwd, JobName(r), putLsfRusage,
                  putAskedhostlist(r), NumExecHosts(r.execHosts), NumProcessors(r.execHosts), list,
                  exit, copies})
  OBVIOUS
<1>10. t[13] = exit /\ 13 \in DOMAIN t /\ \A j \in DOMAIN t : j # 13 => Quiet(t[j], keys)
  BY <1>2, <1>3, <1>4, <1>5, <1>6
<1> HIDE DEF t
<1>11. Among(t, 13, keys)
  BY <1>9, <1>10, IsGroupsBy DEF Among
<1> QED  BY <1>1, <1>7, <1>8, <1>10, <1>11, AmongSays

LEMMA Finish2Reason ==
    ASSUME NEW r
    PROVE  IsGroups(putJobFinish2(r)) /\ Says(putJobFinish2(r), "exit_reason") = formatExitReason(r)
<1> DEFINE keys == {"exit_reason"}
           type == [job_type |-> JobType(r), num_processors |-> getNumExecProc(r)]
           times == Times(r, {"submit_time", "begin_time", "term_time", "start_time", "end_time"})
           utc == [k \in UtcKeys |-> "milliseconds mod 2^32"]
           exit == [exit_status |-> r.exitStatus, exit_info |-> r.exitInfo,
                    exit_reason |-> formatExitReason(r),
                    signal_value |-> JobSignalCode(r), exit_code |-> JobSignalCode(r)]
           name == [cluster_name |-> r.clusterName]
           vm == [virtualization |-> IF r.vmjob THEN "Y" ELSE "N"]
           copies == Copies(JobFinish2Fields)
           t == <<PackedJob(r), JobStatus(r), type, times, utc, exit, putLsfRusage,
                  NumExecHosts(r.execHosts), name, vm, copies>>
<1>1. putJobFinish2(r) = Epoch(r) \o t
  BY DEF putJobFinish2
<1>2. Quiet(times, keys)
  BY QuietTimes DEF TimeKeys, TimeStrs
<1>3. Quiet(type, keys) /\ Quiet(utc, keys) /\ Quiet(name, keys) /\ Quiet(vm, keys)
  BY DEF Quiet, UtcKeys
<1>4. Quiet(copies, keys)
  BY QuietCopies DEF JobFinish2Fields
<1>5. /\ Quiet(PackedJob(r), keys) /\ Quiet(JobStatus(r), keys) /\ Quiet(putLsfRusage, keys)
      /\ Quiet(NumExecHosts(r.execHosts), keys)
  BY GroupKeys, RusageKeys, HostKeys DEF Quiet
<1>6. At(exit, "exit_reason") = formatExitReason(r) /\ "exit_reason" \in keys
  BY DEF At
<1>7. AllQuiet(Epoch(r), keys)
  BY HeadQuiet DEF HeadKeys
<1> HIDE DEF type, times, utc, exit, name, vm, copies, keys
<1>8. t \in Seq({PackedJob(r), JobStatus(r), type, times, utc, exit, putLsfRusage,
                  NumExecHosts(r.execHosts), name, vm, copies})
  OBVIOUS
<1>9. t[6] = exit /\ 6 \in DOMAIN t /\ \A j \in DOMAIN t : j # 6 => Quiet(t[j], keys)
  BY <1>2, <1>3, <1>4, <1>5
<1> HIDE DEF t
<1>10. Among(t, 6, keys)
  BY <1>8, <1>9, IsGroupsBy DEF Among
<1> QED  BY <1>1, <1>6, <1>7, <1>9, <1>10, AmongSays

\* What is added to the groups of a type says nothing else.
LEMMA LastKeys ==
    ASSUME NEW g, IsGroups(g), NEW x, NEW k, k \notin DOMAIN x
    PROVE  IsGroups(g \o <<x>>) /\ Says(g \o <<x>>, k) = Says(g, k)
<1> DEFINE keys == {k}
<1>1. Quiet(x, keys) /\ k \in keys
  BY DEF Quiet
<1> HIDE DEF keys
<1> QED  BY <1>1, QuietOne, QuietAfter

LEMMA MadeReason == ASSUME Made, rec \in Records, reader \in Readers PROVE ReasonNamesExitInfo
<1> SUFFICES ASSUME rec.type \in {"JOB_FINISH", "JOB_FINISH2"}, rec.jStatus = JOB_STAT_EXIT,
                    rec.exitInfo \in 1 .. 29
             PROVE  json["exit_reason"] = Term({rec.exitInfo})
  BY DEF ReasonNamesExitInfo
<1> DEFINE e == EventMembers(rec)
           g == Members(reader, rec, cluster)
           k == "exit_reason"
<1>1. json = Json(g) /\ reader # "Status"
  BY DEF Made, Types
<1>2. IsGroups(e) /\ Says(e, k) = Term({rec.exitInfo})
  <2>1. CASE rec.type = "JOB_FINISH"
    <3>1. e = putJobFinish(rec) \o <<ExecHosts(rec.execHosts)>>
      BY <2>1 DEF EventMembers
    <3>2. k \notin DOMAIN ExecHosts(rec.execHosts)
      BY HostKeys
    <3> HIDE DEF e, k
    <3>3. IsGroups(e) /\ Says(e, k) = Says(putJobFinish(rec), k)
      BY <3>1, <3>2, FinishReason, LastKeys
    <3> QED  BY <3>3, FinishReason, SameReason DEF k
  <2>2. CASE rec.type = "JOB_FINISH2"
    <3> DEFINE hosts == [exec_hosts |-> IF rec.execHosts = NULL THEN NULL
                                        ELSE getJobExecHostsHashmapArray(rec)]
    <3>1. e = putJobFinish2(rec) \o <<hosts>>
      BY <2>2 DEF EventMembers
    <3>2. k \notin DOMAIN hosts
      OBVIOUS
    <3> HIDE DEF e, k, hosts
    <3>3. IsGroups(e) /\ Says(e, k) = Says(putJobFinish2(rec), k)
      BY <3>1, <3>2, Finish2Reason, LastKeys
    <3> QED  BY <3>3, Finish2Reason, SameReason DEF k
  <2> QED  BY <2>1, <2>2
<1>3. k # "event_type" /\ k # "cluster_name"
  OBVIOUS
<1> HIDE DEF k
<1>4. IsGroups(g) /\ Says(g, k) = Says(e, k)
  BY <1>1, <1>2, <1>3, MembersSay
<1> HIDE DEF e, g
<1>5. k \in DOMAIN json /\ json[k] = Says(g, k)
  BY <1>1, <1>2, <1>4, SameReason, HasSays
<1> QED  BY <1>2, <1>4, <1>5 DEF k

\* For every job that has exited, the object of its JOB_FINISH and that of its JOB_FINISH2
\* name one reason, the one of the exit info, whatever else the record says.
THEOREM ReasonsAgree == Spec => []ReasonNamesExitInfo
<1>1. ObjectInv => ReasonNamesExitInfo
  BY MadeReason DEF ObjectInv, ReasonNamesExitInfo
<1> QED  BY <1>1, ObjectAlways, PTL

-----------------------------------------------------------------------------
(* Statuses.                                                                *)

LEMMA OneCase == \A c, d \in JstatusStrings : c[1] = d[1] => c = d
BY DEF JstatusStrings, JOB_STAT_NULL, JOB_STAT_PEND, JOB_STAT_PSUSP, JOB_STAT_RUN, JOB_STAT_SSUSP,
       JOB_STAT_USUSP, JOB_STAT_EXIT, JOB_STAT_DONE, JOB_STAT_PDONE, JOB_STAT_PERR, JOB_STAT_WAIT,
       JOB_STAT_UNKWN

LEMMA CaseOf == ASSUME NEW c \in JstatusStrings PROVE transformJstatus(c[1]) = c[2]
<1>1. \A d \in JstatusStrings : d[1] = c[1] => d = c
  BY OneCase
<1>2. (CHOOSE d \in JstatusStrings : d[1] = c[1]) = c
  BY <1>1
<1> QED  BY <1>2 DEF transformJstatus

LEMMA OneStatus ==
    \A s, t \in Go!Status : Go!stateNameMapping[s + 1] = Go!stateNameMapping[t + 1] => s = t
BY DEF Go!stateNameMapping, Go!Status, Go!PEND, Go!EXIT

LEMMA NameOf == ASSUME NEW s \in Go!Status PROVE Go!StatusOf(Go!stateNameMapping[s + 1]) = s
<1>1. \A t \in Go!Status : Go!stateNameMapping[t + 1] = Go!stateNameMapping[s + 1] => t = s
  BY OneStatus
<1> DEFINE name == Go!stateNameMapping[s + 1]
<1> HIDE DEF name
<1>2. \E t \in Go!Status : Go!stateNameMapping[t + 1] = name
  BY DEF name
<1>3. (CHOOSE t \in Go!Status : Go!stateNameMapping[t + 1] = name) = s
  BY <1>1 DEF name
<1>4. Go!StatusOf(name) = s
  BY <1>2, <1>3 DEF Go!StatusOf
<1> QED  BY <1>4 DEF name

\* The names of the statuses are those of the Go side but for "NULL".
LEMMA Names ==
    /\ Go!StatusOf("PEND") = 0 /\ Go!StatusOf("PSUSP") = 1 /\ Go!StatusOf("RUN") = 2
    /\ Go!StatusOf("SSUSP") = 3 /\ Go!StatusOf("USUSP") = 4 /\ Go!StatusOf("WAIT") = 5
    /\ Go!StatusOf("UNKWN") = 6 /\ Go!StatusOf("PDONE") = 7 /\ Go!StatusOf("PERR") = 8
    /\ Go!StatusOf("DONE+PDONE") = 9 /\ Go!StatusOf("DONE+WAIT") = 10
    /\ Go!StatusOf("DONE+PERR") = 11 /\ Go!StatusOf("ERROR") = 12
    /\ Go!StatusOf("DONE") = 13 /\ Go!StatusOf("EXIT") = 14
    /\ Go!StatusOf("NULL") = -1
<1> DEFINE m == Go!stateNameMapping
<1>1. /\ m[0 + 1] = "PEND" /\ m[1 + 1] = "PSUSP" /\ m[2 + 1] = "RUN" /\ m[3 + 1] = "SSUSP"
      /\ m[4 + 1] = "USUSP" /\ m[5 + 1] = "WAIT" /\ m[6 + 1] = "UNKWN" /\ m[7 + 1] = "PDONE"
      /\ m[8 + 1] = "PERR" /\ m[9 + 1] = "DONE+PDONE" /\ m[10 + 1] = "DONE+WAIT"
      /\ m[11 + 1] = "DONE+PERR" /\ m[12 + 1] = "ERROR" /\ m[13 + 1] = "DONE" /\ m[14 + 1] = "EXIT"
  BY DEF Go!stateNameMapping
<1>2. Go!Status = 0 .. 14
  BY DEF Go!Status, Go!PEND, Go!EXIT
<1>3. \A s \in Go!Status : m[s + 1] # "NULL"
  BY DEF Go!stateNameMapping, Go!Status, Go!PEND, Go!EXIT
<1>4. \A s \in 0 .. 14 : Go!StatusOf(m[s + 1]) = s
  BY <1>2, NameOf
<1>5. Go!StatusOf("NULL") = -1
  BY <1>3 DEF Go!StatusOf, Go!NoState
<1> HIDE DEF m
<1>6. /\ Go!StatusOf(m[0 + 1]) = 0 /\ Go!StatusOf(m[1 + 1]) = 1 /\ Go!StatusOf(m[2 + 1]) = 2
      /\ Go!StatusOf(m[3 + 1]) = 3 /\ Go!StatusOf(m[4 + 1]) = 4 /\ Go!StatusOf(m[5 + 1]) = 5
      /\ Go!StatusOf(m[6 + 1]) = 6 /\ Go!StatusOf(m[7 + 1]) = 7 /\ Go!StatusOf(m[8 + 1]) = 8
  BY <1>4
<1>7. /\ Go!StatusOf(m[9 + 1]) = 9 /\ Go!StatusOf(m[10 + 1]) = 10 /\ Go!StatusOf(m[11 + 1]) = 11
      /\ Go!StatusOf(m[12 + 1]) = 12 /\ Go!StatusOf(m[13 + 1]) = 13 /\ Go!StatusOf(m[14 + 1]) = 14
  BY <1>4
<1> QED  BY <1>1, <1>5, <1>6, <1>7

\* What is said of a combination of bits and its name.
Over(n) ==
    \E b \in {JOB_STAT_EXIT, JOB_STAT_DONE, JOB_STAT_PDONE, JOB_STAT_PERR, JOB_STAT_UNKWN} : Bit(n, b)

Reaches(n, name) ==
    LET s == Go!StatusOf(name)
    IN /\ s = Go!NoState <=> n = JOB_STAT_NULL
       /\ Go!Finished(s) <=> Over(n)

LEMMA Bits ==
    /\ \A n \in {0, 1, 2, 4, 8, 16, 512, 516} : ~Over(n)
    /\ \A n \in {32, 64, 128, 256, 65536, 192, 576, 320, 160, 288, 65537, 65538, 65540, 65544, 65552} :
            Over(n)
BY DEF Over, Bit, JOB_STAT_EXIT, JOB_STAT_DONE, JOB_STAT_PDONE, JOB_STAT_PERR, JOB_STAT_UNKWN

LEMMA CasesReach == \A c \in JstatusStrings : Reaches(c[1], c[2])
<1> USE DEF Reaches, JOB_STAT_NULL, Go!NoState, Go!Finished, Go!UNKWN
<1>1. /\ Reaches(0, "NULL") /\ Reaches(1, "PEND") /\ Reaches(2, "PSUSP") /\ Reaches(4, "RUN")
      /\ Reaches(8, "SSUSP") /\ Reaches(16, "USUSP") /\ Reaches(512, "WAIT") /\ Reaches(516, "WAIT")
  BY Bits, Names
<1>2. /\ Reaches(32, "EXIT") /\ Reaches(64, "DONE") /\ Reaches(128, "PDONE") /\ Reaches(256, "PERR")
      /\ Reaches(65536, "UNKWN") /\ Reaches(192, "DONE+PDONE") /\ Reaches(576, "DONE+WAIT")
      /\ Reaches(320, "DONE+PERR")
  BY Bits, Names
<1>3. JstatusStrings =
        {<<0, "NULL">>, <<1, "PEND">>, <<2, "PSUSP">>, <<4, "RUN">>, <<8, "SSUSP">>, <<16, "USUSP">>,
         <<32, "EXIT">>, <<64, "DONE">>, <<128, "PDONE">>, <<256, "PERR">>, <<512, "WAIT">>,
         <<65536, "UNKWN">>, <<516, "WAIT">>, <<192, "DONE+PDONE">>, <<576, "DONE+WAIT">>,
         <<320, "DONE+PERR">>}
  BY DEF JstatusStrings, JOB_STAT_PEND, JOB_STAT_PSUSP, JOB_STAT_RUN, JOB_STAT_SSUSP,
         JOB_STAT_USUSP, JOB_STAT_EXIT, JOB_STAT_DONE, JOB_STAT_PDONE, JOB_STAT_PERR, JOB_STAT_WAIT,
         JOB_STAT_UNKWN
<1> HIDE DEF Reaches
<1> QED  BY <1>1, <1>2, <1>3

LEMMA ErrorReaches ==
    \A n \in {160, 288, 65537, 65538, 65540, 65544, 65552} : Reaches(n, "ERROR")
BY Bits, Names DEF Reaches, JOB_STAT_NULL, Go!NoState, Go!Finished, Go!UNKWN

LEMMA StatusReaches == ASSUME NEW n \in JobStatuses PROVE Reaches(n, transformJstatus(n))
<1>1. CASE \E c \in JstatusStrings : c[1] = n
  BY <1>1, CaseOf, CasesReach
<1>2. CASE ~\E c \in JstatusStrings : c[1] = n
  <2>1. n \in {160, 288, 65537, 65538, 65540, 65544, 65552}
    BY <1>2 DEF JobStatuses, JOB_STAT_PEND, JOB_STAT_PSUSP, JOB_STAT_RUN, JOB_STAT_SSUSP,
                JOB_STAT_USUSP, JOB_STAT_EXIT, JOB_STAT_PDONE, JOB_STAT_PERR, JOB_STAT_UNKWN
  <2>2. transformJstatus(n) = "ERROR"
    BY <1>2 DEF transformJstatus
  <2> QED  BY <2>1, <2>2, ErrorReaches
<1> QED  BY <1>1, <1>2

LEMMA NameThere == ASSUME NEW n PROVE transformJstatus(n) # NULL
<1>1. CASE \E c \in JstatusStrings : c[1] = n
  <2>1. PICK c \in JstatusStrings : c[1] = n  BY <1>1
  <2>2. transformJstatus(n) = c[2]  BY <2>1, CaseOf
  <2>3. c[2] # NULL  BY ConstantsAssumption
  <2> QED  BY <2>2, <2>3
<1>2. CASE ~\E c \in JstatusStrings : c[1] = n
  BY <1>2, ConstantsAssumption DEF transformJstatus
<1> QED  BY <1>1, <1>2

LEMMA StatusName ==
    ASSUME NEW r
    PROVE  /\ IsGroups(putJobStatus(r))
           /\ Says(putJobStatus(r), "job_status") = transformJstatus(r.jStatus)
<1> DEFINE keys == {"job_status"}
           times == Times(r, {"end_time"})
           exit == [exit_status |-> r.exitStatus, exit_info |-> r.exitInfo]
           copies == Copies({"pend_reason", "pend_subreason", "cpu_time", "rusage_flag",
                             "job_flags",
                             "max_mem", "avg_mem"})
           t == <<Job(r), JobStatus(r), times, putLsfRusage, exit, copies>>
<1>1. putJobStatus(r) = putJobHEAD(r) \o t
  BY DEF putJobStatus
<1>2. Quiet(times, keys)
  BY QuietTimes DEF TimeKeys, TimeStrs
<1>3. Quiet(exit, keys)
  BY DEF Quiet
<1>4. Quiet(copies, keys)
  BY QuietCopies
<1>5. Quiet(Job(r), keys) /\ Quiet(putLsfRusage, keys)
  BY GroupKeys, RusageKeys DEF Quiet
<1>6. At(JobStatus(r), "job_status") = transformJstatus(r.jStatus) /\ "job_status" \in keys
  BY DEF At, JobStatus
<1>7. AllQuiet(putJobHEAD(r), keys)
  BY HeadQuiet DEF HeadKeys
<1> HIDE DEF times, exit, copies, keys
<1>8. t \in Seq({Job(r), JobStatus(r), times, putLsfRusage, exit, copies})
  OBVIOUS
<1>9. t[2] = JobStatus(r) /\ 2 \in DOMAIN t /\ \A j \in DOMAIN t : j # 2 => Quiet(t[j], keys)
  BY <1>2, <1>3, <1>4, <1>5
<1> HIDE DEF t
<1>10. Among(t, 2, keys)
  BY <1>8, <1>9, IsGroupsBy DEF Among
<1> QED  BY <1>1, <1>6, <1>7, <1>9, <1>10, AmongSays

LEMMA MadeStatus == ASSUME Made, rec \in Records, reader \in Readers PROVE StatusReachesGo
<1> SUFFICES ASSUME rec.type = "JOB_STATUS" PROVE Reaches(rec.jStatus, json["job_status"])
  BY DEF StatusReachesGo, Reaches, Over
<1> DEFINE e == EventMembers(rec)
           g == Members(reader, rec, cluster)
           k == "job_status"
<1>1. json = Json(g) /\ reader # "Status"
  BY DEF Made, Types
<1>2. IsGroups(e) /\ Says(e, k) = transformJstatus(rec.jStatus)
  <2>1. e = putJobStatus(rec)
    BY DEF EventMembers
  <2> QED  BY <2>1, StatusName
<1>3. k # "event_type" /\ k # "cluster_name"
  OBVIOUS
<1> HIDE DEF k
<1>4. IsGroups(g) /\ Says(g, k) = Says(e, k)
  BY <1>1, <1>2, <1>3, MembersSay
<1> HIDE DEF e, g
<1>5. k \in DOMAIN json /\ json[k] = Says(g, k)
  BY <1>1, <1>2, <1>4, NameThere, HasSays
<1>6. rec.jStatus \in JobStatuses
  BY StatusesAssumption
<1> QED  BY <1>2, <1>4, <1>5, <1>6, StatusReaches DEF k

\* Every status LSF writes for a job reaches the Go side as one that is finished when LSF
\* is through with the job, and as none only when it is none.
THEOREM StatusesReachGo == Spec => []StatusReachesGo
<1>1. ObjectInv => StatusReachesGo
  BY MadeStatus DEF ObjectInv, StatusReachesGo
<1> QED  BY <1>1, ObjectAlways, PTL

-----------------------------------------------------------------------------
(* Sums by hosts.                                                           *)

\* Induction over the subsets of a finite set, one element at a time.
LEMMA Subsets ==
    ASSUME NEW S, IsFiniteSet(S), NEW Good \in SUBSET SUBSET S, {} \in Good,
           \A s \in SUBSET S : s # {} /\ s \ {Some(s)} \in Good => s \in Good
    PROVE  S \in Good
<1> DEFINE Bad == {s \in SUBSET S : s \notin Good}
<1>1. Bad = {}
  <2> SUFFICES ASSUME Bad # {} PROVE FALSE
    OBVIOUS
  <2>1. PICK s \in Bad : \A t \in Bad : Cardinality(s) <= Cardinality(t)
    <3>1. Bad \in SUBSET SUBSET S
      OBVIOUS
    <3> HIDE DEF Bad
    <3> QED  BY <3>1, SmallestSubset
  <2>2. s \in SUBSET S /\ s \notin Good /\ s # {}
    OBVIOUS
  <2> DEFINE t == s \ {Some(s)}
  <2>3. t \in SUBSET S /\ Cardinality(s) \in Nat \ {0} /\ Cardinality(t) = Cardinality(s) - 1
    BY <2>2, SomeOf
  <2> HIDE DEF t
  <2>4. ~(Cardinality(s) <= Cardinality(t))
    BY <2>3
  <2>5. t \notin Bad
    BY <2>1, <2>4
  <2>6. t \in Good
    BY <2>3, <2>5
  <2> QED  BY <2>2, <2>6 DEF t
<1> QED  BY <1>1

\* One value where a condition holds and nothing elsewhere.
LEMMA SumWhere ==
    ASSUME NEW S, IsFiniteSet(S), NEW P \in SUBSET S, NEW c \in Nat,
           NEW fun, DOMAIN fun = S, \A i \in S : fun[i] = IF i \in P THEN c ELSE 0
    PROVE  SumFunction(fun) = Cardinality(P) * c
<1> DEFINE T == Total(fun, S)
           Good == {s \in SUBSET S : T[s] = Cardinality(s \cap P) * c}
<1>1. \A s \in SUBSET S : T[s] = IF s = {} THEN 0 ELSE fun[Some(s)] + T[s \ {Some(s)}]
  BY TotalIs
<1>2. \A s \in SUBSET S : IsFiniteSet(s \cap P) /\ Cardinality(s \cap P) \in Nat
  <2> SUFFICES ASSUME NEW s \in SUBSET S PROVE IsFiniteSet(s \cap P) /\ Cardinality(s \cap P) \in Nat
    OBVIOUS
  <2>1. s \cap P \in SUBSET S
    OBVIOUS
  <2> QED  BY <2>1, FS_Subset, FS_CardinalityType
<1> HIDE DEF T
<1>3. {} \in Good
  <2>1. {} \in SUBSET S /\ {} \cap P = {}
    OBVIOUS
  <2>2. T[{}] = 0
    BY <1>1, <2>1
  <2>3. Cardinality({}) * c = 0
    BY FS_EmptySet
  <2> QED  BY <2>1, <2>2, <2>3
<1>4. ASSUME NEW s \in SUBSET S, s # {}, s \ {Some(s)} \in Good PROVE s \in Good
  <2> DEFINE x == Some(s)
             t == s \ {x}
             k == Cardinality(t \cap P)
  <2>1. x \in s /\ x \in S /\ t \in SUBSET S
    BY <1>4, SomeOf
  <2>2. T[s] = fun[x] + T[t]
    BY <1>1, <1>4
  <2>3. T[t] = k * c /\ k \in Nat
    BY <1>2, <1>4, <2>1
  <2>4. IsFiniteSet(t \cap P)
    BY <1>2, <2>1
  <2>5. CASE x \in P
    <3>1. s \cap P = (t \cap P) \cup {x} /\ x \notin t \cap P
      BY <2>1, <2>5
    <3> HIDE DEF x, t
    <3>2. Cardinality(s \cap P) = k + 1
      BY <2>4, <3>1, FS_AddElement
    <3>3. fun[x] = c
      BY <2>1, <2>5
    <3> HIDE DEF k
    <3>4. (k + 1) * c = c + k * c
      BY <2>3
    <3> QED  BY <2>2, <2>3, <3>2, <3>3, <3>4
  <2>6. CASE x \notin P
    <3>1. s \cap P = t \cap P
      BY <2>1, <2>6
    <3>2. fun[x] = 0
      BY <2>1, <2>6
    <3>3. Cardinality(s \cap P) = k
      BY <3>1
    <3> HIDE DEF k, x, t
    <3>4. k * c \in Nat
      BY <2>3
    <3>5. fun[x] + T[t] = k * c
      BY <2>3, <3>2, <3>4
    <3> QED  BY <2>2, <3>3, <3>5
  <2> QED  BY <2>5, <2>6
<1>5. S \in Good
  <2>1. Good \in SUBSET SUBSET S
    OBVIOUS
  <2> HIDE DEF Good
  <2> QED  BY <1>3, <1>4, <2>1, Subsets
<1>6. S \cap P = P
  OBVIOUS
<1>7. T[S] = Cardinality(P) * c
  BY <1>5, <1>6
<1> QED  BY <1>7, SumIsTotal DEF T

LEMMA Distributes == ASSUME NEW n \in Int, NEW a \in Int, NEW b \in Int PROVE n * (a + b) = n * a + n * b
OBVIOUS

\* A factor of all terms is one of the sum.
Multiple(many, one, n) == \A i \in DOMAIN one : one[i] \in Nat /\ many[i] = n * one[i]

LEMMA SumScaled ==
    ASSUME NEW S, IsFiniteSet(S), NEW n \in Int, NEW many, DOMAIN many = S, NEW one, DOMAIN one = S,
           Multiple(many, one, n)
    PROVE  SumFunction(many) = n * SumFunction(one)
<1> DEFINE F == Total(many, S)
           G == Total(one, S)
           Good == {s \in SUBSET S : G[s] \in Nat /\ F[s] = n * G[s]}
<1>1. \A s \in SUBSET S : F[s] = IF s = {} THEN 0 ELSE many[Some(s)] + F[s \ {Some(s)}]
  BY TotalIs
<1>2. \A s \in SUBSET S : G[s] = IF s = {} THEN 0 ELSE one[Some(s)] + G[s \ {Some(s)}]
  <2> HIDE DEF F, Good
  <2>1. \A s \in SUBSET S :
            Total(one, S)[s] = IF s = {} THEN 0 ELSE one[Some(s)] + Total(one, S)[s \ {Some(s)}]
    BY TotalIs
  <2> QED  BY <2>1
<1> HIDE DEF F, G
<1>3. {} \in Good
  <2>1. F[{}] = 0 /\ G[{}] = 0
    BY <1>1, <1>2
  <2> QED  BY <2>1
<1>4. ASSUME NEW s \in SUBSET S, s # {}, s \ {Some(s)} \in Good PROVE s \in Good
  <2> DEFINE x == Some(s)
             t == s \ {x}
  <2>1. x \in S /\ t \in SUBSET S
    BY <1>4, SomeOf
  <2>2. F[s] = many[x] + F[t]
    BY <1>1, <1>4
  <2>3. G[s] = one[x] + G[t]
    BY <1>2, <1>4
  <2>4. G[t] \in Nat /\ F[t] = n * G[t]
    BY <1>4
  <2> HIDE DEF x, t
  <2>5. one[x] \in Nat /\ many[x] = n * one[x]
    BY <2>1 DEF Multiple
  <2>6. G[s] \in Nat
    BY <2>3, <2>4, <2>5
  <2>7. n * (one[x] + G[t]) = n * one[x] + n * G[t]
    BY <2>4, <2>5, Distributes
  <2>8. F[s] = n * G[s]
    BY <2>2, <2>3, <2>4, <2>5, <2>7
  <2> QED  BY <2>6, <2>8
<1>5. S \in Good
  <2>1. Good \in SUBSET SUBSET S
    OBVIOUS
  <2> HIDE DEF Good
  <2> QED  BY <1>3, <1>4, <2>1, Subsets
<1>6. F[S] = n * G[S]
  BY <1>5
<1> QED  BY <1>6, SumIsTotal DEF F, G

\* A member of one of the groups is not lost.
LEMMA Told ==
    ASSUME NEW a, IsGroups(a), NEW T, NEW t \in Seq(T), NEW i \in DOMAIN t,
           NEW k, At(t[i], k) # NULL
    PROVE  Says(a \o t, k) # NULL
<1>1. IsGroups(t)
  BY IsGroupsBy
<1>2. PICK j \in DOMAIN t : At(t[j], k) # NULL /\ \A m \in j + 1 .. Len(t) : At(t[m], k) = NULL
  BY <1>1, SomeLast
<1>3. Says(t, k) # NULL
  BY <1>1, <1>2, SaysLast
<1> QED  BY <1>1, <1>3, SaysConcat

LEMMA StillTold ==
    ASSUME NEW a, IsGroups(a), NEW x, NEW k, Says(a, k) # NULL
    PROVE  Says(a \o <<x>>, k) # NULL
BY OneGroup, SaysConcat

LEMMA HostsCounted ==
    ASSUME NEW r \in Records, r.type \in HostTypes, r.execHosts # NULL
    PROVE  At(NumExecHosts(r.execHosts), "num_exec_hosts") # NULL
<1>1. r.execHosts \in Seq([times : Nat, host : Seq(STRING)])
  BY HostsAssumption DEF HostTypes
<1>2. Len(r.execHosts) \in Nat
  BY <1>1
<1>3. At(NumExecHosts(r.execHosts), "num_exec_hosts") = Len(r.execHosts)
  BY DEF NumExecHosts, At
<1> QED  BY <1>2, <1>3, NumbersAssumption

\* The put functions with a table of hosts tell their number.
LEMMA CountTold ==
    ASSUME NEW r \in Records, r.type \in HostTypes, r.execHosts # NULL
    PROVE  /\ Says(putJobStart(r), "num_exec_hosts") # NULL
           /\ Says(putJobChunk(r), "num_exec_hosts") # NULL
           /\ Says(putJobForce(r), "num_exec_hosts") # NULL
           /\ r.type = "JOB_FINISH" => Says(putJobFinish(r), "num_exec_hosts") # NULL
<1> DEFINE k == "num_exec_hosts"
           n == NumExecHosts(r.execHosts)
           h == putJobHEAD(r)
<1>1. IsGroups(h)
  BY RightHead DEF AllRight
<1>2. At(n, k) # NULL
  BY HostsCounted
<1> HIDE DEF k, n, h
<1>3. Says(putJobStart(r), k) # NULL
  <2> DEFINE start == [start_time |-> r.eventTime, start_time_str |-> timeConvert(r.eventTime)]
             copies == Copies({"job_pid", "job_pgid", "host_cpu_factor", "queue_pre_cmd",
                               "queue_post_cmd",
                               "job_flags", "user_group_name", "additional_info", "preempt_backfill",
                               "effective_res_req", "alloc_slots_num"})
             t == <<Job(r), JobStatus(r), start, n, NumProcessors(r.execHosts), copies>>
  <2>1. putJobStart(r) = h \o t
    BY DEF putJobStart, h, n
  <2> HIDE DEF start, copies
  <2>2. /\ t \in Seq({Job(r), JobStatus(r), start, n, NumProcessors(r.execHosts), copies})
        /\ 4 \in DOMAIN t /\ t[4] = n
    OBVIOUS
  <2> HIDE DEF t
  <2> QED  BY <1>1, <1>2, <2>1, <2>2, Told
<1>4. Says(putJobChunk(r), k) # NULL
  <2> DEFINE memb == [memb_size |-> Len(r.membDigits), memb_job_id |-> MemberList(r.membDigits)]
             id == [job_arr_idx |-> 0, job_id |-> r.jobId]
             t == <<memb, id, n>>
  <2>1. putJobChunk(r) = h \o t
    BY DEF putJobChunk, h, n
  <2> HIDE DEF memb, id
  <2>2. t \in Seq({memb, id, n}) /\ 3 \in DOMAIN t /\ t[3] = n
    OBVIOUS
  <2> HIDE DEF t
  <2> QED  BY <1>1, <1>2, <2>1, <2>2, Told
<1>5. Says(putJobForce(r), k) # NULL
  <2> DEFINE copies == Copies({"uid", "run_options", "user_name", "queue_name"})
             t == <<Job(r), n, copies>>
  <2>1. putJobForce(r) = h \o t
    BY DEF putJobForce, h, n
  <2> HIDE DEF copies
  <2>2. t \in Seq({Job(r), n, copies}) /\ 2 \in DOMAIN t /\ t[2] = n
    OBVIOUS
  <2> HIDE DEF t
  <2> QED  BY <1>1, <1>2, <2>1, <2>2, Told
<1>6. Says(putJobFinish(r), k) # NULL
  <2> DEFINE times == Times(r, {"submit_time", "begin_time", "term_time", "start_time", "end_time"})
             utc == [m \in UtcKeys |-> "milliseconds"]
             cwd == IF r.subcwd \in {NULL, ""} THEN <<>> ELSE Cwd(r.subcwd, "$HOME")
             list == [exec_hosts_list |-> IF r.execHosts = NULL THEN NULL ELSE getExecHostsStr(r.execHosts)]
             exit == [exit_reason |-> getExitReason(r), exit_info |-> r.exitInfo,
                      exit_status |-> r.exitStatus]
             copies == Copies(JobFinishFields)
             t == <<Statistics(r), Job(r), JobStatus(r), times, utc, cwd, JobName(r), putLsfRusage,
                    putAskedhostlist(r), n, NumProcessors(r.execHosts), list, exit, copies>>
  <2>1. putJobFinish(r) = h \o t
    BY DEF putJobFinish, h, n
  <2> HIDE DEF times, utc, cwd, list, exit, copies
  <2>2. t \in Seq({Statistics(r), Job(r), JobStatus(r), times, utc, cwd, JobName(r), putLsfRusage,
                   putAskedhostlist(r), n, NumProcessors(r.execHosts), list, exit, copies})
    OBVIOUS
  <2>3. 10 \in DOMAIN t /\ t[10] = n
    OBVIOUS
  <2> HIDE DEF t
  <2> QED  BY <1>1, <1>2, <2>1, <2>2, <2>3, Told
<1> QED  BY <1>3, <1>4, <1>5, <1>6 DEF k

LEMMA ProcessorsTold ==
    ASSUME NEW r \in Records, r.type = "JOB_FINISH2"
    PROVE  getNumExecProc(r) \in Nat /\ Says(putJobFinish2(r), "num_processors") # NULL
<1> DEFINE k == "num_processors"
           type == [job_type |-> JobType(r), num_processors |-> getNumExecProc(r)]
           times == Times(r, {"submit_time", "begin_time", "term_time", "start_time", "end_time"})
           utc == [m \in UtcKeys |-> "milliseconds mod 2^32"]
           exit == [exit_status |-> r.exitStatus, exit_info |-> r.exitInfo,
                    exit_reason |-> formatExitReason(r),
                    signal_value |-> JobSignalCode(r), exit_code |-> JobSignalCode(r)]
           name == [cluster_name |-> r.clusterName]
           vm == [virtualization |-> IF r.vmjob THEN "Y" ELSE "N"]
           copies == Copies(JobFinish2Fields)
           t == <<PackedJob(r), JobStatus(r), type, times, utc, exit, putLsfRusage,
                  NumExecHosts(r.execHosts), name, vm, copies>>
<1>1. putJobFinish2(r) = Epoch(r) \o t
  BY DEF putJobFinish2
<1>2. IsGroups(Epoch(r))
  BY RightHead DEF AllRight
<1>3. getNumExecProc(r) \in Nat
  <2>1. r.slotUsages \in Seq(Nat)
    BY HostsAssumption
  <2>2. IsFiniteSet(DOMAIN r.slotUsages) /\ \A i \in DOMAIN r.slotUsages : r.slotUsages[i] \in Nat
    BY <2>1, SeqFinite
  <2> QED  BY <2>2, SumNat DEF getNumExecProc
<1>4. At(type, k) # NULL
  <2>1. At(type, k) = getNumExecProc(r)
    BY DEF At
  <2> QED  BY <1>3, <2>1, NumbersAssumption
<1> HIDE DEF k, type, times, utc, exit, name, vm, copies
<1>5. t \in Seq({PackedJob(r), JobStatus(r), type, times, utc, exit, putLsfRusage,
                  NumExecHosts(r.execHosts), name, vm, copies})
  OBVIOUS
<1>6. 3 \in DOMAIN t /\ t[3] = type
  OBVIOUS
<1> HIDE DEF t
<1>7. Says(putJobFinish2(r), k) # NULL
  BY <1>1, <1>2, <1>4, <1>5, <1>6, Told
<1> QED  BY <1>3, <1>7 DEF k

Name == [times : Nat, host : Seq(STRING)]

LEMMA SameName ==
    ASSUME NEW x \in Name, NEW y \in Name, x.times = y.times, x.host = y.host
    PROVE  x = y
<1>1. x = [times |-> x.times, host |-> x.host] /\ y = [times |-> y.times, host |-> y.host]
  BY DEF Name
<1> QED  BY <1>1

\* The slots of a host named once, in the short form, or any number of times.
LEMMA SlotsOfHost ==
    ASSUME NEW hosts \in Seq(Name), ShortOnce(hosts), NEW name \in Range(hosts)
    PROVE  /\ name.times > 0 => Slots(hosts, name.host) = name.times
           /\ ~(name.times > 0) => Slots(hosts, name.host) = Occurrences(hosts, name)
<1> DEFINE S == DOMAIN hosts
           h == name.host
           fun == [i \in S |-> IF hosts[i].host # h THEN 0
                               ELSE IF hosts[i].times > 0 THEN hosts[i].times ELSE 1]
<1>1. IsFiniteSet(S)
  BY SeqFinite
<1>2. Slots(hosts, h) = SumFunction(fun)
  BY DEF Slots
<1>3. PICK m \in S : hosts[m] = name
  BY DEF Range
<1>4. \A i \in S : hosts[i] \in Name
  OBVIOUS
<1>5. \A i \in S : hosts[i].times \in Nat
  BY <1>4 DEF Name
<1>6. \A i \in S : i # m /\ hosts[i].host = h => hosts[i].times = 0 /\ name.times = 0
  BY <1>3 DEF ShortOnce
<1>7. ASSUME name.times > 0 PROVE Slots(hosts, h) = name.times
  <2> DEFINE P == {m}
  <2>1. P \in SUBSET S /\ name.times \in Nat
    BY <1>3, <1>5
  <2>2. \A i \in S : i = m => fun[i] = name.times
    BY <1>3, <1>7
  <2>3. \A i \in S : i # m => hosts[i].host # h
    BY <1>6, <1>7
  <2>4. \A i \in S : i # m => fun[i] = 0
    BY <2>3
  <2>5. DOMAIN fun = S
    OBVIOUS
  <2> HIDE DEF fun, S, h
  <2>6. \A i \in S : fun[i] = IF i \in P THEN name.times ELSE 0
    BY <2>2, <2>4
  <2>7. SumFunction(fun) = Cardinality(P) * name.times
    BY <1>1, <2>1, <2>5, <2>6, SumWhere
  <2>8. Cardinality(P) = 1
    BY FS_Singleton
  <2>9. 1 * name.times = name.times
    BY <2>1
  <2> HIDE DEF P
  <2> QED  BY <1>2, <2>7, <2>8, <2>9
<1>8. ASSUME ~(name.times > 0) PROVE Slots(hosts, h) = Occurrences(hosts, name)
  <2> DEFINE P == {i \in S : hosts[i] = name}
  <2>0. name.times = 0
    BY <1>3, <1>5, <1>8
  <2>1. P \in SUBSET S
    OBVIOUS
  <2>2. \A i \in P : fun[i] = 1
    BY <2>0
  <2>3. \A i \in S : hosts[i].host = h => hosts[i] = name
    <3> SUFFICES ASSUME NEW i \in S, hosts[i].host = h, i # m PROVE hosts[i] = name
      BY <1>3
    <3>1. hosts[i].times = 0 /\ hosts[i].host = h
      BY <1>6
    <3>2. hosts[i] \in Name /\ name \in Name
      BY <1>3, <1>4
    <3> QED  BY <3>1, <3>2, <2>0, SameName
  <2>4. \A i \in S : i \notin P => hosts[i].host # h
    BY <2>3
  <2>5. \A i \in S : i \notin P => fun[i] = 0
    BY <2>4
  <2>6. DOMAIN fun = S
    OBVIOUS
  <2>10. Occurrences(hosts, name) = Cardinality(P)
    BY DEF Occurrences
  <2> HIDE DEF fun, S, h, P
  <2>7. \A i \in S : fun[i] = IF i \in P THEN 1 ELSE 0
    BY <2>1, <2>2, <2>5
  <2>8. SumFunction(fun) = Cardinality(P) * 1
    BY <1>1, <2>1, <2>6, <2>7, SumWhere
  <2>9. Cardinality(P) \in Nat
    BY <1>1, <2>1, FS_Subset, FS_CardinalityType
  <2>11. Cardinality(P) * 1 = Cardinality(P)
    BY <2>9
  <2> QED  BY <1>2, <2>8, <2>10, <2>11
<1> QED  BY <1>7, <1>8

\* The members of an object are those of its type.
LEMMA MadeTells ==
    ASSUME Made, rec \in Records, reader \in Readers,
           NEW k \in {"num_exec_hosts", "exec_hosts", "num_processors"},
           rec.type \in EventTypes, Says(EventMembers(rec), k) # NULL
    PROVE  k \in DOMAIN json
<1> DEFINE e == EventMembers(rec)
           g == Members(reader, rec, cluster)
<1>1. json = Json(g) /\ reader # "Status"
  BY DEF Made, Types, EventTypes
<1>2. IsGroups(e)
  BY EventRight DEF AllRight
<1>3. k # "event_type" /\ k # "cluster_name"
  OBVIOUS
<1>4. IsGroups(g) /\ Says(g, k) = Says(e, k)
  BY <1>1, <1>2, <1>3, MembersSay
<1> HIDE DEF e, g
<1> QED  BY <1>1, <1>4, HasSays DEF e

\* The table of a record with hosts, and their number.
LEMMA MadeTable ==
    ASSUME Made, rec \in Records, reader \in Readers, Listed(rec)
    PROVE  /\ rec.execHosts \in Seq(Name)
           /\ json["exec_hosts"] = getExecHostsHashmapArray(rec.execHosts)
           /\ rec.execHosts # NULL
           /\ json["num_exec_hosts"] = Len(rec.execHosts)
<1>1. RightAt(rec, "exec_hosts", json["exec_hosts"]) /\ json["exec_hosts"] # NULL
  BY MadeRight DEF Listed, ListKeys
<1>2. /\ rec.execHosts # NULL /\ rec.type \in HostTypes
      /\ json["exec_hosts"] = getExecHostsHashmapArray(rec.execHosts)
  BY <1>1 DEF RightAt, Listed
<1>3. rec.execHosts \in Seq(Name)
  BY <1>2, HostsAssumption DEF Name, HostTypes
<1>4. IsGroups(putJobStart(rec)) /\ IsGroups(putJobChunk(rec)) /\ IsGroups(putJobForce(rec))
  BY <1>2, RunRight DEF AllRight, HostTypes
<1>5. rec.type = "JOB_FINISH" => IsGroups(putJobFinish(rec))
  BY FinishRight DEF AllRight
<1>6. Says(EventMembers(rec), "num_exec_hosts") # NULL
  <2>1. CASE rec.type \in {"JOB_START", "PRE_EXEC_START"}
    BY <2>1, <1>2, <1>4, CountTold, StillTold DEF EventMembers
  <2>2. CASE rec.type = "JOB_CHUNK"
    BY <2>2, <1>2, <1>4, CountTold, StillTold DEF EventMembers
  <2>3. CASE rec.type = "JOB_FORCE"
    BY <2>3, <1>2, <1>4, CountTold, StillTold DEF EventMembers
  <2>4. CASE rec.type = "JOB_FINISH"
    BY <2>4, <1>2, <1>5, CountTold, StillTold DEF EventMembers
  <2> QED  BY <1>2, <2>1, <2>2, <2>3, <2>4 DEF HostTypes
<1>7. "num_exec_hosts" \in DOMAIN json
  BY <1>2, <1>6, MadeTells DEF HostTypes, EventTypes
<1>8. RightAt(rec, "num_exec_hosts", json["num_exec_hosts"]) /\ json["num_exec_hosts"] # NULL
  BY <1>7, MadeRight DEF ListKeys
<1> QED  BY <1>2, <1>3, <1>8 DEF RightAt

\* The list of a JOB_FINISH, with the table.
LEMMA MadeList ==
    ASSUME Made, rec \in Records, reader \in Readers, Has({"exec_hosts_list"})
    PROVE  /\ Listed(rec)
           /\ json["exec_hosts_list"] = getExecHostsStr(rec.execHosts)
<1>1. RightAt(rec, "exec_hosts_list", json["exec_hosts_list"]) /\ json["exec_hosts_list"] # NULL
  BY MadeRight DEF Has, ListKeys
<1>2. /\ rec.execHosts # NULL /\ rec.type = "JOB_FINISH"
      /\ json["exec_hosts_list"] = getExecHostsStr(rec.execHosts)
  BY <1>1 DEF RightAt
<1>3. getExecHostsHashmapArray(rec.execHosts) # NULL
  BY <1>2, HostsAssumption
<1>4. IsGroups(putJobFinish(rec))
  BY <1>2, FinishRight DEF AllRight
<1>5. Says(EventMembers(rec), "exec_hosts") # NULL
  <2> DEFINE x == ExecHosts(rec.execHosts)
             t == <<x>>
  <2>1. At(x, "exec_hosts") # NULL
    BY <1>3 DEF ExecHosts, At
  <2>2. EventMembers(rec) = putJobFinish(rec) \o t
    BY <1>2 DEF EventMembers
  <2> HIDE DEF x
  <2>3. t \in Seq({x}) /\ 1 \in DOMAIN t /\ t[1] = x
    OBVIOUS
  <2> HIDE DEF t
  <2> QED  BY <1>4, <2>1, <2>2, <2>3, Told
<1>6. "exec_hosts" \in DOMAIN json
  BY <1>2, <1>5, MadeTells DEF EventTypes
<1> QED  BY <1>2, <1>6 DEF Listed

\* The table of a JOB_FINISH2.
LEMMA MadeShares ==
    ASSUME Made, rec \in Records, reader \in Readers, rec.type = "JOB_FINISH2", Has({"exec_hosts"})
    PROVE  /\ rec.execHosts # NULL
           /\ json["exec_hosts"] = getJobExecHostsHashmapArray(rec)
           /\ json["num_processors"] = getNumExecProc(rec)
           /\ getNumExecProc(rec) \in Nat
<1>1. RightAt(rec, "exec_hosts", json["exec_hosts"]) /\ json["exec_hosts"] # NULL
  BY MadeRight DEF Has, ListKeys
<1>2. rec.execHosts # NULL /\ json["exec_hosts"] = getJobExecHostsHashmapArray(rec)
  BY <1>1 DEF RightAt, HostTypes
<1>3. IsGroups(putJobFinish2(rec))
  BY Finish2Right DEF AllRight
<1>4. Says(EventMembers(rec), "num_processors") # NULL
  <2> DEFINE x == [exec_hosts |-> IF rec.execHosts = NULL THEN NULL ELSE getJobExecHostsHashmapArray(rec)]
  <2>1. EventMembers(rec) = putJobFinish2(rec) \o <<x>>
    BY DEF EventMembers
  <2> HIDE DEF x
  <2> QED  BY <1>3, <2>1, ProcessorsTold, StillTold
<1>5. "num_processors" \in DOMAIN json
  BY <1>4, MadeTells DEF EventTypes
<1>6. RightAt(rec, "num_processors", json["num_processors"]) /\ json["num_processors"] # NULL
  BY <1>5, MadeRight DEF ListKeys
<1>7. json["num_processors"] = getNumExecProc(rec)
  BY <1>6 DEF RightAt
<1> QED  BY <1>2, <1>7, ProcessorsTold

LEMMA TableIs ==
    ASSUME NEW hosts, hosts # NULL
    PROVE  /\ DOMAIN getExecHostsHashmapArray(hosts) = Range(hosts)
           /\ \A name \in Range(hosts) :
                 /\ getExecHostsHashmapArray(hosts)[name].host_name = name.host
                 /\ name.times > 0 => getExecHostsHashmapArray(hosts)[name].num_slots = name.times
                 /\ ~(name.times > 0) =>
                        getExecHostsHashmapArray(hosts)[name].num_slots = Occurrences(hosts, name)
BY DEF getExecHostsHashmapArray

LEMMA TableSlots ==
    ASSUME Made, rec \in Records, reader \in Readers, Listed(rec), ShortOnce(rec.execHosts),
           NEW e \in Range(json["exec_hosts"])
    PROVE  e.num_slots = Slots(rec.execHosts, e.host_name)
<1> DEFINE hosts == rec.execHosts
           table == getExecHostsHashmapArray(hosts)
<1>1. hosts \in Seq(Name) /\ hosts # NULL /\ json["exec_hosts"] = table /\ ShortOnce(hosts)
  BY MadeTable
<1>2. DOMAIN table = Range(hosts)
  BY <1>1, TableIs
<1> HIDE DEF table, hosts
<1>3. PICK name \in Range(hosts) : e = table[name]
  <2>1. e \in Range(table)
    BY <1>1
  <2> QED  BY <1>2, <2>1 DEF Range
<1>4. /\ e.host_name = name.host
      /\ name.times > 0 => e.num_slots = name.times
      /\ ~(name.times > 0) => e.num_slots = Occurrences(hosts, name)
  BY <1>1, <1>3, TableIs DEF table
<1>5. /\ name.times > 0 => Slots(hosts, name.host) = name.times
      /\ ~(name.times > 0) => Slots(hosts, name.host) = Occurrences(hosts, name)
  BY <1>1, <1>3, SlotsOfHost
<1> QED  BY <1>4, <1>5 DEF hosts

LEMMA TableCount ==
    ASSUME Made, rec \in Records, reader \in Readers, Listed(rec)
    PROVE  Cardinality(DOMAIN json["exec_hosts"]) <= json["num_exec_hosts"]
<1>1. DOMAIN json["exec_hosts"] = Range(rec.execHosts)
  BY MadeTable, TableIs
<1>2. Cardinality(Range(rec.execHosts)) <= Len(rec.execHosts)
  BY MadeTable, SeqFinite
<1> QED  BY <1>1, <1>2, MadeTable

LEMMA ListCounts ==
    ASSUME Made, rec \in Records, reader \in Readers, Has({"exec_hosts_list"}),
           NEW n \in DOMAIN json["exec_hosts"], n.times = 0
    PROVE  json["exec_hosts"][n].num_slots = json["exec_hosts_list"].counts[n]
<1> DEFINE hosts == rec.execHosts
           table == getExecHostsHashmapArray(hosts)
<1>1. /\ hosts # NULL /\ json["exec_hosts"] = table
      /\ json["exec_hosts_list"] = getExecHostsStr(hosts)
  BY MadeTable, MadeList
<1>2. n \in Range(hosts) /\ ~(n.times > 0)
  BY <1>1, TableIs
<1>3. table[n].num_slots = Occurrences(hosts, n)
  BY <1>1, <1>2, TableIs
<1>4. getExecHostsStr(hosts).counts[n] = Occurrences(hosts, n)
  BY <1>2 DEF getExecHostsStr
<1> HIDE DEF table, hosts
<1> QED  BY <1>1, <1>3, <1>4

\* An entry of the table of a JOB_FINISH2.
LEMMA ShareIs ==
    ASSUME NEW r, NEW i \in DOMAIN r.execHosts
    PROVE  /\ DOMAIN getJobExecHostsHashmapArray(r) = DOMAIN r.execHosts
           /\ getJobExecHostsHashmapArray(r)[i].num_slots = r.slotUsages[i]
           /\ getJobExecHostsHashmapArray(r)[i].usage = HostUsage(r, i)
BY DEF getJobExecHostsHashmapArray

LEMMA UsageIs ==
    ASSUME NEW r, NEW i, r.hostRusage = <<>>, getNumExecProc(r) # 0, ~(r.ru_utime < 0)
    PROVE  /\ HostUsage(r, i).utime.of = r.ru_utime * r.slotUsages[i]
           /\ HostUsage(r, i).utime.by = getNumExecProc(r)
<1> DEFINE n == r.ru_utime * r.slotUsages[i]
           t == getNumExecProc(r)
           q == [of |-> n, by |-> t]
<1>1. Share(r, i, r.ru_utime) = q
  BY DEF Share
<1>2. HostUsage(r, i) = [mem_usage |-> Share(r, i, r.ru_maxrss), utime |-> Share(r, i, r.ru_utime),
                         stime |-> Share(r, i, r.ru_stime)]
  BY DEF HostUsage
<1>3. HostUsage(r, i).utime = q
  BY <1>1, <1>2
<1> HIDE DEF n, t
<1>4. q.of = n /\ q.by = t
  OBVIOUS
<1> QED  BY <1>3, <1>4 DEF n, t

LEMMA SharesAdd ==
    ASSUME Made, rec \in Records, reader \in Readers, rec.type = "JOB_FINISH2", Has({"exec_hosts"})
    PROVE  LET hosts == json["exec_hosts"]
           IN /\ json["num_processors"] = SumFunction([i \in DOMAIN hosts |-> hosts[i].num_slots])
              /\ rec.hostRusage = <<>> /\ json["num_processors"] > 0 /\ rec.ru_utime >= 0 =>
                     /\ \A i \in DOMAIN hosts : hosts[i].usage.utime.by = json["num_processors"]
                     /\ rec.ru_utime * json["num_processors"] =
                            SumFunction([i \in DOMAIN hosts |-> hosts[i].usage.utime.of])
<1> DEFINE hosts == json["exec_hosts"]
           D == DOMAIN hosts
           slots == rec.slotUsages
           procs == getNumExecProc(rec)
           n == rec.ru_utime
           nums == [i \in D |-> hosts[i].num_slots]
           ofs == [i \in D |-> hosts[i].usage.utime.of]
<1>1. /\ rec.execHosts # NULL /\ hosts = getJobExecHostsHashmapArray(rec)
      /\ json["num_processors"] = procs /\ procs \in Nat
  BY MadeShares
<1>2. slots \in Seq(Nat) /\ DOMAIN rec.execHosts = DOMAIN slots /\ n \in Int
  BY <1>1, HostsAssumption
<1>3. D = DOMAIN slots
  <2>1. DOMAIN getJobExecHostsHashmapArray(rec) = DOMAIN rec.execHosts
    BY DEF getJobExecHostsHashmapArray
  <2> QED  BY <1>1, <1>2, <2>1
<1>4. IsFiniteSet(D) /\ \A i \in D : slots[i] \in Nat
  BY <1>2, <1>3, SeqFinite
<1>5. procs = SumFunction(slots)
  BY DEF getNumExecProc
<1>6. \A i \in D : hosts[i].num_slots = slots[i] /\ hosts[i].usage = HostUsage(rec, i)
  BY <1>1, <1>2, <1>3, ShareIs
<1> HIDE DEF hosts, D, slots, procs, n
<1>7. nums = slots
  <2>1. slots = [i \in D |-> slots[i]]
    BY <1>2, <1>3
  <2> QED  BY <1>6, <2>1
<1>8. json["num_processors"] = SumFunction(nums)
  BY <1>1, <1>5, <1>7
<1>9. ASSUME rec.hostRusage = <<>>, json["num_processors"] > 0, n >= 0
      PROVE  /\ \A i \in D : hosts[i].usage.utime.by = json["num_processors"]
             /\ n * json["num_processors"] = SumFunction(ofs)
  <2>1. procs # 0 /\ ~(n < 0)
    BY <1>1, <1>2, <1>9
  <2>2. \A i \in D : HostUsage(rec, i).utime.of = n * slots[i] /\ HostUsage(rec, i).utime.by = procs
    BY <1>9, <2>1, UsageIs DEF n, slots, procs
  <2>3. \A i \in D : hosts[i].usage.utime.of = n * slots[i] /\ hosts[i].usage.utime.by = procs
    BY <1>6, <2>2
  <2>4. \A i \in D : ofs[i] = n * slots[i]
    BY <2>3
  <2>5. DOMAIN ofs = D
    OBVIOUS
  <2> HIDE DEF ofs
  <2>6. Multiple(ofs, slots, n)
    BY <1>3, <1>4, <2>4 DEF Multiple
  <2>7. SumFunction(ofs) = n * SumFunction(slots)
    BY <1>2, <1>3, <1>4, <2>5, <2>6, SumScaled
  <2> QED  BY <1>1, <1>5, <2>3, <2>7
<1> QED  BY <1>8, <1>9 DEF hosts, D, n

LEMMA MadeHosts == ASSUME Made, rec \in Records, reader \in Readers PROVE HostsAgree
BY TableSlots, TableCount, ListCounts, SharesAdd DEF HostsAgree

\* For every record: the table of hosts has the slots the names of the record add up to,
\* has no more hosts than the record says, agrees with the list of a JOB_FINISH, and shares
\* out the processors and the time of a JOB_FINISH2 without a rest.
THEOREM HostsAlwaysAgree == Spec => []HostsAgree
<1>1. ObjectInv => HostsAgree
  BY MadeHosts DEF ObjectInv, HostsAgree
<1> QED  BY <1>1, ObjectAlways, PTL
=============================================================================
