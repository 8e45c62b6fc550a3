------------------------------ MODULE JobArray ------------------------------
(***************************************************************************)
(* lsfeventsparser/job_array.c: countJobByName expands the index list of a *)
(* job name such as "sim[1-10:3,12]" into the indices it names, each once, *)
(* first into an array of integers that grows, then into a text.           *)
(*                                                                         *)
(* A token is what lies between two commas: its numbers as atoi reads them *)
(* (0 for one that is missing), and whether there is a dash.  A name       *)
(* without an index list has no tokens.                                    *)
(*                                                                         *)
(* No token has a negative step, which parseIndexRange takes as it is, nor *)
(* a colon before its dash, with which parseIndex copies a negative        *)
(* length: LSF does not name such arrays.                                  *)
(***************************************************************************)
EXTENDS Integers, Sequences

CONSTANTS
    Tokens,
    TokenLists,         \* the index lists to expand
    MaxJobArraySize,    \* the parameter of LSF
    INIT_INDEX_NUMBER,  \* integers the array holds at first: 1000 in the code
    INDEX_INCREMENT     \* by how many it grows: 100 in the code

\* Numbers up to half of INT_MAX: with them index += step stays an int.
MaxNumber == 1073741823
Number == 0 .. MaxNumber

Token == [lower : Number, dash : BOOLEAN, upper : Number, step : Number]

ASSUME ArrayAssumption ==
    /\ Tokens \subseteq Token
    /\ TokenLists \subseteq Seq(Tokens)
    /\ MaxJobArraySize \in Number /\ MaxJobArraySize # 0
    /\ INIT_INDEX_NUMBER \in Nat \ {0} /\ INDEX_INCREMENT \in Nat \ {0}

VARIABLES
    pc,
    tokens,             \* those still to parse
    minIndex, maxIndex, \* over the ranges parsed, -1 at first
    range,              \* indexRange: the last one parsed
    overlapped,         \* it may share indices with an earlier one
    index,              \* the next of its indices
    list,               \* tmpJobIndexList up to currentPointer
    tail,               \* indices in it before the range
    bufferLen,
    size,               \* bytes allocated for the text
    written,            \* characters of it, and
    p,                  \* indices written
    name                \* the index list as it was

scan == <<tokens, minIndex, maxIndex, range, overlapped, tail>>
array == <<list, bufferLen>>
text == <<size, written, p>>
vars == <<pc, scan, index, array, text, name>>

START_JOB_INDEX == 1

-----------------------------------------------------------------------------
(* parseIndexRangeString.                                                   *)

\* What it may return: -1 when LSF does not answer.
getMaxJobArraySize == {MaxJobArraySize, -1}

\* A lone index must be there; a dash has the first index and the largest array, which
\* lsf is, for defaults.
Parses(t) == t.dash \/ t.lower # 0

\* Mutant: no default for a missing first index.
ParsedWithoutStart(t, lsf) ==
    [lower |-> t.lower,
     upper |-> IF ~t.dash THEN t.lower ELSE IF t.upper = 0 THEN lsf ELSE t.upper,
     step |-> IF ~t.dash \/ t.step = 0 THEN 1 ELSE t.step]

Parsed(t, lsf) ==
    [lower |-> IF t.lower = 0 THEN START_JOB_INDEX ELSE t.lower,
     upper |-> IF ~t.dash THEN t.lower ELSE IF t.upper = 0 THEN lsf ELSE t.upper,
     step |-> IF ~t.dash \/ t.step = 0 THEN 1 ELSE t.step]

\* Mutant: a range around all earlier ones is forgotten.
OverlapsEnds(r) ==
    \/ r.lower >= minIndex /\ r.lower <= maxIndex
    \/ r.upper >= minIndex /\ r.upper <= maxIndex

Overlaps(r) ==
    \/ r.lower <= minIndex /\ r.upper >= maxIndex
    \/ r.lower >= minIndex /\ r.lower <= maxIndex
    \/ r.upper >= minIndex /\ r.upper <= maxIndex

-----------------------------------------------------------------------------
(* generateJobIndexList, one step per range and per index.                  *)

SkipToken ==
    /\ pc = "parse" /\ tokens # <<>>
    /\ ~Parses(Head(tokens))
    /\ tokens' = Tail(tokens)
    /\ UNCHANGED <<pc, minIndex, maxIndex, range, overlapped, tail, index, array, text, name>>

ParseToken ==
    /\ pc = "parse" /\ tokens # <<>>
    /\ Parses(Head(tokens))
    /\ \E lsf \in getMaxJobArraySize :
        LET r == Parsed(Head(tokens), lsf) IN
        /\ range' = r
        /\ overlapped' = Overlaps(r)
        /\ minIndex' = IF minIndex > r.lower \/ minIndex = -1 THEN r.lower ELSE minIndex
        /\ maxIndex' = IF maxIndex < r.upper THEN r.upper ELSE maxIndex
        /\ index' = r.lower
    /\ tokens' = Tail(tokens)
    /\ tail' = Len(list)
    /\ pc' = "append"
    /\ UNCHANGED <<array, text, name>>

\* An index of an earlier range: only those are looked at.
Exists == overlapped /\ \E i \in 1 .. tail : list[i] = index

\* Mutant: an index that is there ends the range.
SkipIndexLast ==
    /\ pc = "append" /\ index <= range.upper
    /\ Exists
    /\ index' = range.upper + 1
    /\ UNCHANGED <<pc, scan, array, text, name>>

SkipIndex ==
    /\ pc = "append" /\ index <= range.upper
    /\ Exists
    /\ index' = index + range.step
    /\ UNCHANGED <<pc, scan, array, text, name>>

AppendIndex ==
    /\ pc = "append" /\ index <= range.upper
    /\ ~Exists
    /\ bufferLen' = IF Len(list) >= bufferLen THEN bufferLen + INDEX_INCREMENT ELSE bufferLen
    /\ list' = Append(list, index)
    /\ index' = index + range.step
    /\ UNCHANGED <<pc, scan, text, name>>

EndRange ==
    /\ pc = "append" /\ index > range.upper
    /\ pc' = "parse"
    /\ UNCHANGED <<scan, index, array, text, name>>

\* Decimal digits: (int) log10(n) + 1.
Tens == <<10, 100, 1000, 10000, 100000, 1000000, 10000000, 100000000, 1000000000>>

Digits(n) == CHOOSE d \in 1 .. 10 : (d = 10 \/ n < Tens[d]) /\ (d = 1 \/ n >= Tens[d - 1])

\* Mutant: no room for the commas.
AllocateTight ==
    /\ pc = "parse" /\ tokens = <<>>
    /\ size' = IF list = <<>> THEN 1 ELSE Len(list) * Digits(maxIndex) + 1
    /\ pc' = "print"
    /\ UNCHANGED <<scan, index, array, written, p, name>>

\* With no index at all maxIndex may be -1, whose logarithm is no number: multiplied
\* by 0 indices, whatever it converts to.
Allocate ==
    /\ pc = "parse" /\ tokens = <<>>
    /\ size' = IF list = <<>> THEN 1 ELSE Len(list) * (Digits(maxIndex) + 1) + 1
    /\ pc' = "print"
    /\ UNCHANGED <<scan, index, array, written, p, name>>

WriteNumber ==
    /\ pc = "print" /\ p < Len(list)
    /\ p' = p + 1
    /\ written' = written + Digits(list[p + 1]) + (IF p = 0 THEN 0 ELSE 1)
    /\ UNCHANGED <<pc, scan, index, array, size, name>>

\* countJobByName returns the number of indices, or 1 when there is no index list.
Return ==
    /\ pc = "print" /\ p = Len(list)
    /\ pc' = "done"
    /\ UNCHANGED <<scan, index, array, text, name>>

\* getIndexRangeListString: no name, no brackets or nothing in them is one job.
HasIndexList(jobName) == jobName # <<>>

NoRange == [lower |-> 0, upper |-> -1, step |-> 1]

Init ==
    /\ name \in TokenLists /\ tokens = name
    /\ pc = IF HasIndexList(name) THEN "parse" ELSE "done"
    /\ minIndex = -1 /\ maxIndex = -1
    /\ range = NoRange /\ overlapped = FALSE /\ index = 0 /\ tail = 0
    /\ list = <<>> /\ bufferLen = INIT_INDEX_NUMBER
    /\ size = 0 /\ written = 0 /\ p = 0

Next ==
    \/ SkipToken \/ ParseToken \/ SkipIndex \/ AppendIndex \/ EndRange
    \/ Allocate \/ WriteNumber \/ Return

Spec == Init /\ [][Next]_vars

-----------------------------------------------------------------------------
(* Correctness.                                                             *)

TypeOK ==
    /\ pc \in {"parse", "append", "print", "done"}
    /\ name \in Seq(Tokens) /\ tokens \in Seq(Tokens)
    /\ minIndex \in Int /\ maxIndex \in Int /\ overlapped \in BOOLEAN
    /\ range.lower \in Nat /\ range.upper \in Int /\ range.step \in Nat \ {0}
    /\ pc = "append" => range.lower > 0
    /\ index \in Nat /\ tail \in 0 .. Len(list)
    /\ list \in Seq(Nat \ {0}) /\ bufferLen \in Nat

\* generateJobIndexList: the comment "Check the range to see if it's overlapping".  No
\* index is in the list twice, although indices are only looked for when the range
\* meets the hull of the earlier ones, and only among those of earlier ranges.
NoIndexTwice == \A i, n \in 1 .. Len(list) : list[i] = list[n] => i = n

\* The indices a token names.
Named(t) ==
    LET first == IF t.lower = 0 THEN START_JOB_INDEX ELSE t.lower
        last == IF ~t.dash THEN t.lower ELSE IF t.upper = 0 THEN MaxJobArraySize ELSE t.upper
        step == IF ~t.dash \/ t.step = 0 THEN 1 ELSE t.step
    IN  {i \in first .. last : (i - first) % step = 0}

NamedBy(places) == UNION {Named(name[i]) : i \in {n \in places : Parses(name[n])}}
Ended(t) == ~t.dash \/ t.upper # 0

\* The list is what the name says; ranges without an end are missing when LSF does not
\* say how large an array may be.
ListExact ==
    pc = "done" =>
        LET listed == {list[i] : i \in 1 .. Len(list)}
            places == 1 .. Len(name)
        IN  /\ listed \subseteq NamedBy(places)
            /\ NamedBy({i \in places : Ended(name[i])}) \subseteq listed

\* No index and no character is written behind the memory allocated for it.
WithinBuffers == Len(list) <= bufferLen /\ (pc = "print" => written + 1 <= size)
=============================================================================
