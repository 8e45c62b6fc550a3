--------------------------- MODULE JobArrayProofs ---------------------------
(***************************************************************************)
(* No index list is expanded into a list that holds an index twice, however *)
(* many ranges it has and however large they are.                          *)
(***************************************************************************)
EXTENDS JobArray, LeastElement, TLAPS

USE ArrayAssumption DEF Token

-----------------------------------------------------------------------------
(* Type correctness.  The range is 0 .. -1 before the first token, so that  *)
(* its lower end is positive only while its indices are appended.           *)

RangeType == [lower : Nat, upper : Int, step : Nat \ {0}]

TypeInv ==
    /\ pc \in {"parse", "append", "print", "done"}
    /\ name \in Seq(Tokens) /\ tokens \in Seq(Tokens)
    /\ minIndex \in Int /\ maxIndex \in Int /\ overlapped \in BOOLEAN
    /\ range \in RangeType
    /\ pc = "append" => range.lower > 0 /\ index > 0
    /\ index \in Nat /\ tail \in 0 .. Len(list)
    /\ list \in Seq(Nat \ {0}) /\ bufferLen \in Nat

(* Numbers are natural ones, and what is below one is one.                  *)
LEMMA NumberIs ==
    /\ Number \subseteq Nat /\ MaxJobArraySize \in Nat \ {0}
    /\ \A n \in Nat : \A m \in Number : n <= m => n \in Number
  <1>1. MaxNumber \in Nat
      BY SMT DEF MaxNumber
  <1> QED
      BY <1>1 DEF Number

(* A token that parses has a positive first index and a positive step.      *)
LEMMA ParsedType ==
    ASSUME NEW t \in Token, Parses(t), NEW lsf \in getMaxJobArraySize
    PROVE  Parsed(t, lsf) \in RangeType /\ Parsed(t, lsf).lower > 0
  <1>1. t.lower \in Number /\ t.dash \in BOOLEAN /\ t.upper \in Number /\ t.step \in Number
      OBVIOUS
  <1>2. lsf \in Int
      BY NumberIs DEF getMaxJobArraySize
  <1>3. t.lower \in Nat /\ t.upper \in Nat /\ t.step \in Nat
    <2>1. Number \subseteq Nat
        BY NumberIs
    <2> QED
        BY <1>1, <2>1
  <1> QED
      BY <1>1, <1>2, <1>3 DEF Parses, Parsed, RangeType, START_JOB_INDEX

LEMMA TypeInit == Init => TypeInv
  <1> SUFFICES ASSUME Init PROVE TypeInv
      OBVIOUS
  <1>1. name \in Seq(Tokens)
      BY DEF Init
  <1>2. pc \in {"parse", "done"} /\ pc # "append"
      BY DEF Init
  <1>3. range \in RangeType
      BY DEF Init, NoRange, RangeType
  <1>4. list \in Seq(Nat \ {0}) /\ tail \in 0 .. Len(list)
      BY DEF Init
  <1>5. overlapped \in BOOLEAN /\ tokens = name
      BY DEF Init
  <1>6. minIndex \in Int /\ maxIndex \in Int /\ index \in Nat /\ bufferLen \in Nat
      BY DEF Init
  <1> QED
      BY <1>1, <1>2, <1>3, <1>4, <1>5, <1>6 DEF TypeInv

(* Every step keeps the types: a loop over tokens only leaves earlier ones. *)
LEMMA TypeNext == TypeInv /\ [Next]_vars => TypeInv'
  <1> SUFFICES ASSUME TypeInv, [Next]_vars PROVE TypeInv'
      OBVIOUS
  <1> USE DEF TypeInv
  <1>1. CASE SkipToken
      BY <1>1 DEF SkipToken, array, text
  <1>2. CASE ParseToken
    <2>1. Head(tokens) \in Token /\ Tail(tokens) \in Seq(Tokens)
        BY <1>2 DEF ParseToken
    <2>2. PICK lsf \in getMaxJobArraySize : range' = Parsed(Head(tokens), lsf)
        BY <1>2 DEF ParseToken
    <2>3. range' \in RangeType /\ range'.lower > 0
        BY <1>2, <2>1, <2>2, ParsedType DEF ParseToken
    <2>4. /\ index' = range'.lower /\ overlapped' = Overlaps(range')
          /\ minIndex' \in {minIndex, range'.lower} /\ maxIndex' \in {maxIndex, range'.upper}
        BY <1>2 DEF ParseToken
    <2>5. overlapped' \in BOOLEAN
        BY <2>4 DEF Overlaps
    <2>6. minIndex' \in Int /\ maxIndex' \in Int /\ index' \in Nat /\ index' > 0
        BY <2>3, <2>4 DEF RangeType
    <2>7. /\ pc' = "append" /\ tokens' = Tail(tokens) /\ tail' = Len(list)
          /\ UNCHANGED <<array, text, name>>
        BY <1>2 DEF ParseToken
    <2> QED
        BY <2>1, <2>3, <2>5, <2>6, <2>7 DEF array
  <1>3. CASE SkipIndex
      BY <1>3 DEF SkipIndex, scan, array, RangeType
  <1>4. CASE AppendIndex
    <2>1. /\ list' = Append(list, index) /\ index \in Nat \ {0}
          /\ bufferLen' \in {bufferLen, bufferLen + INDEX_INCREMENT}
          /\ index' = index + range.step /\ UNCHANGED <<pc, scan, name>>
        BY <1>4 DEF AppendIndex
    <2>2. list' \in Seq(Nat \ {0}) /\ Len(list') = Len(list) + 1
        BY <2>1
    <2> QED
        BY <2>1, <2>2 DEF scan, RangeType
  <1>5. CASE EndRange
      BY <1>5 DEF EndRange, scan, array
  <1>6. CASE Allocate
      BY <1>6 DEF Allocate, scan, array
  <1>7. CASE WriteNumber
      BY <1>7 DEF WriteNumber, scan, array
  <1>8. CASE Return
      BY <1>8 DEF Return, scan, array
  <1>9. CASE UNCHANGED vars
      BY <1>9 DEF vars, scan, array
  <1> QED
      BY <1>1, <1>2, <1>3, <1>4, <1>5, <1>6, <1>7, <1>8, <1>9 DEF Next

(* Indices, ranges and the list keep their types for every index list of a   *)
(* job name: no index below 1, no step below 1.                             *)
THEOREM TypeCorrect == Spec => []TypeOK
  <1>1. TypeInv => TypeOK
      BY DEF TypeInv, TypeOK, RangeType
  <1> QED
      BY <1>1, TypeInit, TypeNext, PTL DEF Spec

-----------------------------------------------------------------------------
(* The hull.  All indices are between minIndex and maxIndex, so a range     *)
(* that does not meet the hull meets no index; this also needs that -1,     *)
(* for "none yet", is never taken for an index.                             *)

Hull ==
    /\ minIndex = -1 => list = <<>>
    /\ \A i \in 1 .. Len(list) : minIndex <= list[i] /\ list[i] <= maxIndex

\* While a range is appended, what it has added is below index, and what was there
\* is either looked up or outside the range.
Appending ==
    pc = "append" =>
        /\ minIndex # -1
        /\ minIndex <= range.lower /\ range.lower <= index /\ range.upper <= maxIndex
        /\ \A i \in tail + 1 .. Len(list) : list[i] < index
        /\ overlapped \/ \A i \in 1 .. tail : list[i] < range.lower \/ list[i] > range.upper

ListInv == TypeInv /\ Hull /\ Appending /\ NoIndexTwice

(* generateJobIndexList's test is enough: a range it does not call           *)
(* overlapping contains none of the indices between minIndex and maxIndex.  *)
LEMMA OverlapTest ==
    ASSUME NEW r \in RangeType, minIndex \in Int, maxIndex \in Int, ~Overlaps(r),
           NEW x \in Int, minIndex <= x, x <= maxIndex
    PROVE  x < r.lower \/ x > r.upper
  BY DEF Overlaps, RangeType

LEMMA ListInit == Init => ListInv
  BY TypeInit DEF Init, ListInv, Hull, Appending, NoIndexTwice

(* A new range widens the hull before any of its indices is in the list.    *)
LEMMA ParseKeeps == ListInv /\ ParseToken => Hull' /\ Appending' /\ NoIndexTwice'
  <1> SUFFICES ASSUME ListInv, ParseToken PROVE Hull' /\ Appending' /\ NoIndexTwice'
      OBVIOUS
  <1> USE DEF ListInv
  <1>1. Head(tokens) \in Token
      BY DEF ParseToken, TypeInv
  <1>2. PICK lsf \in getMaxJobArraySize : range' = Parsed(Head(tokens), lsf)
      BY DEF ParseToken
  <1>3. range' \in RangeType /\ range'.lower > 0
      BY <1>1, <1>2, ParsedType DEF ParseToken
  <1>4. /\ index' = range'.lower /\ tail' = Len(list) /\ pc' = "append"
        /\ overlapped' = Overlaps(range')
        /\ minIndex' = IF minIndex > range'.lower \/ minIndex = -1
                       THEN range'.lower ELSE minIndex
        /\ maxIndex' = IF maxIndex < range'.upper THEN range'.upper ELSE maxIndex
        /\ list' = list
      BY DEF ParseToken, array
  <1>5. /\ minIndex \in Int /\ maxIndex \in Int /\ list \in Seq(Nat \ {0})
        /\ range'.lower \in Int /\ range'.upper \in Int
      BY <1>3 DEF TypeInv, RangeType
  <1>6. minIndex' # -1 /\ minIndex' <= range'.lower /\ range'.upper <= maxIndex'
      BY <1>3, <1>4, <1>5
  <1>7. Hull'
    <2>1. ASSUME NEW i \in 1 .. Len(list)
          PROVE  minIndex' <= list[i] /\ list[i] <= maxIndex'
      <3>1. minIndex # -1 /\ minIndex <= list[i] /\ list[i] <= maxIndex /\ list[i] \in Int
          BY <1>5 DEF Hull
      <3> QED
          BY <3>1, <1>4, <1>5
    <2> QED
        BY <2>1, <1>4, <1>6 DEF Hull
  <1>8. ASSUME ~overlapped', NEW i \in 1 .. Len(list)
        PROVE  list[i] < range'.lower \/ list[i] > range'.upper
    <2>1. minIndex <= list[i] /\ list[i] <= maxIndex /\ list[i] \in Int
        BY <1>5 DEF Hull
    <2> QED
        BY <2>1, <1>3, <1>4, <1>5, <1>8, OverlapTest
  <1>9. overlapped' \in BOOLEAN
      BY <1>4 DEF Overlaps
  <1>10. Appending'
    <2>1. Len(list) \in Nat
        BY <1>5
    <2>2. \A i \in tail' + 1 .. Len(list') : list'[i] < index'
        BY <1>4, <2>1
    <2>3. overlapped' \/ \A i \in 1 .. tail' : list'[i] < range'.lower \/ list'[i] > range'.upper
        BY <1>4, <1>8, <1>9
    <2> QED
        BY <1>3, <1>4, <1>5, <1>6, <2>2, <2>3 DEF Appending
  <1> QED
      BY <1>4, <1>7, <1>10 DEF NoIndexTwice

(* An index that is appended is none of the earlier ranges, nor of this one. *)
LEMMA AppendKeeps == ListInv /\ AppendIndex => Hull' /\ Appending' /\ NoIndexTwice'
  <1> SUFFICES ASSUME ListInv, AppendIndex PROVE Hull' /\ Appending' /\ NoIndexTwice'
      OBVIOUS
  <1> USE DEF ListInv
  <1>1. /\ pc = "append" /\ index <= range.upper /\ ~Exists
        /\ list' = Append(list, index) /\ index' = index + range.step
        /\ UNCHANGED <<pc, minIndex, maxIndex, range, overlapped, tail>>
      BY DEF AppendIndex, scan
  <1>2. /\ list \in Seq(Nat \ {0}) /\ index \in Nat \ {0} /\ range.step \in Nat \ {0}
        /\ range.lower \in Nat /\ range.upper \in Int /\ tail \in 0 .. Len(list)
        /\ minIndex \in Int /\ maxIndex \in Int /\ overlapped \in BOOLEAN
      BY <1>1 DEF TypeInv, RangeType
  <1>3. /\ minIndex # -1 /\ minIndex <= range.lower /\ range.lower <= index
        /\ range.upper <= maxIndex
        /\ \A i \in tail + 1 .. Len(list) : list[i] < index
        /\ overlapped \/ \A i \in 1 .. tail : list[i] < range.lower \/ list[i] > range.upper
      BY <1>1 DEF Appending
  <1>4. /\ Len(list') = Len(list) + 1 /\ list'[Len(list) + 1] = index
        /\ \A i \in 1 .. Len(list) : list'[i] = list[i]
      BY <1>1, <1>2
  <1>5. ASSUME NEW i \in 1 .. Len(list) PROVE list[i] # index
    <2>1. CASE i > tail
        BY <2>1, <1>2, <1>3
    <2>2. CASE i <= tail
      <3>1. i \in 1 .. tail /\ list[i] \in Nat
          BY <2>2, <1>2
      <3>2. CASE overlapped
          BY <3>1, <3>2, <1>1 DEF Exists
      <3>3. CASE ~overlapped
        <4>1. list[i] < range.lower \/ list[i] > range.upper
            BY <3>1, <3>3, <1>3, Zenon
        <4>2. range.lower <= index /\ index <= range.upper
            BY <1>1, <1>3
        <4>3. range.lower \in Int /\ range.upper \in Int /\ index \in Int
            BY <1>2
        <4> QED
            BY <4>1, <4>2, <4>3, <3>1
      <3> QED
          BY <3>2, <3>3
    <2> QED
        BY <2>1, <2>2, <1>2
  <1>6. NoIndexTwice'
    <2>1. ASSUME NEW i \in 1 .. Len(list'), NEW n \in 1 .. Len(list'), list'[i] = list'[n]
          PROVE  i = n
      <3>1. \A m \in 1 .. Len(list') : m \in 1 .. Len(list) \/ m = Len(list) + 1
          BY <1>2, <1>4
      <3>2. CASE i \in 1 .. Len(list) /\ n \in 1 .. Len(list)
          BY <2>1, <3>2, <1>4 DEF NoIndexTwice
      <3> QED
          BY <2>1, <3>1, <3>2, <1>4, <1>5
    <2> QED
        BY <2>1 DEF NoIndexTwice
  <1>7. Hull'
    <2>1. ASSUME NEW i \in 1 .. Len(list')
          PROVE  minIndex' <= list'[i] /\ list'[i] <= maxIndex'
      <3>1. CASE i = Len(list) + 1
          BY <3>1, <1>1, <1>2, <1>3, <1>4
      <3>2. CASE i # Len(list) + 1
        <4>1. i \in 1 .. Len(list)
            BY <3>2, <1>2, <1>4
        <4> QED
            BY <4>1, <1>1, <1>4 DEF Hull
      <3> QED
          BY <3>1, <3>2
    <2> QED
        BY <2>1, <1>1, <1>3 DEF Hull
  <1>8. Appending'
    <2>1. ASSUME NEW i \in tail + 1 .. Len(list') PROVE list'[i] < index'
      <3>1. CASE i = Len(list) + 1
          BY <3>1, <1>1, <1>2, <1>4
      <3>2. CASE i # Len(list) + 1
        <4>1. i \in tail + 1 .. Len(list) /\ i \in 1 .. Len(list)
            BY <3>2, <1>2, <1>4
        <4>2. list[i] < index /\ list[i] \in Nat
            BY <4>1, <1>2, <1>3
        <4> QED
            BY <4>1, <4>2, <1>1, <1>2, <1>4
      <3> QED
          BY <3>1, <3>2
    <2>2. ASSUME ~overlapped, NEW i \in 1 .. tail
          PROVE  list'[i] < range.lower \/ list'[i] > range.upper
      <3>1. i \in 1 .. Len(list)
          BY <1>2
      <3> QED
          BY <3>1, <2>2, <1>3, <1>4
    <2>3. range.lower <= index'
        BY <1>1, <1>2, <1>3
    <2> QED
        BY <2>1, <2>2, <2>3, <1>1, <1>2, <1>3 DEF Appending
  <1> QED
      BY <1>6, <1>7, <1>8

LEMMA ListNext == ListInv /\ [Next]_vars => ListInv'
  <1> SUFFICES ASSUME ListInv, [Next]_vars PROVE ListInv'
      OBVIOUS
  <1>1. TypeInv'
      BY TypeNext DEF ListInv
  <1>2. Hull' /\ Appending' /\ NoIndexTwice'
    <2> USE DEF ListInv, Hull, Appending, NoIndexTwice
    <2>1. CASE SkipToken
        BY <2>1 DEF SkipToken, array
    <2>2. CASE ParseToken
        BY <2>2, ParseKeeps
    <2>3. CASE SkipIndex
      <3>1. /\ pc = "append" /\ index' = index + range.step
            /\ UNCHANGED <<pc, minIndex, maxIndex, range, overlapped, tail, list>>
          BY <2>3 DEF SkipIndex, scan, array
      <3>2. index \in Nat /\ range.step \in Nat \ {0} /\ range.lower \in Nat
          BY DEF TypeInv, RangeType
      <3>3. \A i \in tail + 1 .. Len(list) : list[i] \in Nat
          BY DEF TypeInv
      <3> QED
          BY <3>1, <3>2, <3>3
    <2>4. CASE AppendIndex
        BY <2>4, AppendKeeps
    <2>5. CASE EndRange
        BY <2>5 DEF EndRange, scan, array
    <2>6. CASE Allocate
        BY <2>6 DEF Allocate, scan, array
    <2>7. CASE WriteNumber
        BY <2>7 DEF WriteNumber, scan, array
    <2>8. CASE Return
        BY <2>8 DEF Return, scan, array
    <2>9. CASE UNCHANGED vars
        BY <2>9 DEF vars, scan, array
    <2> QED
        BY <2>1, <2>2, <2>3, <2>4, <2>5, <2>6, <2>7, <2>8, <2>9 DEF Next
  <1> QED
      BY <1>1, <1>2 DEF ListInv

(* The list of a job array holds no index twice, so that the number of       *)
(* elements countJobByName returns is the number of jobs.                   *)
THEOREM IndexOnce == Spec => []NoIndexTwice
  <1>1. ListInv => NoIndexTwice
      BY DEF ListInv
  <1> QED
      BY <1>1, ListInit, ListNext, PTL DEF Spec

-----------------------------------------------------------------------------
(* Memory.  The array has room for what is in it, and each index takes at   *)
(* most the digits of maxIndex and a comma.                                 *)

MaxType == maxIndex \in Number \cup {-1}

Room == Digits(maxIndex) + 1

BufferInv ==
    /\ MaxType
    /\ Len(list) <= bufferLen
    /\ pc \in {"parse", "append"} => written = 0 /\ p = 0
    /\ pc = "print" =>
        /\ p \in 0 .. Len(list) /\ written \in Nat
        /\ size = IF list = <<>> THEN 1 ELSE Len(list) * Room + 1
        /\ IF p = 0 THEN written = 0 ELSE written + 1 <= p * Room

(* The powers of ten grow.                                                  *)
LEMMA TensGrow ==
    /\ \A i \in 1 .. 9 : Tens[i] \in Nat
    /\ \A i, j \in 1 .. 9 : i <= j => Tens[i] <= Tens[j]
  BY SMT DEF Tens

(* (int) log10(n) + 1 has n between two powers of ten.                      *)
LEMMA DigitsIs ==
    ASSUME NEW n \in Number
    PROVE  /\ Digits(n) \in 1 .. 10
           /\ Digits(n) = 10 \/ n < Tens[Digits(n)]
           /\ Digits(n) = 1 \/ n >= Tens[Digits(n) - 1]
  <1> DEFINE D(d) == (d = 10 \/ n < Tens[d]) /\ (d = 1 \/ n >= Tens[d - 1])
  <1>1. \E d \in 1 .. 10 : D(d)
    <2> DEFINE S == {d \in 1 .. 10 : d = 10 \/ n < Tens[d]}
    <2>1. S \in SUBSET Nat /\ 10 \in S
        OBVIOUS
    <2>2. PICK m \in S : \A d \in S : m <= d
      <3> HIDE DEF S
      <3> QED
          BY <2>1, LeastNat
    <2>3. m \in 1 .. 10 /\ (m = 10 \/ n < Tens[m])
        OBVIOUS
    <2>4. m = 1 \/ n >= Tens[m - 1]
      <3> SUFFICES ASSUME m # 1 PROVE n >= Tens[m - 1]
          OBVIOUS
      <3>1. m - 1 \in 1 .. 9 /\ ~(m <= m - 1)
          BY <2>3
      <3>2. ~(m - 1 \in S)
          BY <2>2, <3>1
      <3>3. ~(n < Tens[m - 1])
          BY <3>1, <3>2
      <3>4. Tens[m - 1] \in Nat /\ n \in Nat
          BY <3>1, TensGrow, NumberIs
      <3> HIDE DEF S
      <3> QED
          BY <3>3, <3>4
    <2> QED
        BY <2>3, <2>4
  <1>2. Digits(n) = CHOOSE d \in 1 .. 10 : D(d)
      BY DEF Digits
  <1> HIDE DEF D
  <1>3. Digits(n) \in 1 .. 10 /\ D(Digits(n))
      BY <1>1, <1>2
  <1> QED
      BY <1>3 DEF D

(* A larger number has no fewer digits.                                     *)
LEMMA DigitsGrow ==
    ASSUME NEW a \in Number, NEW b \in Number, a <= b
    PROVE  Digits(a) <= Digits(b)
  <1> DEFINE da == Digits(a)
             db == Digits(b)
             m == da - 1
  <1>1. /\ da \in 1 .. 10 /\ db \in 1 .. 10 /\ a \in Int /\ b \in Int
        /\ db = 10 \/ b < Tens[db]
        /\ da = 1 \/ a >= Tens[m]
      BY DigitsIs, NumberIs
  <1>2. m = da - 1 /\ m \in Int
      BY <1>1
  <1> HIDE DEF da, db, m
  <1> SUFFICES ASSUME db < da PROVE FALSE
      BY <1>1 DEF da, db
  <1>3. db \in 1 .. 9 /\ m \in 1 .. 9 /\ db <= m
      BY <1>1, <1>2
  <1>4. Tens[db] <= Tens[m] /\ Tens[db] \in Nat /\ Tens[m] \in Nat
      BY <1>3, TensGrow
  <1> QED
      BY <1>1, <1>3, <1>4

LEMMA ParsedNumbers ==
    ASSUME NEW t \in Token, NEW lsf \in getMaxJobArraySize
    PROVE  Parsed(t, lsf).upper \in Number \cup {-1}
  BY DEF Parsed, getMaxJobArraySize

LEMMA BufferInit == Init => BufferInv
  BY DEF Init, BufferInv, MaxType

(* The indices are written within maxIndex's digits, as none is above it.   *)
LEMMA WriteKeeps == ListInv /\ BufferInv /\ WriteNumber => BufferInv'
  <1> SUFFICES ASSUME ListInv, BufferInv, WriteNumber PROVE BufferInv'
      OBVIOUS
  <1> DEFINE x == list[p + 1]
  <1>1. /\ pc = "print" /\ pc' = pc /\ p < Len(list) /\ p' = p + 1
        /\ written' = written + Digits(x) + (IF p = 0 THEN 0 ELSE 1)
        /\ UNCHANGED <<maxIndex, list, bufferLen, size>>
      BY DEF WriteNumber, scan, array
  <1>2. /\ p \in Nat /\ p + 1 \in 1 .. Len(list) /\ written \in Nat /\ Len(list) \in Nat
        /\ size = IF list = <<>> THEN 1 ELSE Len(list) * Room + 1
        /\ IF p = 0 THEN written = 0 ELSE written + 1 <= p * Room
    <2>1. Len(list) \in Nat
        BY DEF ListInv, TypeInv
    <2> QED
        BY <1>1, <2>1 DEF BufferInv
  <1>3. x \in Nat /\ x > 0 /\ x <= maxIndex
      BY <1>2 DEF ListInv, TypeInv, Hull
  <1>4. maxIndex \in Number /\ x \in Number
      BY <1>3, NumberIs DEF BufferInv, MaxType
  <1>5. Digits(x) \in Nat /\ Digits(x) <= Room - 1 /\ Room \in Nat /\ Room' = Room
      BY <1>1, <1>3, <1>4, DigitsIs, DigitsGrow DEF Room
  <1>6. (p + 1) * Room = p * Room + Room /\ p * Room \in Nat
      BY <1>2, <1>5
  <1>7. written' \in Nat /\ written' + 1 <= (p + 1) * Room
    <2> HIDE DEF x
    <2>1. CASE p = 0
      <3>1. 0 * Room = 0
          BY <1>5
      <3> QED
          BY <1>1, <1>2, <1>5, <1>6, <2>1, <3>1
    <2>2. CASE p # 0
        BY <1>1, <1>2, <1>5, <1>6, <2>2
    <2> QED
        BY <2>1, <2>2
  <1>8. p' \in 0 .. Len(list') /\ p' # 0
      BY <1>1, <1>2
  <1> QED
      BY <1>1, <1>2, <1>5, <1>7, <1>8 DEF BufferInv, MaxType

LEMMA BufferNext == ListInv /\ BufferInv /\ [Next]_vars => BufferInv'
  <1> SUFFICES ASSUME ListInv, BufferInv, [Next]_vars PROVE BufferInv'
      OBVIOUS
  <1> USE DEF BufferInv, MaxType, Room
  <1>1. CASE SkipToken
      BY <1>1 DEF SkipToken, array, text
  <1>2. CASE ParseToken
    <2>1. Head(tokens) \in Token
        BY <1>2 DEF ParseToken, ListInv, TypeInv
    <2>2. PICK lsf \in getMaxJobArraySize :
              maxIndex' \in {maxIndex, Parsed(Head(tokens), lsf).upper}
        BY <1>2 DEF ParseToken
    <2>3. maxIndex' \in Number \cup {-1}
        BY <2>1, <2>2, ParsedNumbers
    <2> QED
        BY <1>2, <2>3 DEF ParseToken, array, text
  <1>3. CASE SkipIndex
      BY <1>3 DEF SkipIndex, scan, array, text
  <1>4. CASE AppendIndex
    <2>1. /\ pc = "append" /\ list' = Append(list, index)
          /\ bufferLen' = IF Len(list) >= bufferLen THEN bufferLen + INDEX_INCREMENT ELSE bufferLen
          /\ UNCHANGED <<pc, maxIndex, size, written, p>>
        BY <1>4 DEF AppendIndex, scan, text
    <2>2. Len(list') = Len(list) + 1 /\ Len(list) \in Nat /\ bufferLen \in Nat
        BY <2>1 DEF ListInv, TypeInv
    <2>3. Len(list') <= bufferLen'
        BY <2>1, <2>2
    <2> QED
        BY <2>1, <2>3
  <1>5. CASE EndRange
      BY <1>5 DEF EndRange, scan, array, text
  <1>6. CASE Allocate
    <2>1. /\ pc = "parse" /\ pc' = "print" /\ UNCHANGED <<maxIndex, list, bufferLen, written, p>>
          /\ size' = IF list = <<>> THEN 1 ELSE Len(list) * (Digits(maxIndex) + 1) + 1
        BY <1>6 DEF Allocate, scan, array
    <2>2. Len(list) \in Nat
        BY DEF ListInv, TypeInv
    <2> QED
        BY <2>1, <2>2
  <1>7. CASE WriteNumber
      BY <1>7, WriteKeeps
  <1>8. CASE Return
      BY <1>8 DEF Return, scan, array, text
  <1>9. CASE UNCHANGED vars
      BY <1>9 DEF vars, scan, array, text
  <1> QED
      BY <1>1, <1>2, <1>3, <1>4, <1>5, <1>6, <1>7, <1>8, <1>9 DEF Next

(* Neither the growing array of indices nor the text made of it is too small *)
(* for what countJobByName writes, for every index list and every increment. *)
THEOREM NothingBehindBuffers == Spec => []WithinBuffers
  <1>1. ListInv /\ BufferInv => WithinBuffers
    <2> SUFFICES ASSUME ListInv, BufferInv PROVE WithinBuffers
        OBVIOUS
    <2>1. ASSUME pc = "print" PROVE written + 1 <= size
      <3>1. Len(list) \in Nat /\ (list = <<>> <=> Len(list) = 0)
          BY DEF ListInv, TypeInv
      <3>2. CASE p = 0
        <4>1. written = 0 /\ size = IF list = <<>> THEN 1 ELSE Len(list) * Room + 1
            BY <2>1, <3>2 DEF BufferInv
        <4>2. ASSUME list # <<>> PROVE Len(list) * Room \in Nat
          <5>1. list[1] \in Nat /\ list[1] <= maxIndex
              BY <3>1, <4>2 DEF ListInv, TypeInv, Hull
          <5>2. maxIndex \in Number
              BY <5>1, NumberIs DEF BufferInv, MaxType
          <5>3. Room \in Nat
              BY <5>2, DigitsIs DEF Room
          <5> QED
              BY <3>1, <5>3
        <4> QED
            BY <4>1, <4>2
      <3>3. CASE p # 0
        <4>1. /\ p \in 1 .. Len(list) /\ written \in Nat /\ written + 1 <= p * Room
              /\ size = Len(list) * Room + 1
            BY <2>1, <3>1, <3>3 DEF BufferInv
        <4>2. list[1] \in Nat /\ list[1] <= maxIndex
            BY <3>1, <4>1 DEF ListInv, TypeInv, Hull
        <4>3. maxIndex \in Number
            BY <4>2, NumberIs DEF BufferInv, MaxType
        <4>4. Room \in Nat
            BY <4>3, DigitsIs DEF Room
        <4>5. p * Room <= Len(list) * Room /\ p * Room \in Nat /\ Len(list) * Room \in Nat
          <5>1. Len(list) - p \in Nat /\ (Len(list) - p) * Room \in Nat
              BY <3>1, <4>1, <4>4
          <5>2. (Len(list) - p) * Room = Len(list) * Room - p * Room
              BY <3>1, <4>1, <4>4
          <5>3. p * Room \in Nat /\ Len(list) * Room \in Nat
              BY <3>1, <4>1, <4>4
          <5> QED
              BY <5>1, <5>2, <5>3
        <4> QED
            BY <4>1, <4>5
      <3> QED
          BY <3>2, <3>3
    <2> QED
        BY <2>1 DEF WithinBuffers, BufferInv
  <1>2. ListInv /\ BufferInv /\ [Next]_vars => (ListInv /\ BufferInv)'
      BY ListNext, BufferNext
  <1> QED
      BY <1>1, <1>2, ListInit, BufferInit, PTL DEF Spec


-----------------------------------------------------------------------------
(* The multiples of a step, which are what a range names.                   *)

(* Only 0 has a product with s between -s and s.                            *)
LEMMA Single == ASSUME NEW s \in Nat \ {0}, NEW d \in Int, s * d < s, 0 - s < s * d PROVE d = 0
<1>1. CASE d >= 1
  <2>1. d - 1 \in Nat /\ s * (d - 1) >= 0
    BY <1>1
  <2>2. s * (d - 1) = s * d - s
    OBVIOUS
  <2> QED  BY <2>1, <2>2
<1>2. CASE d <= 0 - 1
  <2>1. 0 - 1 - d \in Nat /\ s * (0 - 1 - d) >= 0
    BY <1>2
  <2>2. s * (0 - 1 - d) = 0 - s - s * d
    OBVIOUS
  <2> QED  BY <2>1, <2>2
<1> QED  BY <1>1, <1>2

(* Quotient and remainder.                                                  *)
LEMMA Divided ==
    ASSUME NEW a \in Nat, NEW s \in Nat \ {0}
    PROVE  /\ a % s \in 0 .. s-1 /\ a \div s \in Nat /\ a = s * (a \div s) + (a % s)
  BY SMT

(* One step on from a multiple is a multiple.                               *)
LEMMA NextMultiple == ASSUME NEW a \in Nat, NEW s \in Nat \ {0}, a % s = 0 PROVE (a + s) % s = 0
<1> DEFINE q == a \div s
           r == (a + s) % s
           k == (a + s) \div s
<1>1. q \in Nat /\ a = s * q
  BY Divided
<1>2. a + s \in Nat
  OBVIOUS
<1>3. r \in 0 .. s - 1 /\ k \in Nat /\ a + s = s * k + r
  BY <1>2, Divided
<1> HIDE DEF q, r, k
<1>4. s * (q + 1 - k) = r
  <2>1. s * (q + 1 - k) = s * q + s - s * k /\ s * q \in Int /\ s * k \in Int
    BY <1>1, <1>3
  <2> QED  BY <1>1, <1>3, <2>1
<1>5. q + 1 - k = 0
  <2>1. q + 1 - k \in Int
    BY <1>1, <1>3
  <2>2. r \in Int /\ r < s /\ 0 - s < r
    BY <1>3
  <2> QED  BY <1>4, <2>1, <2>2, Single
<1>6. r = 0
  <2>1. s * 0 = 0
    OBVIOUS
  <2> QED  BY <1>4, <1>5, <2>1
<1> QED  BY <1>6 DEF r

(* Between a multiple and the next there is no other.                       *)
LEMMA BetweenMultiples ==
    ASSUME NEW a \in Nat, NEW b \in Nat, NEW s \in Nat \ {0},
           a % s = 0, b % s = 0, a <= b, b < a + s
    PROVE  a = b
<1> DEFINE q == a \div s
           k == b \div s
<1>1. q \in Nat /\ k \in Nat /\ a = s * q /\ b = s * k
  BY Divided
<1> HIDE DEF q, k
<1>2. s * (k - q) = b - a
  <2>1. s * (k - q) = s * k - s * q
    BY <1>1
  <2> QED  BY <1>1, <2>1
<1>3. k - q = 0
  <2>1. k - q \in Int /\ s * (k - q) < s /\ 0 - s < s * (k - q)
    BY <1>1, <1>2
  <2> QED  BY <2>1, Single
<1> QED  BY <1>1, <1>3

-----------------------------------------------------------------------------
(* What the list holds, token by token.                                     *)

Scanned == Len(name) - Len(tokens)
Listed(indices, x) == \E i \in 1 .. Len(indices) : indices[i] = x

Remaining ==
    /\ Len(tokens) <= Len(name)
    /\ \A i \in 1 .. Len(tokens) : tokens[i] = name[Scanned + i]

\* Nothing is listed but what a token named.
Sound ==
    \A i \in 1 .. Len(list) :
        \E j \in 1 .. Scanned : Parses(name[j]) /\ list[i] \in Named(name[j])

\* The tokens with an end are in the list, but for the one at work.
Complete ==
    \A j \in 1 .. Scanned :
        Parses(name[j]) /\ Ended(name[j]) /\ ~(pc = "append" /\ j = Scanned)
        => \A x \in Named(name[j]) : Listed(list, x)

Indices(r) == {i \in r.lower .. r.upper : (i - r.lower) % r.step = 0}

\* Of the one at work, what is below index.
AtWork ==
    pc = "append" =>
        /\ Scanned >= 1 /\ Parses(name[Scanned])
        /\ \E lsf \in getMaxJobArraySize : range = Parsed(name[Scanned], lsf)
        /\ index >= range.lower /\ (index - range.lower) % range.step = 0
        /\ \A x \in Indices(range) : x < index => Listed(list, x)

ExactInv ==
    /\ Remaining /\ Sound /\ Complete /\ AtWork
    /\ pc \in {"print", "done"} => tokens = <<>>

(* A parsed range names what its token does, when LSF answers or is not asked. *)
LEMMA ParsedNames ==
    ASSUME NEW t \in Token, NEW lsf \in getMaxJobArraySize
    PROVE  /\ Indices(Parsed(t, lsf)) \subseteq Named(t)
           /\ Ended(t) => Named(t) \subseteq Indices(Parsed(t, lsf))
  <1> DEFINE r == Parsed(t, lsf)
  <1>1. /\ r.lower = IF t.lower = 0 THEN START_JOB_INDEX ELSE t.lower
        /\ r.upper = IF ~t.dash THEN t.lower ELSE IF t.upper = 0 THEN lsf ELSE t.upper
        /\ r.step = IF ~t.dash \/ t.step = 0 THEN 1 ELSE t.step
      BY DEF Parsed
  <1>2. CASE r.upper = IF ~t.dash THEN t.lower ELSE IF t.upper = 0 THEN MaxJobArraySize ELSE t.upper
    <2>1. Named(t) = Indices(r)
      <3> HIDE DEF r
      <3> QED
          BY <1>1, <1>2 DEF Named, Indices
    <2> QED
        BY <2>1
  <1>3. CASE t.dash /\ t.upper = 0 /\ lsf = -1
    <2>1. r.upper = -1 /\ r.lower \in Nat
      <3>1. t.lower \in Nat
          BY NumberIs
      <3> HIDE DEF r
      <3> QED
          BY <1>1, <1>3, <3>1 DEF START_JOB_INDEX
    <2>2. Indices(r) = {}
      <3> HIDE DEF r
      <3> QED
          BY <2>1 DEF Indices
    <2> QED
        BY <1>3, <2>2 DEF Ended
  <1>4. lsf = MaxJobArraySize \/ lsf = -1
      BY DEF getMaxJobArraySize
  <1> QED
      BY <1>1, <1>2, <1>3, <1>4

LEMMA ExactInit == Init => ExactInv
  <1> SUFFICES ASSUME Init PROVE ExactInv
      OBVIOUS
  <1>1. tokens = name /\ list = <<>> /\ name \in Seq(Tokens) /\ Len(name) \in Nat
      BY DEF Init
  <1>2. pc # "append" /\ (pc \in {"print", "done"} => name = <<>>)
      BY DEF Init, HasIndexList
  <1>3. Scanned = 0
      BY <1>1 DEF Scanned
  <1> QED
      BY <1>1, <1>2, <1>3 DEF ExactInv, Remaining, Sound, Complete, AtWork

(* The next token is the one behind those scanned.                          *)
LEMMA NextToken ==
    ASSUME TypeInv, Remaining, tokens # <<>>, tokens' = Tail(tokens), name' = name
    PROVE  /\ Scanned \in Nat /\ Scanned' = Scanned + 1 /\ Head(tokens) = name[Scanned']
           /\ Head(tokens) \in Token /\ Remaining'
  <1>1. /\ Len(tokens) \in Nat \ {0} /\ Len(tokens') = Len(tokens) - 1 /\ Len(name) \in Nat
        /\ Head(tokens) = tokens[1] /\ Head(tokens) \in Token
        /\ \A i \in 1 .. Len(tokens) - 1 : tokens'[i] = tokens[i + 1]
      BY DEF TypeInv
  <1>2. Scanned \in Nat /\ Scanned' = Scanned + 1
      BY <1>1 DEF Remaining, Scanned
  <1>3. tokens[1] = name[Scanned']
      BY <1>1, <1>2 DEF Remaining
  <1>4. ASSUME NEW i \in 1 .. Len(tokens') PROVE tokens'[i] = name[Scanned' + i]
    <2>1. i + 1 \in 1 .. Len(tokens) /\ i \in 1 .. Len(tokens) - 1
        BY <1>1
    <2>2. tokens[i + 1] = name[Scanned + (i + 1)]
        BY <2>1 DEF Remaining
    <2>3. Scanned + (i + 1) = Scanned' + i
        BY <1>2, <2>1
    <2> QED
        BY <1>1, <2>1, <2>2, <2>3
  <1>5. Len(tokens') <= Len(name')
      BY <1>1 DEF Remaining
  <1> QED
      BY <1>1, <1>2, <1>3, <1>4, <1>5 DEF Remaining

LEMMA SkipTokenExact == TypeInv /\ ExactInv /\ SkipToken => ExactInv'
  <1> SUFFICES ASSUME TypeInv, ExactInv, SkipToken PROVE ExactInv'
      OBVIOUS
  <1> USE DEF ExactInv
  <1>1. /\ pc = "parse" /\ tokens # <<>> /\ ~Parses(Head(tokens)) /\ tokens' = Tail(tokens)
        /\ UNCHANGED <<pc, list, name>>
      BY DEF SkipToken, array
  <1>2. /\ Scanned \in Nat /\ Scanned' = Scanned + 1 /\ ~Parses(name[Scanned']) /\ Remaining'
      BY <1>1, NextToken
  <1>3. \A j \in 1 .. Scanned : j \in 1 .. Scanned' /\ j # Scanned'
      BY <1>2
  <1>4. \A j \in 1 .. Scanned' : j # Scanned' => j \in 1 .. Scanned
      BY <1>2
  <1> HIDE DEF Scanned
  <1>5. Sound'
      BY <1>1, <1>3 DEF Sound
  <1>6. Complete'
      BY <1>1, <1>2, <1>4 DEF Complete, Listed
  <1> QED
      BY <1>1, <1>2, <1>5, <1>6 DEF AtWork

LEMMA ParseExact == TypeInv /\ ExactInv /\ ParseToken => ExactInv'
  <1> SUFFICES ASSUME TypeInv, ExactInv, ParseToken PROVE ExactInv'
      OBVIOUS
  <1> USE DEF ExactInv
  <1>1. /\ pc = "parse" /\ pc' = "append" /\ tokens # <<>> /\ Parses(Head(tokens))
        /\ tokens' = Tail(tokens) /\ index' = range'.lower
        /\ UNCHANGED <<list, name>>
      BY DEF ParseToken, array
  <1>2. PICK lsf \in getMaxJobArraySize : range' = Parsed(Head(tokens), lsf)
      BY DEF ParseToken
  <1>3. /\ Scanned \in Nat /\ Scanned' = Scanned + 1 /\ Head(tokens) = name[Scanned']
        /\ Head(tokens) \in Token /\ Remaining'
      BY <1>1, NextToken
  <1>4. range' \in RangeType
      BY <1>1, <1>2, <1>3, ParsedType
  <1>5. \A j \in 1 .. Scanned : j \in 1 .. Scanned' /\ j # Scanned'
      BY <1>3
  <1>6. \A j \in 1 .. Scanned' : j # Scanned' => j \in 1 .. Scanned
      BY <1>3
  <1> HIDE DEF Scanned
  <1>7. Sound'
      BY <1>1, <1>5 DEF Sound
  <1>8. Complete'
      BY <1>1, <1>3, <1>6 DEF Complete, Listed
  <1>9. AtWork'
    <2>1. range'.lower \in Nat /\ range'.upper \in Int /\ range'.step \in Nat \ {0}
        BY <1>4 DEF RangeType
    <2>2. (index' - range'.lower) % range'.step = 0 /\ index' >= range'.lower
      <3>1. index' - range'.lower = 0
          BY <1>1, <2>1
      <3>2. 0 % range'.step = 0
          BY <2>1
      <3> QED
          BY <1>1, <2>1, <3>1, <3>2
    <2>3. \A x \in Indices(range') : ~(x < index')
        BY <1>1, <2>1 DEF Indices
    <2>4. Scanned' >= 1 /\ Parses(name'[Scanned'])
        BY <1>1, <1>3
    <2>5. range' = Parsed(name'[Scanned'], lsf)
        BY <1>1, <1>2, <1>3
    <2> QED
        BY <2>2, <2>3, <2>4, <2>5 DEF AtWork, getMaxJobArraySize
  <1> QED
      BY <1>1, <1>3, <1>7, <1>8, <1>9

\* Between index and next nothing is named.
IsNext(next) ==
    /\ index \in Indices(range) /\ next >= range.lower
    /\ (next - range.lower) % range.step = 0
    /\ \A x \in Indices(range) : x < next => x < index \/ x = index

(* A step further is the next index.                                        *)
LEMMA IndexMoves ==
    ASSUME TypeInv, AtWork, pc = "append", index <= range.upper
    PROVE  IsNext(index + range.step)
  <1> DEFINE a == index - range.lower
             s == range.step
  <1>1. /\ index \in Nat /\ range.lower \in Nat /\ range.upper \in Int /\ s \in Nat \ {0}
      BY DEF TypeInv, RangeType
  <1>2. a \in Nat /\ a % s = 0
      BY <1>1 DEF AtWork
  <1>3. index \in Indices(range) /\ index + s >= range.lower
      BY <1>1, <1>2 DEF Indices
  <1>4. ASSUME NEW x \in Indices(range), x < index + s, ~(x < index) PROVE x = index
    <2> DEFINE b == x - range.lower
    <2>1. x \in Int /\ b \in Nat /\ b % s = 0
        BY <1>1 DEF Indices
    <2>2. a <= b /\ b < a + s
        BY <1>1, <1>4, <2>1
    <2>3. a = b
      <3> HIDE DEF a, b, s
      <3> QED
          BY <1>1, <1>2, <2>1, <2>2, BetweenMultiples
    <2> QED
        BY <1>1, <2>1, <2>3
  <1>5. (a + s) % s = 0
    <2> HIDE DEF a, s
    <2> QED
        BY <1>1, <1>2, NextMultiple
  <1> DEFINE next == index + s
  <1>6. next - range.lower = a + s /\ next >= range.lower /\ next = index + range.step
    <2>1. next - range.lower = a + s
        BY <1>1
    <2>2. next >= range.lower
        BY <1>3
    <2> QED
        BY <2>1, <2>2
  <1>7. \A x \in Indices(range) : x < next => x < index \/ x = index
      BY <1>4
  <1>8. (next - range.lower) % range.step = 0
    <2>1. (next - range.lower) % s = 0
      <3> HIDE DEF a, s, next
      <3> QED
          BY <1>5, <1>6
    <2> QED
        BY <2>1
  <1> HIDE DEF a, s, next
  <1>9. IsNext(next)
      BY <1>3, <1>6, <1>7, <1>8 DEF IsNext
  <1> QED
      BY <1>6, <1>9

LEMMA SkipIndexExact == TypeInv /\ ExactInv /\ SkipIndex => ExactInv'
  <1> SUFFICES ASSUME TypeInv, ExactInv, SkipIndex PROVE ExactInv'
      OBVIOUS
  <1> USE DEF ExactInv
  <1>1. /\ pc = "append" /\ pc' = pc /\ index <= range.upper /\ index' = index + range.step
        /\ Exists /\ UNCHANGED <<tokens, range, list, name>>
      BY DEF SkipIndex, scan, array
  <1>2. Listed(list, index)
    <2>1. tail \in 0 .. Len(list) /\ Len(list) \in Nat
        BY DEF TypeInv
    <2> QED
        BY <1>1, <2>1 DEF Exists, Listed
  <1>3. AtWork'
    <2>1. Scanned' = Scanned
        BY <1>1 DEF Scanned
    <2>2. IsNext(index')
      <3>1. IsNext(index + range.step)
          BY <1>1, IndexMoves
      <3> QED
          BY <1>1, <3>1
    <2> QED
        BY <1>1, <1>2, <2>1, <2>2 DEF AtWork, IsNext
  <1> QED
      BY <1>1, <1>3 DEF Remaining, Scanned, Sound, Complete, Listed

LEMMA AppendExact == TypeInv /\ ExactInv /\ AppendIndex => ExactInv'
  <1> SUFFICES ASSUME TypeInv, ExactInv, AppendIndex PROVE ExactInv'
      OBVIOUS
  <1> USE DEF ExactInv
  <1>1. /\ pc = "append" /\ pc' = pc /\ index <= range.upper /\ index' = index + range.step
        /\ list' = Append(list, index) /\ UNCHANGED <<tokens, range, name>>
      BY DEF AppendIndex, scan
  <1>2. /\ Len(list) \in Nat /\ Len(list') = Len(list) + 1 /\ list'[Len(list) + 1] = index
        /\ \A i \in 1 .. Len(list) : list'[i] = list[i]
      BY <1>1 DEF TypeInv
  <1>3. \A x : Listed(list, x) => Listed(list', x)
    <2>1. \A i \in 1 .. Len(list) : i \in 1 .. Len(list')
        BY <1>2
    <2> QED
        BY <1>2, <2>1 DEF Listed
  <1>4. Listed(list', index)
    <2>1. Len(list) + 1 \in 1 .. Len(list')
        BY <1>2
    <2> QED
        BY <1>2, <2>1 DEF Listed
  <1>5. Scanned' = Scanned
      BY <1>1 DEF Scanned
  <1>6. IsNext(index')
    <2>1. IsNext(index + range.step)
        BY <1>1, IndexMoves
    <2> QED
        BY <1>1, <2>1
  <1>7. AtWork'
      BY <1>1, <1>3, <1>4, <1>5, <1>6 DEF AtWork, IsNext
  <1>8. Sound'
    <2>1. Scanned \in 1 .. Scanned /\ Parses(name[Scanned]) /\ name[Scanned] \in Token
      <3>1. Len(name) \in Nat /\ Len(tokens) \in Nat /\ Scanned >= 1
          BY <1>1 DEF AtWork, TypeInv
      <3>2. Scanned \in 1 .. Len(name) /\ Scanned \in 1 .. Scanned
          BY <3>1 DEF Scanned
      <3> QED
          BY <1>1, <3>2 DEF AtWork, TypeInv
    <2>2. index \in Named(name[Scanned])
      <3>1. PICK lsf \in getMaxJobArraySize : range = Parsed(name[Scanned], lsf)
          BY <1>1 DEF AtWork
      <3> QED
          BY <1>6, <2>1, <3>1, ParsedNames DEF IsNext
    <2>3. ASSUME NEW i \in 1 .. Len(list')
          PROVE  \E j \in 1 .. Scanned : Parses(name[j]) /\ list'[i] \in Named(name[j])
      <3>1. CASE i = Len(list) + 1
          BY <1>2, <2>1, <2>2, <3>1
      <3>2. CASE i # Len(list) + 1
        <4>1. i \in 1 .. Len(list)
            BY <1>2, <3>2
        <4> QED
            BY <1>2, <4>1 DEF Sound
      <3> QED
          BY <3>1, <3>2
    <2> QED
        BY <1>1, <1>5, <2>3 DEF Sound
  <1>9. Complete'
      BY <1>1, <1>3, <1>5 DEF Complete
  <1> QED
      BY <1>1, <1>5, <1>7, <1>8, <1>9 DEF Remaining

LEMMA EndExact == TypeInv /\ ExactInv /\ EndRange => ExactInv'
  <1> SUFFICES ASSUME TypeInv, ExactInv, EndRange PROVE ExactInv'
      OBVIOUS
  <1> USE DEF ExactInv
  <1>1. /\ pc = "append" /\ pc' = "parse" /\ index > range.upper
        /\ UNCHANGED <<tokens, range, index, list, name>>
      BY DEF EndRange, scan, array
  <1>2. Scanned' = Scanned
      BY <1>1 DEF Scanned
  <1>3. \A x \in Indices(range) : Listed(list, x)
    <2>1. index \in Nat /\ range.lower \in Nat /\ range.upper \in Int
        BY DEF TypeInv, RangeType
    <2>2. \A x \in Indices(range) : x < index
        BY <1>1, <2>1 DEF Indices
    <2> QED
        BY <1>1, <2>2 DEF AtWork
  <1>4. ASSUME Ended(name[Scanned]) PROVE \A x \in Named(name[Scanned]) : Listed(list, x)
    <2>1. name[Scanned] \in Token
      <3>1. Len(name) \in Nat /\ Len(tokens) \in Nat /\ Scanned >= 1
          BY <1>1 DEF AtWork, TypeInv
      <3>2. Scanned \in 1 .. Len(name)
          BY <3>1 DEF Scanned
      <3> QED
          BY <1>1, <3>2 DEF TypeInv
    <2>2. PICK lsf \in getMaxJobArraySize : range = Parsed(name[Scanned], lsf)
        BY <1>1 DEF AtWork
    <2> QED
        BY <1>3, <1>4, <2>1, <2>2, ParsedNames
  <1>5. Complete'
      BY <1>1, <1>2, <1>4 DEF Complete
  <1> QED
      BY <1>1, <1>2, <1>5 DEF Remaining, Sound, AtWork

LEMMA ExactNext == TypeInv /\ ExactInv /\ [Next]_vars => ExactInv'
  <1> SUFFICES ASSUME TypeInv, ExactInv, [Next]_vars PROVE ExactInv'
      OBVIOUS
  <1>1. ASSUME UNCHANGED <<tokens, list, name>>, pc # "append", pc' # "append",
               pc' \in {"print", "done"} => tokens = <<>>
        PROVE  ExactInv'
      BY <1>1 DEF ExactInv, Remaining, Scanned, Sound, Complete, AtWork
  <1>2. CASE SkipToken
      BY <1>2, SkipTokenExact
  <1>3. CASE ParseToken
      BY <1>3, ParseExact
  <1>4. CASE SkipIndex
      BY <1>4, SkipIndexExact
  <1>5. CASE AppendIndex
      BY <1>5, AppendExact
  <1>6. CASE EndRange
      BY <1>6, EndExact
  <1>7. CASE Allocate
      BY <1>1, <1>7 DEF Allocate, scan, array
  <1>8. CASE WriteNumber
      BY <1>1, <1>8 DEF WriteNumber, scan, array, ExactInv
  <1>9. CASE Return
      BY <1>1, <1>9 DEF Return, scan, array, ExactInv
  <1>10. CASE UNCHANGED vars
      BY <1>10 DEF vars, scan, array, ExactInv, Remaining, Scanned, Sound, Complete, AtWork
  <1> QED
      BY <1>2, <1>3, <1>4, <1>5, <1>6, <1>7, <1>8, <1>9, <1>10 DEF Next

(* The list is the set of indices the name gives, those of ranges without an *)
(* end excepted when LSF does not say how large an array may be: for every  *)
(* index list, however its ranges overlap.                                  *)
THEOREM ListIsTheName == Spec => []ListExact
  <1>1. TypeInv /\ ExactInv => ListExact
    <2> SUFFICES ASSUME TypeInv, ExactInv, pc = "done" PROVE ListExact
        BY DEF ListExact
    <2> USE DEF ExactInv
    <2>1. Len(name) \in Nat /\ Scanned = Len(name)
      <3>1. tokens = <<>> /\ Len(name) \in Nat
          BY DEF TypeInv
      <3> QED
          BY <3>1 DEF Scanned
    <2> DEFINE places == 1 .. Len(name)
               listed == {list[i] : i \in 1 .. Len(list)}
    <2>2. listed \subseteq NamedBy(places)
        BY <2>1 DEF Sound, NamedBy
    <2>3. NamedBy({i \in places : Ended(name[i])}) \subseteq listed
      <3> SUFFICES ASSUME NEW j \in places, Ended(name[j]), Parses(name[j]),
                          NEW x \in Named(name[j])
                   PROVE  x \in listed
          BY DEF NamedBy
      <3>1. Listed(list, x)
          BY <2>1 DEF Complete
      <3> QED
          BY <3>1 DEF Listed
    <2> QED
        BY <2>2, <2>3 DEF ListExact
  <1>2. TypeInv /\ ExactInv /\ [Next]_vars => (TypeInv /\ ExactInv)'
      BY TypeNext, ExactNext
  <1> QED
      BY <1>1, <1>2, TypeInit, ExactInit, PTL DEF Spec
=============================================================================
