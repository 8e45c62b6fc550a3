------------------------------- MODULE Json4c -------------------------------
(***************************************************************************)
(* lsfeventsparser/json4c.c and strreplace.c: the tree of nodes a record   *)
(* is put into, on the heap, its text, and its release.  A caller builds   *)
(* below the root as lsbevent_parse.c does: an instance is attached once,  *)
(* to an older one, before or after it is filled.                          *)
(*                                                                         *)
(* A character is one of the three that matter, a number and a key are     *)
(* one token each, and malloc does not fail.  Recursion over the tree is a *)
(* stack of the calls in progress, jToString's and then jFree's.           *)
(***************************************************************************)
EXTENDS Integers, Sequences, SequencesExt

CONSTANTS
    MaxNodes,   \* bound: nodes a record has
    Values,     \* the strings to add
    initLen     \* by how much a text grows: 512 in the code

Char == {"a", "quote", "backslash"}

ASSUME JsonAssumption ==
    MaxNodes \in Nat \ {0} /\ Values \subseteq Seq(Char) /\ initLen \in Nat \ {0}

Json4cObject == "object"
Json4cArray == "array"
Json4cNumber == "number"
Json4cString == "string"
Instances == {Json4cObject, Json4cArray}

Nodes == 1 .. MaxNodes
NULL == 0
Root == 1

VARIABLES
    pc,         \* "build", "print", "free", "done"
    node,       \* what malloc has returned
    memory,     \* "unused", "live", "freed"
    loose,      \* instances created and not attached yet
    stack,      \* of calls
    text,       \* what jToString returned for the root
    touched,    \* history: nodes the last step read or wrote
    given       \* history: what was added to each node, in order

tree == <<node, memory, loose, given>>
vars == <<pc, tree, stack, text, touched>>

-----------------------------------------------------------------------------
(* Texts.                                                                   *)

\* Mutant: every second quote is escaped.
strreplaceTwo(value) ==
    FlattenSeq([i \in DOMAIN value |->
        IF value[i] = "quote" /\ (i = 1 \/ value[i - 1] # "quote")
        THEN <<"backslash", "quote">> ELSE <<value[i]>>])

\* strreplace(value, "\"", "\\\""), as addStringToObject calls it.
strreplace(value) ==
    FlattenSeq([i \in DOMAIN value |->
        IF value[i] = "quote" THEN <<"backslash", "quote">> ELSE <<value[i]>>])

vsnprintf(s, realLen) == IF Len(s) < realLen THEN s ELSE SubSeq(s, 1, realLen - 1)

\* Mutant: a text as long as the buffer, without its NUL, is taken to fit.
ksnprintfFull(s) ==
    LET index == CHOOSE i \in 1 .. Len(s) + 1 :
            Len(s) <= i * initLen /\ \A j \in 1 .. i - 1 : Len(s) > j * initLen
    IN  vsnprintf(s, index * initLen)

\* Into buffers of initLen, 2 * initLen, ... until the text was shorter than one.
ksnprintf(s) ==
    LET index == CHOOSE i \in 1 .. Len(s) + 1 :
            Len(s) < i * initLen /\ \A j \in 1 .. i - 1 : Len(s) >= j * initLen
    IN  vsnprintf(s, index * initLen)

kstrncat(dest, src) == ksnprintf(dest \o src)

Key(n) == IF node[n].keyed THEN <<"key">> ELSE <<>>

numberToString(n) == ksnprintf(Key(n) \o <<"number">>)

stringToString(n) == ksnprintf(Key(n) \o <<"quote">> \o node[n].value \o <<"quote">>)

Opening(n) == ksnprintf(Key(n) \o <<IF node[n].type = Json4cObject THEN "{" ELSE "[">>)
Closing(n) == <<IF node[n].type = Json4cObject THEN "}" ELSE "]">>

-----------------------------------------------------------------------------
(* Building.                                                                *)

Children(n) ==
    LET list[c \in 0 .. MaxNodes] == IF c = NULL THEN <<>> ELSE <<c>> \o list[node[c].next]
    IN  list[node[n].child]

New == IF \E n \in Nodes : memory[n] = "unused"
       THEN CHOOSE n \in Nodes : memory[n] = "unused" /\ \A k \in 1 .. n - 1 : memory[k] # "unused"
       ELSE NULL

\* Mutant: a new child is the first of the list and the rest is lost.
addChildOver(heap, parent, n) ==
    [heap EXCEPT ![parent] = [@ EXCEPT !.child = n]]

\* At the end of the parent's list.
addChild(heap, parent, n) ==
    IF heap[parent].child = NULL
    THEN [heap EXCEPT ![parent] = [@ EXCEPT !.child = n]]
    ELSE [heap EXCEPT ![Last(Children(parent))] = [@ EXCEPT !.next = n]]

\* createNumber or createString, the key of a member of an object, addChild.
Add(parent, type, value, what) ==
    /\ New # NULL
    /\ node' = addChild([node EXCEPT ![New] =
                   [type |-> type, keyed |-> node[parent].type = Json4cObject, value |-> value,
                    next |-> NULL, child |-> NULL]], parent, New)
    /\ memory' = [memory EXCEPT ![New] = "live"]
    /\ given' = [given EXCEPT ![parent] = Append(@, New), ![New] = what]
    /\ touched' = {parent} \cup ToSet(Children(parent))

AddNumber ==
    /\ pc = "build"
    /\ \E parent \in Nodes :
        /\ memory[parent] = "live" /\ node[parent].type \in Instances
        /\ Add(parent, Json4cNumber, <<>>, <<>>)
    /\ UNCHANGED <<pc, loose, stack, text>>

\* Quotes are escaped in the members of an object only; a NULL is left out (no step).
AddString ==
    /\ pc = "build"
    /\ \E parent \in Nodes, value \in Values :
        /\ memory[parent] = "live"
        /\ \/ /\ node[parent].type = Json4cObject
              /\ Add(parent, Json4cString, strreplace(value), value)
           \/ /\ node[parent].type = Json4cArray
              /\ "quote" \notin ToSet(value)      \* no caller has one
              /\ Add(parent, Json4cString, value, value)
    /\ UNCHANGED <<pc, loose, stack, text>>

\* jCreateObject, jCreateArray.
Create ==
    /\ pc = "build" /\ New # NULL
    /\ \E type \in Instances :
        node' = [node EXCEPT ![New] =
            [type |-> type, keyed |-> FALSE, value |-> <<>>, next |-> NULL, child |-> NULL]]
    /\ memory' = [memory EXCEPT ![New] = "live"]
    /\ loose' = loose \cup {New}
    /\ touched' = {}
    /\ UNCHANGED <<pc, stack, text, given>>

\* addInstanceToObject, addInstanceToArray.
AddInstance ==
    /\ pc = "build"
    /\ \E n \in loose, parent \in Nodes :
        /\ parent < n /\ memory[parent] = "live" /\ node[parent].type \in Instances
        /\ node' = addChild([node EXCEPT ![n] = [@ EXCEPT !.keyed = node[parent].type = Json4cObject]],
                             parent, n)
        /\ loose' = loose \ {n}
        /\ given' = [given EXCEPT ![parent] = Append(@, n)]
        /\ touched' = {n, parent} \cup ToSet(Children(parent))
    /\ UNCHANGED <<pc, memory, stack, text>>

-----------------------------------------------------------------------------
(* jToString.                                                               *)

ToStringCall(n) == [node |-> n, child |-> node[n].child, ret |-> Opening(n)]

jToString ==
    /\ pc = "build" /\ loose = {}
    /\ pc' = "print"
    /\ stack' = <<ToStringCall(Root)>>
    /\ touched' = {Root}
    /\ UNCHANGED <<tree, text>>

\* A child's text and a comma, then the next child.
Appended(call, buffer) ==
    [node |-> call.node, child |-> node[call.child].next,
     ret |-> kstrncat(kstrncat(call.ret, buffer), <<",">>)]

ScalarToString ==
    /\ pc = "print"
    /\ LET call == Last(stack) IN
        /\ call.child # NULL /\ node[call.child].type \notin Instances
        /\ stack' = Append(Front(stack),
               Appended(call, IF node[call.child].type = Json4cNumber
                              THEN numberToString(call.child) ELSE stringToString(call.child)))
        /\ touched' = {call.child}
    /\ UNCHANGED <<pc, tree, text>>

InstanceToString ==
    /\ pc = "print"
    /\ LET call == Last(stack) IN
        /\ call.child # NULL /\ node[call.child].type \in Instances
        /\ stack' = Append(stack, ToStringCall(call.child))
        /\ touched' = {call.child}
    /\ UNCHANGED <<pc, tree, text>>

\* The last comma goes, if there is one.
Closed(call) ==
    kstrncat(IF node[call.node].child = NULL THEN call.ret ELSE Front(call.ret), Closing(call.node))

FreeCall(n) == [node |-> n, child |-> node[n].child, ret |-> <<>>]

\* The last call goes on with jFree(root).
ReturnString ==
    /\ pc = "print"
    /\ LET call == Last(stack)
           rest == Front(stack) IN
        /\ call.child = NULL
        /\ IF rest = <<>>
           THEN text' = Closed(call) /\ pc' = "free" /\ stack' = <<FreeCall(Root)>>
           ELSE /\ stack' = Append(Front(rest), Appended(Last(rest), Closed(call)))
                /\ UNCHANGED <<pc, text>>
        /\ touched' = {call.node}
    /\ UNCHANGED tree

-----------------------------------------------------------------------------
(* jFree.                                                                   *)

\* Mutant: the next child is read from the one just released.
FreeChildLate ==
    /\ pc = "free"
    /\ LET call == Last(stack) IN
        /\ call.child # NULL
        /\ stack' = IF memory[call.child] = "live" THEN Append(stack, FreeCall(call.child))
                    ELSE Append(Front(stack), [call EXCEPT !.child = node[@].next])
        /\ touched' = {call.child}
    /\ UNCHANGED <<pc, tree, text>>

FreeChild ==
    /\ pc = "free"
    /\ LET call == Last(stack) IN
        /\ call.child # NULL
        /\ stack' = Append(Append(Front(stack), [call EXCEPT !.child = node[@].next]),
                           FreeCall(call.child))
        /\ touched' = {call.child}
    /\ UNCHANGED <<pc, tree, text>>

FreeNode ==
    /\ pc = "free"
    /\ LET call == Last(stack) IN
        /\ call.child = NULL
        /\ memory' = [memory EXCEPT ![call.node] = "freed"]
        /\ touched' = {call.node}
    /\ stack' = Front(stack)
    /\ pc' = IF Len(stack) = 1 THEN "done" ELSE pc
    /\ UNCHANGED <<node, loose, given, text>>

-----------------------------------------------------------------------------
Blank == [type |-> Json4cObject, keyed |-> FALSE, value |-> <<>>, next |-> NULL, child |-> NULL]

Init ==
    /\ pc = "build"
    /\ node = [n \in Nodes |-> Blank]
    /\ memory = [n \in Nodes |-> IF n = Root THEN "live" ELSE "unused"]
    /\ loose = {} /\ stack = <<>> /\ text = <<>> /\ touched = {}
    /\ given = [n \in Nodes |-> <<>>]

Next ==
    \/ AddNumber \/ AddString \/ Create \/ AddInstance
    \/ jToString \/ ScalarToString \/ InstanceToString \/ ReturnString
    \/ FreeChild \/ FreeNode

Spec == Init /\ [][Next]_vars

-----------------------------------------------------------------------------
\* jToString and jFree walk lists of pointers and release what they walk: no step reads
\* or releases a node that was released before.
OnlyLiveTouched == [][\A n \in touched' : memory[n] = "live"]_vars

\* "Only call free() function for root instance, the function will do a deep clean": the
\* whole tree is released, whatever was attached where and when.
AllReleased == pc = "done" => \A n \in Nodes : memory[n] # "live"

\* The text is the tree, its members in the order they were added: what any reader
\* would write, with nothing cut off where a buffer was full.
Joined(texts) ==
    FlattenSeq([i \in DOMAIN texts |-> IF i = 1 THEN texts[i] ELSE <<",">> \o texts[i]])

Written[n \in Nodes] ==
    IF node[n].type = Json4cNumber THEN Key(n) \o <<"number">>
    ELSE IF node[n].type = Json4cString
         THEN Key(n) \o <<"quote">> \o node[n].value \o <<"quote">>
         ELSE Key(n) \o <<IF node[n].type = Json4cObject THEN "{" ELSE "[">>
              \o Joined([i \in DOMAIN given[n] |-> Written[given[n][i]]]) \o Closing(n)

TextIsTree == text # <<>> => text = Written[Root]

\* What a JSON reader takes for strings: a quote opens one, a backslash hides what
\* follows it, a quote ends it.
Reader(inside, escaped, current, out) ==
    [inside |-> inside, escaped |-> escaped, current |-> current, out |-> out]

ReadChar(r, c) ==
    IF ~r.inside THEN IF c = "quote" THEN Reader(TRUE, FALSE, <<>>, r.out) ELSE r
    ELSE IF r.escaped THEN Reader(TRUE, FALSE, Append(r.current, c), r.out)
    ELSE IF c = "backslash" THEN Reader(TRUE, TRUE, r.current, r.out)
    ELSE IF c = "quote" THEN Reader(FALSE, FALSE, r.current, Append(r.out, r.current))
    ELSE Reader(TRUE, FALSE, Append(r.current, c), r.out)

Read(s, start) ==
    LET after[k \in 0 .. Len(s)] == IF k = 0 THEN start ELSE ReadChar(after[k - 1], s[k])
    IN  after[Len(s)]

ReadStrings(s) == Read(s, Reader(FALSE, FALSE, <<>>, <<>>)).out

StringsOf[n \in Nodes] ==
    IF node[n].type = Json4cString THEN <<given[n]>>
    ELSE IF node[n].type = Json4cNumber THEN <<>>
    ELSE FlattenSeq([i \in DOMAIN given[n] |-> StringsOf[given[n][i]]])

\* The strings of a record come out of its text as they went in, with quotes anywhere in
\* them, as long as none of the record has a backslash, which is not escaped.
StringsReadBack ==
    text # <<>> /\ (\A i \in DOMAIN StringsOf[Root] : "backslash" \notin ToSet(StringsOf[Root][i]))
        => ReadStrings(text) = StringsOf[Root]
=============================================================================
