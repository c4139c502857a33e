------------------------------- MODULE OldList -------------------------------
(***************************************************************************)
(* The List class of the old runtime: objects in one allocation, of which  *)
(* the first numElements count, beside the sequence it stands for.         *)
(***************************************************************************)
EXTENDS Integers, Sequences, SequencesExt

CONSTANTS Objects, nil, NotInList, MaxCapacity, MaxOps

VARIABLES
    dataPtr,        \* [0 .. maxElements - 1 -> object]; what is past the elements is left over
    numElements, maxElements,
    list,           \* the sequence the caller has in mind
    answer,         \* [got, expected] of the last call
    ops

vars == <<dataPtr, numElements, maxElements, list, answer, ops>>

Elements == [i \in 1 .. numElements |-> dataPtr[i - 1]]
Realloc(data, n) == [i \in 0 .. n - 1 |-> IF i \in DOMAIN data THEN data[i] ELSE nil]
Answers(got, expected) == answer' = [got |-> got, expected |-> expected]
Step == ops < MaxOps /\ ops' = ops + 1
Same == UNCHANGED <<dataPtr, numElements, maxElements, list>>

----------------------------------------------------------------------------
(* insertObject:at:, which doubles the capacity when it is full.           *)
Full_Late(l) == l.num > l.max
Full(l) == l.num + 1 > l.max
insertObject_at(l, obj, index) ==
    LET max == IF Full(l) THEN 2 * l.max + 1 ELSE l.max
        grown == Realloc(l.data, max)
    IN [num |-> l.num + 1, max |-> max,
        data |-> [i \in DOMAIN grown |->
                     CASE i > index /\ i <= l.num -> grown[i - 1]
                       [] i = index -> obj
                       [] OTHER -> grown[i]]]

Self == [data |-> dataPtr, num |-> numElements, max |-> maxElements]
SelfBecomes(l) ==
    l.max <= MaxCapacity /\ dataPtr' = l.data /\ numElements' = l.num /\ maxElements' = l.max
Insert(obj, index) ==
    IF obj = nil \/ index > numElements THEN Same /\ Answers(nil, nil)
    ELSE /\ SelfBecomes(insertObject_at(Self, obj, index))
         /\ list' = InsertAt(list, index + 1, obj)
         /\ Answers("self", "self")

insertObject == Step /\ \E obj \in Objects \cup {nil}, index \in 0 .. Len(list) + 1 : Insert(obj, index)
addObject == Step /\ \E obj \in Objects : Insert(obj, numElements)

(* indexOf:, and what is built on it.                                      *)
indexOf(obj) ==
    LET hits == {i \in 0 .. numElements - 1 : dataPtr[i] = obj}
    IN IF hits = {} THEN NotInList ELSE CHOOSE i \in hits : \A j \in hits : i <= j
addObjectIfAbsent ==
    /\ Step
    /\ \E obj \in Objects :
           IF indexOf(obj) # NotInList THEN Same /\ Answers(TRUE, obj \in ToSet(list))
           ELSE Insert(obj, numElements)

(* removeObjectAt: moves the rest down.                                    *)
RemoveIndex(index) ==
    /\ dataPtr' = [i \in DOMAIN dataPtr |->
           IF i >= index /\ i + 1 < numElements THEN dataPtr[i + 1] ELSE dataPtr[i]]
    /\ numElements' = numElements - 1
    /\ list' = RemoveAt(list, index + 1)
    /\ Answers(dataPtr[index], list[index + 1])
    /\ UNCHANGED maxElements
removeObjectAt ==
    /\ Step
    /\ \E index \in 0 .. Len(list) :
           IF index >= numElements THEN Same /\ Answers(nil, nil) ELSE RemoveIndex(index)
removeObject ==
    /\ Step
    /\ \E obj \in Objects :
           IF indexOf(obj) = NotInList THEN Same /\ Answers(FALSE, obj \in ToSet(list)) ELSE RemoveIndex(indexOf(obj))
removeLastObject ==
    /\ Step
    /\ IF numElements = 0 THEN Same /\ Answers(nil, nil) ELSE RemoveIndex(numElements - 1)

empty ==
    /\ Step
    /\ numElements' = 0 /\ list' = <<>> /\ Answers("self", "self")
    /\ UNCHANGED <<dataPtr, maxElements>>

(* replaceObject:with: and replaceObjectAt:with:.                          *)
Replace(index, obj) ==
    /\ dataPtr' = [dataPtr EXCEPT ![index] = obj]
    /\ list' = [list EXCEPT ![index + 1] = obj]
    /\ Answers(dataPtr[index], list[index + 1])
    /\ UNCHANGED <<numElements, maxElements>>
replaceObject ==
    /\ Step
    /\ \E old \in Objects, obj \in Objects \cup {nil} :
           IF obj = nil \/ indexOf(old) = NotInList THEN Same /\ Answers(nil, nil)
           ELSE Replace(indexOf(old), obj)
replaceObjectAt ==
    /\ Step
    /\ \E index \in 0 .. Len(list), obj \in Objects :
           IF index >= numElements THEN Same /\ Answers(nil, nil) ELSE Replace(index, obj)

(* setAvailableCapacity:, copyFromZone: and appendList:, which may be the  *)
(* list itself.                                                            *)
setAvailableCapacity ==
    /\ Step
    /\ \E n \in 0 .. MaxCapacity :
           IF n < numElements THEN Same /\ Answers(nil, nil)
           ELSE /\ dataPtr' = Realloc(dataPtr, n) /\ maxElements' = n
                /\ Answers("self", "self") /\ UNCHANGED <<numElements, list>>
copyFromZone ==         \* the copy takes the place of the list
    /\ Step
    /\ dataPtr' = Realloc(Realloc(dataPtr, numElements), numElements) /\ maxElements' = numElements
    /\ Answers(TRUE, TRUE) /\ UNCHANGED <<numElements, list>>
appendList ==
    /\ Step
    /\ SelfBecomes(FoldLeft(LAMBDA l, i : insertObject_at(l, l.data[i], l.num), Self,
                            [k \in 1 .. numElements |-> k - 1]))
    /\ list' = list \o list /\ Answers("self", "self")

(* objectAt:, lastObject, count, isEqual: and the order of                 *)
(* makeObjectsPerform:, last to first.                                     *)
objectAt(index) == IF index >= numElements THEN nil ELSE dataPtr[index]
lastObject == IF numElements = 0 THEN nil ELSE dataPtr[numElements - 1]
makeObjectsPerform == [k \in 1 .. numElements |-> dataPtr[numElements - k]]

Init ==
    /\ \E n \in 0 .. 2 : maxElements = n /\ dataPtr = Realloc(<<>>, n)      \* initCount:
    /\ numElements = 0 /\ list = <<>> /\ answer = [got |-> nil, expected |-> nil] /\ ops = 0

Next ==
    \/ insertObject \/ addObject \/ addObjectIfAbsent \/ removeObjectAt \/ removeObject \/ removeLastObject
    \/ empty \/ replaceObject \/ replaceObjectAt \/ setAvailableCapacity \/ copyFromZone \/ appendList

----------------------------------------------------------------------------
(* After any calls the list holds the sequence its caller has in mind,     *)
(* inside its allocation, and every question about it is answered so.      *)
ListIsSequence ==
    /\ numElements = Len(list) /\ numElements <= maxElements /\ DOMAIN dataPtr = 0 .. maxElements - 1
    /\ Elements = list
    /\ answer.got = answer.expected
    /\ \A i \in 0 .. Len(list) : objectAt(i) = IF i < Len(list) THEN list[i + 1] ELSE nil
    /\ lastObject = IF list = <<>> THEN nil ELSE Last(list)
    /\ makeObjectsPerform = Reverse(list)

=============================================================================
