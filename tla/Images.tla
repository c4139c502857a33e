------------------------------- MODULE Images --------------------------------
(***************************************************************************)
(* What the runtime knows of the loaded images: the list of headers, whose *)
(* links share a word with two flags, and the table of data segments, by   *)
(* which a pointer is known to be a class.  The table is sorted when it is *)
(* searched; a class remembers where its segment was.                      *)
(***************************************************************************)
EXTENDS Integers, SequencesExt, FiniteSets

CONSTANTS
    Image,          \* [name -> [hi, mhdr: addresses, text: __TEXT's vmaddr, data: <<vmaddr, vmsize>>s,
                    \*           preoptimized |-> it is in the shared cache]]
    SharedCache,    \* its range
    Pointers        \* addresses that are asked about

VARIABLES
    offset,         \* [name -> mhdr_offset of its header_info]
    rw,             \* [name -> the word of its header_info_rw]
    FirstHeader, LastHeader,    \* addresses of header_infos, 0 for none
    ranges, size, sorted,       \* SafeRanges
    witness,        \* [pointer -> where the class there was last found]
    allocated,      \* pointers in allocatedClasses
    mapped          \* the images dyld has mapped, in order

vars == <<offset, rw, FirstHeader, LastHeader, ranges, size, sorted, witness, allocated, mapped>>

Names == DOMAIN Image
ImageAt(hi) == CHOOSE i \in Names : Image[i].hi = hi

----------------------------------------------------------------------------
(* header_info_rw: isLoaded, allClassesRealized and 62 bits of a pointer.  *)
getNext(word) == (word \div 4) * 4
WithNext(word, v) == (word % 4) + (v \div 4) * 4
getLoaded(word) == word % 2 = 1
getAllClassesRealized(word) == (word \div 2) % 2 = 1
WithFlags(word, isLoaded, realized) ==
    getNext(word) + (IF isLoaded THEN 1 ELSE 0) + (IF realized THEN 2 ELSE 0)

(* header_info keeps the distance to what it points to.                    *)
mhdr(hi) == hi + offset[ImageAt(hi)]

RECURSIVE Follow(_, _)
Follow(hi, n) == IF hi = 0 \/ n = 0 THEN <<>> ELSE <<hi>> \o Follow(getNext(rw[ImageAt(hi)]), n - 1)
Headers == Follow(FirstHeader, Cardinality(Names) + 1)

----------------------------------------------------------------------------
(* SafeRanges.                                                             *)
InRange(range, ptr) == range[1] <= ptr /\ ptr < range[2]
contains(w, ptr) == w < Len(ranges) /\ InRange(ranges[w + 1], ptr)

InOrder(rs) == SetToSortSeq(ToSet(rs), LAMBDA a, b : a[1] < b[1])

RECURSIVE Search(_, _, _, _)
Search(rs, ptr, l, r) ==
    IF l >= r THEN -1
    ELSE LET i == (l + r) \div 2
         IN CASE ptr < rs[i + 1][1] -> Search(rs, ptr, l, i)
              [] ptr >= rs[i + 1][2] -> Search(rs, ptr, i + 1, r)
              [] OTHER -> i
find(rs, isSorted, ptr) == Search(IF isSorted THEN rs ELSE InOrder(rs), ptr, 0, Len(rs))

(* The table, before and after a change: [ranges, size, sorted].           *)
add(t, range) ==
    LET fls == CHOOSE n \in 0 .. 31 : t.size < 2 ^ n /\ (n = 0 \/ t.size >= 2 ^ (n - 1))
    IN [ranges |-> Append(t.ranges, range), sorted |-> FALSE,
        size |-> IF Len(t.ranges) < t.size THEN t.size
                 ELSE t.size + (IF t.size < 16 THEN 4 ELSE 2 ^ (fls - 3))]

removeRange_StaysSorted(t, range) ==
    LET rs == IF t.sorted THEN t.ranges ELSE InOrder(t.ranges)
        pos == find(rs, TRUE, range[1])
        last == Len(rs)
    IN [t EXCEPT !.sorted = TRUE, !.ranges = Front([rs EXCEPT ![pos + 1] = rs[last]])]

removeRange(t, range) ==
    LET rs == IF t.sorted THEN t.ranges ELSE InOrder(t.ranges)
        pos == find(rs, TRUE, range[1])
        last == Len(rs)
    IN [t EXCEPT !.sorted = pos = last - 1,
                 !.ranges = Front([rs EXCEPT ![pos + 1] = rs[last]])]

Table == [ranges |-> ranges, size |-> size, sorted |-> sorted]
TableBecomes(t) == ranges' = t.ranges /\ size' = t.size /\ sorted' = t.sorted

(* foreach_data_segment: where the segments are, with the image's slide.   *)
foreach_data_segment(i) ==
    LET slide == Image[i].mhdr - Image[i].text
    IN [k \in DOMAIN Image[i].data |->
           <<Image[i].data[k][1] + slide, Image[i].data[k][1] + slide + Image[i].data[k][2]>>]

----------------------------------------------------------------------------
(* addHeader and appendHeader.  The image's header_info is in the shared   *)
(* cache or allocated here.                                                *)
appendHeader(i, word) ==
    LET hi == Image[i].hi
        last == IF LastHeader # 0 THEN LastHeader ELSE Last(Headers)
    IN /\ rw' = IF FirstHeader = 0 THEN [rw EXCEPT ![i] = WithNext(word, 0)]
                ELSE [rw EXCEPT ![i] = WithNext(word, 0), ![ImageAt(last)] = WithNext(@, hi)]
       /\ FirstHeader' = IF FirstHeader = 0 THEN hi ELSE FirstHeader
       /\ LastHeader' = hi
       /\ IF Image[i].preoptimized THEN UNCHANGED <<ranges, size, sorted>>
          ELSE TableBecomes(FoldLeft(add, Table, foreach_data_segment(i)))

map_image(i) ==
    /\ i \notin ToSet(mapped) \/ Image[i].preoptimized     \* dyld may report those again
    /\ IF Image[i].preoptimized /\ getLoaded(rw[i])
       THEN UNCHANGED vars
       ELSE /\ offset' = [offset EXCEPT ![i] = Image[i].mhdr - Image[i].hi]
            /\ appendHeader(i, IF Image[i].preoptimized
                               THEN WithFlags(rw[i], TRUE, getAllClassesRealized(rw[i]))
                               ELSE WithFlags(0, TRUE, FALSE))
            /\ mapped' = Append(mapped, i)
            /\ UNCHANGED <<witness, allocated>>

realizeAllClassesInImage(i) ==
    /\ i \in ToSet(mapped) /\ ~getAllClassesRealized(rw[i])
    /\ rw' = [rw EXCEPT ![i] = WithFlags(@, getLoaded(@), TRUE)]
    /\ UNCHANGED <<offset, FirstHeader, LastHeader, ranges, size, sorted, witness, allocated, mapped>>

(* unmap_image_nolock and removeHeader.                                    *)
removeHeader_LastKept(hi) ==
    LET k == SelectInSeq(Headers, LAMBDA h : h = hi)
        next == getNext(rw[ImageAt(hi)])
    IN /\ IF k = 1 THEN FirstHeader' = next /\ UNCHANGED rw
          ELSE rw' = [rw EXCEPT ![ImageAt(Headers[k - 1])] = WithNext(@, next)] /\ UNCHANGED FirstHeader
       /\ UNCHANGED LastHeader

removeHeader(hi) ==
    LET k == SelectInSeq(Headers, LAMBDA h : h = hi)
        next == getNext(rw[ImageAt(hi)])
    IN /\ IF k = 1 THEN FirstHeader' = next /\ UNCHANGED rw
          ELSE rw' = [rw EXCEPT ![ImageAt(Headers[k - 1])] = WithNext(@, next)] /\ UNCHANGED FirstHeader
       /\ LastHeader' = IF LastHeader = hi THEN 0 ELSE LastHeader

unmap_image(i) ==
    LET k == SelectInSeq(Headers, LAMBDA h : mhdr(h) = Image[i].mhdr)
    IN /\ i \in ToSet(mapped) /\ ~Image[i].preoptimized
       /\ k # 0 /\ removeHeader(Headers[k])
       /\ TableBecomes(FoldLeft(removeRange, Table, foreach_data_segment(i)))
       /\ witness' = [p \in Pointers |->
              IF \E s \in ToSet(foreach_data_segment(i)) : InRange(s, p) THEN 0 ELSE witness[p]]
       /\ mapped' = Remove(mapped, i)
       /\ UNCHANGED <<offset, size, allocated>>

----------------------------------------------------------------------------
(* isKnownClass, which remembers where it found the class.                 *)
isKnown(p) == contains(witness[p], p) \/ p \in allocated \/ find(ranges, sorted, p) # -1

isKnownClass(p) ==
    /\ ~contains(witness[p], p) /\ p \notin allocated
    /\ ranges' = (IF sorted THEN ranges ELSE InOrder(ranges)) /\ sorted' = TRUE
    /\ LET pos == find(ranges, sorted, p)
       IN witness' = IF pos = -1 THEN witness ELSE [witness EXCEPT ![p] = pos]
    /\ UNCHANGED <<offset, rw, FirstHeader, LastHeader, size, allocated, mapped>>

(* Classes made at run time.                                               *)
InSegment(p) ==
    \/ InRange(SharedCache, p)
    \/ \E i \in ToSet(mapped) : ~Image[i].preoptimized
           /\ \E s \in ToSet(foreach_data_segment(i)) : InRange(s, p)
InAnySegment(p) ==
    InRange(SharedCache, p)
        \/ \E i \in Names : \E s \in ToSet(foreach_data_segment(i)) : InRange(s, p)

allocateClass(p) ==
    /\ ~InAnySegment(p)
    /\ allocated' = IF p \in allocated THEN allocated \ {p} ELSE allocated \cup {p}
    /\ witness' = [witness EXCEPT ![p] = 0]
    /\ UNCHANGED <<offset, rw, FirstHeader, LastHeader, ranges, size, sorted, mapped>>

Init ==
    /\ offset = [i \in Names |-> 0] /\ rw = [i \in Names |-> 0]
    /\ FirstHeader = 0 /\ LastHeader = 0
    /\ ranges = <<SharedCache>> /\ size = 4 /\ sorted = FALSE      \* setSharedCacheRange
    /\ witness = [p \in Pointers |-> 0] /\ allocated = {}
    /\ mapped = <<>>

Next ==
    \/ \E i \in Names : map_image(i) \/ unmap_image(i) \/ realizeAllClassesInImage(i)
    \/ \E p \in Pointers : isKnownClass(p) \/ allocateClass(p)

----------------------------------------------------------------------------
(* The list of headers leads through the mapped images in the order they   *)
(* came, whatever was unmapped, and loses no flag; a class is known when,  *)
(* and only when, it lies in a data segment of a mapped image or was made  *)
(* at run time, however stale the place it remembers.                      *)
ImagesAgree ==
    /\ Headers = [k \in DOMAIN mapped |-> Image[mapped[k]].hi]
    /\ \A i \in ToSet(mapped) : getLoaded(rw[i])
    /\ \A p \in Pointers : isKnown(p) <=> (InSegment(p) \/ p \in allocated)
    /\ Len(ranges) <= size

=============================================================================
