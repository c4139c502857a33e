----------------------- MODULE AutoreleasePoolProofs -----------------------
(***************************************************************************)
(* Theorems about AutoreleasePool, for every page size, every object and   *)
(* any depth of pools and pops.                                            *)
(***************************************************************************)
EXTENDS AutoreleasePool, SequenceTheorems, FiniteSetTheorems, FunctionTheorems, TLAPS

\* Counting another autorelease in entry i keeps the length of the page.
LEMMA CoalesceType ==
    ASSUME NEW s \in Seq(Entry), NEW i \in 1..Len(s), s[i].count < MaxCount
    PROVE  Coalesce(s, i) \in Seq(Entry) /\ Len(Coalesce(s, i)) = Len(s)
<1> DEFINE e == [ptr |-> s[i].ptr, count |-> s[i].count + 1]
           a == SubSeq(s, 1, i - 1)
           b == SubSeq(s, i + 1, Len(s))
<1>1. s[i] \in Entry
  OBVIOUS
<1>2. e \in Entry
  <2>1. s[i].ptr \in Objects \cup {POOL_BOUNDARY} /\ s[i].count \in 0..MaxCount
    BY <1>1 DEF Entry
  <2>2. s[i].count + 1 \in 0..MaxCount
    BY <2>1, PoolAssumption
  <2> QED
    BY <2>1, <2>2 DEF Entry
<1>3. a \in Seq(Entry) /\ Len(a) = i - 1
  OBVIOUS
<1>4. b \in Seq(Entry) /\ Len(b) = Len(s) - i
  OBVIOUS
<1>5. <<e>> \in Seq(Entry) /\ Len(<<e>>) = 1
  BY <1>2
<1> HIDE DEF e, a, b
<1>6. a \o b \in Seq(Entry) /\ Len(a \o b) = Len(s) - 1
  BY <1>3, <1>4
<1>7. (a \o b) \o <<e>> \in Seq(Entry) /\ Len((a \o b) \o <<e>>) = Len(s)
  BY <1>5, <1>6
<1> QED
  BY <1>7 DEF Coalesce, e, a, b

\* What add() leaves on a page: one entry more, or as many; a boundary is
\* never coalesced.
LEMMA AddType ==
    ASSUME NEW s \in Seq(Entry), NEW o \in Objects \cup {POOL_BOUNDARY}
    PROVE  /\ add(s, o) \in Seq(Entry)
           /\ Len(add(s, o)) > 0
           /\ Len(add(s, o)) >= Len(s)
           /\ Len(add(s, o)) <= Len(s) + 1
           /\ o = POOL_BOUNDARY => Len(add(s, o)) = Len(s) + 1
           /\ Len(s) = 0 => Len(add(s, o)) = 1
<1>1. CASE \E i \in 1..Len(s) : Found(s, o, i)
  <2> DEFINE i == CHOOSE x \in 1..Len(s) : Found(s, o, x)
  <2>1. i \in 1..Len(s) /\ Found(s, o, i)
    BY <1>1
  <2> HIDE DEF i
  <2>2. s[i].count < MaxCount /\ o # POOL_BOUNDARY
    BY <2>1 DEF Found, Coalescable
  <2>3. add(s, o) = Coalesce(s, i)
    BY <1>1 DEF add, i
  <2>4. Coalesce(s, i) \in Seq(Entry) /\ Len(Coalesce(s, i)) = Len(s)
    BY <2>1, <2>2, CoalesceType
  <2> QED
    BY <2>1, <2>2, <2>3, <2>4
<1>2. CASE ~ \E i \in 1..Len(s) : Found(s, o, i)
  <2>1. add(s, o) = Append(s, [ptr |-> o, count |-> 0])
    BY <1>2 DEF add
  <2>2. [ptr |-> o, count |-> 0] \in Entry
    BY PoolAssumption DEF Entry
  <2> QED
    BY <2>1, <2>2
<1> QED
  BY <1>1, <1>2

-----------------------------------------------------------------------------
\* What the proofs below assume of a state.
Shape ==
    /\ setting \in Setting
    /\ pages \in Seq(Seq(Entry))
    /\ hot \in 0..Len(pages)
    /\ placeholder \in BOOLEAN
    /\ PagesContiguous
    /\ hot = 0 => pages = <<>>
    /\ placeholder => hot = 0

\* The page after the hot one is empty or missing, so the search for room ends
\* there.
LEMMA NextRoomIsNext == Shape => NextRoom = hot + 1
<1> SUFFICES ASSUME Shape PROVE NextRoom = hot + 1
  OBVIOUS
<1> DEFINE Room(n) == /\ n <= Len(pages) => ~Full(n)
                      /\ \A m \in hot + 1 .. n - 1 : Full(m)
<1>1. Len(pages) \in Nat /\ hot \in Nat /\ hot <= Len(pages)
  BY DEF Shape
<1>2. Capacity \in Nat /\ Capacity > 1
  BY DEF Shape, Setting, Capacity
<1>3. \A n \in hot + 1 .. Len(pages) : ~Full(n)
  BY <1>1, <1>2 DEF Shape, PagesContiguous, Full
<1>4. Room(hot + 1)
  BY <1>1, <1>3
<1>5. \A n \in hot + 1 .. Len(pages) + 1 : Room(n) => n = hot + 1
  <2> SUFFICES ASSUME NEW n \in hot + 1 .. Len(pages) + 1, Room(n), n # hot + 1
               PROVE  FALSE
    OBVIOUS
  <2>1. hot + 1 \in hot + 1 .. n - 1 /\ hot + 1 \in hot + 1 .. Len(pages)
    BY <1>1
  <2> QED
    BY <2>1, <1>3
<1>6. hot + 1 \in hot + 1 .. Len(pages) + 1
  BY <1>1
<1>7. NextRoom = CHOOSE n \in hot + 1 .. Len(pages) + 1 : Room(n)
  BY DEF NextRoom
<1> HIDE DEF Room
<1> QED
  BY <1>4, <1>5, <1>6, <1>7

\* What adding an entry may do to the pages.
Grows(o) ==
    /\ pages' \in Seq(Seq(Entry))
    /\ hot' \in 1..Len(pages')
    /\ hot' >= hot
    /\ placeholder' = FALSE
    /\ Len(pages') >= Len(pages)
    /\ \A p \in 1..Len(pages) : Len(pages'[p]) >= Len(pages[p])
    /\ \A p \in 1..Len(pages') :
        /\ Len(pages'[p]) <= Capacity
        /\ p < hot' => Len(pages'[p]) = Capacity
        /\ p > hot' => Len(pages'[p]) = 0
    /\ Len(pages'[hot']) > 0
    /\ o = POOL_BOUNDARY /\ hot' = hot =>
            Len(pages'[hot']) = Len(pages[hot]) + 1
    /\ hot = 0 \/ Trimmed =>
        /\ Len(pages') <= hot' + 1
        /\ Len(pages') = hot' + 1 => Len(pages'[hot']) >= Capacity \div 2

\* Adding to the hot page.
LEMMA AddToHot ==
    ASSUME Shape, NEW o \in Objects \cup {POOL_BOUNDARY},
           hot # 0, ~Full(hot), AddTo(hot, o)
    PROVE  Grows(o)
<1>1. /\ Len(pages) \in Nat /\ hot \in 1..Len(pages)
      /\ Capacity \in Nat /\ Capacity > 1
      /\ Capacity \div 2 \in Nat
  BY DEF Shape, Setting, Capacity
<1>2. pages[hot] \in Seq(Entry) /\ Len(pages[hot]) \in Nat
  BY <1>1 DEF Shape
<1>3. Len(pages[hot]) < Capacity
  BY <1>1, <1>2 DEF Full, Shape, PagesContiguous
<1> DEFINE s == add(pages[hot], o)
<1>4. /\ s \in Seq(Entry) /\ Len(s) \in Nat /\ Len(s) > 0
      /\ Len(s) >= Len(pages[hot]) /\ Len(s) <= Len(pages[hot]) + 1
      /\ o = POOL_BOUNDARY => Len(s) = Len(pages[hot]) + 1
  BY <1>2, AddType
<1>5. hot' = hot /\ pages' = [pages EXCEPT ![hot] = s] /\ placeholder' = FALSE
  BY <1>1 DEF AddTo, Shape
<1> HIDE DEF s
<1>6. Len(pages') = Len(pages)
  BY <1>1, <1>4, <1>5 DEF Shape
<1>14. pages' \in Seq(Seq(Entry))
  BY <1>1, <1>4, <1>5 DEF Shape
<1>7. pages'[hot] = s /\ \A p \in 1..Len(pages) : p # hot => pages'[p] = pages[p]
  BY <1>1, <1>5 DEF Shape
<1>8. \A p \in 1..Len(pages) : Len(pages[p]) \in Nat
  BY <1>1 DEF Shape
<1>9. \A p \in 1..Len(pages) : Len(pages'[p]) >= Len(pages[p])
  BY <1>4, <1>7, <1>8
<1>10. \A p \in 1..Len(pages') :
        /\ Len(pages'[p]) <= Capacity
        /\ p < hot' => Len(pages'[p]) = Capacity
        /\ p > hot' => Len(pages'[p]) = 0
  <2>1. \A p \in 1..Len(pages) :
        /\ Len(pages[p]) <= Capacity
        /\ p < hot => Len(pages[p]) = Capacity
        /\ p > hot => Len(pages[p]) = 0
    BY DEF Shape, PagesContiguous
  <2>2. TAKE p \in 1..Len(pages')
  <2>3. p \in 1..Len(pages)
    BY <1>6
  <2>4. CASE p = hot
    <3>1. Len(pages'[p]) = Len(s)
      BY <1>7, <2>4
    <3> QED
      BY <1>1, <1>2, <1>3, <1>4, <1>5, <2>4, <3>1
  <2>5. CASE p # hot
    <3>1. pages'[p] = pages[p]
      BY <1>7, <2>3, <2>5
    <3> QED
      BY <1>1, <1>5, <2>1, <2>3, <2>5, <3>1
  <2> QED
    BY <2>4, <2>5
<1>12. Len(pages'[hot']) = Len(s)
  BY <1>5, <1>7
<1>11. Trimmed => /\ Len(pages') <= hot' + 1
                  /\ Len(pages') = hot' + 1 => Len(pages'[hot']) >= Capacity \div 2
  <2> DEFINE half == Capacity \div 2
             n == Len(pages[hot])
             m == Len(s)
  <2>1. half \in Nat /\ n \in Nat /\ m \in Nat /\ m >= n
    BY <1>1, <1>2, <1>4
  <2>2. Trimmed => Len(pages) <= hot + 1 /\ (Len(pages) = hot + 1 => ~(n < half))
    BY DEF Trimmed, lessThanHalfFull
  <2>3. Len(pages'[hot']) = m /\ Len(pages') = Len(pages) /\ hot' = hot
    BY <1>5, <1>6, <1>12
  <2> HIDE DEF half, n, m
  <2>4. ~(n < half) => m >= half
    BY <2>1
  <2>5. Trimmed => /\ Len(pages') <= hot' + 1
                   /\ Len(pages') = hot' + 1 => Len(pages'[hot']) >= half
    BY <2>2, <2>3, <2>4
  <2> QED
    BY <2>5 DEF half
<1>13. hot' \in 1..Len(pages') /\ hot' >= hot /\ Len(pages') >= Len(pages)
  BY <1>1, <1>5, <1>6
<1>15. /\ Len(pages'[hot']) > 0
       /\ o = POOL_BOUNDARY => Len(pages'[hot']) = Len(pages[hot]) + 1
  BY <1>4, <1>12
<1> QED
  BY <1>5, <1>9, <1>10, <1>11, <1>13, <1>14, <1>15 DEF Grows

\* Going on to the page after the hot one, which is full or absent.
LEMMA AddToNext ==
    ASSUME Shape, NEW o \in Objects \cup {POOL_BOUNDARY},
           hot = 0 \/ Full(hot), AddTo(hot + 1, o), hot = 0 => ~placeholder
    PROVE  Grows(o)
<1>1. /\ Len(pages) \in Nat /\ hot \in 0..Len(pages)
      /\ Capacity \in Nat /\ Capacity > 1
      /\ Capacity \div 2 \in Nat
  BY DEF Shape, Setting, Capacity
<1>2. \A p \in 1..Len(pages) : pages[p] \in Seq(Entry) /\ Len(pages[p]) \in Nat
  BY <1>1 DEF Shape
<1>3. \A p \in 1..Len(pages) : p <= hot => Len(pages[p]) = Capacity
  BY <1>1, <1>2 DEF Shape, PagesContiguous, Full
<1>4. \A p \in 1..Len(pages) : p > hot => Len(pages[p]) = 0
  BY <1>1 DEF Shape, PagesContiguous
<1>5. hot' = hot + 1 /\ placeholder' = FALSE
  BY <1>1 DEF AddTo, Shape
<1>6. CASE hot + 1 <= Len(pages)
  <2> DEFINE s == add(pages[hot + 1], o)
  <2>1. s \in Seq(Entry) /\ Len(s) = 1
    BY <1>1, <1>2, <1>4, <1>6, AddType
  <2>2. pages' = [pages EXCEPT ![hot + 1] = s]
    BY <1>6 DEF AddTo
  <2> HIDE DEF s
  <2>3. Len(pages') = Len(pages)
    BY <1>1, <1>6, <2>1, <2>2 DEF Shape
  <2>11. pages' \in Seq(Seq(Entry))
    BY <1>1, <1>6, <2>1, <2>2 DEF Shape
  <2>4. /\ pages'[hot + 1] = s
        /\ \A p \in 1..Len(pages) : p # hot + 1 => pages'[p] = pages[p]
    BY <1>1, <1>6, <2>2 DEF Shape
  <2>5. \A p \in 1..Len(pages') :
        /\ Len(pages'[p]) <= Capacity
        /\ p < hot' => Len(pages'[p]) = Capacity
        /\ p > hot' => Len(pages'[p]) = 0
    <3>2. TAKE p \in 1..Len(pages')
    <3>3. p \in 1..Len(pages)
      BY <2>3
    <3>4. CASE p = hot + 1
      <4>1. Len(pages'[p]) = 1
        BY <2>1, <2>4, <3>4
      <4> QED
        BY <1>1, <1>5, <3>4, <4>1
    <3>5. CASE p # hot + 1
      <4>1. pages'[p] = pages[p]
        BY <2>4, <3>3, <3>5
      <4>2. p <= hot => Len(pages'[p]) = Capacity
        BY <1>3, <3>3, <4>1
      <4>3. p > hot => Len(pages'[p]) = 0
        BY <1>4, <3>3, <4>1
      <4> QED
        BY <1>1, <1>5, <3>3, <3>5, <4>2, <4>3
    <3> QED
      BY <3>4, <3>5
  <2>6. \A p \in 1..Len(pages) : Len(pages'[p]) >= Len(pages[p])
    BY <1>1, <1>2, <1>3, <1>4, <1>5, <2>1, <2>3, <2>4
  <2>12. hot # 0
    BY <1>1, <1>6 DEF Shape
  <2>7. Trimmed => Len(pages') <= hot' /\ Len(pages') # hot' + 1
    BY <1>1, <1>5, <2>3 DEF Trimmed
  <2>8. hot' \in 1..Len(pages') /\ hot' >= hot /\ hot' # hot
    BY <1>1, <1>5, <1>6, <2>3
  <2>9. Len(pages'[hot']) > 0 /\ Len(pages') >= Len(pages)
    <3>1. pages'[hot'] = s
      BY <1>5, <2>4
    <3>2. Len(pages'[hot']) = 1
      BY <2>1, <3>1
    <3> QED
      BY <1>1, <2>3, <3>2
  <2>10. Trimmed => Len(pages') <= hot' + 1
    BY <1>1, <2>3, <2>7, <2>8
  <2> QED
    BY <1>5, <2>5, <2>6, <2>7, <2>8, <2>9, <2>10, <2>11, <2>12 DEF Grows
<1>7. CASE ~(hot + 1 <= Len(pages))
  <2> DEFINE s == add(<<>>, o)
  <2>1. s \in Seq(Entry) /\ Len(s) = 1
    <3>1. <<>> \in Seq(Entry) /\ Len(<<>>) = 0
      OBVIOUS
    <3> QED
      BY <3>1, AddType
  <2>2. pages' = Append(pages, s)
    BY <1>7 DEF AddTo
  <2>3. hot = Len(pages)
    BY <1>1, <1>7
  <2> HIDE DEF s
  <2>4. Len(pages') = Len(pages) + 1
    BY <1>1, <2>1, <2>2 DEF Shape
  <2>11. pages' \in Seq(Seq(Entry))
    BY <1>1, <2>1, <2>2 DEF Shape
  <2>5. pages'[hot + 1] = s /\ \A p \in 1..Len(pages) : pages'[p] = pages[p]
    BY <1>1, <2>2, <2>3 DEF Shape
  <2>6. \A p \in 1..Len(pages') :
        /\ Len(pages'[p]) <= Capacity
        /\ p < hot' => Len(pages'[p]) = Capacity
        /\ p > hot' => Len(pages'[p]) = 0
    <3>2. TAKE p \in 1..Len(pages')
    <3>4. CASE p = hot + 1
      <4>1. Len(pages'[p]) = 1
        BY <2>1, <2>5, <3>4
      <4> QED
        BY <1>1, <1>5, <3>4, <4>1
    <3>5. CASE p # hot + 1
      <4>1. p \in 1..Len(pages) /\ p <= hot
        BY <1>1, <2>3, <2>4, <3>5
      <4>2. Len(pages'[p]) = Capacity
        BY <1>3, <2>5, <4>1
      <4> QED
        BY <1>1, <1>5, <4>1, <4>2
    <3> QED
      BY <3>4, <3>5
  <2>7. \A p \in 1..Len(pages) : Len(pages'[p]) >= Len(pages[p])
    BY <1>2, <2>5
  <2>8. Len(pages') <= hot' + 1 /\ Len(pages') # hot' + 1
    BY <1>1, <1>5, <2>3, <2>4
  <2>9. hot' \in 1..Len(pages') /\ hot' >= hot /\ hot' # hot
    BY <1>1, <1>5, <2>3, <2>4
  <2>10. Len(pages'[hot']) > 0 /\ Len(pages') >= Len(pages)
    <3>1. pages'[hot'] = s
      BY <1>5, <2>5
    <3>2. Len(pages'[hot']) = 1
      BY <2>1, <3>1
    <3> QED
      BY <1>1, <2>4, <3>2
  <2> QED
    BY <1>5, <2>6, <2>7, <2>8, <2>9, <2>10, <2>11 DEF Grows
<1> QED
  BY <1>6, <1>7

\* The first page, with a boundary for the pool the placeholder stood for.
LEMMA AddForPlaceholder ==
    ASSUME Shape, NEW o \in Objects \cup {POOL_BOUNDARY},
           hot = 0, ReplacePlaceholder(o)
    PROVE  Grows(o)
<1>1. Capacity \in Nat /\ Capacity > 1 /\ pages = <<>>
  BY DEF Shape, Setting, Capacity
<1> DEFINE a == add(<<>>, POOL_BOUNDARY)
           s == add(a, o)
<1>2. a \in Seq(Entry) /\ Len(a) = 1
  <2>1. <<>> \in Seq(Entry) /\ Len(<<>>) = 0
    OBVIOUS
  <2> QED
    BY <2>1, AddType
<1> HIDE DEF a
<1>3. s \in Seq(Entry) /\ Len(s) \in Nat /\ Len(s) >= 1 /\ Len(s) <= 2
  <2>1. /\ s \in Seq(Entry) /\ Len(s) >= Len(a) /\ Len(s) <= Len(a) + 1
    BY <1>2, AddType
  <2>2. Len(s) \in Nat
    BY <2>1
  <2>3. Len(s) >= 1 /\ Len(s) <= 2
    BY <1>2, <2>1
  <2> QED
    BY <2>1, <2>2, <2>3
<1>4. pages' = <<s>> /\ hot' = 1 /\ placeholder' = FALSE
  BY DEF ReplacePlaceholder, a, s
<1> HIDE DEF s
<1>5. pages' \in Seq(Seq(Entry)) /\ Len(pages') = 1 /\ pages'[1] = s
  BY <1>3, <1>4
<1>6. Len(pages) = 0
  BY <1>1
<1>7. \A p \in 1..Len(pages') : p = 1 /\ Len(pages'[p]) = Len(s)
  BY <1>5
<1>8. pages'[hot'] = s
  BY <1>4, <1>5
<1>9. /\ hot' \in 1..Len(pages') /\ hot' >= hot /\ hot' # hot
      /\ Len(pages') >= Len(pages)
  BY <1>4, <1>5, <1>6
<1>10. \A p \in 1..Len(pages') :
        /\ Len(pages'[p]) <= Capacity
        /\ p < hot' => Len(pages'[p]) = Capacity
        /\ p > hot' => Len(pages'[p]) = 0
  <2> DEFINE m == Len(s)
  <2>1. m \in Nat /\ m <= Capacity
    BY <1>1, <1>3
  <2>2. \A p \in 1..Len(pages') : p = 1 /\ Len(pages'[p]) = m
    BY <1>7
  <2> HIDE DEF m
  <2> QED
    BY <1>4, <2>1, <2>2
<1>11. Len(pages'[hot']) > 0
  BY <1>3, <1>8
<1>12. \A p \in 1..Len(pages) : Len(pages'[p]) >= Len(pages[p])
  BY <1>6
<1> QED
  BY <1>4, <1>5, <1>9, <1>10, <1>11, <1>12 DEF Grows

\* autoreleaseFast keeps the shape of the stack.
LEMMA PlaceGrows ==
    ASSUME Shape, NEW o \in Objects \cup {POOL_BOUNDARY}, Place(o, FALSE)
    PROVE  Grows(o)
<1>1. CASE hot # 0 /\ ~Full(hot) /\ AddTo(hot, o)
  BY <1>1, AddToHot
<1>2. CASE hot # 0 /\ Full(hot) /\ AddTo(NextRoom, o)
  BY <1>2, NextRoomIsNext, AddToNext
<1>3. CASE hot = 0 /\ placeholder /\ ReplacePlaceholder(o)
  BY <1>3, AddForPlaceholder
<1>4. CASE hot = 0 /\ ~placeholder /\ AddTo(1, o)
  <2>1. hot + 1 = 1
    BY <1>4
  <2> QED
    BY <1>4, <2>1, AddToNext
<1> QED
  BY <1>1, <1>2, <1>3, <1>4 DEF Place

-----------------------------------------------------------------------------
\* The inductive invariant, and what a step has to keep.
Inv == TypeOK /\ Production /\ Stack

\* An index of a sequence is the last one or before it.
LEMMA IndexCases ==
    ASSUME NEW n \in Nat, NEW i \in 1..n
    PROVE  i < n \/ i = n
OBVIOUS

\* The invariant gives the lemmas above what they assume.
LEMMA InvShape == Inv => Shape
BY PoolAssumption DEF Inv, TypeOK, Stack, Shape

\* Facts about the lengths and numbers that every step needs.
LEMMA InvNumbers ==
    ASSUME Inv
    PROVE  /\ Len(pages) \in Nat /\ hot \in 0..Len(pages)
           /\ Len(pops) \in Nat /\ Len(tokens) \in Nat
           /\ Capacity \in Nat /\ Capacity > 1
           /\ \A p \in 1..Len(pages) : /\ pages[p] \in Seq(Entry)
                                       /\ Len(pages[p]) \in Nat
           /\ \A i \in 1..Len(pops) : pops[i] \in Popping
           /\ \A k \in 1..Len(tokens) : tokens[k] \in Token
<1>1. setting \in Setting
  BY PoolAssumption DEF Inv, TypeOK
<1>2. Capacity \in Nat /\ Capacity > 1
  BY <1>1 DEF Setting, Capacity
<1>3. /\ Len(pages) \in Nat /\ hot \in 0..Len(pages)
      /\ Len(pops) \in Nat /\ Len(tokens) \in Nat
  BY DEF Inv, TypeOK
<1>4. \A p \in 1..Len(pages) : pages[p] \in Seq(Entry)
  BY DEF Inv, TypeOK
<1>5. \A p \in 1..Len(pages) : Len(pages[p]) \in Nat
  BY <1>4
<1>6. \A i \in 1..Len(pops) : pops[i] \in Popping
  BY DEF Inv, TypeOK
<1>7. \A k \in 1..Len(tokens) : tokens[k] \in Token
  BY DEF Inv, TypeOK
<1> QED
  BY <1>2, <1>3, <1>4, <1>5, <1>6, <1>7

\* PopsNested, with the types of the numbers in it.
LEMMA InvPops ==
    ASSUME Inv, NEW i \in 1..Len(pops)
    PROVE  /\ pops[i].page \in 1..Len(pages) /\ pops[i].page <= hot
           /\ pops[i].stop \in Nat \ {0} /\ pops[i].stop <= Capacity
           /\ pops[i].stop <= Len(pages[pops[i].page]) + 1
           /\ pops[i].base \in Nat /\ pops[i].base <= Len(tokens)
           /\ pops[i].pending \in Nat
           /\ pops[i].obj \in Objects \cup {POOL_BOUNDARY}
<1>1. pops[i] \in Popping
  BY InvNumbers
<1>2. /\ pops[i].page \in Nat \ {0} /\ pops[i].stop \in Nat \ {0}
      /\ pops[i].base \in Nat /\ pops[i].pending \in Nat
      /\ pops[i].obj \in Objects \cup {POOL_BOUNDARY}
  BY <1>1 DEF Popping
<1>3. i \in DOMAIN pops
  BY DEF Inv, TypeOK
<1>4. /\ pops[i].page <= hot /\ pops[i].stop <= Capacity
      /\ pops[i].stop <= Len(pages[pops[i].page]) + 1
      /\ pops[i].base <= Len(tokens)
  BY <1>3 DEF Inv, Stack, PopsNested
<1>5. pops[i].page \in 1..Len(pages)
  BY <1>2, <1>4, InvNumbers
<1> QED
  BY <1>2, <1>4, <1>5

\* Without a page there is no pop in progress.
LEMMA NoPageNoPop == Inv /\ hot = 0 => pops = <<>>
<1> SUFFICES ASSUME Inv, hot = 0, pops # <<>> PROVE FALSE
  OBVIOUS
<1>1. 1 \in 1..Len(pops)
  BY DEF Inv, TypeOK
<1>2. pops[1].page \in 1..Len(pages) /\ pops[1].page <= hot
  BY <1>1, InvPops
<1> QED
  BY <1>2, InvNumbers

\* The pages part of the invariant after something was added.
LEMMA GrowsPages ==
    ASSUME Inv, NEW o, Grows(o), UNCHANGED <<setting, pops>>
    PROVE  /\ pages' \in Seq(Seq(Entry)) /\ hot' \in 0..Len(pages')
           /\ placeholder' \in BOOLEAN
           /\ PagesContiguous'
           /\ hot' # 0 /\ ~placeholder'
           /\ PagesTrimmed'
           /\ \A i \in 1..Len(pops) :
                /\ pops[i].page <= hot'
                /\ pops[i].stop <= Len(pages'[pops[i].page]) + 1
<1>1. /\ pages' \in Seq(Seq(Entry)) /\ hot' \in 1..Len(pages')
      /\ placeholder' = FALSE /\ hot' >= hot /\ Len(pages') \in Nat
  BY DEF Grows
<1>2. hot' \in 0..Len(pages') /\ hot' # 0
  BY <1>1
<1>3. Capacity' = Capacity
  BY DEF Capacity
<1>4. DOMAIN pages' = 1..Len(pages')
  BY <1>1
<1>5. PagesContiguous'
  BY <1>3, <1>4 DEF PagesContiguous, Grows
<1>6. PagesTrimmed'
  <2> SUFFICES ASSUME pops = <<>> PROVE Trimmed'
    BY DEF PagesTrimmed
  <2>1. hot = 0 \/ Trimmed
    BY DEF Inv, Stack, PagesTrimmed
  <2>2. /\ Len(pages') <= hot' + 1
        /\ Len(pages') = hot' + 1 => Len(pages'[hot']) >= Capacity \div 2
    BY <2>1 DEF Grows
  <2>3. Len(pages'[hot']) \in Nat /\ Capacity \div 2 \in Nat
    BY <1>1, InvNumbers
  <2> DEFINE half == Capacity \div 2
             n == Len(pages'[hot'])
  <2>4. half \in Nat /\ n \in Nat /\ (n >= half => ~(n < half))
    BY <2>3
  <2>5. Len(pages') = hot' + 1 => ~(n < half)
    BY <2>2, <2>4
  <2> QED
    BY <1>3, <2>2, <2>5 DEF Trimmed, lessThanHalfFull
<1>7. ASSUME NEW i \in 1..Len(pops)
      PROVE  /\ pops[i].page <= hot'
             /\ pops[i].stop <= Len(pages'[pops[i].page]) + 1
  <2> DEFINE p == pops[i].page
  <2>1. /\ p \in 1..Len(pages) /\ p <= hot /\ pops[i].stop \in Nat
        /\ pops[i].stop <= Len(pages[p]) + 1
    BY <1>7, InvPops
  <2>2. Len(pages'[p]) >= Len(pages[p]) /\ Len(pages) <= Len(pages')
    BY <2>1 DEF Grows
  <2>3. Len(pages[p]) \in Nat
    BY <2>1, InvNumbers
  <2>4. pages'[p] \in Seq(Entry)
    BY <1>1, <2>1, <2>2, InvNumbers, SMTT(20)
  <2>5. Len(pages'[p]) \in Nat
    BY <2>4
  <2> HIDE DEF p
  <2>6. p <= hot'
    BY <1>1, <2>1, InvNumbers
  <2>7. pops[i].stop <= Len(pages'[p]) + 1
    BY <2>1, <2>2, <2>3, <2>5
  <2> QED
    BY <2>6, <2>7 DEF p
<1> QED
  BY <1>1, <1>2, <1>5, <1>6, <1>7

\* While the program runs, every pop in progress is inside a release.
LEMMA RunningFacts ==
    ASSUME Inv, Running
    PROVE  /\ pops # <<>> => Len(pops) \in 1..Len(pops) /\ Top.pending # 0
           /\ \A i \in 1..Len(pops) : pops[i].pending > 0
           /\ ~(exiting /\ pops = <<>>)
<1>1. pops # <<>> => Len(pops) \in 1..Len(pops)
  BY DEF Inv, TypeOK
<1>2. pops # <<>> => Top.pending \in Nat /\ Top.pending > 0
  BY <1>1, InvPops DEF Running, Top
<1>3. ASSUME NEW i \in 1..Len(pops)
      PROVE  pops[i].pending > 0
  <2>1. DOMAIN pops = 1..Len(pops) /\ Len(pops) \in Nat
    BY DEF Inv, TypeOK
  <2>2. pops # <<>>
    BY <1>3, <2>1
  <2>3. i < Len(pops) => pops[i].pending > 0
    BY <1>3, <2>1 DEF Inv, Stack, PopsNested
  <2>4. i = Len(pops) => pops[i].pending > 0
    BY <1>2, <2>2 DEF Top
  <2>5. i < Len(pops) \/ i = Len(pops)
    BY <1>3, <2>1, IndexCases
  <2> QED
    BY <2>3, <2>4, <2>5
<1>4. ~(exiting /\ pops = <<>>)
  BY DEF Running
<1>5. pops # <<>> => Top.pending # 0
  BY <1>2
<1> QED
  BY <1>1, <1>3, <1>4, <1>5

\* Autoreleasing an object keeps the invariant: the stack only grows.
LEMMA StepAutorelease ==
    ASSUME Inv, NEW o \in Objects, Autorelease(o)
    PROVE  Inv'
<1>1. Grows(o)
  BY InvShape, PlaceGrows DEF Autorelease
<1>2. UNCHANGED <<setting, tokens, pops, exiting, bad>>
  BY DEF Autorelease
<1>3. /\ pages' \in Seq(Seq(Entry)) /\ hot' \in 0..Len(pages')
      /\ placeholder' \in BOOLEAN
      /\ PagesContiguous' /\ hot' # 0 /\ ~placeholder' /\ PagesTrimmed'
      /\ \A i \in 1..Len(pops) :
            /\ pops[i].page <= hot'
            /\ pops[i].stop <= Len(pages'[pops[i].page]) + 1
  BY <1>1, <1>2, GrowsPages
<1>4. due' \in [Objects -> Int]
  BY DEF Autorelease, Inv, TypeOK
<1>5. TypeOK'
  BY <1>2, <1>3, <1>4 DEF Inv, TypeOK
<1>6. Capacity' = Capacity /\ DOMAIN pops = 1..Len(pops)
  BY <1>2 DEF Capacity, Inv, TypeOK
<1>7. PopsNested'
  BY <1>2, <1>3, <1>6 DEF Inv, Stack, PopsNested
<1>8. TokensNested'
  BY <1>2, <1>3 DEF Inv, Stack, TokensNested
<1>9. TokensDropped'
  BY <1>2 DEF Inv, Stack, TokensDropped, Top
<1>10. Production'
  BY <1>2 DEF Inv, Production
<1> QED
  BY <1>3, <1>5, <1>7, <1>8, <1>9, <1>10 DEF Inv, Stack

\* So does pushing a pool: its token is above every pop in progress.
LEMMA StepPush ==
    ASSUME Inv, Push
    PROVE  Inv'
<1> DEFINE n == Len(tokens)
           tok == [page |-> hot', slot |-> Len(pages'[hot'])]
<1>1. Grows(POOL_BOUNDARY)
  <2>1. Place(POOL_BOUNDARY, setting.debugPool) /\ ~setting.debugPool
    BY DEF Push, Inv, Production
  <2>2. Place(POOL_BOUNDARY, FALSE)
    BY <2>1 DEF Place
  <2> QED
    BY <2>2, InvShape, PlaceGrows
<1>2. UNCHANGED <<setting, pops, exiting, due, bad>> /\ tokens' = Append(tokens, tok)
  BY DEF Push
<1>3. /\ pages' \in Seq(Seq(Entry)) /\ hot' \in 0..Len(pages')
      /\ placeholder' \in BOOLEAN
      /\ PagesContiguous' /\ hot' # 0 /\ ~placeholder' /\ PagesTrimmed'
      /\ \A i \in 1..Len(pops) :
            /\ pops[i].page <= hot'
            /\ pops[i].stop <= Len(pages'[pops[i].page]) + 1
  BY <1>1, <1>2, GrowsPages
<1>4. pages'[hot'] \in Seq(Entry)
  BY <1>3
<1>5. Len(pages'[hot']) \in Nat /\ Len(pages'[hot']) > 0
  BY <1>1, <1>4 DEF Grows
<1>6. hot' \in Nat
  BY <1>3
<1>7. tok \in Token /\ tok.page = hot' /\ tok.slot = Len(pages'[hot'])
  BY <1>5, <1>6 DEF Token
<1>8. n \in Nat /\ tokens \in Seq(Token)
  BY DEF Inv, TypeOK
<1> HIDE DEF tok
<1>9. /\ tokens' \in Seq(Token) /\ Len(tokens') = n + 1
      /\ DOMAIN tokens' = 1 .. n + 1 /\ DOMAIN tokens = 1..n
      /\ \A k \in 1..n : tokens'[k] = tokens[k]
      /\ tokens'[n + 1] = tok
  BY <1>2, <1>7, <1>8
<1>10. TypeOK'
  BY <1>2, <1>3, <1>9 DEF Inv, TypeOK
<1>11. Capacity' = Capacity /\ DOMAIN pops = 1..Len(pops)
  BY <1>2 DEF Capacity, Inv, TypeOK
<1>12. PopsNested'
  <2>1. \A i \in 1..Len(pops) : pops[i].base \in Nat /\ pops[i].base <= n
    BY InvPops
  <2>2. \A i \in 1..Len(pops) : pops[i].base <= Len(tokens')
    BY <2>1, <1>8, <1>9
  <2> QED
    BY <1>2, <1>3, <1>11, <2>2 DEF Inv, Stack, PopsNested
<1>13. TokensNested'
  <2>1. ASSUME NEW k \in 1 .. n + 1
        PROVE  tokens'[k].page # 0 => hot' # 0 /\ tokens'[k].slot > 0
    <3>1. CASE k \in 1..n
      BY <1>3, <1>9, <2>1, <3>1 DEF Inv, Stack, TokensNested
    <3>2. CASE k = n + 1
      <4>1. tokens'[k].slot = Len(pages'[hot'])
        BY <1>7, <1>9, <3>2
      <4> QED
        BY <1>3, <1>5, <4>1
    <3> QED
      BY <1>8, <3>1, <3>2
  <2>2. ASSUME NEW i \in 1..Len(pops), NEW k \in 1 .. n + 1, k > pops[i].base
        PROVE  /\ tokens'[k].page # 0
               /\ NotAfter(pops[i].page, pops[i].stop,
                           tokens'[k].page, tokens'[k].slot)
    <3>1. CASE k \in 1..n
      BY <1>9, <1>11, <2>2, <3>1 DEF Inv, Stack, TokensNested
    <3>2. CASE k = n + 1
      <4> DEFINE p == pops[i].page
                 stop == pops[i].stop
                 slot == Len(pages'[hot'])
      <4>1. /\ p \in Nat /\ p <= hot /\ stop \in Nat
            /\ stop <= Len(pages[p]) + 1 /\ p \in 1..Len(pages)
        BY InvPops
      <4>2. p <= hot'
        BY <1>3
      <4>3. p = hot' => hot' = hot
        BY <1>1, <1>6, <4>1, InvNumbers DEF Grows
      <4>4. p = hot' => slot = Len(pages[p]) + 1
        BY <1>1, <4>3 DEF Grows
      <4>5. tokens'[k].page = hot' /\ tokens'[k].slot = slot
        BY <1>7, <1>9, <3>2
      <4> HIDE DEF p, stop, slot
      <4>6. p < hot' \/ (p = hot' /\ stop <= slot)
        BY <1>6, <4>1, <4>2, <4>4
      <4> QED
        BY <1>3, <4>5, <4>6 DEF NotAfter, p, stop
    <3> QED
      BY <1>8, <3>1, <3>2
  <2> QED
    BY <1>2, <1>9, <1>11, <2>1, <2>2 DEF TokensNested
<1>14. TokensDropped'
  <2>1. Running
    BY DEF Push
  <2>2. (pops # <<>> => Top.pending # 0) /\ ~(exiting /\ pops = <<>>)
    BY <2>1, RunningFacts
  <2> QED
    BY <1>2, <2>2 DEF Inv, Stack, TokensDropped, Top
<1>15. Production'
  BY <1>2 DEF Inv, Production
<1> QED
  BY <1>3, <1>10, <1>12, <1>13, <1>14, <1>15 DEF Inv, Stack

\* The placeholder is installed only when there are neither pages nor pops.
LEMMA StepPushPlaceholder ==
    ASSUME Inv, PushPlaceholder
    PROVE  Inv'
<1> DEFINE n == Len(tokens)
           tok == [page |-> 0, slot |-> 0]
<1>1. /\ UNCHANGED <<setting, pages, hot, pops, exiting, due, bad>>
      /\ placeholder' = TRUE /\ tokens' = Append(tokens, tok) /\ hot = 0 /\ Running
  BY DEF PushPlaceholder
<1>2. pops = <<>> /\ ~exiting
  BY <1>1, NoPageNoPop, RunningFacts
<1>3. n \in Nat /\ tokens \in Seq(Token) /\ tok \in Token /\ tok.page = 0
  BY DEF Inv, TypeOK, Token
<1> HIDE DEF tok
<1>4. /\ tokens' \in Seq(Token) /\ Len(tokens') = n + 1
      /\ DOMAIN tokens' = 1 .. n + 1 /\ DOMAIN tokens = 1..n
      /\ \A k \in 1..n : tokens'[k] = tokens[k]
      /\ tokens'[n + 1] = tok
  BY <1>1, <1>3
<1>5. TypeOK'
  BY <1>1, <1>4 DEF Inv, TypeOK
<1>6. PagesContiguous' /\ Production'
  BY <1>1 DEF Inv, Stack, PagesContiguous, Production, Capacity
<1>7. DOMAIN pops = {}
  BY <1>2
<1>8. PopsNested'
  BY <1>1, <1>7 DEF PopsNested
<1>9. TokensNested'
  <2>1. ASSUME NEW k \in 1 .. n + 1, tokens'[k].page # 0
        PROVE  hot' # 0 /\ tokens'[k].slot > 0
    <3>1. k \in 1..n
      BY <1>3, <1>4, <2>1
    <3> QED
      BY <1>1, <1>4, <2>1, <3>1 DEF Inv, Stack, TokensNested
  <2> QED
    BY <1>1, <1>4, <1>7, <2>1 DEF TokensNested
<1>10. TokensDropped'
  BY <1>1, <1>2 DEF TokensDropped
<1>11. PagesTrimmed'
  BY <1>1 DEF PagesTrimmed
<1>12. (hot = 0 => pages = <<>>)' /\ (placeholder => hot = 0)'
  BY <1>1 DEF Inv, Stack
<1> QED
  BY <1>5, <1>6, <1>8, <1>9, <1>10, <1>11, <1>12 DEF Inv, Stack

\* What dropping the tokens from the k-th on leaves.
LEMMA CutTokens ==
    ASSUME Inv, NEW k \in 1 .. Len(tokens) + 1,
           tokens' = SubSeq(tokens, 1, k - 1)
    PROVE  /\ tokens' \in Seq(Token) /\ Len(tokens') = k - 1
           /\ DOMAIN tokens' = 1 .. k - 1
           /\ \A j \in 1 .. k - 1 : j \in DOMAIN tokens /\ tokens'[j] = tokens[j]
<1>1. tokens \in Seq(Token) /\ Len(tokens) \in Nat
  BY DEF Inv, TypeOK
<1> QED
  BY <1>1

\* A pop in progress only lets pools be popped that were pushed after it began.
LEMMA PopAboveBase ==
    ASSUME Inv, NEW k \in DOMAIN tokens, k > Base, NEW i \in 1..Len(pops)
    PROVE  k > pops[i].base
<1>1. DOMAIN pops = 1..Len(pops) /\ Len(pops) \in Nat /\ k \in Nat
  BY DEF Inv, TypeOK
<1>2. pops # <<>> /\ Len(pops) \in 1..Len(pops)
  BY <1>1
<1>3. Base = pops[Len(pops)].base
  BY <1>2 DEF Base, Top
<1>4. pops[i].base \in Nat /\ pops[Len(pops)].base \in Nat
  BY <1>2, InvPops
<1>5. i < Len(pops) => pops[i].base <= pops[Len(pops)].base
  BY <1>1, <1>2 DEF Inv, Stack, PopsNested
<1> QED
  BY <1>1, <1>3, <1>4, <1>5

\* The position a pop starts from is in the stack, above the pops in progress.
LEMMA PopPosition ==
    ASSUME Inv, NEW k \in DOMAIN tokens, Pop(k),
           NEW p, NEW slot,
           tokens[k].page = 0 => p = 1 /\ slot = 1,
           tokens[k].page # 0 => p = tokens[k].page /\ slot = tokens[k].slot,
           IsBoundary(p, slot) \/ (slot = 1 /\ p = 1)
    PROVE  /\ p \in 1..Len(pages) /\ p <= hot
           /\ slot \in Nat \ {0} /\ slot <= Capacity
           /\ slot <= Len(pages[p]) + 1
           /\ \A i \in 1..Len(pops) : NotAfter(pops[i].page, pops[i].stop, p, slot)
<1>1. k \in 1..Len(tokens) /\ tokens[k] \in Token
  BY InvNumbers DEF Inv, TypeOK
<1>2. tokens[k].page \in Nat /\ tokens[k].slot \in Nat
  BY <1>1 DEF Token
<1>3. tokens[k].page # 0 => hot # 0 /\ tokens[k].slot > 0
  BY DEF Inv, Stack, TokensNested
<1>4. hot # 0
  BY <1>3 DEF Pop
<1>5. hot \in 1..Len(pages) /\ Len(pages) \in Nat
  BY <1>4, InvNumbers
<1>6. p \in Nat \ {0} /\ slot \in Nat \ {0}
  BY <1>2, <1>3
<1>7. /\ p \in 1..Len(pages) /\ p <= hot
      /\ slot <= Capacity /\ slot <= Len(pages[p]) + 1
  <2>1. CASE slot = 1 /\ p = 1
    <3>1. 1 \in 1..Len(pages) /\ 1 <= hot
      BY <1>5
    <3>2. Len(pages[1]) \in Nat /\ Capacity > 1 /\ Capacity \in Nat
      BY <3>1, InvNumbers
    <3>3. 1 <= Len(pages[1]) + 1 /\ 1 <= Capacity
      BY <3>2
    <3> QED
      BY <2>1, <3>1, <3>3
  <2>2. CASE IsBoundary(p, slot)
    <3>1. p \in 1..Len(pages) /\ slot <= Len(pages[p])
      BY <1>5, <1>6, <2>2 DEF IsBoundary
    <3>2. Len(pages[p]) \in Nat /\ p \in DOMAIN pages /\ Capacity \in Nat
      BY <3>1, InvNumbers DEF Inv, TypeOK
    <3>3. Len(pages[p]) # 0
      BY <1>6, <3>1, <3>2
    <3>4. p <= hot
      BY <1>5, <1>6, <3>2, <3>3 DEF Inv, Stack, PagesContiguous
    <3>5. Len(pages[p]) <= Capacity
      BY <3>2 DEF Inv, Stack, PagesContiguous
    <3>6. slot <= Capacity /\ slot <= Len(pages[p]) + 1
      BY <1>6, <3>1, <3>2, <3>5
    <3> QED
      BY <3>1, <3>4, <3>6
  <2> QED
    BY <2>1, <2>2
<1>8. ASSUME NEW i \in 1..Len(pops)
      PROVE  NotAfter(pops[i].page, pops[i].stop, p, slot)
  <2>1. k > pops[i].base
    BY <1>8, PopAboveBase DEF Pop
  <2>2. i \in DOMAIN pops
    BY <1>8 DEF Inv, TypeOK
  <2>3. /\ tokens[k].page # 0
        /\ NotAfter(pops[i].page, pops[i].stop, tokens[k].page, tokens[k].slot)
    BY <2>1, <2>2 DEF Inv, Stack, TokensNested
  <2> QED
    BY <2>3
<1> QED
  BY <1>6, <1>7, <1>8

\* A pop starts above the pops in progress, which are all inside a release.
LEMMA StepPop ==
    ASSUME Inv, NEW k \in DOMAIN tokens, Pop(k)
    PROVE  Inv'
<1>1. /\ UNCHANGED <<setting, pages, hot, placeholder, exiting, due>>
      /\ tokens' = SubSeq(tokens, 1, k - 1) /\ Running /\ k > Base
  BY DEF Pop
<1>2. k \in 1..Len(tokens) /\ Len(tokens) \in Nat
  BY DEF Inv, TypeOK
<1>3. k \in 1 .. Len(tokens) + 1
  BY <1>2
<1>4. /\ tokens' \in Seq(Token) /\ Len(tokens') = k - 1
      /\ DOMAIN tokens' = 1 .. k - 1
      /\ \A j \in 1 .. k - 1 : j \in DOMAIN tokens /\ tokens'[j] = tokens[j]
  BY <1>1, <1>3, CutTokens
<1>5. \A i \in 1..Len(pops) : pops[i].base \in Nat /\ pops[i].base <= k - 1
  BY <1>1, <1>2, InvPops, PopAboveBase
<1>6. /\ pops # <<>> => Top.pending # 0
      /\ \A i \in 1..Len(pops) : pops[i].pending > 0
      /\ ~(exiting /\ pops = <<>>)
  BY <1>1, RunningFacts
<1>7. PagesContiguous' /\ Production' /\ (hot = 0 => pages = <<>>)'
        /\ (placeholder => hot = 0)'
  BY <1>1 DEF Inv, Stack, PagesContiguous, Production, Capacity
<1>8. Capacity' = Capacity /\ DOMAIN pops = 1..Len(pops) /\ Len(pops) \in Nat
  BY <1>1 DEF Capacity, Inv, TypeOK
<1>9. \A j \in 1 .. k - 1 :
        tokens'[j].page # 0 => hot' # 0 /\ tokens'[j].slot > 0
  BY <1>1, <1>4 DEF Inv, Stack, TokensNested
<1>10. \A i \in 1..Len(pops), j \in 1 .. k - 1 :
        j > pops[i].base =>
            /\ tokens'[j].page # 0
            /\ NotAfter(pops[i].page, pops[i].stop,
                        tokens'[j].page, tokens'[j].slot)
  BY <1>4, <1>8 DEF Inv, Stack, TokensNested
<1>11. CASE pops' = pops /\ bad' = TRUE
  <2>1. TypeOK'
    BY <1>1, <1>4, <1>11 DEF Inv, TypeOK
  <2>2. PopsNested'
    BY <1>1, <1>4, <1>5, <1>8, <1>11 DEF Inv, Stack, PopsNested
  <2>3. TokensNested'
    BY <1>4, <1>8, <1>9, <1>10, <1>11 DEF TokensNested
  <2>4. TokensDropped'
    BY <1>1, <1>6, <1>11 DEF Inv, Stack, TokensDropped, Top
  <2>5. PagesTrimmed'
    BY <1>1, <1>11 DEF Inv, Stack, PagesTrimmed, Trimmed, lessThanHalfFull, Capacity
  <2> QED
    BY <1>7, <2>1, <2>2, <2>3, <2>4, <2>5 DEF Inv, Stack
<1>12. ASSUME NEW p, NEW slot,
              tokens[k].page = 0 => p = 1 /\ slot = 1,
              tokens[k].page # 0 => p = tokens[k].page /\ slot = tokens[k].slot,
              IsBoundary(p, slot) \/ (slot = 1 /\ p = 1),
              bad' = bad,
              pops' = Append(pops, [page |-> p, stop |-> slot, pending |-> 0,
                                    obj |-> POOL_BOUNDARY, base |-> Len(tokens')])
       PROVE  Inv'
  <2> DEFINE new == [page |-> p, stop |-> slot, pending |-> 0,
                     obj |-> POOL_BOUNDARY, base |-> Len(tokens')]
             n == Len(pops)
  <2>1. /\ p \in 1..Len(pages) /\ p <= hot
        /\ slot \in Nat \ {0} /\ slot <= Capacity
        /\ slot <= Len(pages[p]) + 1
        /\ \A i \in 1..n : NotAfter(pops[i].page, pops[i].stop, p, slot)
    BY <1>12, PopPosition
  <2>2. p \in Nat \ {0} /\ Len(tokens') \in Nat
    BY <1>2, <1>4, <2>1, InvNumbers
  <2>3. /\ new \in Popping /\ new.page = p /\ new.stop = slot
        /\ new.base = k - 1 /\ new.pending = 0
    BY <1>4, <2>1, <2>2 DEF Popping
  <2>4. pops' = Append(pops, new) /\ pops \in Seq(Popping)
    BY <1>12 DEF Inv, TypeOK
  <2> HIDE DEF new
  <2>5. /\ pops' \in Seq(Popping) /\ Len(pops') = n + 1
        /\ DOMAIN pops' = 1 .. n + 1 /\ pops' # <<>>
        /\ \A i \in 1..n : pops'[i] = pops[i]
        /\ pops'[n + 1] = new
    BY <1>8, <2>3, <2>4
  <2>6. TypeOK'
    BY <1>1, <1>4, <1>12, <2>5 DEF Inv, TypeOK
  <2>7. PopsNested'
    <3>1. ASSUME NEW i \in 1 .. n + 1
          PROVE  /\ pops'[i].page <= hot'
                 /\ pops'[i].stop <= Capacity'
                 /\ pops'[i].stop <= Len(pages'[pops'[i].page]) + 1
                 /\ pops'[i].base <= Len(tokens')
                 /\ i < Len(pops') => pops'[i].pending > 0
      <4>1. CASE i \in 1..n
        <5>1. pops'[i] = pops[i]
          BY <2>5, <4>1
        <5>2. /\ pops[i].page <= hot /\ pops[i].stop <= Capacity
              /\ pops[i].stop <= Len(pages[pops[i].page]) + 1
          BY <4>1, InvPops
        <5> QED
          BY <1>1, <1>4, <1>5, <1>6, <1>8, <4>1, <5>1, <5>2
      <4>2. CASE i = n + 1
        <5>1. pops'[i] = new
          BY <2>5, <4>2
        <5>2. ~(i < Len(pops'))
          BY <1>8, <2>5, <4>2
        <5>3. k - 1 <= k - 1
          BY <1>2
        <5> QED
          BY <1>1, <1>4, <1>8, <2>1, <2>3, <5>1, <5>2, <5>3
      <4> QED
        BY <1>8, <4>1, <4>2
    <3>2. ASSUME NEW i \in 1 .. n + 1, NEW j \in 1 .. n + 1, i < j
          PROVE  /\ NotAfter(pops'[i].page, pops'[i].stop,
                             pops'[j].page, pops'[j].stop)
                 /\ pops'[i].base <= pops'[j].base
      <4>1. i \in 1..n /\ pops'[i] = pops[i]
        BY <1>8, <2>5, <3>2
      <4>2. CASE j \in 1..n
        <5>1. pops'[j] = pops[j]
          BY <2>5, <4>2
        <5> QED
          BY <1>8, <3>2, <4>1, <4>2, <5>1 DEF Inv, Stack, PopsNested
      <4>3. CASE j = n + 1
        <5>1. pops'[j] = new
          BY <2>5, <4>3
        <5> QED
          BY <1>5, <2>1, <2>3, <4>1, <5>1
      <4> QED
        BY <1>8, <4>2, <4>3
    <3> QED
      BY <2>5, <3>1, <3>2 DEF PopsNested
  <2>8. TokensNested'
    <3>1. ASSUME NEW i \in 1 .. n + 1, NEW j \in 1 .. k - 1, j > pops'[i].base
          PROVE  /\ tokens'[j].page # 0
                 /\ NotAfter(pops'[i].page, pops'[i].stop,
                             tokens'[j].page, tokens'[j].slot)
      <4>1. i # n + 1
        <5>1. i = n + 1 => pops'[i].base = k - 1
          BY <2>3, <2>5
        <5> QED
          BY <1>2, <3>1, <5>1
      <4>2. i \in 1..n /\ pops'[i] = pops[i]
        BY <1>8, <2>5, <4>1
      <4> QED
        BY <1>10, <3>1, <4>2
    <3> QED
      BY <1>4, <1>9, <2>5, <3>1 DEF TokensNested
  <2>9. TokensDropped'
    <3>1. Len(tokens') = pops'[Len(pops')].base
      BY <1>4, <2>3, <2>5
    <3>2. exiting' => pops'[1].base = 0
      <4> SUFFICES ASSUME exiting PROVE pops'[1].base = 0
        BY <1>1
      <4>1. pops # <<>> /\ 1 \in 1..n
        BY <1>6 DEF Inv, TypeOK
      <4> QED
        BY <2>5, <4>1 DEF Inv, Stack, TokensDropped
    <3> QED
      BY <2>5, <3>1, <3>2 DEF TokensDropped, Top
  <2>10. PagesTrimmed'
    BY <2>5 DEF PagesTrimmed
  <2> QED
    BY <1>7, <2>6, <2>7, <2>8, <2>9, <2>10 DEF Inv, Stack
<1>13. CASE tokens[k].page = 0
  BY <1>11, <1>12, <1>13 DEF Pop, BeginPop
<1>14. CASE tokens[k].page # 0
  BY <1>11, <1>12, <1>14 DEF Pop, BeginPop
<1> QED
  BY <1>13, <1>14

\* Removing an unused placeholder touches no page.
LEMMA StepPopPlaceholder ==
    ASSUME Inv, NEW k \in DOMAIN tokens, PopPlaceholder(k)
    PROVE  Inv'
<1>1. /\ UNCHANGED <<setting, pages, hot, pops, exiting, due, bad>>
      /\ placeholder' = FALSE /\ hot = 0 /\ Running
      /\ tokens' = SubSeq(tokens, 1, k - 1)
  BY DEF PopPlaceholder
<1>2. k \in 1 .. Len(tokens) + 1
  BY DEF Inv, TypeOK
<1>3. /\ tokens' \in Seq(Token)
      /\ \A j \in DOMAIN tokens' : j \in DOMAIN tokens /\ tokens'[j] = tokens[j]
  BY <1>1, <1>2, CutTokens
<1>4. pops = <<>> /\ ~exiting /\ DOMAIN pops = {}
  BY <1>1, NoPageNoPop, RunningFacts
<1>5. TypeOK'
  BY <1>1, <1>3 DEF Inv, TypeOK
<1>6. PagesContiguous' /\ Production'
  BY <1>1 DEF Inv, Stack, PagesContiguous, Production, Capacity
<1>7. PopsNested' /\ TokensDropped' /\ PagesTrimmed'
  BY <1>1, <1>4 DEF PopsNested, TokensDropped, PagesTrimmed
<1>8. TokensNested'
  BY <1>1, <1>3, <1>4 DEF Inv, Stack, TokensNested
<1>9. (hot = 0 => pages = <<>>)' /\ (placeholder => hot = 0)'
  BY <1>1 DEF Inv, Stack
<1> QED
  BY <1>5, <1>6, <1>7, <1>8, <1>9 DEF Inv, Stack

\* Facts about the innermost pop.
LEMMA TopFacts ==
    ASSUME Inv, pops # <<>>
    PROVE  /\ Len(pops) \in 1..Len(pops) /\ DOMAIN pops = 1..Len(pops)
           /\ Len(pops) \in Nat
           /\ Top = pops[Len(pops)] /\ Top \in Popping
           /\ Top.page \in 1..Len(pages) /\ Top.page <= hot
           /\ Top.stop \in Nat \ {0} /\ Top.stop <= Capacity
           /\ Top.stop <= Len(pages[Top.page]) + 1
           /\ Top.base \in Nat /\ Top.base <= Len(tokens)
           /\ \A i \in 1..Len(pops) :
                \/ pops[i].page < Top.page
                \/ pops[i].page = Top.page /\ pops[i].stop <= Top.stop
<1>1. Len(pops) \in 1..Len(pops) /\ DOMAIN pops = 1..Len(pops) /\ Len(pops) \in Nat
  BY DEF Inv, TypeOK
<1>2. Top = pops[Len(pops)] /\ Top \in Popping
  BY <1>1, InvNumbers DEF Top
<1>3. /\ Top.page \in 1..Len(pages) /\ Top.page <= hot
      /\ Top.stop \in Nat \ {0} /\ Top.stop <= Capacity
      /\ Top.stop <= Len(pages[Top.page]) + 1
      /\ Top.base \in Nat /\ Top.base <= Len(tokens)
  BY <1>1, <1>2, InvPops
<1>4. ASSUME NEW i \in 1..Len(pops)
      PROVE  \/ pops[i].page < Top.page
             \/ pops[i].page = Top.page /\ pops[i].stop <= Top.stop
  <2>1. CASE i = Len(pops)
    BY <1>2, <1>3, <2>1
  <2>2. CASE i < Len(pops)
    BY <1>1, <1>2, <1>4, <2>2 DEF Inv, Stack, PopsNested, NotAfter
  <2> QED
    BY <1>1, <1>4, <2>1, <2>2, IndexCases
<1> QED
  BY <1>1, <1>2, <1>3, <1>4

\* SetTop only changes what the innermost pop releases.
LEMMA SetTopFacts ==
    ASSUME Inv, pops # <<>>, NEW o \in Objects \cup {POOL_BOUNDARY},
           NEW n \in Nat, pops' = SetTop(o, n)
    PROVE  /\ pops' \in Seq(Popping) /\ Len(pops') = Len(pops) /\ pops' # <<>>
           /\ DOMAIN pops' = 1..Len(pops)
           /\ \A i \in 1..Len(pops) :
                /\ pops'[i].page = pops[i].page
                /\ pops'[i].stop = pops[i].stop
                /\ pops'[i].base = pops[i].base
                /\ i < Len(pops) => pops'[i].pending = pops[i].pending
<1> DEFINE new == [page |-> Top.page, stop |-> Top.stop, obj |-> o,
                   pending |-> n, base |-> Top.base]
<1>1. /\ Len(pops) \in 1..Len(pops) /\ Top = pops[Len(pops)] /\ Top \in Popping
      /\ pops \in Seq(Popping) /\ Len(pops) \in Nat
  BY TopFacts DEF Inv, TypeOK
<1>2. /\ new \in Popping /\ new.page = Top.page /\ new.stop = Top.stop
      /\ new.base = Top.base
  BY <1>1 DEF Popping
<1>3. pops' = [pops EXCEPT ![Len(pops)] = new]
  BY DEF SetTop
<1> HIDE DEF new
<1>4. /\ pops' \in Seq(Popping) /\ Len(pops') = Len(pops)
      /\ DOMAIN pops' = 1..Len(pops)
  BY <1>1, <1>2, <1>3
<1>5. pops' # <<>>
  BY <1>1, <1>4
<1>6. ASSUME NEW i \in 1..Len(pops)
      PROVE  /\ pops'[i].page = pops[i].page
             /\ pops'[i].stop = pops[i].stop
             /\ pops'[i].base = pops[i].base
             /\ i < Len(pops) => pops'[i].pending = pops[i].pending
  <2>1. CASE i = Len(pops)
    BY <1>1, <1>2, <1>3, <2>1
  <2>2. CASE i # Len(pops)
    BY <1>1, <1>3, <2>2
  <2> QED
    BY <2>1, <2>2
<1> QED
  BY <1>4, <1>5, <1>6

\* Taking an entry moves the hot page down, never below the page popped to.
LEMMA StepTakeEntry ==
    ASSUME Inv, NEW p \in 1..hot, TakeEntry(p)
    PROVE  Inv'
<1> DEFINE s == pages[p]
           entry == s[Len(s)]
           t == SubSeq(s, 1, Len(s) - 1)
           count == IF entry.ptr = POOL_BOUNDARY THEN 0 ELSE entry.count + 1
<1>1. /\ Releasing /\ IsHottest(p) /\ hot' = p
      /\ pages' = [pages EXCEPT ![p] = t]
      /\ pops' = SetTop(entry.ptr, count)
      /\ UNCHANGED <<setting, placeholder, tokens, exiting, due, bad>>
  BY DEF TakeEntry
<1>2. /\ Len(pages) \in Nat /\ hot \in 1..Len(pages) /\ p \in 1..Len(pages)
      /\ p \in Nat /\ p <= hot
  BY InvNumbers
<1>3. s \in Seq(Entry) /\ Len(s) \in Nat /\ Len(s) # 0
  <2>1. s \in Seq(Entry) /\ s # <<>>
    BY <1>1, <1>2, InvNumbers DEF IsHottest, Empty
  <2> QED
    BY <2>1
<1>4. entry \in Entry
  BY <1>3
<1>5. entry.ptr \in Objects \cup {POOL_BOUNDARY} /\ entry.count \in Nat
  BY <1>4, PoolAssumption DEF Entry
<1>6. count \in Nat
  BY <1>5
<1>7. t \in Seq(Entry) /\ Len(t) = Len(s) - 1
  BY <1>3
<1> HIDE DEF t, count, entry
<1>8. /\ pops # <<>> /\ Top.pending = 0 /\ Len(pages[Top.page]) # Top.stop - 1
  BY <1>1 DEF Releasing
<1>9. /\ pops' \in Seq(Popping) /\ Len(pops') = Len(pops) /\ pops' # <<>>
      /\ DOMAIN pops' = 1..Len(pops)
      /\ \A i \in 1..Len(pops) :
            /\ pops'[i].page = pops[i].page
            /\ pops'[i].stop = pops[i].stop
            /\ pops'[i].base = pops[i].base
            /\ i < Len(pops) => pops'[i].pending = pops[i].pending
  BY <1>1, <1>5, <1>6, <1>8, SetTopFacts
<1>10. /\ Len(pages') = Len(pages) /\ pages'[p] = t
       /\ \A q \in 1..Len(pages) : q # p => pages'[q] = pages[q]
  BY <1>1, <1>2 DEF Inv, TypeOK
<1>11. pages' \in Seq(Seq(Entry)) /\ DOMAIN pages' = 1..Len(pages)
  BY <1>1, <1>2, <1>7 DEF Inv, TypeOK
<1>12. TypeOK'
  <2>1. hot' \in 0..Len(pages')
    BY <1>1, <1>2, <1>10
  <2> QED
    BY <1>1, <1>9, <1>11, <2>1 DEF Inv, TypeOK
<1>13. Capacity' = Capacity /\ Production'
  BY <1>1 DEF Capacity, Inv, Production
<1>14. \A q \in 1..Len(pages) :
        /\ Len(pages[q]) \in Nat /\ Len(pages[q]) <= Capacity
        /\ q < hot => Len(pages[q]) = Capacity
        /\ q > hot => Len(pages[q]) = 0
        /\ q > p /\ q <= hot => Len(pages[q]) = 0
  <2> TAKE q \in 1..Len(pages)
  <2>1. /\ Len(pages[q]) \in Nat /\ Len(pages[q]) <= Capacity
        /\ q < hot => Len(pages[q]) = Capacity
        /\ q > hot => Len(pages[q]) = 0
    BY InvNumbers, SMTT(20) DEF Inv, TypeOK, Stack, PagesContiguous
  <2>2. q > p /\ q <= hot => pages[q] = <<>>
    <3>1. q > p /\ q <= hot => q \in p + 1 .. hot
      BY <1>2
    <3> QED
      BY <1>1, <3>1 DEF IsHottest, Empty
  <2>3. q > p /\ q <= hot => Len(pages[q]) = 0
    BY <2>2
  <2> QED
    BY <2>1, <2>3
<1>15. Len(s) <= Capacity /\ Capacity \in Nat
  BY <1>2, <1>14, InvNumbers
<1>16. PagesContiguous'
  <2>1. ASSUME NEW q \in 1..Len(pages)
        PROVE  /\ Len(pages'[q]) <= Capacity
               /\ q < p => Len(pages'[q]) = Capacity
               /\ q > p => Len(pages'[q]) = 0
    <3>1. CASE q = p
      <4>1. Len(pages'[q]) = Len(s) - 1
        BY <1>7, <1>10, <3>1
      <4> HIDE DEF s
      <4> QED
        BY <1>2, <1>3, <1>15, <3>1, <4>1
    <3>2. CASE q # p
      <4>1. pages'[q] = pages[q]
        BY <1>10, <3>2
      <4> QED
        BY <1>2, <1>14, <3>2, <4>1
    <3> QED
      BY <3>1, <3>2
  <2> QED
    BY <1>1, <1>11, <1>13, <2>1 DEF PagesContiguous
<1>17. /\ Top.page \in 1..Len(pages) /\ Top.page <= hot
       /\ Top.stop \in Nat \ {0} /\ Top.stop <= Capacity
       /\ Top.stop <= Len(pages[Top.page]) + 1
       /\ \A i \in 1..Len(pops) :
            \/ pops[i].page < Top.page
            \/ pops[i].page = Top.page /\ pops[i].stop <= Top.stop
  BY <1>8, TopFacts
<1>18. Top.stop <= Len(pages[Top.page])
  <2> DEFINE n == Len(pages[Top.page])
  <2>1. n \in Nat /\ n # Top.stop - 1 /\ Top.stop <= n + 1
    BY <1>8, <1>14, <1>17
  <2> HIDE DEF n
  <2>2. Top.stop <= n
    BY <1>17, <2>1, SMTT(20)
  <2> QED
    BY <2>2 DEF n
<1>19. Top.page <= p
  BY <1>2, <1>14, <1>17, <1>18
<1>20. PopsNested'
  <2>1. ASSUME NEW i \in 1..Len(pops)
        PROVE  /\ pops[i].page <= p
               /\ pops[i].stop <= Len(pages'[pops[i].page]) + 1
    <3> DEFINE q == pops[i].page
               stop == pops[i].stop
    <3>1. /\ q \in 1..Len(pages) /\ stop \in Nat
          /\ stop <= Len(pages[q]) + 1
      BY InvPops
    <3>2. q < Top.page \/ (q = Top.page /\ stop <= Top.stop)
      BY <1>17
    <3> HIDE DEF q, stop
    <3>3. q <= p
      BY <1>2, <1>17, <1>19, <3>1, <3>2
    <3>4. CASE q # p
      <4>1. pages'[q] = pages[q]
        BY <1>10, <3>1, <3>4
      <4>2. stop <= Len(pages'[q]) + 1
        BY <3>1, <4>1
      <4> QED
        BY <3>3, <4>2 DEF q, stop
    <3>5. CASE q = p
      <4>1. Top.page = p
        BY <1>2, <1>17, <1>19, <3>2, <3>5
      <4>2. stop <= Top.stop /\ Top.stop <= Len(s)
        BY <1>2, <1>18, <3>2, <3>5, <4>1
      <4>3. Len(pages'[q]) = Len(s) - 1
        BY <1>7, <1>10, <3>5
      <4> HIDE DEF s
      <4>4. stop <= Len(pages'[q]) + 1
        BY <1>3, <1>17, <3>1, <4>2, <4>3
      <4> QED
        BY <3>3, <4>4 DEF q, stop
    <3> QED
      BY <3>4, <3>5
  <2>2. \A i \in 1..Len(pops) :
            /\ pops[i].stop <= Capacity /\ pops[i].base <= Len(tokens)
            /\ i < Len(pops) => pops[i].pending > 0
    BY <1>8, TopFacts DEF Inv, Stack, PopsNested
  <2>3. \A i \in 1..Len(pops) :
        /\ pops'[i].page <= hot'
        /\ pops'[i].stop <= Capacity'
        /\ pops'[i].stop <= Len(pages'[pops'[i].page]) + 1
        /\ pops'[i].base <= Len(tokens')
        /\ i < Len(pops') => pops'[i].pending > 0
    BY <1>1, <1>9, <1>13, <2>1, <2>2
  <2>4. \A i, j \in 1..Len(pops) :
        i < j => /\ NotAfter(pops[i].page, pops[i].stop,
                             pops[j].page, pops[j].stop)
                 /\ pops[i].base <= pops[j].base
    BY <1>8, TopFacts DEF Inv, Stack, PopsNested
  <2>5. \A i, j \in 1..Len(pops) :
        i < j => /\ NotAfter(pops'[i].page, pops'[i].stop,
                             pops'[j].page, pops'[j].stop)
                 /\ pops'[i].base <= pops'[j].base
    BY <1>9, <2>4
  <2> QED
    BY <1>9, <2>3, <2>5 DEF PopsNested
<1>21. TokensNested'
  <2>1. DOMAIN pops = 1..Len(pops) /\ hot' # 0
    BY <1>1, <1>2, <1>8, TopFacts
  <2> QED
    BY <1>1, <1>9, <2>1 DEF Inv, Stack, TokensNested
<1>22. TokensDropped'
  <2>1. Len(tokens) = Top.base
    BY <1>8 DEF Inv, Stack, TokensDropped
  <2>2. Top = pops[Len(pops)] /\ Len(pops) \in 1..Len(pops) /\ Len(pops) \in Nat
    BY <1>8, TopFacts
  <2>3. Top'.base = Top.base
    BY <1>9, <2>2 DEF Top
  <2>4. exiting => pops'[1].base = 0
    <3>1. 1 \in 1..Len(pops)
      BY <2>2
    <3> QED
      BY <1>8, <1>9, <3>1 DEF Inv, Stack, TokensDropped
  <2> QED
    BY <1>1, <1>9, <2>1, <2>3, <2>4 DEF TokensDropped
<1>23. PagesTrimmed'
  BY <1>9 DEF PagesTrimmed
<1>24. (hot = 0 => pages = <<>>)' /\ (placeholder => hot = 0)'
  <2>1. hot' # 0 /\ hot # 0
    BY <1>1, <1>2
  <2> QED
    BY <1>1, <2>1 DEF Inv, Stack
<1> QED
  BY <1>12, <1>13, <1>16, <1>20, <1>21, <1>22, <1>23, <1>24 DEF Inv, Stack

\* The return of a release drops the pools that -dealloc left.
LEMMA StepReleased ==
    ASSUME Inv, Released
    PROVE  Inv'
<1>1. /\ pops # <<>> /\ Running
      /\ due' = [due EXCEPT ![Top.obj] = @ - 1]
      /\ tokens' = SubSeq(tokens, 1, Base)
      /\ pops' = SetTop(Top.obj, Top.pending - 1)
      /\ UNCHANGED <<setting, pages, hot, placeholder, exiting, bad>>
  BY DEF Released
<1>2. /\ Len(pops) \in 1..Len(pops) /\ DOMAIN pops = 1..Len(pops)
      /\ Len(pops) \in Nat /\ Top = pops[Len(pops)]
      /\ Top.base \in Nat /\ Top.base <= Len(tokens)
  BY <1>1, TopFacts
<1>3. /\ Top.obj \in Objects \cup {POOL_BOUNDARY} /\ Top.pending \in Nat
      /\ Top.pending # 0
  BY <1>1, <1>2, InvPops, RunningFacts
<1>4. Top.pending - 1 \in Nat
  BY <1>3
<1>5. /\ pops' \in Seq(Popping) /\ Len(pops') = Len(pops) /\ pops' # <<>>
      /\ DOMAIN pops' = 1..Len(pops)
      /\ \A i \in 1..Len(pops) :
            /\ pops'[i].page = pops[i].page
            /\ pops'[i].stop = pops[i].stop
            /\ pops'[i].base = pops[i].base
            /\ i < Len(pops) => pops'[i].pending = pops[i].pending
  BY <1>1, <1>3, <1>4, SetTopFacts
<1>6. Base = Top.base
  BY <1>1 DEF Base
<1>7. Base + 1 \in 1 .. Len(tokens) + 1 /\ Base = (Base + 1) - 1
  BY <1>2, <1>6, InvNumbers, SMTT(20)
<1>8. /\ tokens' \in Seq(Token) /\ Len(tokens') = Base
      /\ DOMAIN tokens' = 1 .. Base
      /\ \A j \in 1 .. Base : j \in DOMAIN tokens /\ tokens'[j] = tokens[j]
  <2>1. tokens' = SubSeq(tokens, 1, (Base + 1) - 1)
    BY <1>1, <1>7
  <2> QED
    BY <1>7, <2>1, CutTokens
<1>9. due' \in [Objects -> Int]
  <2>1. due \in [Objects -> Int]
    BY DEF Inv, TypeOK
  <2>2. CASE Top.obj \in Objects
    <3>1. due[Top.obj] - 1 \in Int
      BY <2>1, <2>2
    <3> QED
      BY <1>1, <2>1, <3>1
  <2>3. CASE Top.obj \notin Objects
    <3>1. due' = due
      BY <1>1, <2>1, <2>3
    <3> QED
      BY <2>1, <3>1
  <2> QED
    BY <2>2, <2>3
<1>10. TypeOK'
  BY <1>1, <1>5, <1>8, <1>9 DEF Inv, TypeOK
<1>11. /\ Capacity' = Capacity /\ Production' /\ PagesContiguous'
       /\ (hot = 0 => pages = <<>>)' /\ (placeholder => hot = 0)'
  BY <1>1 DEF Inv, Stack, PagesContiguous, Production, Capacity
<1>12. PopsNested'
  <2>1. \A i \in 1..Len(pops) : pops[i].base <= Base
    <3> TAKE i \in 1..Len(pops)
    <3>1. CASE i = Len(pops)
      BY <1>2, <1>6, <3>1
    <3>2. CASE i # Len(pops)
      <4>1. i < Len(pops)
        BY <1>2, <3>2, IndexCases
      <4> QED
        BY <1>2, <1>6, <4>1 DEF Inv, Stack, PopsNested
    <3> QED
      BY <3>1, <3>2
  <2>2. \A i \in 1..Len(pops) :
            /\ pops[i].page <= hot /\ pops[i].stop <= Capacity
            /\ pops[i].stop <= Len(pages[pops[i].page]) + 1
            /\ i < Len(pops) => pops[i].pending > 0
    BY <1>2 DEF Inv, Stack, PopsNested
  <2>3. \A i \in 1..Len(pops) :
        /\ pops'[i].page <= hot'
        /\ pops'[i].stop <= Capacity'
        /\ pops'[i].stop <= Len(pages'[pops'[i].page]) + 1
        /\ pops'[i].base <= Len(tokens')
        /\ i < Len(pops') => pops'[i].pending > 0
    BY <1>1, <1>5, <1>8, <1>11, <2>1, <2>2
  <2>4. \A i, j \in 1..Len(pops) :
        i < j => /\ NotAfter(pops[i].page, pops[i].stop,
                             pops[j].page, pops[j].stop)
                 /\ pops[i].base <= pops[j].base
    BY <1>2 DEF Inv, Stack, PopsNested
  <2>5. \A i, j \in 1..Len(pops) :
        i < j => /\ NotAfter(pops'[i].page, pops'[i].stop,
                             pops'[j].page, pops'[j].stop)
                 /\ pops'[i].base <= pops'[j].base
    BY <1>5, <2>4
  <2> QED
    BY <1>5, <2>3, <2>5 DEF PopsNested
<1>13. TokensNested'
  <2>1. \A k \in 1..Base : tokens'[k].page # 0 => hot' # 0 /\ tokens'[k].slot > 0
    BY <1>1, <1>8 DEF Inv, Stack, TokensNested
  <2>2. ASSUME NEW i \in 1..Len(pops), NEW k \in 1..Base, k > pops'[i].base
        PROVE  /\ tokens'[k].page # 0
               /\ NotAfter(pops'[i].page, pops'[i].stop,
                           tokens'[k].page, tokens'[k].slot)
    <3>1. /\ k \in DOMAIN tokens /\ tokens'[k] = tokens[k] /\ i \in DOMAIN pops
          /\ k > pops[i].base
      BY <1>2, <1>5, <1>8, <2>2
    <3>2. /\ tokens[k].page # 0
          /\ NotAfter(pops[i].page, pops[i].stop, tokens[k].page, tokens[k].slot)
      BY <3>1 DEF Inv, Stack, TokensNested
    <3> QED
      BY <1>5, <2>2, <3>1, <3>2
  <2> QED
    BY <1>5, <1>8, <2>1, <2>2 DEF TokensNested
<1>14. TokensDropped'
  <2>1. Top'.base = Top.base
    BY <1>2, <1>5 DEF Top
  <2>2. 1 \in 1..Len(pops)
    BY <1>2
  <2> QED
    BY <1>1, <1>5, <1>6, <1>8, <2>1, <2>2 DEF Inv, Stack, TokensDropped
<1>15. PagesTrimmed'
  BY <1>5 DEF PagesTrimmed
<1> QED
  BY <1>10, <1>11, <1>12, <1>13, <1>14, <1>15 DEF Inv, Stack

\* When releaseUntil ends, its page is the hot one.
LEMMA EndsAtHot ==
    ASSUME Inv, pops # <<>>, Len(pages[Top.page]) = Top.stop - 1
    PROVE  Top.page = hot
<1>1. /\ Top.page \in 1..Len(pages) /\ Top.page <= hot
      /\ Top.stop \in Nat \ {0} /\ Top.stop <= Capacity
  BY TopFacts
<1>2. Capacity \in Nat /\ hot \in Nat /\ DOMAIN pages = 1..Len(pages)
  BY InvNumbers DEF Inv, TypeOK
<1>3. Len(pages[Top.page]) # Capacity
  BY <1>1, <1>2
<1>4. ~(Top.page < hot)
  BY <1>1, <1>2, <1>3 DEF Inv, Stack, PagesContiguous
<1> QED
  BY <1>1, <1>2, <1>4

\* A pop ends at the hot page, so the pages it frees are empty ones.
LEMMA StepFinishPop ==
    ASSUME Inv, FinishPop
    PROVE  Inv'
<1> DEFINE n == Len(pops)
           K == Kept(Top.page)
<1>1. /\ pops # <<>> /\ Top.pending = 0
      /\ Len(pages[Top.page]) = Top.stop - 1
      /\ pages' = SubSeq(pages, 1, K)
      /\ hot' = IF K < Top.page THEN K ELSE Top.page
      /\ pops' = SubSeq(pops, 1, n - 1)
      /\ UNCHANGED <<setting, placeholder, tokens, exiting, due, bad>>
  BY DEF FinishPop
<1>2. /\ n \in 1..n /\ DOMAIN pops = 1..n /\ n \in Nat /\ n >= 1
      /\ Top = pops[n] /\ Top.page \in 1..Len(pages)
  BY <1>1, TopFacts
<1>3. Top.page = hot
  BY <1>1, EndsAtHot
<1>4. /\ Len(pages) \in Nat /\ hot \in 1..Len(pages) /\ hot \in Nat
  BY <1>2, <1>3, InvNumbers
<1>5. /\ K = hot \/ (K = hot + 1 /\ hot < Len(pages))
      /\ K # hot => ~lessThanHalfFull(hot)
  BY <1>3, <1>4 DEF Kept, Inv, Production
<1> HIDE DEF K
<1>6. K \in hot..Len(pages) /\ K \in Nat /\ hot' = hot /\ K <= hot + 1
  BY <1>1, <1>3, <1>4, <1>5
<1>7. /\ pages' \in Seq(Seq(Entry)) /\ Len(pages') = K
      /\ DOMAIN pages' = 1..K
      /\ \A q \in 1..K : pages'[q] = pages[q] /\ q \in DOMAIN pages
  <2>1. pages \in Seq(Seq(Entry))
    BY DEF Inv, TypeOK
  <2> QED
    BY <1>1, <1>4, <1>6, <2>1, SMTT(20)
<1>8. /\ pops' \in Seq(Popping) /\ Len(pops') = n - 1
      /\ DOMAIN pops' = 1 .. n - 1
      /\ \A i \in 1 .. n - 1 : pops'[i] = pops[i] /\ i \in 1..n
  <2>1. pops \in Seq(Popping)
    BY DEF Inv, TypeOK
  <2> QED
    BY <1>1, <1>2, <2>1
<1>9. TypeOK'
  <2>1. hot' \in 0..Len(pages')
    BY <1>4, <1>6, <1>7
  <2> QED
    BY <1>1, <1>7, <1>8, <2>1 DEF Inv, TypeOK
<1>10. Capacity' = Capacity /\ Production'
  BY <1>1 DEF Capacity, Inv, Production
<1>11. PagesContiguous'
  BY <1>6, <1>7, <1>10 DEF Inv, Stack, PagesContiguous
<1>12. PopsNested'
  <2>1. ASSUME NEW i \in 1 .. n - 1
        PROVE  /\ pops'[i].page <= hot'
               /\ pops'[i].stop <= Capacity'
               /\ pops'[i].stop <= Len(pages'[pops'[i].page]) + 1
               /\ pops'[i].base <= Len(tokens')
               /\ i < Len(pops') => pops'[i].pending > 0
    <3>1. i \in 1..n /\ pops'[i] = pops[i] /\ i < n
      BY <1>2, <1>8, <2>1
    <3>2. /\ pops[i].page \in 1..Len(pages) /\ pops[i].page <= hot
          /\ pops[i].stop <= Capacity
          /\ pops[i].stop <= Len(pages[pops[i].page]) + 1
          /\ pops[i].base <= Len(tokens)
      BY <3>1, InvPops
    <3>3. pops[i].page \in 1..K
      BY <1>4, <1>6, <3>2
    <3>4. pages'[pops[i].page] = pages[pops[i].page]
      BY <1>7, <3>3
    <3>5. pops[i].pending > 0
      BY <1>2, <3>1 DEF Inv, Stack, PopsNested
    <3> QED
      BY <1>1, <1>6, <1>10, <3>1, <3>2, <3>4, <3>5
  <2>2. ASSUME NEW i \in 1 .. n - 1, NEW j \in 1 .. n - 1, i < j
        PROVE  /\ NotAfter(pops'[i].page, pops'[i].stop,
                           pops'[j].page, pops'[j].stop)
               /\ pops'[i].base <= pops'[j].base
    <3>1. /\ i \in DOMAIN pops /\ j \in DOMAIN pops
          /\ pops'[i] = pops[i] /\ pops'[j] = pops[j]
      BY <1>2, <1>8, <2>2
    <3> QED
      BY <2>2, <3>1 DEF Inv, Stack, PopsNested
  <2> QED
    BY <1>8, <2>1, <2>2 DEF PopsNested
<1>13. TokensNested'
  BY <1>1, <1>2, <1>6, <1>8, SMTT(20) DEF Inv, Stack, TokensNested
<1>14. TokensDropped'
  <2>1. ASSUME pops' # <<>> PROVE Top'.pending # 0 /\ (exiting => pops'[1].base = 0)
    <3>1. n - 1 \in 1 .. n - 1
      BY <1>2, <1>8, <2>1
    <3>2. Top' = pops[n - 1] /\ n - 1 < n /\ n - 1 \in DOMAIN pops
      BY <1>2, <1>8, <3>1 DEF Top
    <3>3. pops[n - 1].pending > 0 /\ pops[n - 1].pending \in Nat
      BY <1>2, <3>2, InvPops DEF Inv, Stack, PopsNested
    <3>4. 1 \in 1 .. n - 1
      BY <1>2, <3>1
    <3>5. pops'[1] = pops[1]
      BY <1>8, <3>4
    <3>6. Top'.pending # 0
      BY <3>2, <3>3
    <3> QED
      BY <1>1, <3>5, <3>6 DEF Inv, Stack, TokensDropped
  <2>2. ASSUME pops' = <<>>, exiting PROVE tokens = <<>>
    <3>4. Len(pops') = 0
      BY <2>2
    <3>5. n \in Nat /\ n - 1 = 0
      BY <1>2, <1>8, <3>4
    <3>1. n = 1
      BY <3>5
    <3>2. pops[1].base = 0 /\ Len(tokens) = Top.base
      BY <1>1, <2>2 DEF Inv, Stack, TokensDropped
    <3>3. Len(tokens) = 0 /\ tokens \in Seq(Token)
      BY <1>2, <3>1, <3>2 DEF Inv, TypeOK
    <3> QED
      BY <3>3
  <2> QED
    BY <1>1, <2>1, <2>2 DEF TokensDropped
<1>15. PagesTrimmed'
  <2>1. Len(pages') <= hot' + 1
    BY <1>6, <1>7
  <2>2. Len(pages') = hot' + 1 => ~lessThanHalfFull(hot)
    BY <1>4, <1>5, <1>6, <1>7
  <2>3. pages'[hot'] = pages[hot]
    BY <1>4, <1>6, <1>7
  <2> QED
    BY <1>6, <1>10, <2>1, <2>2, <2>3 DEF PagesTrimmed, Trimmed, lessThanHalfFull
<1>16. (hot = 0 => pages = <<>>)' /\ (placeholder => hot = 0)'
  BY <1>1, <1>4, <1>6 DEF Inv, Stack
<1> QED
  BY <1>9, <1>10, <1>11, <1>12, <1>13, <1>14, <1>15, <1>16 DEF Inv, Stack

\* tls_dealloc starts a pop of everything, outside of any other.
LEMMA StepThreadExit ==
    ASSUME Inv, ThreadExit
    PROVE  Inv'
<1>1. /\ Running /\ pops = <<>> /\ tokens' = <<>> /\ placeholder' = FALSE
      /\ exiting' = TRUE /\ UNCHANGED <<setting, pages, hot, due>>
  BY DEF ThreadExit
<1>2. /\ Capacity' = Capacity /\ Production' /\ PagesContiguous'
      /\ (hot = 0 => pages = <<>>)' /\ (placeholder => hot = 0)'
  BY <1>1 DEF Inv, Stack, PagesContiguous, Production, Capacity
<1>3. tokens' \in Seq(Token) /\ DOMAIN tokens' = {} /\ Len(tokens') = 0
  BY <1>1
<1>4. CASE UNCHANGED <<pops, bad>>
  <2>1. TypeOK'
    BY <1>1, <1>3, <1>4 DEF Inv, TypeOK
  <2>2. DOMAIN pops = {} /\ pops' = <<>>
    BY <1>1, <1>4
  <2>3. PopsNested' /\ TokensNested' /\ TokensDropped'
    BY <1>1, <1>3, <1>4, <2>2 DEF PopsNested, TokensNested, TokensDropped
  <2>4. PagesTrimmed'
    BY <1>1, <1>4 DEF Inv, Stack, PagesTrimmed, Trimmed, lessThanHalfFull, Capacity
  <2> QED
    BY <1>2, <2>1, <2>3, <2>4 DEF Inv, Stack
<1>5. CASE hot # 0 /\ BeginPop(1, 1)
  <2> DEFINE new == [page |-> 1, stop |-> 1, pending |-> 0,
                     obj |-> POOL_BOUNDARY, base |-> Len(tokens')]
  <2>1. pops' = Append(pops, new) /\ bad' = bad
    BY <1>5 DEF BeginPop
  <2>2. /\ new \in Popping /\ new.page = 1 /\ new.stop = 1 /\ new.base = 0
        /\ new.pending = 0
    BY <1>3 DEF Popping
  <2> HIDE DEF new
  <2>3. /\ pops' \in Seq(Popping) /\ Len(pops') = 1 /\ DOMAIN pops' = 1..1
        /\ pops'[1] = new /\ pops' # <<>>
    BY <1>1, <2>1, <2>2
  <2>4. TypeOK'
    BY <1>1, <1>3, <2>1, <2>3 DEF Inv, TypeOK
  <2>5. 1 <= hot /\ 1 <= Capacity /\ 1 <= Len(pages[1]) + 1
    <3>1. 1 \in 1..Len(pages) /\ 1 <= hot
      BY <1>5, InvNumbers
    <3>2. Len(pages[1]) \in Nat /\ Capacity \in Nat /\ Capacity > 1
      BY <3>1, InvNumbers
    <3> QED
      BY <3>1, <3>2
  <2>6. \A i \in DOMAIN pops' : i = 1
    BY <2>3
  <2>7. PopsNested'
    <3>1. ASSUME NEW i \in DOMAIN pops'
          PROVE  /\ pops'[i].page <= hot'
                 /\ pops'[i].stop <= Capacity'
                 /\ pops'[i].stop <= Len(pages'[pops'[i].page]) + 1
                 /\ pops'[i].base <= Len(tokens')
                 /\ ~(i < Len(pops'))
      <4>1. i = 1 /\ pops'[i] = new
        BY <2>3, <2>6, <3>1
      <4> QED
        BY <1>1, <1>2, <1>3, <2>2, <2>3, <2>5, <4>1
    <3>2. \A i, j \in DOMAIN pops' : ~(i < j)
      BY <2>6
    <3> QED
      BY <3>1, <3>2 DEF PopsNested
  <2>8. TokensNested'
    BY <1>3 DEF TokensNested
  <2>9. TokensDropped'
    BY <1>3, <2>2, <2>3 DEF TokensDropped, Top
  <2>10. PagesTrimmed'
    BY <2>3 DEF PagesTrimmed
  <2> QED
    BY <1>2, <2>4, <2>7, <2>8, <2>9, <2>10 DEF Inv, Stack
<1> QED
  BY <1>4, <1>5 DEF ThreadExit

\* After it no token is left, and no page.
LEMMA StepFinishExit ==
    ASSUME Inv, FinishExit
    PROVE  Inv'
<1>1. /\ exiting /\ pops = <<>> /\ hot' = 0 /\ exiting' = FALSE
      /\ UNCHANGED <<setting, placeholder, tokens, pops, due, bad>>
  BY DEF FinishExit
<1>2. pages' = <<>>
  BY DEF FinishExit, Inv, Production, Stack
<1>3. tokens = <<>> /\ DOMAIN tokens = {} /\ DOMAIN pops = {} /\ DOMAIN pages' = {}
  BY <1>1, <1>2 DEF Inv, Stack, TokensDropped
<1>4. TypeOK'
  <2>1. pages' \in Seq(Seq(Entry)) /\ hot' \in 0..Len(pages')
    BY <1>1, <1>2
  <2> QED
    BY <1>1, <2>1 DEF Inv, TypeOK
<1>5. Production' /\ PagesContiguous' /\ PopsNested' /\ TokensNested'
  BY <1>1, <1>3 DEF Inv, Production, PagesContiguous, PopsNested, TokensNested
<1>6. TokensDropped' /\ PagesTrimmed'
  BY <1>1 DEF TokensDropped, PagesTrimmed
<1> QED
  BY <1>1, <1>2, <1>4, <1>5, <1>6 DEF Inv, Stack

-----------------------------------------------------------------------------
\* The invariant holds at the start.
LEMMA InvInit == Init /\ Production => Inv
<1> SUFFICES ASSUME Init, Production PROVE Inv
  OBVIOUS
<1>1. TypeOK
  <2>1. /\ pages \in Seq(Seq(Entry)) /\ hot \in 0..Len(pages)
        /\ tokens \in Seq(Token) /\ pops \in Seq(Popping)
    BY DEF Init
  <2>2. due \in [Objects -> Int]
    BY DEF Init
  <2> QED
    BY <2>1, <2>2 DEF Init, TypeOK
<1>2. /\ DOMAIN pages = {} /\ DOMAIN pops = {} /\ DOMAIN tokens = {}
      /\ pages = <<>> /\ pops = <<>> /\ hot = 0 /\ ~placeholder /\ ~exiting
  BY DEF Init
<1>3. Stack
  BY <1>2 DEF Stack, PagesContiguous, PopsNested, TokensNested, TokensDropped,
              PagesTrimmed
<1> QED
  BY <1>1, <1>3 DEF Inv

\* Every step keeps it.
LEMMA InvNext == Inv /\ [Next]_vars => Inv'
<1> SUFFICES ASSUME Inv, [Next]_vars PROVE Inv'
  OBVIOUS
<1>1. CASE UNCHANGED vars
  BY <1>1 DEF vars, Inv, TypeOK, Production, Stack, PagesContiguous, Capacity,
              PopsNested, TokensNested, TokensDropped, Top, PagesTrimmed, Trimmed,
              lessThanHalfFull
<1>2. CASE Next
  BY <1>2, StepAutorelease, StepPush, StepPushPlaceholder, StepPop,
     StepPopPlaceholder, StepTakeEntry, StepReleased, StepFinishPop,
     StepThreadExit, StepFinishExit DEF Next
<1> QED
  BY <1>1, <1>2

\* What the invariant says of the code.
LEMMA InvImplies ==
    ASSUME Inv
    PROVE  WhileCanBeIf /\ ChildrenEmpty /\ NoPageLeaked /\ PagesTrimmed
<1>1. WhileCanBeIf
  <2> SUFFICES ASSUME Releasing, Empty(hot) PROVE hot > 1 /\ ~Empty(hot - 1)
    BY DEF WhileCanBeIf
  <2>1. pops # <<>> /\ Len(pages[Top.page]) # Top.stop - 1
    BY DEF Releasing
  <2>2. /\ Top.page \in 1..Len(pages) /\ Top.page <= hot
        /\ Top.stop \in Nat \ {0} /\ Top.stop <= Len(pages[Top.page]) + 1
    BY <2>1, TopFacts
  <2>3. /\ Len(pages) \in Nat /\ hot \in 0..Len(pages)
        /\ Capacity \in Nat /\ Capacity > 1 /\ DOMAIN pages = 1..Len(pages)
        /\ Len(pages[Top.page]) \in Nat
    BY <2>2, InvNumbers DEF Inv, TypeOK
  <2>4. Len(pages[Top.page]) # 0
    BY <2>1, <2>2, <2>3
  <2>5. Len(pages[hot]) = 0
    BY DEF Empty
  <2>6. Top.page # hot
    BY <2>4, <2>5
  <2>7. hot > 1 /\ hot - 1 \in DOMAIN pages /\ hot - 1 < hot
    BY <2>2, <2>3, <2>6
  <2>8. Len(pages[hot - 1]) = Capacity
    BY <2>7 DEF Inv, Stack, PagesContiguous
  <2>9. pages[hot - 1] # <<>>
    BY <2>3, <2>8
  <2> QED
    BY <2>7, <2>9 DEF Empty
<1>2. ChildrenEmpty
  <2> SUFFICES ASSUME pops # <<>>, Len(pages[Top.page]) = Top.stop - 1,
                      NEW p \in Top.page + 1 .. Len(pages)
               PROVE  Empty(p)
    BY DEF ChildrenEmpty
  <2>1. Top.page = hot
    BY EndsAtHot
  <2>2. p \in 1..Len(pages) /\ p > hot /\ p \in DOMAIN pages
    BY <2>1, InvNumbers DEF Inv, TypeOK
  <2>3. Len(pages[p]) = 0 /\ pages[p] \in Seq(Entry)
    BY <2>2, InvNumbers DEF Inv, Stack, PagesContiguous
  <2> QED
    BY <2>3 DEF Empty
<1>3. NoPageLeaked /\ PagesTrimmed
  BY DEF Inv, Stack, NoPageLeaked
<1> QED
  BY <1>1, <1>2, <1>3

\* The variables keep their types and the stack its shape, in every execution
\* without pool debugging; the setting never changes.
LEMMA InvHolds == Spec => [](Production => Inv)
<1>1. Init => (Production => Inv)
  BY InvInit
<1>2. (Production => Inv) /\ [Next]_vars => (Production => Inv)'
  <2> SUFFICES ASSUME Production => Inv, [Next]_vars, Production' PROVE Inv'
    OBVIOUS
  <2>1. setting' = setting
    BY DEF Next, vars, Autorelease, Push, PushPlaceholder, Pop, PopPlaceholder,
           TakeEntry, Released, FinishPop, ThreadExit, FinishExit
  <2>2. Production
    BY <2>1 DEF Production
  <2> QED
    BY <2>2, InvNext
<1> QED
  BY <1>1, <1>2, PTL DEF Spec

\* NSObject.mm:920 asks whether the inner `while` of releaseUntil can be `if`.
\* Without pool debugging it can, for every page size, any depth of nested
\* pools and any -dealloc methods: if the hot page is empty, its parent is not.
THEOREM TheWhileCanBeIf == Spec => [](Production => WhileCanBeIf)
<1>1. (Production => Inv) => (Production => WhileCanBeIf)
  BY InvImplies
<1> QED
  BY <1>1, InvHolds, PTL

\* The assertion at the end of releaseUntil (NSObject.mm:954) never fails
\* without pool debugging: the pages after the one popped to are empty, and
\* popPage frees no page with an object in it.
THEOREM ChildrenAreEmpty == Spec => [](Production => ChildrenEmpty)
<1>1. (Production => Inv) => (Production => ChildrenEmpty)
  BY InvImplies
<1> QED
  BY <1>1, InvHolds, PTL

\* Pages are trimmed after every pop, and none is left when the thread's TLS
\* value becomes nil (popPage and tls_dealloc).
THEOREM PagesAreFreed == Spec => [](Production => PagesTrimmed /\ NoPageLeaked)
<1>1. (Production => Inv) => (Production => PagesTrimmed /\ NoPageLeaked)
  BY InvImplies
<1> QED
  BY <1>1, InvHolds, PTL

-----------------------------------------------------------------------------
(* What add() leaves in place. *)

\* Where Coalesce puts each entry.
LEMMA CoalesceEntries ==
    ASSUME NEW s \in Seq(Entry), NEW i \in 1..Len(s), s[i].count < MaxCount
    PROVE  /\ Len(Coalesce(s, i)) = Len(s)
           /\ \A m \in 1 .. i - 1 : Coalesce(s, i)[m] = s[m]
           /\ \A m \in i .. Len(s) - 1 : Coalesce(s, i)[m] = s[m + 1]
           /\ Coalesce(s, i)[Len(s)] =
                [ptr |-> s[i].ptr, count |-> s[i].count + 1]
<1> DEFINE e == [ptr |-> s[i].ptr, count |-> s[i].count + 1]
           a == SubSeq(s, 1, i - 1)
           b == SubSeq(s, i + 1, Len(s))
           n == Len(s)
<1>1. n \in Nat /\ i \in Nat /\ i >= 1 /\ i <= n
  OBVIOUS
<1>2. /\ a \in Seq(Entry) /\ Len(a) = i - 1
      /\ \A m \in 1 .. i - 1 : a[m] = s[m]
  OBVIOUS
<1>3. /\ b \in Seq(Entry) /\ Len(b) = n - i
      /\ \A m \in 1 .. n - i : b[m] = s[m + i]
  OBVIOUS
<1>4. <<e>> \in Seq({e}) /\ Len(<<e>>) = 1 /\ <<e>>[1] = e
  OBVIOUS
<1> HIDE DEF a, b, e
<1> DEFINE c == a \o b
<1>5. /\ c \in Seq(Entry) /\ Len(c) = n - 1
      /\ \A m \in 1 .. i - 1 : c[m] = a[m]
      /\ \A m \in i .. n - 1 : c[m] = b[m - (i - 1)]
  <2>1. /\ c \in Seq(Entry) /\ Len(c) = Len(a) + Len(b)
        /\ \A m \in 1 .. Len(a) + Len(b) :
              c[m] = IF m <= Len(a) THEN a[m] ELSE b[m - Len(a)]
    BY <1>2, <1>3, ConcatProperties
  <2> QED
    BY <1>1, <1>2, <1>3, <2>1
<1>6. \A m \in 1 .. i - 1 : c[m] = s[m]
  BY <1>2, <1>5
<1>7. ASSUME NEW m \in i .. n - 1
      PROVE  c[m] = s[m + 1]
  <2>1. m - (i - 1) \in 1 .. n - i /\ m - (i - 1) + i = m + 1
    BY <1>1
  <2>2. c[m] = b[m - (i - 1)]
    BY <1>5
  <2> QED
    BY <1>3, <2>1, <2>2
<1> HIDE DEF c, n
<1> DEFINE r == c \o <<e>>
<1>8. e \in Entry
  <2>1. s[i] \in Entry
    OBVIOUS
  <2>2. s[i].ptr \in Objects \cup {POOL_BOUNDARY} /\ s[i].count + 1 \in 0..MaxCount
    BY <2>1, PoolAssumption DEF Entry
  <2> QED
    BY <2>2 DEF Entry, e
<1>9. /\ Len(r) = n /\ r[n] = e
      /\ \A m \in 1 .. n - 1 : r[m] = c[m]
  <2>1. /\ c \in Seq(Entry) /\ <<e>> \in Seq(Entry) /\ Len(<<e>>) = 1
        /\ <<e>>[1] = e /\ Len(c) = n - 1
    BY <1>5, <1>8
  <2>2. /\ Len(r) = Len(c) + Len(<<e>>)
        /\ \A m \in 1 .. Len(c) + Len(<<e>>) :
              r[m] = IF m <= Len(c) THEN c[m] ELSE <<e>>[m - Len(c)]
    BY <2>1, SMTT(20)
  <2>3. Len(r) = n
    BY <1>1, <2>1, <2>2
  <2>4. r[n] = <<e>>[1]
    BY <1>1, <2>1, <2>2
  <2>5. \A m \in 1 .. n - 1 : r[m] = c[m]
    BY <1>1, <2>1, <2>2
  <2> QED
    BY <2>1, <2>3, <2>4, <2>5
<1>10. \A m \in 1 .. i - 1 : r[m] = s[m]
  BY <1>1, <1>6, <1>9
<1>11. \A m \in i .. n - 1 : r[m] = s[m + 1]
  BY <1>1, <1>7, <1>9
<1>12. Coalesce(s, i) = r
  BY DEF Coalesce, r, c, a, b, e, n
<1> QED
  BY <1>9, <1>10, <1>11, <1>12 DEF n, e

\* add() leaves what is at and below any boundary as it is, and puts o on top.
LEMMA AddKeeps ==
    ASSUME NEW s \in Seq(Entry), NEW o \in Objects \cup {POOL_BOUNDARY}
    PROVE  /\ \A j \in 1..Len(s) : s[j].ptr = POOL_BOUNDARY =>
                \A m \in 1..j : add(s, o)[m] = s[m]
           /\ add(s, o)[Len(add(s, o))].ptr = o
<1>1. CASE \E i \in 1..Len(s) : Found(s, o, i)
  <2> DEFINE i == CHOOSE x \in 1..Len(s) : Found(s, o, x)
  <2>1. i \in 1..Len(s) /\ Found(s, o, i)
    BY <1>1
  <2>2. add(s, o) = Coalesce(s, i)
    BY <1>1 DEF add
  <2> HIDE DEF i
  <2>3. s[i].count < MaxCount /\ s[i].ptr = o /\ o # POOL_BOUNDARY
    BY <2>1 DEF Found, Coalescable
  <2>4. ASSUME NEW j \in 1..Len(s), s[j].ptr = POOL_BOUNDARY
        PROVE  j < i
    BY <2>1, <2>3, <2>4 DEF Found, Coalescable
  <2>5. \A m \in 1 .. i - 1 : Coalesce(s, i)[m] = s[m]
    BY <2>1, <2>3, CoalesceEntries
  <2>6. \A j \in 1..Len(s) : s[j].ptr = POOL_BOUNDARY =>
            \A m \in 1..j : Coalesce(s, i)[m] = s[m]
    BY <2>1, <2>4, <2>5
  <2>7. Coalesce(s, i)[Len(Coalesce(s, i))].ptr = o
    <3>1. /\ Len(Coalesce(s, i)) = Len(s)
          /\ Coalesce(s, i)[Len(s)] = [ptr |-> s[i].ptr, count |-> s[i].count + 1]
      BY <2>1, <2>3, CoalesceEntries
    <3> QED
      BY <2>3, <3>1
  <2> QED
    BY <2>2, <2>6, <2>7
<1>2. CASE ~ \E i \in 1..Len(s) : Found(s, o, i)
  <2> DEFINE e == [ptr |-> o, count |-> 0]
  <2>1. add(s, o) = Append(s, e)
    BY <1>2 DEF add
  <2>2. e \in Entry /\ e.ptr = o
    BY PoolAssumption DEF Entry
  <2> HIDE DEF e
  <2>3. /\ Len(Append(s, e)) = Len(s) + 1 /\ Append(s, e)[Len(s) + 1] = e
        /\ \A m \in 1..Len(s) : Append(s, e)[m] = s[m]
    BY <2>2
  <2> QED
    BY <2>1, <2>2, <2>3
<1> QED
  BY <1>1, <1>2

\* The entries up to slot s of page p stay as they are, and the pages before p.
KeptUpTo(p, s) ==
    /\ p <= Len(pages')
    /\ s <= Len(pages'[p])
    /\ \A m \in 1..s : pages'[p][m] = pages[p][m]
    /\ \A q \in 1 .. p - 1 : pages'[q] = pages[q]

\* Adding an entry leaves every boundary, and all below it.
BoundariesKept ==
    \A p \in 1..Len(pages) : \A s \in 1..Len(pages[p]) :
        pages[p][s].ptr = POOL_BOUNDARY => KeptUpTo(p, s)

\* Adding to page n, the hot one or the empty one after it.
LEMMA AddToKeeps ==
    ASSUME Shape, NEW o \in Objects \cup {POOL_BOUNDARY},
           NEW n \in 1 .. Len(pages) + 1, n >= hot, AddTo(n, o)
    PROVE  BoundariesKept /\ pages'[hot'][Len(pages'[hot'])].ptr = o
<1>1. /\ Len(pages) \in Nat /\ hot \in 0..Len(pages) /\ DOMAIN pages = 1..Len(pages)
      /\ pages \in Seq(Seq(Entry)) /\ hot' = n
  BY DEF Shape, AddTo
<1>2. \A p \in 1..Len(pages) : pages[p] \in Seq(Entry) /\ Len(pages[p]) \in Nat
  BY <1>1
<1>3. \A p \in 1..Len(pages) : p > n => Len(pages[p]) = 0
  <2>1. \A p \in 1..Len(pages) : p > hot => Len(pages[p]) = 0
    BY <1>1 DEF Shape, PagesContiguous
  <2>2. \A p \in 1..Len(pages) : p > n => p > hot
    BY <1>1
  <2> QED
    BY <2>1, <2>2
<1>4. CASE n <= Len(pages)
  <2> DEFINE s == add(pages[n], o)
  <2>1. pages' = [pages EXCEPT ![n] = s]
    BY <1>4 DEF AddTo
  <2>2. /\ s \in Seq(Entry) /\ Len(s) \in Nat /\ Len(s) >= Len(pages[n])
        /\ \A j \in 1..Len(pages[n]) : pages[n][j].ptr = POOL_BOUNDARY =>
             \A m \in 1..j : s[m] = pages[n][m]
        /\ s[Len(s)].ptr = o
    <3>1. pages[n] \in Seq(Entry) /\ Len(pages[n]) \in Nat
      BY <1>2, <1>4
    <3>2. s \in Seq(Entry) /\ Len(s) >= Len(pages[n])
      BY <3>1, AddType
    <3>3. /\ \A j \in 1..Len(pages[n]) : pages[n][j].ptr = POOL_BOUNDARY =>
               \A m \in 1..j : s[m] = pages[n][m]
          /\ s[Len(s)].ptr = o
      BY <3>1, AddKeeps
    <3> HIDE DEF s
    <3> QED
      BY <3>2, <3>3
  <2> HIDE DEF s
  <2>3. /\ Len(pages') = Len(pages) /\ pages'[n] = s
        /\ \A q \in 1..Len(pages) : q # n => pages'[q] = pages[q]
    BY <1>1, <1>4, <2>1, <2>2
  <2>4. ASSUME NEW p \in 1..Len(pages), NEW j \in 1..Len(pages[p]),
               pages[p][j].ptr = POOL_BOUNDARY
        PROVE  KeptUpTo(p, j)
    <3>1. p <= n
      BY <1>1, <1>2, <1>3, <2>4
    <3>2. \A q \in 1 .. p - 1 : pages'[q] = pages[q]
      BY <1>1, <2>3, <3>1
    <3>3. CASE p = n
      <4>1. Len(pages[n]) \in Nat
        BY <1>2, <3>3
      <4>2. j \in 1..Len(pages[n]) /\ pages[n][j].ptr = POOL_BOUNDARY
        BY <2>4, <3>3
      <4>3. \A m \in 1..j : s[m] = pages[n][m]
        BY <2>2, <4>2
      <4>4. j <= Len(s)
        BY <2>2, <4>1, <4>2
      <4> QED
        BY <1>1, <2>3, <3>2, <3>3, <4>3, <4>4 DEF KeptUpTo
    <3>4. CASE p # n
      <4>1. pages'[p] = pages[p]
        BY <2>3, <3>4
      <4> QED
        BY <1>1, <1>2, <2>3, <3>2, <4>1 DEF KeptUpTo
    <3> QED
      BY <3>3, <3>4
  <2> QED
    BY <1>1, <2>2, <2>3, <2>4 DEF BoundariesKept
<1>5. CASE ~(n <= Len(pages))
  <2> DEFINE s == add(<<>>, o)
  <2>1. pages' = Append(pages, s) /\ n = Len(pages) + 1
    BY <1>1, <1>5 DEF AddTo
  <2>2. s \in Seq(Entry) /\ s[Len(s)].ptr = o
    <3>1. <<>> \in Seq(Entry)
      OBVIOUS
    <3> QED
      BY <3>1, AddType, AddKeeps
  <2> HIDE DEF s
  <2>3. /\ Len(pages') = Len(pages) + 1 /\ pages'[n] = s
        /\ \A q \in 1..Len(pages) : pages'[q] = pages[q]
    BY <1>1, <2>1, <2>2
  <2>4. ASSUME NEW p \in 1..Len(pages), NEW j \in 1..Len(pages[p])
        PROVE  KeptUpTo(p, j)
    BY <1>1, <1>2, <2>3 DEF KeptUpTo
  <2> QED
    BY <1>1, <2>2, <2>3, <2>4 DEF BoundariesKept
<1> QED
  BY <1>4, <1>5

\* The same of autoreleaseFast.
LEMMA PlaceKeeps ==
    ASSUME Shape, NEW o \in Objects \cup {POOL_BOUNDARY}, Place(o, FALSE)
    PROVE  BoundariesKept /\ pages'[hot'][Len(pages'[hot'])].ptr = o
<1>1. Len(pages) \in Nat /\ hot \in 0..Len(pages)
  BY DEF Shape
<1>2. CASE hot # 0 /\ ~Full(hot) /\ AddTo(hot, o)
  BY <1>1, <1>2, AddToKeeps
<1>3. CASE hot # 0 /\ Full(hot) /\ AddTo(NextRoom, o)
  <2>1. NextRoom = hot + 1 /\ hot + 1 \in 1 .. Len(pages) + 1
    BY <1>1, NextRoomIsNext
  <2> QED
    BY <1>1, <1>3, <2>1, AddToKeeps
<1>4. CASE hot = 0 /\ placeholder /\ ReplacePlaceholder(o)
  <2> DEFINE a == add(<<>>, POOL_BOUNDARY)
             s == add(a, o)
  <2>1. pages' = <<s>> /\ hot' = 1 /\ pages = <<>>
    BY <1>4 DEF ReplacePlaceholder, Shape
  <2>2. a \in Seq(Entry)
    <3>1. <<>> \in Seq(Entry)
      OBVIOUS
    <3> QED
      BY <3>1, AddType
  <2>3. s[Len(s)].ptr = o
    BY <2>2, AddKeeps
  <2> HIDE DEF s
  <2>4. Len(pages) = 0 /\ pages'[hot'] = s
    BY <2>1
  <2> QED
    BY <2>3, <2>4 DEF BoundariesKept
<1>5. CASE hot = 0 /\ ~placeholder /\ AddTo(1, o)
  BY <1>1, <1>5, AddToKeeps
<1> QED
  BY <1>2, <1>3, <1>4, <1>5 DEF Place

\* A boundary, with its place in the pages.
LEMMA BoundaryPlace ==
    ASSUME Inv, NEW p \in Nat \ {0}, NEW s \in Nat \ {0}, IsBoundary(p, s)
    PROVE  p \in 1..Len(pages) /\ s \in 1..Len(pages[p]) /\ p <= hot
<1>1. /\ Len(pages) \in Nat /\ hot \in 0..Len(pages)
      /\ \A q \in 1..Len(pages) : Len(pages[q]) \in Nat
  BY InvNumbers
<1>2. p \in 1..Len(pages)
  BY <1>1 DEF IsBoundary
<1>3. s \in 1..Len(pages[p])
  BY <1>1, <1>2 DEF IsBoundary
<1>4. p > hot => Len(pages[p]) = 0
  BY <1>2 DEF Inv, TypeOK, Stack, PagesContiguous
<1> QED
  BY <1>1, <1>2, <1>3, <1>4

\* The tokens of the invariant, with their types.
LEMMA InvTokens ==
    ASSUME Inv, NEW k \in 1..Len(tokens)
    PROVE  /\ k \in DOMAIN tokens
           /\ tokens[k].page \in Nat /\ tokens[k].slot \in Nat
           /\ tokens[k].page # 0 => tokens[k].slot \in Nat \ {0}
<1>1. k \in DOMAIN tokens /\ tokens[k] \in Token
  BY InvNumbers DEF Inv, TypeOK
<1>2. tokens[k].page \in Nat /\ tokens[k].slot \in Nat
  BY <1>1 DEF Token
<1> QED
  BY <1>1, <1>2 DEF Inv, Stack, TokensNested

-----------------------------------------------------------------------------
(* The boundaries of the pools and of the pops in progress. *)

\* A step that keeps a boundary's page up to its slot keeps the boundary.
LEMMA KeptBoundary ==
    ASSUME Inv, BoundariesKept,
           NEW p \in Nat \ {0}, NEW s \in Nat \ {0}, IsBoundary(p, s)
    PROVE  IsBoundary(p, s)'
<1>1. p \in 1..Len(pages) /\ s \in 1..Len(pages[p])
  BY BoundaryPlace
<1>2. pages[p][s].ptr = POOL_BOUNDARY
  BY DEF IsBoundary
<1>3. KeptUpTo(p, s)
  BY <1>1, <1>2 DEF BoundariesKept
<1>4. s \in 1..s
  OBVIOUS
<1>5. pages'[p][s] = pages[p][s]
  BY <1>3, <1>4 DEF KeptUpTo
<1> QED
  BY <1>2, <1>3, <1>5 DEF IsBoundary, KeptUpTo

\* Where a pop stops, while its releases run.
LEMMA PopsStopAtBoundaries ==
    ASSUME Inv, Anchored, NEW i \in 1..Len(pops),
           \/ pops[i].pending > 0
           \/ Len(pages[pops[i].page]) # pops[i].stop - 1
    PROVE  FromStart(i) \/ IsBoundary(pops[i].page, pops[i].stop)
<1>1. i \in DOMAIN pops /\ pops[i].pending \in Nat
  BY InvPops DEF Inv, TypeOK
<1> QED
  BY <1>1 DEF Anchored, PopsAnchored

\* What a step must do to keep the anchors when it neither pushes nor pops.
LEMMA AnchoredKept ==
    ASSUME Inv, Inv', Anchored,
           NEW n \in 0..Len(tokens), DOMAIN tokens' = 1..n,
           \A k \in 1..n : tokens'[k] = tokens[k],
           \A k \in 1..n :
                /\ tokens[k].page # 0 => IsBoundary(tokens[k].page, tokens[k].slot)'
                /\ tokens[k].page = 0 => placeholder' \/ hot' # 0,
           Len(pops') = Len(pops),
           \A i \in 1..Len(pops) :
                /\ pops'[i].page = pops[i].page
                /\ pops'[i].stop = pops[i].stop
                /\ pops'[i].base = pops[i].base
                /\ pops'[i].pending <= MaxCount + 1
                /\ \/ FromStart(i)
                   \/ IsBoundary(pops[i].page, pops[i].stop)'
                   \/ /\ i = Len(pops) /\ pops'[i].pending = 0
                      /\ Len(pages'[pops[i].page]) = pops[i].stop - 1,
           exiting' = exiting, exiting => pops # <<>>, bad' = bad
    PROVE  Anchored'
<1>1. /\ Len(tokens) \in Nat /\ DOMAIN tokens = 1..Len(tokens)
      /\ Len(pops) \in Nat /\ DOMAIN pops = 1..Len(pops)
      /\ DOMAIN pops' = 1..Len(pops)
      /\ pops # <<>> => 1 \in 1..Len(pops)
  BY DEF Inv, TypeOK
<1>2. \A k \in 1..n : k \in 1..Len(tokens)
  BY <1>1
<1>3. TokensAnchored'
  <2>1. \A k \in 1..n :
          IF tokens'[k].page = 0 THEN k = 1 /\ (placeholder' \/ hot' # 0)
          ELSE IsBoundary(tokens[k].page, tokens[k].slot)'
    BY <1>1, <1>2 DEF Anchored, TokensAnchored
  <2>2. \A j, k \in 1..n :
          j < k /\ tokens'[j].page # 0 =>
            Before(tokens'[j].page, tokens'[j].slot, tokens'[k].page, tokens'[k].slot)
    BY <1>1, <1>2 DEF Anchored, TokensAnchored
  <2>3. \A k \in 1..n :
          IsBoundary(tokens[k].page, tokens[k].slot)' =>
            /\ pages'[tokens'[k].page][tokens'[k].slot].ptr = POOL_BOUNDARY
            /\ tokens'[k].page <= Len(pages')
            /\ tokens'[k].slot <= Len(pages'[tokens'[k].page])
    BY DEF IsBoundary
  <2> QED
    BY <2>1, <2>2, <2>3 DEF TokensAnchored, IsBoundary
<1>4. \A i \in 1..Len(pops) : FromStart(i)' <=> FromStart(i)
  BY DEF FromStart
<1>5. PopsAnchored'
  <2>1. ASSUME NEW i \in 1..Len(pops)
        PROVE  \/ FromStart(i)'
               \/ IsBoundary(pops[i].page, pops[i].stop)'
               \/ /\ i = Len(pops') /\ pops'[i].pending = 0
                  /\ Len(pages'[pops'[i].page]) = pops'[i].stop - 1
    BY <1>4
  <2>2. \A i, j \in 1..Len(pops) : i < j /\ ~FromStart(i)' =>
            Before(pops'[i].page, pops'[i].stop, pops'[j].page, pops'[j].stop)
    BY <1>1, <1>4 DEF Anchored, PopsAnchored
  <2>3. \A i \in 1..Len(pops), k \in 1..n :
        IF k > pops'[i].base
        THEN ~FromStart(i)' =>
                Before(pops'[i].page, pops'[i].stop, tokens'[k].page, tokens'[k].slot)
        ELSE tokens'[k].page # 0 =>
                Before(tokens'[k].page, tokens'[k].slot, pops'[i].page, pops'[i].stop)
    <3> TAKE i \in 1..Len(pops), k \in 1..n
    <3>1. i \in DOMAIN pops /\ k \in DOMAIN tokens
      BY <1>1, <1>2
    <3>2. /\ pops'[i].page = pops[i].page /\ pops'[i].stop = pops[i].stop
          /\ pops'[i].base = pops[i].base /\ tokens'[k] = tokens[k]
      OBVIOUS
    <3>3. IF k > pops[i].base
          THEN ~FromStart(i) =>
                  Before(pops[i].page, pops[i].stop, tokens[k].page, tokens[k].slot)
          ELSE tokens[k].page # 0 =>
                  Before(tokens[k].page, tokens[k].slot, pops[i].page, pops[i].stop)
      BY <3>1 DEF Anchored, PopsAnchored
    <3>4. FromStart(i)' <=> FromStart(i)
      BY <1>4
    <3> QED
      BY <3>2, <3>3, <3>4
  <2> QED
    BY <1>1, <2>1, <2>2, <2>3 DEF PopsAnchored, IsBoundary
<1>6. ExitEmpties'
  BY <1>1, <1>4 DEF Anchored, ExitEmpties
<1>7. NoBadPop'
  BY DEF Anchored, NoBadPop
<1> QED
  BY <1>3, <1>5, <1>6, <1>7 DEF Anchored

\* The boundary a token stands for.
LEMMA TokenBoundary ==
    ASSUME Inv, Anchored, NEW k \in 1..Len(tokens), tokens[k].page # 0
    PROVE  /\ tokens[k].page \in Nat \ {0} /\ tokens[k].slot \in Nat \ {0}
           /\ IsBoundary(tokens[k].page, tokens[k].slot)
           /\ tokens[k].page \in 1..Len(pages) /\ tokens[k].page <= hot
           /\ tokens[k].slot \in 1..Len(pages[tokens[k].page])
<1>1. /\ tokens[k].page \in Nat \ {0} /\ tokens[k].slot \in Nat \ {0}
      /\ k \in DOMAIN tokens
  BY InvTokens
<1>2. IsBoundary(tokens[k].page, tokens[k].slot)
  BY <1>1 DEF Anchored, TokensAnchored
<1> QED
  BY <1>1, <1>2, BoundaryPlace

\* While the program runs, every pop in progress stops at a boundary or at the
\* start.
LEMMA PopBoundary ==
    ASSUME Inv, Anchored, Running, NEW i \in 1..Len(pops), ~FromStart(i)
    PROVE  IsBoundary(pops[i].page, pops[i].stop)
<1>1. pops[i].pending > 0
  BY RunningFacts
<1> QED
  BY <1>1, PopsStopAtBoundaries

\* What Place needs for AnchoredKept.
LEMMA AnchorsStay ==
    ASSUME Inv, Anchored, Running, BoundariesKept, UNCHANGED pops
    PROVE  /\ \A k \in 1..Len(tokens) :
                tokens[k].page # 0 /\ tokens'[k] = tokens[k] =>
                    IsBoundary(tokens[k].page, tokens[k].slot)'
           /\ \A i \in 1..Len(pops) :
                FromStart(i) \/ IsBoundary(pops[i].page, pops[i].stop)'
<1>1. \A p \in Nat \ {0}, s \in Nat \ {0} : IsBoundary(p, s) => IsBoundary(p, s)'
  BY KeptBoundary
<1>2. ASSUME NEW k \in 1..Len(tokens), tokens[k].page # 0, tokens'[k] = tokens[k]
      PROVE  IsBoundary(tokens[k].page, tokens[k].slot)'
  <2> DEFINE p == tokens[k].page
             s == tokens[k].slot
  <2>1. p \in Nat \ {0} /\ s \in Nat \ {0} /\ IsBoundary(p, s)
    BY <1>2, TokenBoundary
  <2>2. p' = p /\ s' = s
    BY <1>2
  <2> HIDE DEF p, s
  <2>3. IsBoundary(p, s)'
    BY <1>1, <2>1, <2>2 DEF IsBoundary
  <2> QED
    BY <2>3 DEF p, s
<1>3. ASSUME NEW i \in 1..Len(pops), ~FromStart(i)
      PROVE  IsBoundary(pops[i].page, pops[i].stop)'
  <2> DEFINE p == pops[i].page
             s == pops[i].stop
  <2>1. p \in Nat \ {0} /\ s \in Nat \ {0} /\ IsBoundary(p, s)
    BY <1>3, InvPops, PopBoundary
  <2>2. p' = p /\ s' = s
    OBVIOUS
  <2> HIDE DEF p, s
  <2>3. IsBoundary(p, s)'
    BY <1>1, <2>1, <2>2 DEF IsBoundary
  <2> QED
    BY <2>3 DEF p, s
<1> QED
  BY <1>2, <1>3

\* Autoreleasing an object leaves the boundaries.
LEMMA AnchoredAutorelease ==
    ASSUME Inv, Anchored, Inv', NEW o \in Objects, Autorelease(o)
    PROVE  Anchored'
<1>1. /\ UNCHANGED <<setting, tokens, pops, exiting, bad>> /\ Running
      /\ Place(o, FALSE)
  BY DEF Autorelease
<1>2. BoundariesKept
  BY <1>1, InvShape, PlaceKeeps
<1>3. /\ Len(tokens) \in Nat /\ DOMAIN tokens = 1..Len(tokens)
      /\ Len(tokens) \in 0..Len(tokens)
  BY DEF Inv, TypeOK
<1>4. hot' # 0
  <2>1. hot' \in 1..Len(pages')
    BY <1>1, InvShape, PlaceGrows DEF Grows
  <2> QED
    BY <2>1
<1>5. /\ \A k \in 1..Len(tokens) :
            tokens[k].page # 0 => IsBoundary(tokens[k].page, tokens[k].slot)'
      /\ \A i \in 1..Len(pops) :
            FromStart(i) \/ IsBoundary(pops[i].page, pops[i].stop)'
  BY <1>1, <1>2, AnchorsStay
<1>6. \A i \in 1..Len(pops) : pops[i].pending <= MaxCount + 1
  BY DEF Inv, TypeOK, Anchored, PopsAnchored
<1>7. exiting => pops # <<>>
  BY <1>1 DEF Running
<1> QED
  BY <1>1, <1>3, <1>4, <1>5, <1>6, <1>7, AnchoredKept

\* The token of a new pool is above all the others.
LEMMA AnchoredPush ==
    ASSUME Inv, Anchored, Inv', Push
    PROVE  Anchored'
<1> DEFINE n == Len(tokens)
           h == hot'
           top == Len(pages'[hot'])
<1>1. /\ UNCHANGED <<setting, pops, exiting, due, bad>> /\ Running
      /\ tokens' = Append(tokens, [page |-> h, slot |-> top])
  BY DEF Push
<1>2. Place(POOL_BOUNDARY, FALSE)
  BY DEF Push, Inv, Production, Place
<1>3. BoundariesKept /\ pages'[h][top].ptr = POOL_BOUNDARY
  BY <1>2, InvShape, PlaceKeeps
<1>4. Grows(POOL_BOUNDARY)
  BY <1>2, InvShape, PlaceGrows
<1>5. /\ n \in Nat /\ DOMAIN tokens = 1..n
      /\ DOMAIN pops = 1..Len(pops) /\ DOMAIN tokens' = 1 .. n + 1
      /\ \A k \in 1..n : tokens'[k] = tokens[k]
      /\ tokens'[n + 1].page = h /\ tokens'[n + 1].slot = top
  BY <1>1 DEF Inv, TypeOK
<1>6. h \in 1..Len(pages') /\ h \in Nat /\ top \in Nat /\ h >= hot
  <2>1. /\ h \in 1..Len(pages') /\ pages' \in Seq(Seq(Entry)) /\ h >= hot
    BY <1>4 DEF Grows
  <2>2. pages'[h] \in Seq(Entry)
    BY <2>1
  <2> QED
    BY <2>1, <2>2
<1>7. ASSUME NEW p \in Nat \ {0}, NEW s \in Nat \ {0}, IsBoundary(p, s)
      PROVE  Before(p, s, h, top)
  <2>1. p \in 1..Len(pages) /\ s \in 1..Len(pages[p]) /\ p <= hot
    BY <1>7, BoundaryPlace
  <2>2. hot \in Nat /\ Len(pages[p]) \in Nat
    BY <2>1, InvNumbers
  <2>3. p = h => hot = h
    BY <1>6, <2>1, <2>2
  <2>4. hot = h => top = Len(pages[hot]) + 1
    BY <1>4 DEF Grows
  <2> HIDE DEF h, top
  <2> QED
    BY <1>6, <2>1, <2>2, <2>3, <2>4 DEF Before
<1>8. /\ \A k \in 1..n : tokens[k].page # 0 =>
            /\ IsBoundary(tokens[k].page, tokens[k].slot)'
            /\ Before(tokens[k].page, tokens[k].slot, h, top)
      /\ \A i \in 1..Len(pops) :
            FromStart(i) \/ IsBoundary(pops[i].page, pops[i].stop)'
  BY <1>1, <1>3, <1>5, <1>7, AnchorsStay, TokenBoundary
<1>9. \A i \in 1..Len(pops) :
        ~FromStart(i) => Before(pops[i].page, pops[i].stop, h, top)
  BY <1>1, <1>7, InvPops, PopBoundary
<1> HIDE DEF h, top, n
<1>10. h # 0 /\ h = hot' /\ h <= Len(pages') /\ top = Len(pages'[h])
  BY <1>6 DEF h, top
<1>11. TokensAnchored'
  <2>1. ASSUME NEW k \in 1 .. n + 1
        PROVE  IF tokens'[k].page = 0 THEN k = 1 /\ (placeholder' \/ hot' # 0)
               ELSE IsBoundary(tokens[k].page, tokens[k].slot)'
    <3>1. CASE k = n + 1
      BY <1>3, <1>5, <1>6, <1>10, <3>1 DEF IsBoundary, n, top
    <3>2. CASE k # n + 1
      <4>1. k \in 1..n
        BY <1>5, <3>2
      <4> QED
        BY <1>5, <1>8, <1>10, <4>1 DEF Anchored, TokensAnchored
    <3> QED
      BY <3>1, <3>2
  <2>2. ASSUME NEW j \in 1 .. n + 1, NEW k \in 1 .. n + 1, j < k,
               tokens'[j].page # 0
        PROVE  Before(tokens'[j].page, tokens'[j].slot,
                      tokens'[k].page, tokens'[k].slot)
    <3>1. j \in 1..n
      BY <1>5, <2>2
    <3>2. CASE k = n + 1
      BY <1>5, <1>8, <2>2, <3>1, <3>2
    <3>3. CASE k # n + 1
      <4>1. k \in 1..n
        BY <1>5, <3>3
      <4> QED
        BY <1>5, <2>2, <3>1, <4>1 DEF Anchored, TokensAnchored
    <3> QED
      BY <3>2, <3>3
  <2> QED
    BY <1>5, <2>1, <2>2 DEF TokensAnchored, IsBoundary
<1>12. PopsAnchored'
  <2>1. \A i \in 1..Len(pops) : FromStart(i)' <=> FromStart(i)
    BY <1>1 DEF FromStart
  <2>2. /\ \A i \in 1..Len(pops) : pops[i].pending <= MaxCount + 1
        /\ \A i, j \in 1..Len(pops) : i < j /\ ~FromStart(i) =>
              Before(pops[i].page, pops[i].stop, pops[j].page, pops[j].stop)
    BY <1>5 DEF Anchored, PopsAnchored
  <2>3. ASSUME NEW i \in 1..Len(pops), NEW k \in 1 .. n + 1
        PROVE  IF k > pops[i].base
               THEN ~FromStart(i) => Before(pops[i].page, pops[i].stop,
                                            tokens'[k].page, tokens'[k].slot)
               ELSE tokens'[k].page # 0 => Before(tokens'[k].page, tokens'[k].slot,
                                                  pops[i].page, pops[i].stop)
    <3>1. CASE k = n + 1
      <4>1. pops[i].base \in Nat /\ pops[i].base <= n
        BY InvPops DEF n
      <4> QED
        BY <1>5, <1>9, <3>1, <4>1
    <3>2. CASE k # n + 1
      <4>1. k \in 1..n
        BY <1>5, <3>2
      <4> QED
        BY <1>5, <4>1 DEF Anchored, PopsAnchored
    <3> QED
      BY <3>1, <3>2
  <2> QED
    BY <1>1, <1>5, <1>8, <2>1, <2>2, <2>3 DEF PopsAnchored, IsBoundary
<1>13. ExitEmpties' /\ NoBadPop'
  <2>1. exiting => pops # <<>>
    BY <1>1 DEF Running
  <2> QED
    BY <1>1, <2>1 DEF Anchored, ExitEmpties, NoBadPop, FromStart
<1> QED
  BY <1>11, <1>12, <1>13 DEF Anchored

\* The placeholder is for the first pool.
LEMMA AnchoredPushPlaceholder ==
    ASSUME Inv, Anchored, Inv', PushPlaceholder
    PROVE  Anchored'
<1>1. /\ UNCHANGED <<setting, pages, hot, pops, exiting, due, bad>>
      /\ placeholder' = TRUE /\ hot = 0 /\ ~placeholder /\ Running
      /\ tokens' = Append(tokens, [page |-> 0, slot |-> 0])
  BY DEF PushPlaceholder
<1>2. pops = <<>> /\ ~exiting
  BY <1>1, NoPageNoPop, RunningFacts
<1>3. Len(tokens) = 0 /\ tokens \in Seq(Token)
  <2>1. ~ \E k \in 1..Len(tokens) : TRUE
    <3> SUFFICES ASSUME NEW k \in 1..Len(tokens) PROVE FALSE
      OBVIOUS
    <3>1. tokens[k].page # 0
      BY <1>1, InvTokens DEF Anchored, TokensAnchored
    <3>2. tokens[k].page \in 1..Len(pages) /\ tokens[k].page <= hot
      BY <3>1, TokenBoundary
    <3> QED
      BY <1>1, <3>2
  <2> QED
    BY <2>1 DEF Inv, TypeOK
<1>4. /\ DOMAIN tokens' = {1} /\ tokens'[1] = [page |-> 0, slot |-> 0]
  BY <1>1, <1>3
<1>5. DOMAIN pops' = {}
  BY <1>1, <1>2
<1>6. TokensAnchored'
  BY <1>1, <1>4 DEF TokensAnchored
<1>7. PopsAnchored'
  BY <1>5 DEF PopsAnchored
<1> QED
  BY <1>1, <1>2, <1>6, <1>7 DEF Anchored, ExitEmpties, NoBadPop

\* pop() finds its boundary, below which the pools outside are and above which
\* the pops in progress have nothing.
LEMMA AnchoredPop ==
    ASSUME Inv, Anchored, Inv', NEW k \in DOMAIN tokens, Pop(k)
    PROVE  Anchored'
<1> DEFINE n == Len(pops)
           p == IF tokens[k].page = 0 THEN 1 ELSE tokens[k].page
           slot == IF tokens[k].page = 0 THEN 1 ELSE tokens[k].slot
           new == [page |-> p, stop |-> slot, pending |-> 0,
                   obj |-> POOL_BOUNDARY, base |-> Len(tokens')]
<1>1. /\ UNCHANGED <<setting, pages, hot, placeholder, exiting, due>>
      /\ tokens' = SubSeq(tokens, 1, k - 1) /\ Running /\ k > Base
      /\ hot # 0 \/ tokens[k].page # 0
  BY DEF Pop
<1>2. BeginPop(p, slot)
  BY DEF Pop
<1>3. k \in 1..Len(tokens) /\ k \in Nat /\ k \in 1 .. Len(tokens) + 1
  BY DEF Inv, TypeOK
<1>4. /\ Len(tokens') = k - 1 /\ DOMAIN tokens' = 1 .. k - 1
      /\ \A j \in 1 .. k - 1 : j \in DOMAIN tokens /\ tokens'[j] = tokens[j]
  BY <1>1, <1>3, CutTokens
<1>5. tokens[k].page # 0 => IsBoundary(p, slot)
  BY <1>3, TokenBoundary
<1>6. tokens[k].page = 0 => p = 1 /\ slot = 1 /\ k = 1
  BY DEF Anchored, TokensAnchored
<1>7. pops' = Append(pops, new) /\ bad' = bad
  BY <1>2, <1>5, <1>6 DEF BeginPop
<1>8. n \in Nat /\ DOMAIN pops = 1..n
  BY DEF Inv, TypeOK
<1>9. \A i \in 1..n : k > pops[i].base /\ tokens[k].page # 0
  <2> TAKE i \in 1..n
  <2>1. k > pops[i].base
    BY <1>1, PopAboveBase
  <2> QED
    BY <1>8, <2>1 DEF Inv, Stack, TokensNested
<1> HIDE DEF new
<1>10. /\ DOMAIN pops' = 1 .. n + 1 /\ Len(pops') = n + 1
       /\ \A i \in 1..n : pops'[i] = pops[i]
       /\ pops'[n + 1] = new
  <2>1. pops \in Seq(Popping)
    BY DEF Inv, TypeOK
  <2> QED
    BY <1>7, <1>8, <2>1
<1>11. /\ new.page = p /\ new.stop = slot /\ new.pending = 0 /\ new.base = k - 1
  BY <1>4 DEF new
<1> HIDE DEF n, p, slot
<1>12. \A i \in 1..n : FromStart(i)' <=> FromStart(i)
  BY <1>10 DEF FromStart
<1>13. tokens[k].page # 0 => p = tokens[k].page /\ slot = tokens[k].slot
  BY DEF p, slot
<1>14. TokensAnchored'
  <2>1. \A j \in 1 .. k - 1 :
            IF tokens[j].page = 0 THEN j = 1 /\ (placeholder \/ hot # 0)
            ELSE IsBoundary(tokens[j].page, tokens[j].slot)
    BY <1>4 DEF Anchored, TokensAnchored
  <2>2. \A i, j \in 1 .. k - 1 :
            i < j /\ tokens[i].page # 0 =>
            Before(tokens[i].page, tokens[i].slot, tokens[j].page, tokens[j].slot)
    BY <1>4 DEF Anchored, TokensAnchored
  <2>3. \A j \in DOMAIN tokens' :
            IF tokens'[j].page = 0 THEN j = 1 /\ (placeholder' \/ hot' # 0)
            ELSE IsBoundary(tokens[j].page, tokens[j].slot)'
    <3> TAKE j \in DOMAIN tokens'
    <3>1. j \in 1 .. k - 1 /\ tokens'[j] = tokens[j]
      BY <1>4
    <3>2. IsBoundary(tokens[j].page, tokens[j].slot)'
              <=> IsBoundary(tokens[j].page, tokens[j].slot)
      BY <1>1, <3>1 DEF IsBoundary
    <3> QED
      BY <1>1, <2>1, <3>1, <3>2
  <2>4. \A i, j \in DOMAIN tokens' :
            i < j /\ tokens'[i].page # 0 =>
            Before(tokens'[i].page, tokens'[i].slot, tokens'[j].page, tokens'[j].slot)
    <3> TAKE i, j \in DOMAIN tokens'
    <3>1. /\ i \in 1 .. k - 1 /\ tokens'[i] = tokens[i]
          /\ j \in 1 .. k - 1 /\ tokens'[j] = tokens[j]
      BY <1>4
    <3> QED
      BY <2>2, <3>1
  <2> QED
    BY <2>3, <2>4 DEF TokensAnchored
<1>15. PopsAnchored'
  <2>1. ASSUME NEW i \in 1 .. n + 1
        PROVE  /\ FromStart(i)' \/ IsBoundary(pops'[i].page, pops'[i].stop)
               /\ pops'[i].pending <= MaxCount + 1
    <3>1. CASE i = n + 1
      <4>1. FromStart(i)' \/ IsBoundary(p, slot)
        BY <1>5, <1>6, <1>10, <1>11, <3>1 DEF FromStart
      <4> QED
        BY <1>10, <1>11, <3>1, <4>1, PoolAssumption
    <3>2. CASE i # n + 1
      <4>1. i \in 1..n
        BY <1>8, <3>2
      <4>2. FromStart(i) \/ IsBoundary(pops[i].page, pops[i].stop)
        BY <1>1, <4>1, PopBoundary DEF n
      <4> QED
        BY <1>8, <1>10, <1>12, <4>1, <4>2 DEF Anchored, PopsAnchored
    <3> QED
      BY <3>1, <3>2
  <2>2. ASSUME NEW i \in 1 .. n + 1, NEW j \in 1 .. n + 1, i < j, ~FromStart(i)'
        PROVE  Before(pops'[i].page, pops'[i].stop, pops'[j].page, pops'[j].stop)
    <3>1. i \in 1..n /\ ~FromStart(i)
      BY <1>8, <1>12, <2>2
    <3>2. CASE j = n + 1
      <4>1. k > pops[i].base /\ tokens[k].page # 0
        BY <1>9, <3>1
      <4>2. Before(pops[i].page, pops[i].stop, tokens[k].page, tokens[k].slot)
        BY <1>8, <3>1, <4>1 DEF Anchored, PopsAnchored
      <4> QED
        BY <1>10, <1>11, <1>13, <3>1, <3>2, <4>1, <4>2
    <3>3. CASE j # n + 1
      <4>1. j \in 1..n
        BY <1>8, <3>3
      <4> QED
        BY <1>8, <1>10, <2>2, <3>1, <4>1 DEF Anchored, PopsAnchored
    <3> QED
      BY <3>2, <3>3
  <2>3. ASSUME NEW i \in 1 .. n + 1, NEW j \in 1 .. k - 1
        PROVE  IF j > pops'[i].base
               THEN ~FromStart(i)' => Before(pops'[i].page, pops'[i].stop,
                                             tokens[j].page, tokens[j].slot)
               ELSE tokens[j].page # 0 => Before(tokens[j].page, tokens[j].slot,
                                                 pops'[i].page, pops'[i].stop)
    <3>1. CASE i = n + 1
      <4>1. ~(j > pops'[i].base) /\ k # 1 /\ j < k
        BY <1>3, <1>10, <1>11, <3>1
      <4>2. tokens[k].page # 0
        BY <1>6, <4>1
      <4>3. tokens[j].page # 0 =>
              Before(tokens[j].page, tokens[j].slot, tokens[k].page, tokens[k].slot)
        BY <1>4, <4>1 DEF Anchored, TokensAnchored
      <4> QED
        BY <1>10, <1>11, <1>13, <3>1, <4>1, <4>2, <4>3
    <3>2. CASE i # n + 1
      <4>1. i \in 1..n
        BY <1>8, <3>2
      <4> QED
        BY <1>4, <1>8, <1>10, <1>12, <4>1 DEF Anchored, PopsAnchored
    <3> QED
      BY <3>1, <3>2
  <2> QED
    BY <1>1, <1>4, <1>10, <2>1, <2>2, <2>3 DEF PopsAnchored, IsBoundary
<1>16. ExitEmpties'
  <2>1. exiting => pops # <<>>
    BY <1>1 DEF Running
  <2>2. pops # <<>> => 1 \in 1..n
    BY <1>8 DEF n
  <2>3. pops' # <<>>
    BY <1>8, <1>10
  <2> QED
    BY <1>1, <1>12, <2>1, <2>2, <2>3 DEF Anchored, ExitEmpties
<1>17. NoBadPop'
  BY <1>7 DEF Anchored, NoBadPop
<1> QED
  BY <1>14, <1>15, <1>16, <1>17 DEF Anchored

\* The placeholder pool was the first one, and is the only one.
LEMMA AnchoredPopPlaceholder ==
    ASSUME Inv, Anchored, Inv', NEW k \in DOMAIN tokens, PopPlaceholder(k)
    PROVE  Anchored'
<1>1. /\ UNCHANGED <<setting, pages, hot, pops, exiting, due, bad>> /\ Running
      /\ hot = 0 /\ tokens[k].page = 0 /\ tokens' = SubSeq(tokens, 1, k - 1)
  BY DEF PopPlaceholder
<1>2. k = 1
  BY <1>1 DEF Anchored, TokensAnchored
<1>3. pops = <<>> /\ ~exiting
  BY <1>1, NoPageNoPop, RunningFacts
<1>4. DOMAIN tokens' = {} /\ DOMAIN pops' = {}
  BY <1>1, <1>2, <1>3 DEF Inv, TypeOK
<1>5. TokensAnchored' /\ PopsAnchored'
  BY <1>4 DEF TokensAnchored, PopsAnchored
<1> QED
  BY <1>1, <1>3, <1>5 DEF Anchored, ExitEmpties, NoBadPop

\* The return of a release only drops tokens.
LEMMA AnchoredReleased ==
    ASSUME Inv, Anchored, Inv', Released
    PROVE  Anchored'
<1>1. /\ tokens' = SubSeq(tokens, 1, Base) /\ pops # <<>> /\ Running
      /\ pops' = SetTop(Top.obj, Top.pending - 1)
      /\ UNCHANGED <<setting, pages, hot, placeholder, exiting, bad>>
  BY DEF Released
<1>2. /\ Len(pops) \in 1..Len(pops) /\ DOMAIN pops = 1..Len(pops) /\ Len(pops) \in Nat
      /\ Top = pops[Len(pops)] /\ Top \in Popping
      /\ Top.base \in Nat /\ Top.base <= Len(tokens)
  BY <1>1, TopFacts
<1>3. Base = Top.base /\ Base \in 0..Len(tokens) /\ Len(tokens) \in Nat
  BY <1>1, <1>2, InvNumbers DEF Base
<1>4. /\ Top.obj \in Objects \cup {POOL_BOUNDARY} /\ Top.pending - 1 \in Nat
      /\ Top.pending \in Nat /\ Top.pending <= MaxCount + 1
  <2>1. Top.obj \in Objects \cup {POOL_BOUNDARY} /\ Top.pending \in Nat
    BY <1>2, InvPops
  <2>2. Top.pending > 0
    BY <1>1, <1>2, RunningFacts
  <2>3. Top.pending <= MaxCount + 1
    BY <1>2 DEF Anchored, PopsAnchored
  <2> QED
    BY <2>1, <2>2, <2>3
<1>5. /\ Len(pops') = Len(pops)
      /\ \A i \in 1..Len(pops) :
            /\ pops'[i].page = pops[i].page
            /\ pops'[i].stop = pops[i].stop
            /\ pops'[i].base = pops[i].base
            /\ i < Len(pops) => pops'[i].pending = pops[i].pending
  BY <1>1, <1>4, SetTopFacts
<1>6. pops'[Len(pops)].pending = Top.pending - 1
  <2>1. pops \in Seq(Popping)
    BY DEF Inv, TypeOK
  <2> QED
    BY <1>1, <1>2, <2>1 DEF SetTop
<1>7. \A i \in 1..Len(pops) : pops'[i].pending <= MaxCount + 1
  <2>1. \A i \in 1..Len(pops) : i < Len(pops) => pops'[i].pending <= MaxCount + 1
    BY <1>2, <1>5 DEF Anchored, PopsAnchored
  <2>2. pops'[Len(pops)].pending <= MaxCount + 1
    BY <1>4, <1>6, PoolAssumption
  <2> QED
    BY <1>2, <2>1, <2>2, IndexCases
<1>8. /\ DOMAIN tokens' = 1..Base
      /\ \A k \in 1..Base : k \in 1..Len(tokens) /\ tokens'[k] = tokens[k]
  <2>1. tokens \in Seq(Token)
    BY DEF Inv, TypeOK
  <2> QED
    BY <1>1, <1>3, <2>1
<1>9. \A i \in 1..Len(pops) :
        FromStart(i) \/ IsBoundary(pops[i].page, pops[i].stop)'
  BY <1>1, <1>5, PopBoundary DEF IsBoundary
<1>10. \A k \in 1..Base :
        /\ tokens[k].page # 0 => IsBoundary(tokens[k].page, tokens[k].slot)'
        /\ tokens[k].page = 0 => placeholder' \/ hot' # 0
  BY <1>1, <1>2, <1>3, <1>8, InvTokens DEF Anchored, TokensAnchored, IsBoundary
<1> QED
  BY <1>1, <1>3, <1>5, <1>7, <1>8, <1>9, <1>10, AnchoredKept

\* The entry taken is the last of all, and at or above where the pop stops.
LEMMA TakenIsLast ==
    ASSUME Inv, NEW p \in 1..hot, TakeEntry(p),
           NEW q \in Nat \ {0}, NEW r \in Nat \ {0}, IsBoundary(q, r)
    PROVE  /\ Before(q, r, p, Len(pages[p])) \/ (q = p /\ r = Len(pages[p]))
           /\ Before(q, r, p, Len(pages[p])) => IsBoundary(q, r)'
<1>1. /\ IsHottest(p) /\ hot' = p
      /\ pages' = [pages EXCEPT ![p] = SubSeq(pages[p], 1, Len(pages[p]) - 1)]
  BY DEF TakeEntry
<1>2. /\ p \in 1..Len(pages) /\ p \in Nat /\ Len(pages) \in Nat
      /\ pages[p] \in Seq(Entry) /\ Len(pages[p]) \in Nat
      /\ pages \in Seq(Seq(Entry)) /\ hot \in Nat
  BY InvNumbers DEF Inv, TypeOK
<1>3. q \in 1..Len(pages) /\ r \in 1..Len(pages[q]) /\ q <= hot
  BY BoundaryPlace
<1>4. Len(pages[q]) \in Nat
  BY <1>3, InvNumbers
<1>5. q <= p
  <2>1. q > p => q \in p + 1 .. hot
    BY <1>2, <1>3
  <2>2. q > p => pages[q] = <<>>
    BY <1>1, <2>1 DEF IsHottest, Empty
  <2> QED
    BY <1>2, <1>3, <2>2
<1>6. Before(q, r, p, Len(pages[p])) \/ (q = p /\ r = Len(pages[p]))
  BY <1>2, <1>3, <1>4, <1>5 DEF Before
<1>7. ASSUME Before(q, r, p, Len(pages[p]))
      PROVE  IsBoundary(q, r)'
  <2>1. pages[q][r].ptr = POOL_BOUNDARY
    BY DEF IsBoundary
  <2>2. Len(pages') = Len(pages)
    BY <1>1, <1>2
  <2>3. CASE q = p
    <3>1. r < Len(pages[p]) /\ r \in 1 .. Len(pages[p]) - 1
      BY <1>2, <1>3, <1>7, <2>3 DEF Before
    <3> DEFINE t == SubSeq(pages[p], 1, Len(pages[p]) - 1)
    <3>2. Len(t) = Len(pages[p]) - 1 /\ t[r] = pages[p][r]
      BY <1>2, <3>1
    <3>3. pages'[p] = t
      BY <1>1, <1>2
    <3> HIDE DEF t
    <3> QED
      BY <1>2, <1>3, <2>1, <2>2, <2>3, <3>1, <3>2, <3>3 DEF IsBoundary
  <2>4. CASE q # p
    <3>1. pages'[q] = pages[q]
      BY <1>1, <1>2, <1>3, <2>4
    <3> QED
      BY <2>1, <2>2, <3>1, <1>3, <1>2, <1>4 DEF IsBoundary
  <2> QED
    BY <2>3, <2>4
<1> QED
  BY <1>6, <1>7

\* releaseUntil takes no boundary but the one it stops at, and that one last.
LEMMA AnchoredTakeEntry ==
    ASSUME Inv, Anchored, Inv', NEW p \in 1..hot, TakeEntry(p)
    PROVE  Anchored'
<1> DEFINE s == pages[p]
           last == Len(pages[p])
           entry == s[Len(s)]
           count == IF entry.ptr = POOL_BOUNDARY THEN 0 ELSE entry.count + 1
           m == Len(pops)
<1>1. /\ Releasing /\ hot' = p
      /\ pages' = [pages EXCEPT ![p] = SubSeq(s, 1, Len(s) - 1)]
      /\ pops' = SetTop(entry.ptr, count)
      /\ UNCHANGED <<setting, placeholder, tokens, exiting, due, bad>>
  BY DEF TakeEntry
<1>2. /\ p \in 1..Len(pages) /\ p \in Nat /\ s \in Seq(Entry) /\ Len(s) \in Nat
      /\ pages \in Seq(Seq(Entry)) /\ hot' # 0
  BY <1>1, InvNumbers DEF Inv, TypeOK
<1>3. Len(s) # 0
  <2>1. s # <<>>
    BY DEF TakeEntry, IsHottest, Empty
  <2> QED
    BY <1>2, <2>1
<1>4. entry \in Entry
  BY <1>2, <1>3
<1>5. /\ entry.ptr \in Objects \cup {POOL_BOUNDARY}
      /\ count \in Nat /\ count <= MaxCount + 1
  BY <1>4, PoolAssumption DEF Entry
<1>6. /\ pops # <<>> /\ Top.pending = 0 /\ Len(pages[Top.page]) # Top.stop - 1
  BY <1>1 DEF Releasing
<1>7. /\ m \in 1..m /\ DOMAIN pops = 1..m /\ m \in Nat /\ Top = pops[m]
      /\ Top.page \in Nat \ {0} /\ Top.stop \in Nat \ {0}
      /\ Top.page \in 1..Len(pages) /\ Top.page <= hot
      /\ Top.stop <= Len(pages[Top.page]) + 1
  BY <1>6, TopFacts
<1>8. /\ Len(pops') = m
      /\ \A i \in 1..m :
            /\ pops'[i].page = pops[i].page
            /\ pops'[i].stop = pops[i].stop
            /\ pops'[i].base = pops[i].base
            /\ i < m => pops'[i].pending = pops[i].pending
  BY <1>1, <1>5, <1>6, SetTopFacts
<1> HIDE DEF count, entry
<1>9. pops'[m].pending = count
  <2>1. pops \in Seq(Popping)
    BY DEF Inv, TypeOK
  <2> QED
    BY <1>1, <1>7, <2>1 DEF SetTop
<1>10. FromStart(m) \/ IsBoundary(Top.page, Top.stop)
  BY <1>6, <1>7, PopsStopAtBoundaries
\* What is below the place where the pop stops is below the entry taken.
<1>11. Before(Top.page, Top.stop, p, last) \/ (Top.page = p /\ Top.stop = last)
  <2>1. Len(pages[Top.page]) \in Nat /\ hot \in Nat
    BY <1>7, InvNumbers
  <2>2. Top.stop <= Len(pages[Top.page])
    BY <1>6, <1>7, <2>1, SMTT(20)
  <2>3. Top.page <= p
    <3>1. Top.page > p => Top.page \in p + 1 .. hot
      BY <1>2, <1>7, <2>1
    <3>2. Top.page > p => pages[Top.page] = <<>>
      BY <3>1 DEF TakeEntry, IsHottest, Empty
    <3>3. Top.page > p => Len(pages[Top.page]) = 0
      BY <3>2
    <3> QED
      BY <1>2, <1>7, <2>2, <3>3, SMTT(20)
  <2> QED
    BY <1>2, <1>7, <2>1, <2>2, <2>3, SMTT(20) DEF Before
<1>12. ASSUME NEW q \in Nat \ {0}, NEW r \in Nat \ {0}, IsBoundary(q, r),
              Before(q, r, Top.page, Top.stop)
       PROVE  IsBoundary(q, r)'
  <2>1. Before(q, r, p, last)
    BY <1>2, <1>7, <1>11, <1>12 DEF Before
  <2> QED
    BY <1>12, <2>1, TakenIsLast
<1> HIDE DEF s, last
<1>13. ASSUME NEW k \in 1..Len(tokens), tokens[k].page # 0
       PROVE  IsBoundary(tokens[k].page, tokens[k].slot)'
  <2>1. Len(tokens) = Top.base
    BY <1>6 DEF Inv, Stack, TokensDropped
  <2>2. k \in DOMAIN tokens /\ ~(k > Top.base)
    BY <2>1, <1>13, InvTokens
  <2>3. Before(tokens[k].page, tokens[k].slot, Top.page, Top.stop)
    BY <1>7, <1>13, <2>2 DEF Anchored, PopsAnchored
  <2>4. tokens[k].page \in Nat \ {0} /\ tokens[k].slot \in Nat \ {0}
        /\ IsBoundary(tokens[k].page, tokens[k].slot)
    BY <1>13, TokenBoundary
  <2> DEFINE q == tokens[k].page
             r == tokens[k].slot
  <2>5. q' = q /\ r' = r
    BY <1>1
  <2> HIDE DEF q, r
  <2>6. IsBoundary(q, r)'
    BY <1>12, <2>3, <2>4, <2>5 DEF IsBoundary, q, r
  <2> QED
    BY <2>6 DEF q, r
<1>14. ASSUME NEW i \in 1..m, ~FromStart(i)
       PROVE  \/ IsBoundary(pops[i].page, pops[i].stop)'
              \/ /\ i = m /\ pops'[i].pending = 0
                 /\ Len(pages'[pops[i].page]) = pops[i].stop - 1
  <2> DEFINE q == pops[i].page
             r == pops[i].stop
  <2>1. q \in Nat \ {0} /\ r \in Nat \ {0}
    BY InvPops DEF m
  <2>2. q' = q /\ r' = r
    BY <1>8
  <2>3. CASE i < m
    <3>1. pops[i].pending > 0
      BY <1>7, <2>3 DEF Inv, Stack, PopsNested, m
    <3>2. IsBoundary(q, r)
      BY <3>1, <1>14, PopsStopAtBoundaries DEF m
    <3>3. Before(q, r, Top.page, Top.stop)
      BY <1>7, <1>14, <2>3 DEF Anchored, PopsAnchored
    <3> HIDE DEF q, r
    <3>4. IsBoundary(q, r)'
      BY <1>12, <2>1, <2>2, <3>2, <3>3 DEF IsBoundary
    <3> QED
      BY <3>4 DEF q, r
  <2>4. CASE i = m
    <3>1. q = Top.page /\ r = Top.stop /\ IsBoundary(q, r)
      BY <1>7, <1>10, <1>14, <2>4
    <3>2. CASE Before(q, r, p, last)
      <4> HIDE DEF q, r
      <4>1. IsBoundary(q, r)'
        BY <2>1, <2>2, <3>1, <3>2, TakenIsLast, SMTT(20) DEF IsBoundary, last
      <4> QED
        BY <4>1 DEF q, r
    <3>3. CASE q = p /\ r = last
      <4>1. entry.ptr = POOL_BOUNDARY
        BY <3>1, <3>3 DEF IsBoundary, entry, s, last
      <4>2. pops'[i].pending = 0
        BY <1>9, <2>4, <4>1 DEF count
      <4>3. Len(pages'[p]) = last - 1
        <5>1. pages'[p] = SubSeq(s, 1, Len(s) - 1)
          BY <1>1, <1>2
        <5> QED
          BY <1>2, <1>3, <5>1 DEF s, last
      <4> QED
        BY <2>4, <3>3, <4>2, <4>3
    <3> QED
      BY <1>11, <3>1, <3>2, <3>3
  <2> QED
    BY <1>7, <2>3, <2>4, IndexCases
<1>15. \A i \in 1..m : pops'[i].pending <= MaxCount + 1
  <2>1. \A i \in 1..m : i < m => pops'[i].pending <= MaxCount + 1
    BY <1>7, <1>8 DEF Anchored, PopsAnchored
  <2> QED
    BY <1>5, <1>7, <1>9, <2>1, IndexCases
<1>16. /\ Len(tokens) \in 0..Len(tokens) /\ DOMAIN tokens' = 1..Len(tokens)
  BY <1>1 DEF Inv, TypeOK
<1> QED
  BY <1>1, <1>2, <1>6, <1>8, <1>13, <1>14, <1>15, <1>16, AnchoredKept DEF m

\* The end of a pop frees only pages after the hot one.
LEMMA FinishPopKeeps ==
    ASSUME Inv, FinishPop
    PROVE  /\ hot' = hot /\ Top.page = hot /\ hot # 0
           /\ Len(pages') \in hot..Len(pages)
           /\ \A q \in 1..hot : pages'[q] = pages[q]
           /\ \A q \in 1..Len(pages') : pages'[q] = pages[q]
           /\ Len(pops') = Len(pops) - 1 /\ DOMAIN pops' = 1 .. Len(pops) - 1
           /\ \A i \in 1 .. Len(pops) - 1 : pops'[i] = pops[i] /\ i \in 1..Len(pops)
<1> DEFINE K == Kept(Top.page)
<1>1. /\ pops # <<>> /\ Len(pages[Top.page]) = Top.stop - 1
      /\ pages' = SubSeq(pages, 1, K)
      /\ hot' = IF K < Top.page THEN K ELSE Top.page
      /\ pops' = SubSeq(pops, 1, Len(pops) - 1)
  BY DEF FinishPop
<1>2. Top.page = hot /\ Top.page \in 1..Len(pages)
  BY <1>1, EndsAtHot, TopFacts
<1>3. Len(pages) \in Nat /\ hot \in 1..Len(pages) /\ hot \in Nat
  BY <1>2, InvNumbers
<1>4. K = hot \/ (K = hot + 1 /\ hot < Len(pages))
  BY <1>2, <1>3 DEF Kept, Inv, Production
<1> HIDE DEF K
<1>5. K \in hot..Len(pages) /\ K \in Nat /\ hot' = hot
  BY <1>1, <1>2, <1>3, <1>4
<1>6. Len(pages') = K /\ \A q \in 1..K : pages'[q] = pages[q]
  <2>1. pages \in Seq(Seq(Entry))
    BY DEF Inv, TypeOK
  <2> QED
    BY <1>1, <1>3, <1>5, <2>1
<1>7. /\ Len(pops') = Len(pops) - 1 /\ DOMAIN pops' = 1 .. Len(pops) - 1
      /\ \A i \in 1 .. Len(pops) - 1 : pops'[i] = pops[i] /\ i \in 1..Len(pops)
  <2>1. pops \in Seq(Popping)
    BY DEF Inv, TypeOK
  <2> QED
    BY <1>1, <2>1, TopFacts
<1> QED
  BY <1>2, <1>3, <1>5, <1>6, <1>7

\* So the boundaries and the tokens stay.
LEMMA AnchoredFinishPop ==
    ASSUME Inv, Anchored, Inv', FinishPop
    PROVE  Anchored'
<1> DEFINE n == Len(pops)
<1>1. /\ pops # <<>> /\ Len(pages[Top.page]) = Top.stop - 1
      /\ UNCHANGED <<setting, placeholder, tokens, exiting, due, bad>>
  BY DEF FinishPop
<1>2. /\ n \in 1..n /\ n \in Nat /\ DOMAIN pops = 1..n /\ Top = pops[n]
  BY <1>1, TopFacts
<1>3. /\ hot' = hot /\ Top.page = hot /\ hot # 0 /\ hot \in Nat
      /\ Len(pages') \in hot..Len(pages)
      /\ \A q \in 1..hot : pages'[q] = pages[q]
      /\ \A q \in 1..Len(pages') : pages'[q] = pages[q]
      /\ Len(pops') = n - 1 /\ DOMAIN pops' = 1 .. n - 1
      /\ \A i \in 1 .. n - 1 : pops'[i] = pops[i] /\ i \in 1..n
  BY FinishPopKeeps, InvNumbers
<1>4. ASSUME NEW p \in Nat \ {0}, NEW s \in Nat \ {0}, IsBoundary(p, s)
      PROVE  /\ p <= Len(pages') /\ s <= Len(pages'[p])
             /\ pages'[p][s].ptr = POOL_BOUNDARY
  <2>1. p \in 1..Len(pages) /\ s \in 1..Len(pages[p]) /\ p <= hot
    BY <1>4, BoundaryPlace
  <2>2. p <= Len(pages') /\ pages'[p] = pages[p]
    BY <1>3, <2>1, InvNumbers
  <2> QED
    BY <1>4, <2>2 DEF IsBoundary
<1> HIDE DEF n
<1>5. TokensAnchored'
  <2>1. \A k \in 1..Len(tokens) :
          tokens[k].page # 0 =>
            /\ tokens[k].page <= Len(pages')
            /\ tokens[k].slot <= Len(pages'[tokens[k].page])
            /\ pages'[tokens[k].page][tokens[k].slot].ptr = POOL_BOUNDARY
    BY <1>4, TokenBoundary
  <2>2. DOMAIN tokens = 1..Len(tokens)
    BY DEF Inv, TypeOK
  <2> QED
    BY <1>1, <1>3, <2>1, <2>2 DEF Anchored, TokensAnchored, IsBoundary
<1>6. PopsAnchored'
  <2>1. ASSUME NEW i \in 1 .. n - 1
        PROVE  /\ pops'[i] = pops[i] /\ i \in 1..n /\ i < n /\ i \in DOMAIN pops
               /\ FromStart(i)' <=> FromStart(i)
               /\ pops[i].pending <= MaxCount + 1
    BY <1>2, <1>3 DEF Anchored, PopsAnchored, FromStart
  <2>2. ASSUME NEW i \in 1 .. n - 1, ~FromStart(i)
        PROVE  /\ pops[i].page <= Len(pages')
               /\ pops[i].stop <= Len(pages'[pops[i].page])
               /\ pages'[pops[i].page][pops[i].stop].ptr = POOL_BOUNDARY
    <3>1. pops[i].pending > 0
      BY <2>1 DEF Inv, Stack, PopsNested, n
    <3>2. IsBoundary(pops[i].page, pops[i].stop)
      BY <2>1, <2>2, <3>1, PopsStopAtBoundaries DEF n
    <3>3. pops[i].page \in Nat \ {0} /\ pops[i].stop \in Nat \ {0}
      BY <2>1, InvPops DEF n
    <3> QED
      BY <1>4, <3>2, <3>3
  <2>3. \A i, j \in 1 .. n - 1 : i < j /\ ~FromStart(i) =>
            Before(pops[i].page, pops[i].stop, pops[j].page, pops[j].stop)
    BY <2>1 DEF Anchored, PopsAnchored
  <2>4. \A i \in 1 .. n - 1, k \in DOMAIN tokens :
        IF k > pops[i].base
        THEN ~FromStart(i) =>
                Before(pops[i].page, pops[i].stop, tokens[k].page, tokens[k].slot)
        ELSE tokens[k].page # 0 =>
                Before(tokens[k].page, tokens[k].slot, pops[i].page, pops[i].stop)
    BY <2>1 DEF Anchored, PopsAnchored
  <2>5. \A i \in 1 .. n - 1 :
          /\ pops'[i] = pops[i] /\ (FromStart(i)' <=> FromStart(i))
          /\ pops'[i].pending <= MaxCount + 1
          /\ \/ FromStart(i)'
             \/ /\ pops'[i].page <= Len(pages')
                /\ pops'[i].stop <= Len(pages'[pops'[i].page])
                /\ pages'[pops'[i].page][pops'[i].stop].ptr = POOL_BOUNDARY
    BY <2>1, <2>2
  <2>6. \A i, j \in 1 .. n - 1 : i < j /\ ~FromStart(i)' =>
            Before(pops'[i].page, pops'[i].stop, pops'[j].page, pops'[j].stop)
    BY <2>3, <2>5
  <2>7. \A i \in 1 .. n - 1, k \in DOMAIN tokens' :
        IF k > pops'[i].base
        THEN ~FromStart(i)' =>
                Before(pops'[i].page, pops'[i].stop, tokens'[k].page, tokens'[k].slot)
        ELSE tokens'[k].page # 0 =>
                Before(tokens'[k].page, tokens'[k].slot, pops'[i].page, pops'[i].stop)
    BY <1>1, <2>4, <2>5
  <2> QED
    BY <1>3, <2>5, <2>6, <2>7 DEF PopsAnchored, IsBoundary
<1>7. ExitEmpties'
  <2>1. ASSUME exiting, pops' = <<>>, NEW p \in 1..Len(pages')
        PROVE  pages'[p] = <<>>
    <3>1. Len(pops') = 0
      BY <2>1
    <3>2. n = 1
      BY <1>2, <1>3, <3>1
    <3>3. Top.page = 1 /\ Top.stop = 1
      BY <1>1, <1>2, <2>1, <3>2 DEF Anchored, ExitEmpties, FromStart
    <3>4. hot = 1 /\ Len(pages[1]) = 0
      BY <1>1, <1>3, <3>3
    <3>5. p \in 1..Len(pages) /\ p \in DOMAIN pages
      BY <1>3, <2>1, InvNumbers, SMTT(20) DEF Inv, TypeOK
    <3>6. p > 1 => Len(pages[p]) = 0
      BY <3>4, <3>5 DEF Inv, Stack, PagesContiguous
    <3>7. Len(pages[p]) = 0 /\ pages[p] \in Seq(Entry)
      BY <3>4, <3>5, <3>6, InvNumbers
    <3> QED
      BY <1>3, <2>1, <3>7
  <2>2. ASSUME exiting, pops' # <<>> PROVE FromStart(1)'
    <3>1. 1 \in 1 .. n - 1
      <4>1. pops' \in Seq(Popping) /\ Len(pops') = n - 1
        BY <1>3 DEF Inv, TypeOK
      <4>2. Len(pops') # 0
        BY <2>2, <4>1
      <4> QED
        BY <1>2, <4>1, <4>2
    <3>2. pops'[1] = pops[1]
      BY <1>3, <3>1
    <3> QED
      BY <1>1, <2>2, <3>2 DEF Anchored, ExitEmpties, FromStart
  <2>3. DOMAIN pages' = 1..Len(pages')
    BY DEF Inv, TypeOK
  <2> QED
    BY <1>1, <2>1, <2>2, <2>3 DEF ExitEmpties, Empty
<1>8. NoBadPop'
  BY <1>1 DEF Anchored, NoBadPop
<1> QED
  BY <1>5, <1>6, <1>7, <1>8 DEF Anchored

\* The pop at thread exit is from the start.
LEMMA AnchoredThreadExit ==
    ASSUME Inv, Anchored, Inv', ThreadExit
    PROVE  Anchored'
<1> DEFINE new == [page |-> 1, stop |-> 1, pending |-> 0,
                   obj |-> POOL_BOUNDARY, base |-> Len(tokens')]
<1>1. /\ pops = <<>> /\ tokens' = <<>> /\ exiting' = TRUE
      /\ UNCHANGED <<setting, pages, hot, due>>
      /\ IF hot # 0 /\ ~Empty(1) THEN pops' = <<new>> /\ bad' = bad
         ELSE UNCHANGED <<pops, bad>>
  BY DEF ThreadExit, BeginPop
<1>2. DOMAIN tokens' = {}
  BY <1>1
<1>3. TokensAnchored'
  BY <1>2 DEF TokensAnchored
<1>4. CASE hot # 0 /\ ~Empty(1)
  <2>1. DOMAIN pops' = {1} /\ pops'[1] = new
    BY <1>1, <1>4
  <2>2. FromStart(1)' /\ pops'[1].pending = 0 /\ pops' # <<>>
    BY <2>1 DEF FromStart
  <2>3. PopsAnchored'
    BY <1>2, <2>1, <2>2, PoolAssumption DEF PopsAnchored
  <2> QED
    BY <1>1, <1>3, <1>4, <2>2, <2>3 DEF Anchored, ExitEmpties, NoBadPop
<1>5. CASE ~(hot # 0 /\ ~Empty(1))
  <2>1. pops' = <<>> /\ DOMAIN pops' = {} /\ bad' = bad
    BY <1>1, <1>5
  <2>2. PopsAnchored'
    BY <2>1 DEF PopsAnchored
  <2>3. ASSUME NEW p \in 1..Len(pages) PROVE pages[p] = <<>>
    <3>1. /\ hot # 0 /\ hot \in Nat /\ Len(pages) \in Nat /\ 1 \in DOMAIN pages
          /\ p \in DOMAIN pages
      BY <2>3, InvNumbers, SMTT(20) DEF Inv, TypeOK, Stack
    <3>2. pages[1] = <<>> /\ Len(pages[1]) = 0
      BY <1>5, <3>1 DEF Empty
    <3>3. ~(1 < hot)
      BY <3>1, <3>2, InvNumbers DEF Inv, Stack, PagesContiguous
    <3>4. p # 1 => Len(pages[p]) = 0
      BY <3>1, <3>3 DEF Inv, Stack, PagesContiguous
    <3>5. Len(pages[p]) = 0 /\ pages[p] \in Seq(Entry)
      BY <3>2, <3>4, InvNumbers
    <3> QED
      BY <3>5
  <2>4. DOMAIN pages = 1..Len(pages)
    BY DEF Inv, TypeOK
  <2> QED
    BY <1>1, <1>3, <2>1, <2>2, <2>3, <2>4 DEF Anchored, ExitEmpties, Empty, NoBadPop
<1> QED
  BY <1>4, <1>5

\* Neither tokens nor pops are left at the end of thread exit.
LEMMA AnchoredFinishExit ==
    ASSUME Inv, Anchored, Inv', FinishExit
    PROVE  Anchored'
<1>1. /\ exiting /\ pops = <<>> /\ exiting' = FALSE
      /\ UNCHANGED <<tokens, pops, bad>>
  BY DEF FinishExit
<1>2. DOMAIN tokens' = {} /\ DOMAIN pops' = {}
  BY <1>1 DEF Inv, Stack, TokensDropped
<1> QED
  BY <1>1, <1>2 DEF Anchored, TokensAnchored, PopsAnchored, ExitEmpties, NoBadPop

\* At the start there is nothing to anchor.
LEMMA AnchoredInit == Init => Anchored
<1> SUFFICES ASSUME Init PROVE Anchored
  OBVIOUS
<1>1. /\ DOMAIN tokens = {} /\ DOMAIN pops = {} /\ ~exiting /\ ~bad
  BY DEF Init
<1> QED
  BY <1>1 DEF Anchored, TokensAnchored, PopsAnchored, ExitEmpties, NoBadPop

\* Both parts of the invariant are kept by every step.
LEMMA AnchoredNext == Inv /\ Anchored /\ [Next]_vars => Anchored'
<1> SUFFICES ASSUME Inv, Anchored, [Next]_vars PROVE Anchored'
  OBVIOUS
<1>1. Inv'
  BY InvNext
<1>2. CASE UNCHANGED vars
  BY <1>2 DEF vars, Anchored, TokensAnchored, PopsAnchored, ExitEmpties, NoBadPop,
              FromStart, IsBoundary, Empty
<1>3. CASE Next
  BY <1>1, <1>3, AnchoredAutorelease, AnchoredPush, AnchoredPushPlaceholder,
     AnchoredPop, AnchoredPopPlaceholder, AnchoredTakeEntry, AnchoredReleased,
     AnchoredFinishPop, AnchoredThreadExit, AnchoredFinishExit DEF Next
<1> QED
  BY <1>2, <1>3

\* The setting is fixed when the process starts.
LEMMA SettingFixed == [Next]_vars => setting' = setting
BY DEF Next, vars, Autorelease, Push, PushPlaceholder, Pop, PopPlaceholder,
       TakeEntry, Released, FinishPop, ThreadExit, FinishExit

\* The whole inductive invariant.
LEMMA AnchoredHolds == Spec => [](Production => Inv /\ Anchored)
<1>1. Init => (Production => Inv /\ Anchored)
  BY InvInit, AnchoredInit
<1>2. (Production => Inv /\ Anchored) /\ [Next]_vars => (Production => Inv /\ Anchored)'
  <2> SUFFICES ASSUME Production => Inv /\ Anchored, [Next]_vars, Production'
               PROVE  (Inv /\ Anchored)'
    OBVIOUS
  <2>1. Production
    BY SettingFixed DEF Production
  <2> QED
    BY <2>1, InvNext, AnchoredNext
<1> QED
  BY <1>1, <1>2, PTL DEF Spec

\* A pool popped at most once, and not after one outside it, is always found.
THEOREM PoolsAreFound == Spec => [](Production => NoBadPop)
<1>1. (Production => Inv /\ Anchored) => (Production => NoBadPop)
  BY DEF Anchored
<1> QED
  BY <1>1, AnchoredHolds, PTL

\* The page a pop works on and the page of every token are never freed.
LEMMA NoDanglingFollows == Inv /\ Anchored => NoDanglingPage
<1> SUFFICES ASSUME Inv, Anchored PROVE NoDanglingPage
  OBVIOUS
<1>1. /\ DOMAIN pops = 1..Len(pops) /\ DOMAIN tokens = 1..Len(tokens)
      /\ Len(pages) \in Nat
  BY DEF Inv, TypeOK
<1>2. \A i \in 1..Len(pops) : pops[i].page <= Len(pages)
  BY <1>1, InvPops
<1>3. \A k \in 1..Len(tokens) : tokens[k].page <= Len(pages)
  <2> TAKE k \in 1..Len(tokens)
  <2>1. CASE tokens[k].page = 0
    BY <1>1, <2>1
  <2>2. CASE tokens[k].page # 0
    BY <1>1, <2>2, TokenBoundary
  <2> QED
    BY <2>1, <2>2
<1> QED
  BY <1>1, <1>2, <1>3 DEF NoDanglingPage

\* popPage never frees a page that push() or pop() still points to, nor one with
\* objects in it.
THEOREM PagesAreHeld == Spec => [](Production => PagesHold)
<1>1. (Production => Inv /\ Anchored) => (Production => PagesHold)
  BY NoDanglingFollows, InvImplies DEF PagesHold, StackInv, Inv
<1> QED
  BY <1>1, AnchoredHolds, PTL

-----------------------------------------------------------------------------
(* The pools around the one something is done in. *)

\* What is below a slot depends only on the entries there.
LEMMA SameBelow ==
    ASSUME pages \in Seq(Seq(Entry)), pages' \in Seq(Seq(Entry)),
           NEW p \in 1..Len(pages), NEW n \in Nat \ {0},
           p <= Len(pages'),
           n - 1 <= Len(pages[p]), n - 1 <= Len(pages'[p]),
           \A m \in 1 .. n - 1 : pages'[p][m] = pages[p][m],
           \A q \in 1 .. p - 1 : pages'[q] = pages[q]
    PROVE  Below(pages', p, n) = Below(pages, p, n)
<1>1. pages[p] \in Seq(Entry) /\ pages'[p] \in Seq(Entry)
  OBVIOUS
<1>2. SubSeq(pages', 1, p - 1) = SubSeq(pages, 1, p - 1)
  OBVIOUS
<1> DEFINE s == pages[p]
           t == pages'[p]
<1>3. s \in Seq(Entry) /\ t \in Seq(Entry) /\ n - 1 \in Nat
      /\ n - 1 <= Len(s) /\ n - 1 <= Len(t)
      /\ \A m \in 1 .. n - 1 : t[m] = s[m]
  BY <1>1, SMTT(20)
<1> HIDE DEF s, t
<1>4. SubSeq(t, 1, n - 1) = SubSeq(s, 1, n - 1)
  BY <1>3
<1> QED
  BY <1>2, <1>4 DEF Below, s, t

\* The entries below a boundary that is kept.
LEMMA KeptIsBelow ==
    ASSUME Inv, pages' \in Seq(Seq(Entry)), BoundariesKept,
           NEW p \in Nat \ {0}, NEW n \in Nat \ {0}, IsBoundary(p, n)
    PROVE  Below(pages', p, n) = Below(pages, p, n)
<1>1. /\ pages \in Seq(Seq(Entry)) /\ p \in 1..Len(pages) /\ n \in 1..Len(pages[p])
      /\ pages[p][n].ptr = POOL_BOUNDARY
  BY BoundaryPlace DEF Inv, TypeOK, IsBoundary
<1>2. KeptUpTo(p, n)
  BY <1>1 DEF BoundariesKept
<1>3. /\ p <= Len(pages') /\ n <= Len(pages'[p])
      /\ \A m \in 1..n : pages'[p][m] = pages[p][m]
      /\ \A q \in 1 .. p - 1 : pages'[q] = pages[q]
  BY <1>2 DEF KeptUpTo
<1>4. Len(pages[p]) \in Nat /\ Len(pages'[p]) \in Nat
  <2>1. p \in 1..Len(pages')
    BY <1>3
  <2>2. pages'[p] \in Seq(Entry)
    BY <2>1
  <2> QED
    BY <1>1, <2>2, InvNumbers, SMTT(20)
<1>5. /\ n - 1 <= Len(pages[p]) /\ n - 1 <= Len(pages'[p])
      /\ \A m \in 1 .. n - 1 : pages'[p][m] = pages[p][m]
  BY <1>1, <1>3, <1>4, SMTT(20)
<1> QED
  BY <1>1, <1>3, <1>5, SameBelow

\* Adding an entry leaves what is below the pools and the pops.
LEMMA OuterPlace ==
    ASSUME Inv, Anchored, Running, NEW o \in Objects \cup {POOL_BOUNDARY},
           Place(o, FALSE), UNCHANGED pops
    PROVE  LeavesOuterPools
<1>1. BoundariesKept /\ pages' \in Seq(Seq(Entry)) /\ Len(pages') >= Len(pages)
  BY InvShape, PlaceKeeps, PlaceGrows DEF Grows
<1>2. DOMAIN tokens = 1..Len(tokens) /\ DOMAIN pops = 1..Len(pops)
  BY DEF Inv, TypeOK
<1>3. ASSUME NEW k \in 1..Len(tokens), tokens[k].page # 0
      PROVE  Below(pages', tokens[k].page, tokens[k].slot)
                = Below(pages, tokens[k].page, tokens[k].slot)
  BY <1>1, <1>3, TokenBoundary, KeptIsBelow
<1>4. ASSUME NEW i \in 1..Len(pops)
      PROVE  Below(pages', pops[i].page, pops[i].stop)
                = Below(pages, pops[i].page, pops[i].stop)
  <2>1. CASE FromStart(i)
    <3>1. SubSeq(pages', 1, 0) = SubSeq(pages, 1, 0)
      BY <1>1 DEF Inv, TypeOK
    <3>2. /\ 1 \in 1..Len(pages) /\ 1 \in 1..Len(pages')
      BY <1>1, <2>1, InvPops, InvNumbers DEF FromStart
    <3>3. pages[1] \in Seq(Entry) /\ pages'[1] \in Seq(Entry)
      BY <1>1, <3>2, InvNumbers
    <3>4. SubSeq(pages'[1], 1, 0) = <<>> /\ SubSeq(pages[1], 1, 0) = <<>>
      BY <3>3
    <3> QED
      BY <2>1, <3>1, <3>4 DEF FromStart, Below
  <2>2. CASE ~FromStart(i)
    <3>1. pops[i].page \in Nat \ {0} /\ pops[i].stop \in Nat \ {0}
      BY InvPops
    <3> QED
      BY <1>1, <2>2, <3>1, PopBoundary, KeptIsBelow
  <2> QED
    BY <2>1, <2>2
<1> QED
  BY <1>2, <1>3, <1>4 DEF LeavesOuterPools

\* Taking the last entry leaves what is below any other, and below itself.
LEMMA TakenKeepsBelow ==
    ASSUME Inv, Inv', NEW p \in 1..hot, TakeEntry(p),
           NEW q \in 1..Len(pages), NEW r \in Nat \ {0}, r <= Len(pages[q]) + 1,
           NotAfter(q, r, p, Len(pages[p]))
    PROVE  Below(pages', q, r) = Below(pages, q, r)
<1> DEFINE t == SubSeq(pages[p], 1, Len(pages[p]) - 1)
<1>1. pages' = [pages EXCEPT ![p] = t]
  BY DEF TakeEntry
<1>2. /\ p \in 1..Len(pages) /\ p \in Nat /\ pages[p] \in Seq(Entry)
      /\ Len(pages[p]) \in Nat /\ Len(pages[q]) \in Nat /\ Len(pages) \in Nat
      /\ pages \in Seq(Seq(Entry)) /\ pages' \in Seq(Seq(Entry))
  <2>1. p \in 1..Len(pages) /\ p \in Nat /\ Len(pages) \in Nat
    BY InvNumbers
  <2>2. pages \in Seq(Seq(Entry)) /\ pages' \in Seq(Seq(Entry))
    BY DEF Inv, TypeOK
  <2> QED
    BY <2>1, <2>2, InvNumbers
<1>3. Len(pages[p]) # 0
  <2>1. pages[p] # <<>>
    BY DEF TakeEntry, IsHottest, Empty
  <2> QED
    BY <1>2, <2>1
<1>4. /\ Len(t) = Len(pages[p]) - 1
      /\ \A m \in 1 .. Len(pages[p]) - 1 : t[m] = pages[p][m]
  BY <1>2, <1>3
<1> HIDE DEF t
<1>5. /\ Len(pages') = Len(pages) /\ pages'[p] = t
      /\ \A x \in 1..Len(pages) : x # p => pages'[x] = pages[x]
  BY <1>1, <1>2
<1>6. q <= p
  BY DEF NotAfter
<1>7. \A x \in 1 .. q - 1 : pages'[x] = pages[x]
  <2> TAKE x \in 1 .. q - 1
  <2>1. q \in Nat /\ q <= Len(pages)
    BY <1>2
  <2>2. x \in 1..Len(pages) /\ x # p
    BY <1>2, <1>6, <2>1
  <2> QED
    BY <1>5, <2>2
<1>8. CASE q = p
  <2>1. r <= Len(pages[p])
    BY <1>2, <1>8 DEF NotAfter
  <2>2. /\ r - 1 <= Len(pages[q]) /\ r - 1 <= Len(pages'[q])
        /\ \A m \in 1 .. r - 1 : pages'[q][m] = pages[q][m]
    <3>1. r - 1 <= Len(pages[p]) /\ r - 1 <= Len(pages[p]) - 1
      BY <1>2, <2>1
    <3>2. \A m \in 1 .. r - 1 : t[m] = pages[p][m]
      BY <1>2, <1>4, <3>1
    <3> QED
      BY <1>4, <1>5, <1>8, <3>1, <3>2
  <2>3. q <= Len(pages')
    BY <1>2, <1>5
  <2> QED
    BY <1>2, <1>7, <2>2, <2>3, SameBelow
<1>9. CASE q # p
  <2>1. pages'[q] = pages[q]
    BY <1>5, <1>9
  <2>2. r - 1 <= Len(pages[q])
    BY <1>2
  <2>3. q <= Len(pages') /\ r - 1 <= Len(pages'[q])
    BY <1>2, <1>5, <2>1, <2>2
  <2>4. \A m \in 1 .. r - 1 : pages'[q][m] = pages[q][m]
    BY <2>1
  <2> QED
    BY <1>2, <1>7, <2>2, <2>3, <2>4, SameBelow
<1> QED
  BY <1>8, <1>9

\* So releaseUntil leaves what is below the pools and the pops.
LEMMA OuterTakeEntry ==
    ASSUME Inv, Anchored, Inv', NEW p \in 1..hot, TakeEntry(p)
    PROVE  LeavesOuterPools
<1>1. /\ DOMAIN tokens = 1..Len(tokens) /\ DOMAIN pops = 1..Len(pops)
      /\ p \in Nat /\ hot \in Nat
  BY InvNumbers DEF Inv, TypeOK
<1>2. pops # <<>> /\ Len(pages[Top.page]) # Top.stop - 1 /\ IsHottest(p)
  BY DEF TakeEntry, Releasing
<1>3. /\ Top.page \in 1..Len(pages) /\ Top.page <= hot /\ Len(pages[Top.page]) \in Nat
      /\ Top.stop \in Nat \ {0} /\ Top.stop <= Len(pages[Top.page]) + 1
      /\ \A i \in 1..Len(pops) :
            \/ pops[i].page < Top.page
            \/ pops[i].page = Top.page /\ pops[i].stop <= Top.stop
  BY <1>2, TopFacts, InvNumbers
<1>4. NotAfter(Top.page, Top.stop, p, Len(pages[p]))
  <2>1. Top.stop <= Len(pages[Top.page])
    BY <1>2, <1>3, SMTT(20)
  <2>2. Top.page > p => Top.page \in p + 1 .. hot
    BY <1>1, <1>3
  <2>3. Top.page > p => pages[Top.page] = <<>>
    BY <1>2, <2>2 DEF IsHottest, Empty
  <2>4. Top.page > p => Len(pages[Top.page]) = 0
    BY <2>3
  <2> QED
    BY <1>1, <1>3, <2>1, <2>4 DEF NotAfter
<1>5. ASSUME NEW k \in 1..Len(tokens), tokens[k].page # 0
      PROVE  Below(pages', tokens[k].page, tokens[k].slot)
                = Below(pages, tokens[k].page, tokens[k].slot)
  <2>1. /\ tokens[k].page \in 1..Len(pages) /\ tokens[k].page \in Nat \ {0}
        /\ tokens[k].slot \in Nat \ {0} /\ tokens[k].slot \in 1..Len(pages[tokens[k].page])
        /\ IsBoundary(tokens[k].page, tokens[k].slot)
    BY <1>5, TokenBoundary
  <2>2. NotAfter(tokens[k].page, tokens[k].slot, p, Len(pages[p]))
    <3>1. Len(pages[p]) \in Nat
      BY InvNumbers
    <3>2. \/ Before(tokens[k].page, tokens[k].slot, p, Len(pages[p]))
          \/ tokens[k].page = p /\ tokens[k].slot = Len(pages[p])
      BY <2>1, TakenIsLast
    <3> QED
      BY <1>1, <2>1, <3>1, <3>2 DEF Before, NotAfter
  <2>3. tokens[k].slot <= Len(pages[tokens[k].page]) + 1
    BY <2>1, InvNumbers
  <2> QED
    BY <2>1, <2>2, <2>3, TakenKeepsBelow
<1>6. ASSUME NEW i \in 1..Len(pops)
      PROVE  Below(pages', pops[i].page, pops[i].stop)
                = Below(pages, pops[i].page, pops[i].stop)
  <2>1. /\ pops[i].page \in 1..Len(pages) /\ pops[i].stop \in Nat \ {0}
        /\ pops[i].stop <= Len(pages[pops[i].page]) + 1
    BY InvPops
  <2>2. NotAfter(pops[i].page, pops[i].stop, p, Len(pages[p]))
    <3>1. Len(pages[p]) \in Nat
      BY InvNumbers
    <3>2. \/ pops[i].page < Top.page
          \/ pops[i].page = Top.page /\ pops[i].stop <= Top.stop
      BY <1>3
    <3> QED
      BY <1>1, <1>3, <1>4, <2>1, <3>1, <3>2, SMTT(20) DEF NotAfter
  <2> QED
    BY <2>1, <2>2, TakenKeepsBelow
<1> QED
  BY <1>1, <1>5, <1>6 DEF LeavesOuterPools

\* The end of a pop leaves the pages up to the hot one.
LEMMA OuterFinishPop ==
    ASSUME Inv, Anchored, Inv', FinishPop
    PROVE  LeavesOuterPools
<1>1. /\ DOMAIN tokens = 1..Len(tokens) /\ DOMAIN pops = 1..Len(pops)
      /\ hot \in Nat /\ Len(pages) \in Nat
      /\ pages \in Seq(Seq(Entry)) /\ pages' \in Seq(Seq(Entry))
  BY InvNumbers DEF Inv, TypeOK
<1>2. Len(pages') \in hot..Len(pages) /\ \A q \in 1..hot : pages'[q] = pages[q]
  BY FinishPopKeeps
<1>3. ASSUME NEW p \in 1..hot, NEW n \in Nat \ {0}, p \in 1..Len(pages),
             n <= Len(pages[p]) + 1
      PROVE  Below(pages', p, n) = Below(pages, p, n)
  <2>1. Len(pages[p]) \in Nat /\ pages'[p] = pages[p] /\ p <= Len(pages')
    <3>1. Len(pages[p]) \in Nat
      BY <1>3, InvNumbers
    <3> QED
      BY <1>1, <1>2, <1>3, <3>1
  <2>2. n - 1 <= Len(pages[p]) /\ \A q \in 1 .. p - 1 : pages'[q] = pages[q]
    BY <1>1, <1>2, <1>3, <2>1
  <2> QED
    BY <1>1, <1>3, <2>1, <2>2, SameBelow
<1>4. ASSUME NEW k \in 1..Len(tokens), tokens[k].page # 0
      PROVE  Below(pages', tokens[k].page, tokens[k].slot)
                = Below(pages, tokens[k].page, tokens[k].slot)
  <2>1. /\ tokens[k].page \in Nat \ {0} /\ tokens[k].slot \in Nat \ {0}
        /\ tokens[k].page \in 1..Len(pages) /\ tokens[k].page <= hot
        /\ tokens[k].slot \in 1..Len(pages[tokens[k].page])
    BY <1>4, TokenBoundary
  <2>2. tokens[k].page \in 1..hot /\ tokens[k].slot <= Len(pages[tokens[k].page]) + 1
    BY <1>1, <2>1, InvNumbers, SMTT(20)
  <2> QED
    BY <1>3, <2>1, <2>2
<1>5. ASSUME NEW i \in 1..Len(pops)
      PROVE  Below(pages', pops[i].page, pops[i].stop)
                = Below(pages, pops[i].page, pops[i].stop)
  <2>1. /\ pops[i].page \in 1..Len(pages) /\ pops[i].page \in 1..hot
        /\ pops[i].stop \in Nat \ {0} /\ pops[i].stop <= Len(pages[pops[i].page]) + 1
    BY <1>1, InvPops, SMTT(20)
  <2> QED
    BY <1>3, <2>1
<1> QED
  BY <1>1, <1>4, <1>5 DEF LeavesOuterPools

\* The other steps leave the pages, or come when there are neither pools nor pops.
LEMMA OuterNext == Inv /\ Anchored /\ Next => LeavesOuterPools
<1> SUFFICES ASSUME Inv, Anchored, Next PROVE LeavesOuterPools
  OBVIOUS
<1>1. Inv'
  BY InvNext
<1>2. CASE UNCHANGED pages
  BY <1>2 DEF LeavesOuterPools
<1>3. ASSUME NEW o \in Objects, Autorelease(o) PROVE LeavesOuterPools
  BY <1>3, OuterPlace DEF Autorelease
<1>4. CASE Push
  <2>1. Place(POOL_BOUNDARY, FALSE)
    BY <1>4 DEF Push, Inv, Production, Place
  <2> QED
    BY <1>4, <2>1, OuterPlace DEF Push
<1>5. ASSUME NEW p \in 1..hot, TakeEntry(p) PROVE LeavesOuterPools
  BY <1>1, <1>5, OuterTakeEntry
<1>6. CASE FinishPop
  BY <1>1, <1>6, OuterFinishPop
<1>7. CASE FinishExit
  <2>1. DOMAIN tokens = {} /\ DOMAIN pops = {}
    BY <1>7 DEF FinishExit, Inv, Stack, TokensDropped
  <2> QED
    BY <2>1 DEF LeavesOuterPools
<1> QED
  BY <1>2, <1>3, <1>4, <1>5, <1>6, <1>7
     DEF Next, PushPlaceholder, Pop, PopPlaceholder, Released, ThreadExit

\* Without pool debugging nothing done inside a pool reaches the pools around it:
\* no coalescing and no pop changes an entry below the boundary of a pool that
\* stays, nor below the place where a pop in progress stops.
THEOREM OuterPoolsStay == Spec /\ Production => OuterPoolsUntouched
<1>1. Production /\ [Next]_vars => Production'
  BY SettingFixed DEF Production
<1>2. (Production => Inv /\ Anchored) /\ Production /\ [Next]_vars => [LeavesOuterPools]_vars
  BY OuterNext
<1> QED
  BY <1>1, <1>2, AnchoredHolds, PTL DEF Spec, OuterPoolsUntouched

-----------------------------------------------------------------------------
(* What each object is owed. *)

\* A one-to-one map onto T counts T.
LEMMA SameCardinality ==
    ASSUME NEW S, NEW T, IsFiniteSet(S), NEW f \in [S -> T],
           \A x, y \in S : f[x] = f[y] => x = y,
           \A y \in T : \E x \in S : f[x] = y
    PROVE  IsFiniteSet(T) /\ Cardinality(T) = Cardinality(S)
<1>1. f \in Bijection(S, T)
  BY Fun_IsBij
<1>2. ExistsBijection(S, T)
  BY <1>1 DEF ExistsBijection
<1> QED
  BY <1>2, FS_Bijection

\* Triples from finite sets are finitely many.
LEMMA TriplesFinite ==
    ASSUME NEW A, NEW B, NEW C, IsFiniteSet(A), IsFiniteSet(B), IsFiniteSet(C)
    PROVE  IsFiniteSet(A \X B \X C)
<1> DEFINE S == A \X (B \X C)
           T == A \X B \X C
           f == [x \in S |-> <<x[1], x[2][1], x[2][2]>>]
<1>1. IsFiniteSet(S)
  BY FS_Product
<1>2. f \in [S -> T]
  OBVIOUS
<1>3. \A y \in T : \E x \in S : f[x] = y
  <2> TAKE y \in T
  <2> DEFINE x == <<y[1], <<y[2], y[3]>>>>
  <2>1. x \in S
    OBVIOUS
  <2>2. f[x] = y
    BY <2>1
  <2> QED
    BY <2>1, <2>2
<1> HIDE DEF f, S, T
<1>4. f \in Surjection(S, T)
  BY <1>2, <1>3, Fun_IsSurj
<1> QED
  BY <1>1, <1>4, FS_Surjection DEF T

\* The pairs of a and the numbers from 1 to n.
LEMMA CountPairs ==
    ASSUME NEW a, NEW n \in Nat
    PROVE  /\ IsFiniteSet({a} \X (1..n))
           /\ Cardinality({a} \X (1..n)) = n
<1>1. IsFiniteSet(1..n) /\ Cardinality(1..n) = n
  BY FS_Interval
<1>2. IsFiniteSet({a}) /\ Cardinality({a}) = 1
  BY FS_Singleton
<1> QED
  BY <1>1, <1>2, FS_Product

\* What is owed is counted by finite sets.
LEMMA OwedFinite ==
    ASSUME Inv, NEW o
    PROVE  /\ IsFiniteSet(OnPages(o)) /\ Cardinality(OnPages(o)) \in Nat
           /\ IsFiniteSet(InPops(o)) /\ Cardinality(InPops(o)) \in Nat
<1>1. /\ IsFiniteSet(DOMAIN pages) /\ IsFiniteSet(DOMAIN pops)
      /\ IsFiniteSet(1..Capacity) /\ IsFiniteSet(0..MaxCount)
      /\ IsFiniteSet(1 .. MaxCount + 1)
  <2>1. /\ DOMAIN pages = 1..Len(pages) /\ Len(pages) \in Nat
        /\ DOMAIN pops = 1..Len(pops) /\ Len(pops) \in Nat
        /\ Capacity \in Nat /\ MaxCount \in Nat
    BY InvNumbers, PoolAssumption DEF Inv, TypeOK
  <2>2. \A n \in Nat : IsFiniteSet(1..n) /\ IsFiniteSet(0..n)
    BY FS_Interval
  <2>3. MaxCount + 1 \in Nat
    BY <2>1
  <2> QED
    BY <2>1, <2>2, <2>3
<1>2. IsFiniteSet((DOMAIN pages) \X (1..Capacity) \X (0..MaxCount))
  BY <1>1, TriplesFinite
<1>3. IsFiniteSet((DOMAIN pops) \X (1 .. MaxCount + 1))
  BY <1>1, FS_Product
<1>4. OnPages(o) \in SUBSET ((DOMAIN pages) \X (1..Capacity) \X (0..MaxCount))
  BY DEF OnPages
<1>5. InPops(o) \in SUBSET ((DOMAIN pops) \X (1 .. MaxCount + 1))
  BY DEF InPops
<1>6. IsFiniteSet(OnPages(o)) /\ IsFiniteSet(InPops(o))
  BY <1>2, <1>3, <1>4, <1>5, FS_Subset
<1> QED
  BY <1>6, FS_CardinalityType

\* The members of the two sets.
OnPagesMembers ==
    \A o :
        /\ \A x \in OnPages(o) : x = <<x[1], x[2], x[3]>>
        /\ \A p, j, c : <<p, j, c>> \in OnPages(o) <=>
                /\ p \in 1..Len(pages) /\ j \in 1..Len(pages[p])
                /\ pages[p][j].ptr = o /\ c \in 0..pages[p][j].count

InPopsMembers ==
    \A o :
        /\ \A x \in InPops(o) : x = <<x[1], x[2]>>
        /\ \A i, c : <<i, c>> \in InPops(o) <=>
                /\ i \in 1..Len(pops) /\ pops[i].obj = o
                /\ c \in 1..pops[i].pending

\* OnPages(o) holds one member for every autorelease an entry of o stands for: the
\* entry itself and each that coalesced into its count.
LEMMA OnPagesAre == Inv => OnPagesMembers
<1> SUFFICES ASSUME Inv, NEW o
             PROVE  /\ \A x \in OnPages(o) : x = <<x[1], x[2], x[3]>>
                    /\ \A p, j, c : <<p, j, c>> \in OnPages(o) <=>
                         /\ p \in 1..Len(pages) /\ j \in 1..Len(pages[p])
                         /\ pages[p][j].ptr = o /\ c \in 0..pages[p][j].count
  BY DEF OnPagesMembers
<1>1. /\ DOMAIN pages = 1..Len(pages) /\ Capacity \in Nat
      /\ \A p \in 1..Len(pages) : /\ pages[p] \in Seq(Entry)
                                  /\ Len(pages[p]) \in Nat /\ Len(pages[p]) <= Capacity
  BY InvNumbers DEF Inv, TypeOK, Stack, PagesContiguous
<1>2. \A p \in 1..Len(pages) : \A j \in 1..Len(pages[p]) :
        pages[p][j].count \in 0..MaxCount /\ j \in 1..Capacity
  <2> TAKE p \in 1..Len(pages)
  <2> TAKE j \in 1..Len(pages[p])
  <2>1. pages[p][j] \in Entry
    BY <1>1
  <2> QED
    BY <1>1, <2>1 DEF Entry
<1>3. \A x \in OnPages(o) : x = <<x[1], x[2], x[3]>>
  BY DEF OnPages
<1>4. ASSUME NEW p, NEW j, NEW c
      PROVE  <<p, j, c>> \in OnPages(o) <=>
                /\ p \in 1..Len(pages) /\ j \in 1..Len(pages[p])
                /\ pages[p][j].ptr = o /\ c \in 0..pages[p][j].count
  <2>1. <<p, j, c>> \in OnPages(o) <=>
            /\ p \in 1..Len(pages) /\ j \in 1..Capacity /\ c \in 0..MaxCount
            /\ j <= Len(pages[p]) /\ pages[p][j].ptr = o /\ c <= pages[p][j].count
    BY <1>1 DEF OnPages
  <2>2. p \in 1..Len(pages) => Len(pages[p]) \in Nat
    BY <1>1
  <2>3. /\ p \in 1..Len(pages) /\ j \in 1..Len(pages[p]) =>
                pages[p][j].count \in 0..MaxCount /\ j \in 1..Capacity
        /\ MaxCount \in Nat
    BY <1>2, PoolAssumption
  <2>4. p \in 1..Len(pages) /\ j \in 1..Capacity =>
            (j <= Len(pages[p]) <=> j \in 1..Len(pages[p]))
    BY <2>2, <1>1
  <2> QED
    BY <2>1, <2>2, <2>3, <2>4
<1> QED
  BY <1>3, <1>4

\* InPops(o) holds one member for every release of o a pop still has to send.
LEMMA InPopsAre == Inv /\ Anchored => InPopsMembers
<1> SUFFICES ASSUME Inv, Anchored PROVE InPopsMembers
  OBVIOUS
<1>1. /\ DOMAIN pops = 1..Len(pops) /\ MaxCount \in Nat
      /\ \A i \in 1..Len(pops) : /\ pops[i].pending \in Nat
                                 /\ pops[i].pending <= MaxCount + 1
  <2>1. DOMAIN pops = 1..Len(pops)
    BY DEF Inv, TypeOK
  <2>2. MaxCount \in Nat
    BY PoolAssumption
  <2>3. \A i \in 1..Len(pops) : pops[i].pending \in Nat
    BY InvPops
  <2>4. \A i \in 1..Len(pops) : pops[i].pending <= MaxCount + 1
    BY <2>1 DEF Anchored, PopsAnchored
  <2> QED
    BY <2>1, <2>2, <2>3, <2>4
<1> QED
  BY <1>1 DEF InPops, InPopsMembers

\* The same of the next state.
LEMMA NextMembers ==
    /\ Inv' => OnPagesMembers'
    /\ Inv' /\ Anchored' => InPopsMembers'
<1>1. Inv => OnPagesMembers
  BY OnPagesAre
<1>2. Inv /\ Anchored => InPopsMembers
  BY InPopsAre
<1> QED
  BY <1>1, <1>2, PTL

\* A new entry at the end of page h, which is there or is the next one.
LEMMA CountAppended ==
    ASSUME Inv, Inv', NEW o, NEW x, NEW h \in 1..Len(pages'), NEW l \in Nat \ {0},
           Len(pages) <= Len(pages'),
           \A p \in 1..Len(pages') :
                p # h => p \in 1..Len(pages) /\ pages'[p] = pages[p],
           Len(pages'[h]) = l,
           IF h <= Len(pages) THEN Len(pages[h]) = l - 1 ELSE l = 1,
           \A m \in 1 .. l - 1 : pages'[h][m] = pages[h][m],
           pages'[h][l] = [ptr |-> x, count |-> 0]
    PROVE  Cardinality(OnPages(o)') =
                Cardinality(OnPages(o)) + (IF x = o THEN 1 ELSE 0)
<1> DEFINE S == OnPages(o)
           T == OnPages(o)'
           new == <<h, l, 0>>
<1>1. /\ Len(pages) \in Nat /\ Len(pages') \in Nat /\ h \in Nat /\ h >= 1
      /\ OnPagesMembers /\ OnPagesMembers'
  BY InvNumbers, OnPagesAre, NextMembers, SMTT(20) DEF Inv, TypeOK
<1>2. /\ \A y \in S : y = <<y[1], y[2], y[3]>>
      /\ \A p, j, c : <<p, j, c>> \in S <=>
                /\ p \in 1..Len(pages) /\ j \in 1..Len(pages[p])
                /\ pages[p][j].ptr = o /\ c \in 0..pages[p][j].count
  BY <1>1 DEF OnPagesMembers
<1>3. /\ \A y \in T : y = <<y[1], y[2], y[3]>>
      /\ \A p, j, c : <<p, j, c>> \in T <=>
                /\ p \in 1..Len(pages') /\ j \in 1..Len(pages'[p])
                /\ pages'[p][j].ptr = o /\ c \in 0..pages'[p][j].count
  BY <1>1 DEF OnPagesMembers
<1>4. IsFiniteSet(S) /\ Cardinality(S) \in Nat
  BY OwedFinite
<1> HIDE DEF S, T
<1>5. ASSUME NEW p, NEW j, NEW c, <<p, j, c>> # new
      PROVE  <<p, j, c>> \in T <=> <<p, j, c>> \in S
  <2>1. CASE p # h
    <3>1. p \in 1..Len(pages) <=> p \in 1..Len(pages')
      BY <1>1, <2>1
    <3>2. p \in 1..Len(pages') => pages'[p] = pages[p]
      BY <2>1
    <3> QED
      BY <1>2, <1>3, <3>1, <3>2, SMTT(20)
  <2>2. CASE p = h
    <3>1. CASE j = l
      <4>1. <<p, j, c>> \in T => c \in 0..0
        BY <1>3, <2>2, <3>1
      <4>2. <<p, j, c>> \in S => p \in 1..Len(pages) /\ j \in 1..Len(pages[p])
        BY <1>2
      <4>3. ~(<<p, j, c>> \in S)
        BY <1>1, <2>2, <3>1, <4>2
      <4> QED
        BY <1>5, <2>2, <3>1, <4>1, <4>3
    <3>2. CASE j # l
      <4>1. <<p, j, c>> \in T =>
                /\ j \in 1 .. l - 1 /\ pages[h][j].ptr = o /\ c \in 0..pages[h][j].count
        BY <1>3, <2>2, <3>2, SMTT(20)
      <4>2. j \in 1 .. l - 1 => h \in 1..Len(pages) /\ Len(pages[h]) = l - 1
        BY <1>1
      <4>3. <<p, j, c>> \in S =>
                j \in 1 .. l - 1 /\ pages'[h][j].ptr = o /\ c \in 0..pages'[h][j].count
        BY <1>1, <1>2, <2>2, SMTT(20)
      <4>4. j \in 1 .. l - 1 => j \in 1..l
        OBVIOUS
      <4> QED
        BY <1>2, <1>3, <2>2, <4>1, <4>2, <4>3, <4>4
    <3> QED
      BY <3>1, <3>2
  <2> QED
    BY <2>1, <2>2
<1>6. new \notin S
  <2>1. new \in S => h \in 1..Len(pages) /\ l \in 1..Len(pages[h])
    BY <1>2
  <2> QED
    BY <1>1, <2>1
<1>7. new \in T <=> x = o
  <2>1. l \in 1..Len(pages'[h]) /\ pages'[h][l].ptr = x /\ 0 \in 0..pages'[h][l].count
    BY <1>1
  <2> QED
    BY <1>3, <2>1
<1>8. \A y \in S \cup T : y = <<y[1], y[2], y[3]>>
  BY <1>2, <1>3
<1> HIDE DEF new
<1>9. ASSUME NEW y, y # new PROVE y \in T <=> y \in S
  <2>1. CASE y \in S \cup T
    <3>1. y = <<y[1], y[2], y[3]>>
      BY <1>8, <2>1
    <3>2. <<y[1], y[2], y[3]>> # new
      BY <1>9, <3>1
    <3>3. <<y[1], y[2], y[3]>> \in T <=> <<y[1], y[2], y[3]>> \in S
      BY <1>5, <3>2
    <3> QED
      BY <3>1, <3>3
  <2>2. CASE y \notin S \cup T
    BY <2>2
  <2> QED
    BY <2>1, <2>2
<1>10. CASE x = o
  <2>1. T = S \cup {new}
    BY <1>7, <1>9, <1>10
  <2> QED
    <3>1. Cardinality(S \cup {new}) = Cardinality(S) + 1
      BY <1>4, <1>6, FS_AddElement
    <3>2. Cardinality(T) = Cardinality(S) + 1
      BY <2>1, <3>1
    <3> QED
      BY <1>4, <1>10, <3>2 DEF S, T
<1>11. CASE x # o
  <2>1. T = S
    <3>1. new \notin T /\ new \notin S
      BY <1>6, <1>7, <1>11
    <3>2. \A y : y \in T <=> y \in S
      BY <1>9, <3>1
    <3> QED
      BY <3>2
  <2> QED
    BY <1>4, <1>11, <2>1 DEF S, T
<1> QED
  BY <1>10, <1>11

\* Entry i of page h is moved to the top with one release more.
LEMMA CountCoalesced ==
    ASSUME Inv, Inv', NEW o, NEW h \in 1..Len(pages), NEW i \in 1..Len(pages[h]),
           pages[h][i].count < MaxCount,
           pages' = [pages EXCEPT ![h] = Coalesce(pages[h], i)]
    PROVE  Cardinality(OnPages(o)') =
                Cardinality(OnPages(o)) + (IF pages[h][i].ptr = o THEN 1 ELSE 0)
<1> DEFINE S == OnPages(o)
           T == OnPages(o)'
           n == Len(pages[h])
           k == pages[h][i].count
           new == <<h, n, k + 1>>
           To(p, j) == IF p # h \/ j < i THEN j ELSE IF j = i THEN n ELSE j - 1
           From(p, j) == IF p # h \/ j < i THEN j ELSE IF j = n THEN i ELSE j + 1
           f == [y \in S |-> <<y[1], To(y[1], y[2]), y[3]>>]
<1>1. /\ Len(pages) \in Nat /\ n \in Nat /\ i \in Nat /\ i >= 1 /\ i <= n
      /\ OnPagesMembers /\ OnPagesMembers' /\ pages[h] \in Seq(Entry)
      /\ pages \in Seq(Seq(Entry))
  <2>1. pages[h] \in Seq(Entry) /\ pages \in Seq(Seq(Entry)) /\ Len(pages) \in Nat
    BY InvNumbers DEF Inv, TypeOK
  <2> QED
    BY <2>1, OnPagesAre, NextMembers
<1>2. /\ \A y \in S : y = <<y[1], y[2], y[3]>>
      /\ \A p, j, c : <<p, j, c>> \in S <=>
                /\ p \in 1..Len(pages) /\ j \in 1..Len(pages[p])
                /\ pages[p][j].ptr = o /\ c \in 0..pages[p][j].count
  BY <1>1 DEF OnPagesMembers
<1>3. /\ \A y \in T : y = <<y[1], y[2], y[3]>>
      /\ \A p, j, c : <<p, j, c>> \in T <=>
                /\ p \in 1..Len(pages') /\ j \in 1..Len(pages'[p])
                /\ pages'[p][j].ptr = o /\ c \in 0..pages'[p][j].count
  BY <1>1 DEF OnPagesMembers
<1>4. IsFiniteSet(S) /\ Cardinality(S) \in Nat
  BY OwedFinite
<1>5. k \in Nat
  <2>1. pages[h][i] \in Entry
    BY <1>1
  <2> QED
    BY <2>1, PoolAssumption DEF Entry
<1> HIDE DEF S, T, n, k
<1>6. /\ Len(pages') = Len(pages)
      /\ \A p \in 1..Len(pages) : p # h => pages'[p] = pages[p]
      /\ Len(pages'[h]) = n
      /\ \A m \in 1 .. i - 1 : pages'[h][m] = pages[h][m]
      /\ \A m \in i .. n - 1 : pages'[h][m] = pages[h][m + 1]
      /\ pages'[h][n].ptr = pages[h][i].ptr /\ pages'[h][n].count = k + 1
  <2> DEFINE z == Coalesce(pages[h], i)
  <2>1. /\ Len(z) = n
        /\ \A m \in 1 .. i - 1 : z[m] = pages[h][m]
        /\ \A m \in i .. n - 1 : z[m] = pages[h][m + 1]
        /\ z[n] = [ptr |-> pages[h][i].ptr, count |-> k + 1]
    BY <1>1, CoalesceEntries DEF n, k
  <2> HIDE DEF z
  <2>2. /\ Len(pages') = Len(pages) /\ pages'[h] = z
        /\ \A p \in 1..Len(pages) : p # h => pages'[p] = pages[p]
    BY <1>1 DEF z
  <2> QED
    BY <2>1, <2>2
\* The entry at p, j has moved to p, To(p, j), as it is but for entry i.
<1>7. ASSUME NEW p \in 1..Len(pages), NEW j \in 1..Len(pages[p])
      PROVE  /\ To(p, j) \in 1..Len(pages'[p]) /\ From(p, To(p, j)) = j
             /\ pages'[p][To(p, j)].ptr = pages[p][j].ptr
             /\ pages'[p][To(p, j)].count =
                    IF p = h /\ j = i THEN k + 1 ELSE pages[p][j].count
  <2>1. CASE p # h
    BY <1>6, <2>1
  <2>2. CASE p = h
    <3>1. j \in 1..n
      BY <2>2 DEF n
    <3>2. CASE j < i
      BY <1>1, <1>6, <2>2, <3>1, <3>2
    <3>3. CASE j = i
      BY <1>1, <1>6, <2>2, <3>1, <3>3
    <3>4. CASE j > i
      <4>1. /\ To(p, j) = j - 1 /\ j - 1 \in i .. n - 1 /\ (j - 1) + 1 = j
            /\ From(p, j - 1) = j /\ j - 1 \in 1..n
        BY <1>1, <2>2, <3>1, <3>4
      <4> QED
        BY <1>6, <2>2, <3>1, <3>4, <4>1
    <3> QED
      BY <1>1, <3>1, <3>2, <3>3, <3>4
  <2> QED
    BY <2>1, <2>2
<1>8. ASSUME NEW p \in 1..Len(pages'), NEW j \in 1..Len(pages'[p])
      PROVE  /\ p \in 1..Len(pages)
             /\ From(p, j) \in 1..Len(pages[p]) /\ To(p, From(p, j)) = j
  <2>1. CASE p # h
    BY <1>6, <2>1
  <2>2. CASE p = h
    <3>1. j \in 1..n
      BY <1>6, <2>2
    <3>2. Len(pages[h]) = n
      BY DEF n
    <3> QED
      BY <1>1, <2>2, <3>1, <3>2
  <2> QED
    BY <2>1, <2>2
<1> HIDE DEF To, From
<1>9. To(h, i) = n
  BY <1>1 DEF To
<1>10. \A y \in S : f[y] \in T /\ f[y] # new
  <2> SUFFICES ASSUME NEW y \in S PROVE f[y] \in T /\ f[y] # new
    OBVIOUS
  <2> DEFINE p == y[1]
             j == y[2]
             c == y[3]
  <2>1. y = <<p, j, c>> /\ f[y] = <<p, To(p, j), c>>
    BY <1>2
  <2> HIDE DEF p, j, c, f
  <2>2. /\ p \in 1..Len(pages) /\ j \in 1..Len(pages[p])
        /\ pages[p][j].ptr = o /\ c \in 0..pages[p][j].count
    BY <1>2, <2>1
  <2>3. /\ To(p, j) \in 1..Len(pages'[p]) /\ pages'[p][To(p, j)].ptr = o
        /\ pages'[p][To(p, j)].count =
               IF p = h /\ j = i THEN k + 1 ELSE pages[p][j].count
        /\ From(p, To(p, j)) = j
    BY <1>7, <2>2
  <2>4. p = h /\ j = i => c \in 0..k
    BY <2>2 DEF k
  <2>5. c \in 0..pages'[p][To(p, j)].count
    BY <1>5, <2>2, <2>3, <2>4
  <2>6. f[y] \in T
    BY <1>3, <1>6, <2>1, <2>2, <2>3, <2>5, SMTT(20)
  <2>7. ASSUME f[y] = new PROVE FALSE
    <3>1. p = h /\ To(p, j) = n /\ c = k + 1
      BY <2>1, <2>7
    <3>2. j = From(h, n) /\ From(h, n) = i
      <4>1. From(h, n) = From(h, To(h, i))
        BY <1>9
      <4>2. From(h, To(h, i)) = i
        BY <1>7 DEF n
      <4> QED
        BY <2>3, <3>1, <4>1, <4>2
    <3> QED
      BY <1>5, <2>4, <3>1, <3>2
  <2> QED
    BY <2>6, <2>7
<1>11. \A y, z \in S : f[y] = f[z] => y = z
  <2> SUFFICES ASSUME NEW y \in S, NEW z \in S, f[y] = f[z] PROVE y = z
    OBVIOUS
  <2>1. /\ y = <<y[1], y[2], y[3]>> /\ z = <<z[1], z[2], z[3]>>
        /\ f[y] = <<y[1], To(y[1], y[2]), y[3]>>
        /\ f[z] = <<z[1], To(z[1], z[2]), z[3]>>
    BY <1>2
  <2>2. y[1] = z[1] /\ y[3] = z[3] /\ To(y[1], y[2]) = To(z[1], z[2])
    BY <2>1
  <2>3. /\ y[1] \in 1..Len(pages) /\ y[2] \in 1..Len(pages[y[1]])
        /\ z[1] \in 1..Len(pages) /\ z[2] \in 1..Len(pages[z[1]])
    BY <1>2, <2>1
  <2>4. From(y[1], To(y[1], y[2])) = y[2] /\ From(z[1], To(z[1], z[2])) = z[2]
    BY <1>7, <2>3
  <2>5. y[2] = z[2]
    BY <2>2, <2>4
  <2> QED
    BY <2>1, <2>2, <2>5
<1>12. \A w \in T \ {new} : \E y \in S : f[y] = w
  <2> SUFFICES ASSUME NEW w \in T, w # new PROVE \E y \in S : f[y] = w
    OBVIOUS
  <2> DEFINE p == w[1]
             j == From(w[1], w[2])
             c == w[3]
             y == <<p, j, c>>
  <2>1. w = <<p, w[2], c>>
    BY <1>3
  <2>2. /\ p \in 1..Len(pages') /\ w[2] \in 1..Len(pages'[p])
        /\ pages'[p][w[2]].ptr = o /\ c \in 0..pages'[p][w[2]].count
    BY <1>3, <2>1
  <2>3. p \in 1..Len(pages) /\ j \in 1..Len(pages[p]) /\ To(p, j) = w[2]
    BY <1>8, <2>2
  <2> HIDE DEF j, p, c
  <2>4. /\ pages'[p][w[2]].ptr = pages[p][j].ptr
        /\ pages'[p][w[2]].count = IF p = h /\ j = i THEN k + 1 ELSE pages[p][j].count
    <3>1. /\ pages'[p][To(p, j)].ptr = pages[p][j].ptr
          /\ pages'[p][To(p, j)].count =
                IF p = h /\ j = i THEN k + 1 ELSE pages[p][j].count
      BY <1>7, <2>3
    <3> QED
      BY <2>3, <3>1
  <2>5. c \in 0..pages[p][j].count
    <3>1. CASE p = h /\ j = i
      <4>1. c \in 0 .. k + 1 /\ w[2] = n
        BY <1>9, <2>2, <2>3, <2>4, <3>1
      <4>2. c # k + 1
        BY <2>1, <3>1, <4>1
      <4> QED
        BY <1>5, <3>1, <4>1, <4>2 DEF k
    <3>2. CASE ~(p = h /\ j = i)
      BY <2>2, <2>4, <3>2
    <3> QED
      BY <3>1, <3>2
  <2>6. y \in S
    BY <1>2, <2>2, <2>3, <2>4, <2>5
  <2>7. f[y] = <<p, To(p, j), c>>
    BY <2>6
  <2>8. f[y] = w
    BY <2>1, <2>3, <2>7
  <2> QED
    BY <2>6, <2>8
<1>13. new \in T <=> pages[h][i].ptr = o
  <2>1. h \in 1..Len(pages') /\ n \in 1..Len(pages'[h]) /\ k + 1 \in 0 .. k + 1
    BY <1>1, <1>5, <1>6
  <2> QED
    BY <1>3, <1>6, <2>1
<1>14. f \in [S -> T \ {new}]
  BY <1>10
<1> HIDE DEF f, new
<1>15. IsFiniteSet(T \ {new}) /\ Cardinality(T \ {new}) = Cardinality(S)
  BY <1>4, <1>11, <1>12, <1>14, SameCardinality
<1>16. CASE new \in T
  <2>1. T = (T \ {new}) \cup {new} /\ new \notin T \ {new}
    BY <1>16
  <2>2. Cardinality(T) = Cardinality(T \ {new}) + 1
    BY <1>15, <2>1, FS_AddElement
  <2> QED
    BY <1>4, <1>13, <1>15, <1>16, <2>2 DEF S, T
<1>17. CASE new \notin T
  <2>1. T \ {new} = T
    BY <1>17
  <2>4. Cardinality(T) = Cardinality(S)
    BY <1>15, <2>1, Zenon
  <2>2. Cardinality(T) = Cardinality(S) + 0
    BY <1>4, <2>4
  <2>3. pages[h][i].ptr # o
    BY <1>13, <1>17
  <2> QED
    BY <2>2, <2>3 DEF S, T
<1> QED
  BY <1>16, <1>17

\* add() on a page counts one release more of the object it adds, and no other.
LEMMA CountAddTo ==
    ASSUME Inv, Inv', NEW o, NEW x \in Objects \cup {POOL_BOUNDARY},
           NEW n \in 1 .. Len(pages) + 1, AddTo(n, x)
    PROVE  Cardinality(OnPages(o)') =
                Cardinality(OnPages(o)) + (IF x = o THEN 1 ELSE 0)
<1> DEFINE e == [ptr |-> x, count |-> 0]
<1>1. /\ Len(pages) \in Nat /\ pages \in Seq(Seq(Entry)) /\ pages' \in Seq(Seq(Entry))
      /\ \A p \in 1..Len(pages) : pages[p] \in Seq(Entry) /\ Len(pages[p]) \in Nat
  BY InvNumbers DEF Inv, TypeOK
<1>2. e \in Entry /\ e.ptr = x
  BY PoolAssumption DEF Entry
<1>3. CASE n <= Len(pages)
  <2> DEFINE s == pages[n]
  <2>1. n \in 1..Len(pages) /\ s \in Seq(Entry) /\ Len(s) \in Nat
    BY <1>1, <1>3
  <2>2. pages' = [pages EXCEPT ![n] = add(pages[n], x)]
    BY <1>3 DEF AddTo
  <2>3. CASE \E i \in 1..Len(s) : Found(s, x, i)
    <3> DEFINE i == CHOOSE j \in 1..Len(s) : Found(s, x, j)
    <3>1. i \in 1..Len(s) /\ Found(s, x, i)
      BY <2>3
    <3>2. add(s, x) = Coalesce(s, i)
      BY <2>3 DEF add
    <3> HIDE DEF i
    <3>3. s[i].count < MaxCount /\ s[i].ptr = x
      BY <3>1 DEF Found, Coalescable
    <3>4. pages' = [pages EXCEPT ![n] = Coalesce(pages[n], i)]
      BY <2>2, <3>2
    <3>5. Cardinality(OnPages(o)') =
            Cardinality(OnPages(o)) + (IF pages[n][i].ptr = o THEN 1 ELSE 0)
      BY <2>1, <3>1, <3>3, <3>4, CountCoalesced
    <3> QED
      BY <3>3, <3>5
  <2>4. CASE ~ \E i \in 1..Len(s) : Found(s, x, i)
    <3>1. add(pages[n], x) = Append(pages[n], e)
      BY <2>4 DEF add
    <3> DEFINE l == Len(pages[n]) + 1
               t == Append(pages[n], e)
    <3> HIDE DEF e
    <3>2. /\ Len(t) = l /\ t[l] = e /\ \A m \in 1 .. l - 1 : t[m] = pages[n][m]
          /\ t \in Seq(Entry)
      BY <1>2, <2>1
    <3>3. pages' = [pages EXCEPT ![n] = t]
      BY <2>2, <3>1
    <3> HIDE DEF t
    <3>4. /\ Len(pages') = Len(pages) /\ pages'[n] = t
          /\ \A p \in 1..Len(pages) : p # n => pages'[p] = pages[p]
      BY <1>1, <2>1, <3>3
    <3>5. l \in Nat \ {0} /\ Len(pages[n]) = l - 1
      BY <2>1
    <3> HIDE DEF l
    <3>6. /\ n \in 1..Len(pages') /\ Len(pages) <= Len(pages') /\ n <= Len(pages)
          /\ Len(pages'[n]) = l /\ pages'[n][l] = [ptr |-> x, count |-> 0]
      BY <1>1, <2>1, <3>2, <3>4 DEF e
    <3>7. \A p \in 1..Len(pages') :
            p # n => p \in 1..Len(pages) /\ pages'[p] = pages[p]
      BY <3>4
    <3>8. \A m \in 1 .. l - 1 : pages'[n][m] = pages[n][m]
      BY <3>2, <3>4
    <3> QED
      BY <3>5, <3>6, <3>7, <3>8, CountAppended
  <2> QED
    BY <2>3, <2>4
<1>4. CASE ~(n <= Len(pages))
  <2>1. n = Len(pages) + 1 /\ pages' = Append(pages, add(<<>>, x))
    BY <1>1, <1>4 DEF AddTo
  <2>2. add(<<>>, x) = <<e>>
    <3>1. ~ \E i \in 1..Len(<<>>) : Found(<<>>, x, i)
      OBVIOUS
    <3>2. add(<<>>, x) = Append(<<>>, e)
      BY <3>1 DEF add
    <3> QED
      BY <3>2
  <2> HIDE DEF e
  <2>3. /\ Len(pages') = Len(pages) + 1 /\ pages'[n] = <<e>>
        /\ \A p \in 1..Len(pages) : pages'[p] = pages[p]
    BY <1>1, <1>2, <2>1, <2>2
  <2>4. /\ n \in 1..Len(pages') /\ Len(pages'[n]) = 1 /\ pages'[n][1] = e
        /\ \A p \in 1..Len(pages') : p # n => p \in 1..Len(pages)
    <3>1. Len(<<e>>) = 1 /\ <<e>>[1] = e
      OBVIOUS
    <3>2. Len(pages'[n]) = 1 /\ pages'[n][1] = e
      BY <2>3, <3>1
    <3>3. /\ n \in 1..Len(pages')
          /\ \A p \in 1..Len(pages') : p # n => p \in 1..Len(pages)
      BY <1>1, <2>1, <2>3
    <3> QED
      BY <3>2, <3>3
  <2>5. /\ Len(pages) <= Len(pages') /\ ~(n <= Len(pages)) /\ 1 \in Nat \ {0}
        /\ \A m \in 1 .. 1 - 1 : pages'[n][m] = pages[n][m]
    BY <1>1, <1>4, <2>3
  <2> QED
    BY <2>3, <2>4, <2>5, CountAppended DEF e
<1> QED
  BY <1>3, <1>4

\* The boundary that replaces the placeholder is not a release of an object.
LEMMA CountReplace ==
    ASSUME Inv, Inv', NEW o \in Objects, NEW x \in Objects \cup {POOL_BOUNDARY},
           hot = 0, ReplacePlaceholder(x)
    PROVE  Cardinality(OnPages(o)') =
                Cardinality(OnPages(o)) + (IF x = o THEN 1 ELSE 0)
<1> DEFINE e == [ptr |-> x, count |-> 0]
           b == [ptr |-> POOL_BOUNDARY, count |-> 0]
           T == OnPages(o)'
           new == <<1, 2, 0>>
<1>1. e \in Entry /\ b \in Entry
  BY PoolAssumption DEF Entry
<1>2. add(<<>>, POOL_BOUNDARY) = <<b>>
  <2>1. ~ \E i \in 1..Len(<<>>) : Found(<<>>, POOL_BOUNDARY, i)
    OBVIOUS
  <2>2. add(<<>>, POOL_BOUNDARY) = Append(<<>>, b)
    BY <2>1 DEF add
  <2> QED
    BY <2>2
<1>3. add(<<b>>, x) = <<b, e>>
  <2>1. ~ \E i \in 1..Len(<<b>>) : Found(<<b>>, x, i)
    BY DEF Found, Coalescable
  <2>2. add(<<b>>, x) = Append(<<b>>, e)
    BY <2>1 DEF add
  <2> QED
    BY <2>2
<1>4. pages' = <<<<b, e>>>>
  BY <1>2, <1>3 DEF ReplacePlaceholder
<1>5. OnPagesMembers /\ OnPagesMembers' /\ pages = <<>>
  BY OnPagesAre, NextMembers DEF Inv, Stack
<1>6. OnPages(o) = {}
  <2>1. Len(pages) = 0
    BY <1>5
  <2>2. \A y \in OnPages(o) : y = <<y[1], y[2], y[3]>> /\ y[1] \in 1..Len(pages)
    BY <1>5 DEF OnPagesMembers
  <2> QED
    BY <2>1, <2>2
<1>7. /\ \A y \in T : y = <<y[1], y[2], y[3]>>
      /\ \A p, j, c : <<p, j, c>> \in T <=>
                /\ p \in 1..Len(pages') /\ j \in 1..Len(pages'[p])
                /\ pages'[p][j].ptr = o /\ c \in 0..pages'[p][j].count
  BY <1>5 DEF OnPagesMembers
<1>8. /\ Len(pages') = 1 /\ Len(pages'[1]) = 2
      /\ pages'[1][1].ptr = POOL_BOUNDARY
      /\ pages'[1][2].ptr = x /\ pages'[1][2].count = 0
  BY <1>4
<1> HIDE DEF T, e, b
<1>9. \A p, j, c : <<p, j, c>> \in T => p = 1 /\ j = 2 /\ c = 0 /\ x = o
  <2> SUFFICES ASSUME NEW p, NEW j, NEW c, <<p, j, c>> \in T
               PROVE  p = 1 /\ j = 2 /\ c = 0 /\ x = o
    OBVIOUS
  <2>1. p \in 1..1
    BY <1>7, <1>8
  <2>2. p = 1
    BY <2>1
  <2>3. j \in 1..2 /\ pages'[1][j].ptr = o /\ c \in 0..pages'[1][j].count
    BY <1>7, <1>8, <2>2
  <2>4. j # 1
    BY <1>8, <2>3, PoolAssumption
  <2>5. j = 2
    BY <2>3, <2>4
  <2> QED
    BY <1>8, <2>2, <2>3, <2>5
<1>10. CASE x = o
  <2>1. new \in T
    BY <1>7, <1>8, <1>10
  <2>2. T = {new}
    BY <1>7, <1>9, <2>1
  <2>3. Cardinality(T) = 1
    BY <2>2, FS_Singleton
  <2> QED
    BY <1>6, <1>10, <2>3, FS_EmptySet DEF T
<1>11. CASE x # o
  <2>1. T = {}
    BY <1>7, <1>9, <1>11
  <2>2. Cardinality(T) = 0
    BY <2>1, FS_EmptySet
  <2> QED
    BY <1>6, <1>11, <2>2, FS_EmptySet DEF T
<1> QED
  BY <1>10, <1>11

\* So autoreleaseFast counts one release more of the object it adds.
LEMMA CountPlace ==
    ASSUME Inv, Inv', NEW o \in Objects, NEW x \in Objects \cup {POOL_BOUNDARY},
           Place(x, FALSE)
    PROVE  Cardinality(OnPages(o)') =
                Cardinality(OnPages(o)) + (IF x = o THEN 1 ELSE 0)
<1>1. Len(pages) \in Nat /\ hot \in 0..Len(pages)
  BY InvNumbers
<1>2. CASE hot # 0 /\ ~Full(hot) /\ AddTo(hot, x)
  BY <1>1, <1>2, CountAddTo
<1>3. CASE hot # 0 /\ Full(hot) /\ AddTo(NextRoom, x)
  <2>1. NextRoom = hot + 1 /\ hot + 1 \in 1 .. Len(pages) + 1
    BY <1>1, InvShape, NextRoomIsNext
  <2> QED
    BY <1>3, <2>1, CountAddTo
<1>4. CASE hot = 0 /\ placeholder /\ ReplacePlaceholder(x)
  BY <1>4, CountReplace
<1>5. CASE hot = 0 /\ ~placeholder /\ AddTo(1, x)
  BY <1>1, <1>5, CountAddTo
<1> QED
  BY <1>2, <1>3, <1>4, <1>5 DEF Place

\* A step that leaves the pops and the counts of the pages leaves what is owed.
LEMMA SameInPops ==
    ASSUME Inv, Inv', Anchored, Anchored', NEW o,
           \A i, c : (i \in 1..Len(pops') /\ pops'[i].obj = o /\ c \in 1..pops'[i].pending)
                 <=> (i \in 1..Len(pops) /\ pops[i].obj = o /\ c \in 1..pops[i].pending)
    PROVE  InPops(o)' = InPops(o)
<1> DEFINE S == InPops(o)
           T == InPops(o)'
<1>1. InPopsMembers /\ InPopsMembers'
  BY InPopsAre, NextMembers
<1>2. /\ \A y \in S : y = <<y[1], y[2]>>
      /\ \A i, c : <<i, c>> \in S <=>
            i \in 1..Len(pops) /\ pops[i].obj = o /\ c \in 1..pops[i].pending
  BY <1>1 DEF InPopsMembers
<1>3. /\ \A y \in T : y = <<y[1], y[2]>>
      /\ \A i, c : <<i, c>> \in T <=>
            i \in 1..Len(pops') /\ pops'[i].obj = o /\ c \in 1..pops'[i].pending
  BY <1>1 DEF InPopsMembers
<1> HIDE DEF S, T
<1>4. \A i, c : <<i, c>> \in T <=> <<i, c>> \in S
  BY <1>2, <1>3
<1>5. \A y : y \in T <=> y \in S
  <2> SUFFICES ASSUME NEW y PROVE y \in T <=> y \in S
    OBVIOUS
  <2>1. y \in T => y \in S
    BY <1>3, <1>4
  <2>2. y \in S => y \in T
    BY <1>2, <1>4
  <2> QED
    BY <2>1, <2>2
<1> QED
  BY <1>5 DEF S, T

\* Autoreleasing an object is one release more.
LEMMA OwedAutorelease ==
    ASSUME Inv, Inv', NoneLostNoneTwice, NEW x \in Objects, Autorelease(x)
    PROVE  NoneLostNoneTwice'
<1>1. /\ Place(x, FALSE) /\ due' = [due EXCEPT ![x] = @ + 1] /\ UNCHANGED pops
  BY DEF Autorelease
<1>2. ASSUME NEW o \in Objects PROVE due'[o] = Owed(o)'
  <2>1. Cardinality(OnPages(o)') =
            Cardinality(OnPages(o)) + (IF x = o THEN 1 ELSE 0)
    BY <1>1, CountPlace
  <2>2. InPops(o)' = InPops(o)
    BY <1>1 DEF InPops
  <2>3. /\ Cardinality(OnPages(o)) \in Nat /\ Cardinality(InPops(o)) \in Nat
    BY OwedFinite
  <2>4. due[o] = Cardinality(OnPages(o)) + Cardinality(InPops(o))
    BY DEF NoneLostNoneTwice, Owed
  <2>5. due'[o] = due[o] + (IF x = o THEN 1 ELSE 0)
    <3>1. due \in [Objects -> Int]
      BY DEF Inv, TypeOK
    <3> QED
      BY <1>1, <3>1
  <2>6. Owed(o)' = Cardinality(OnPages(o)') + Cardinality(InPops(o))
    BY <2>2 DEF Owed
  <2> QED
    BY <2>1, <2>3, <2>4, <2>5, <2>6
<1> QED
  BY <1>2 DEF NoneLostNoneTwice

\* A boundary is none.
LEMMA OwedPush ==
    ASSUME Inv, Inv', NoneLostNoneTwice, Push
    PROVE  NoneLostNoneTwice'
<1>1. Place(POOL_BOUNDARY, FALSE) /\ due' = due /\ UNCHANGED pops
  BY DEF Push, Inv, Production, Place
<1>2. ASSUME NEW o \in Objects PROVE due'[o] = Owed(o)'
  <2>1. Cardinality(OnPages(o)') =
            Cardinality(OnPages(o)) + (IF POOL_BOUNDARY = o THEN 1 ELSE 0)
    BY <1>1, CountPlace
  <2>2. InPops(o)' = InPops(o)
    BY <1>1 DEF InPops
  <2>3. Cardinality(OnPages(o)) \in Nat /\ POOL_BOUNDARY # o
    BY OwedFinite, PoolAssumption
  <2>4. Cardinality(OnPages(o)') = Cardinality(OnPages(o))
    BY <2>1, <2>3
  <2> QED
    BY <1>1, <2>2, <2>4 DEF NoneLostNoneTwice, Owed
<1> QED
  BY <1>2 DEF NoneLostNoneTwice

\* A pop begins with nothing to release.
LEMMA OwedBegin ==
    ASSUME Inv, Inv', Anchored, Anchored', NoneLostNoneTwice,
           UNCHANGED <<setting, pages, due>>,
           NEW new, pops' = Append(pops, new), new.pending = 0
    PROVE  NoneLostNoneTwice'
<1>1. /\ Len(pops) \in Nat /\ Len(pops') = Len(pops) + 1
      /\ \A i \in 1..Len(pops) : pops'[i] = pops[i]
      /\ pops'[Len(pops) + 1] = new
  <2>1. pops \in Seq(Popping)
    BY DEF Inv, TypeOK
  <2> QED
    BY <2>1
<1>2. ASSUME NEW o \in Objects PROVE due'[o] = Owed(o)'
  <2>1. ASSUME NEW i, NEW c
        PROVE  (i \in 1..Len(pops') /\ pops'[i].obj = o /\ c \in 1..pops'[i].pending)
           <=> (i \in 1..Len(pops) /\ pops[i].obj = o /\ c \in 1..pops[i].pending)
    <3>1. i \in 1..Len(pops') <=> i \in 1..Len(pops) \/ i = Len(pops) + 1
      BY <1>1
    <3>2. i = Len(pops) + 1 => ~(c \in 1..pops'[i].pending) /\ i \notin 1..Len(pops)
      BY <1>1
    <3> QED
      BY <1>1, <3>1, <3>2
  <2>2. InPops(o)' = InPops(o)
    BY <2>1, SameInPops
  <2>3. OnPages(o)' = OnPages(o)
    BY DEF OnPages, Capacity
  <2> QED
    BY <2>2, <2>3 DEF NoneLostNoneTwice, Owed
<1> QED
  BY <1>2 DEF NoneLostNoneTwice

\* Taking an entry moves its releases from the page to the pop.
LEMMA OwedTakeEntry ==
    ASSUME Inv, Inv', Anchored, Anchored', NoneLostNoneTwice,
           NEW p \in 1..hot, TakeEntry(p)
    PROVE  NoneLostNoneTwice'
<1> DEFINE l == Len(pages[p])
           entry == pages[p][l]
           count == IF entry.ptr = POOL_BOUNDARY THEN 0 ELSE entry.count + 1
           t == SubSeq(pages[p], 1, l - 1)
           m == Len(pops)
<1>1. /\ Releasing /\ hot' = p /\ due' = due
      /\ pages' = [pages EXCEPT ![p] = t]
      /\ pops' = SetTop(entry.ptr, count)
  BY DEF TakeEntry
<1>2. /\ p \in 1..Len(pages) /\ Len(pages) \in Nat /\ pages[p] \in Seq(Entry)
      /\ l \in Nat /\ l # 0
  <2>1. p \in 1..Len(pages) /\ Len(pages) \in Nat
    BY InvNumbers
  <2>2. pages[p] \in Seq(Entry) /\ pages[p] # <<>>
    BY <2>1, InvNumbers DEF TakeEntry, IsHottest, Empty
  <2> QED
    BY <2>1, <2>2
<1>3. entry \in Entry
  BY <1>2
<1>4. /\ entry.count \in Nat /\ entry.count <= MaxCount /\ MaxCount \in Nat
      /\ count \in Nat
  BY <1>3, PoolAssumption DEF Entry
<1>5. Len(t) = l - 1 /\ \A j \in 1 .. l - 1 : t[j] = pages[p][j]
  BY <1>2
<1> HIDE DEF t
<1>6. /\ Len(pages') = Len(pages) /\ pages'[p] = t
      /\ \A q \in 1..Len(pages) : q # p => pages'[q] = pages[q]
  <2>1. pages \in Seq(Seq(Entry))
    BY DEF Inv, TypeOK
  <2> QED
    BY <1>1, <1>2, <2>1
<1> HIDE DEF l, entry, count
<1>7. /\ m \in 1..m /\ m \in Nat /\ pops[m].pending = 0
      /\ Len(pops') = m /\ pops'[m].obj = entry.ptr /\ pops'[m].pending = count
      /\ \A i \in 1..m : i # m => pops'[i] = pops[i]
  <2>1. pops # <<>> /\ Top.pending = 0
    BY <1>1 DEF Releasing
  <2>2. m \in 1..m /\ m \in Nat /\ Top = pops[m]
    BY <2>1, TopFacts
  <2>3. pops \in Seq(Popping)
    BY DEF Inv, TypeOK
  <2> QED
    BY <1>1, <2>1, <2>2, <2>3 DEF SetTop
<1> HIDE DEF m
<1>8. ASSUME NEW o \in Objects PROVE due'[o] = Owed(o)'
  <2> DEFINE S == OnPages(o)
             T == OnPages(o)'
             P == InPops(o)
             Q == InPops(o)'
  <2>1. OnPagesMembers /\ OnPagesMembers' /\ InPopsMembers /\ InPopsMembers'
    BY OnPagesAre, InPopsAre, NextMembers
  <2>2. /\ \A y \in S : y = <<y[1], y[2], y[3]>>
        /\ \A q, j, c : <<q, j, c>> \in S <=>
                /\ q \in 1..Len(pages) /\ j \in 1..Len(pages[q])
                /\ pages[q][j].ptr = o /\ c \in 0..pages[q][j].count
    BY <2>1 DEF OnPagesMembers
  <2>3. /\ \A y \in T : y = <<y[1], y[2], y[3]>>
        /\ \A q, j, c : <<q, j, c>> \in T <=>
                /\ q \in 1..Len(pages') /\ j \in 1..Len(pages'[q])
                /\ pages'[q][j].ptr = o /\ c \in 0..pages'[q][j].count
    BY <2>1 DEF OnPagesMembers
  <2>4. /\ \A y \in P : y = <<y[1], y[2]>>
        /\ \A i, c : <<i, c>> \in P <=>
            i \in 1..Len(pops) /\ pops[i].obj = o /\ c \in 1..pops[i].pending
    BY <2>1 DEF InPopsMembers
  <2>5. /\ \A y \in Q : y = <<y[1], y[2]>>
        /\ \A i, c : <<i, c>> \in Q <=>
            i \in 1..Len(pops') /\ pops'[i].obj = o /\ c \in 1..pops'[i].pending
    BY <2>1 DEF InPopsMembers
  <2>6. /\ IsFiniteSet(S) /\ Cardinality(S) \in Nat
        /\ IsFiniteSet(P) /\ Cardinality(P) \in Nat
    BY OwedFinite
  <2>7. due'[o] = Cardinality(S) + Cardinality(P)
    BY <1>1 DEF NoneLostNoneTwice, Owed
  <2>8. Owed(o)' = Cardinality(T) + Cardinality(Q)
    BY DEF Owed
  <2> HIDE DEF S, T, P, Q
\* T has no triple of the entry taken, and all the others.
  <2>9. ASSUME NEW q, NEW j, NEW c
        PROVE  <<q, j, c>> \in T <=> <<q, j, c>> \in S /\ ~(q = p /\ j = l)
    <3>1. CASE q = p
      <4>1. Len(pages[p]) = l /\ Len(pages'[p]) = l - 1
        BY <1>5, <1>6 DEF l
      <4>2. j \in 1 .. l - 1 => pages'[p][j] = pages[p][j]
        BY <1>5, <1>6
      <4>3. j \in 1 .. l - 1 <=> j \in 1..l /\ j # l
        BY <1>2
      <4> QED
        BY <1>2, <1>6, <2>2, <2>3, <3>1, <4>1, <4>2, <4>3
    <3>2. CASE q # p
      BY <1>6, <2>2, <2>3, <3>2
    <3> QED
      BY <3>1, <3>2
\* Q has the pairs of the entry taken as well.
  <2>10. ASSUME NEW i, NEW c
         PROVE  <<i, c>> \in Q <=>
                    <<i, c>> \in P \/ (i = m /\ entry.ptr = o /\ c \in 1..count)
    <3>1. CASE i = m
      <4>1. ~(c \in 1..pops[m].pending)
        BY <1>7
      <4> QED
        BY <1>7, <2>4, <2>5, <3>1, <4>1
    <3>2. CASE i # m
      BY <1>7, <2>4, <2>5, <3>2 DEF m
    <3> QED
      BY <3>1, <3>2
  <2>11. CASE entry.ptr # o
    <3>1. ASSUME NEW q, NEW j, NEW c, <<q, j, c>> \in S PROVE ~(q = p /\ j = l)
      BY <2>2, <2>11, <3>1 DEF entry
    <3>2. \A y : y \in T <=> y \in S
      <4> SUFFICES ASSUME NEW y PROVE y \in T <=> y \in S
        OBVIOUS
      <4>1. y \in T => y \in S
        BY <2>3, <2>9
      <4>2. y \in S => y \in T
        BY <2>2, <2>9, <3>1
      <4> QED
        BY <4>1, <4>2
    <3>3. \A y : y \in Q <=> y \in P
      <4> SUFFICES ASSUME NEW y PROVE y \in Q <=> y \in P
        OBVIOUS
      <4>1. y \in Q => y \in P
        BY <2>5, <2>10, <2>11
      <4>2. y \in P => y \in Q
        BY <2>4, <2>10
      <4> QED
        BY <4>1, <4>2
    <3>4. T = S /\ Q = P
      BY <3>2, <3>3
    <3> QED
      BY <2>7, <2>8, <3>4
  <2>12. CASE entry.ptr = o
    <3> DEFINE A == S \ T
               B == {m} \X (1..count)
               f == [y \in B |-> <<p, l, y[2] - 1>>]
    <3>1. count = entry.count + 1
      <4>1. entry.ptr # POOL_BOUNDARY
        BY <2>12, PoolAssumption
      <4> QED
        BY <4>1 DEF count
    <3>2. IsFiniteSet(B) /\ Cardinality(B) = count
      BY <1>4, CountPairs
    <3>3. \A c : <<p, l, c>> \in S <=> c \in 0..entry.count
      BY <1>2, <2>2, <2>12 DEF l, entry
    <3>4. f \in [B -> A]
      <4> SUFFICES ASSUME NEW y \in B PROVE <<p, l, y[2] - 1>> \in S \ T
        OBVIOUS
      <4>1. y[2] \in 1..count /\ y[2] - 1 \in 0..entry.count
        BY <1>4, <3>1
      <4> QED
        BY <2>9, <3>3, <4>1
    <3>5. \A x, y \in B : f[x] = f[y] => x = y
      <4> SUFFICES ASSUME NEW x \in B, NEW y \in B, f[x] = f[y] PROVE x = y
        OBVIOUS
      <4>1. x[2] - 1 = y[2] - 1 /\ x[2] \in 1..count /\ y[2] \in 1..count
        OBVIOUS
      <4>2. x[2] = y[2] /\ x = <<m, x[2]>> /\ y = <<m, y[2]>>
        BY <1>4, <4>1
      <4> QED
        BY <4>2
    <3>6. \A w \in A : \E y \in B : f[y] = w
      <4> SUFFICES ASSUME NEW w \in S, w \notin T PROVE \E y \in B : f[y] = w
        OBVIOUS
      <4>1. w = <<w[1], w[2], w[3]>>
        BY <2>2
      <4>2. w[1] = p /\ w[2] = l
        BY <2>9, <4>1
      <4>3. w[3] \in 0..entry.count
        BY <3>3, <4>1, <4>2
      <4> DEFINE y == <<m, w[3] + 1>>
      <4>4. y \in B /\ (w[3] + 1) - 1 = w[3]
        BY <1>4, <3>1, <4>3
      <4>5. f[y] = w
        BY <4>1, <4>2, <4>4
      <4> QED
        BY <4>4, <4>5
    <3> HIDE DEF f
    <3>7. IsFiniteSet(A) /\ Cardinality(A) = count
      BY <3>2, <3>4, <3>5, <3>6, SameCardinality
    <3>8. T \subseteq S
      BY <2>3, <2>9
    <3>9. S \cap A = A /\ S \ A = T
      BY <3>8
    <3>10. Cardinality(T) = Cardinality(S) - count
      <4> HIDE DEF A, B
      <4>1. Cardinality(S \ A) = Cardinality(S) - Cardinality(S \cap A)
        BY <2>6, FS_Difference
      <4> QED
        BY <3>7, <3>9, <4>1
    <3>11. Q = P \cup B /\ P \cap B = {}
      <4>1. \A c : <<m, c>> \notin P
        <5> SUFFICES ASSUME NEW c, <<m, c>> \in P PROVE FALSE
          OBVIOUS
        <5>1. c \in 1..0
          BY <1>7, <2>4
        <5> QED
          BY <5>1
      <4>2. \A y \in B : y = <<m, y[2]>> /\ y[2] \in 1..count
        OBVIOUS
      <4>3. \A c : c \in 1..count => <<m, c>> \in B
        OBVIOUS
      <4> HIDE DEF B
      <4>4. \A y \in Q : y \in P \cup B
        BY <2>5, <2>10, <4>3
      <4>5. \A y \in P \cup B : y \in Q
        BY <2>4, <2>10, <2>12, <4>2
      <4>6. \A y \in P : y \notin B
        BY <4>1, <4>2
      <4> QED
        BY <4>4, <4>5, <4>6
    <3> HIDE DEF A, B
    <3>12. Cardinality(Q) = Cardinality(P) + count
      <4>1. /\ Cardinality(P \cup B) = Cardinality(P) + Cardinality(B) - Cardinality(P \cap B)
            /\ Cardinality(P \cap B) = 0
        BY <2>6, <3>2, <3>11, FS_Union, FS_EmptySet
      <4> QED
        BY <1>4, <2>6, <3>2, <3>11, <4>1
    <3> QED
      BY <1>4, <2>6, <2>7, <2>8, <3>10, <3>12
  <2> QED
    BY <2>11, <2>12
<1> QED
  BY <1>8 DEF NoneLostNoneTwice

\* A release that returns is one owed no more.
LEMMA OwedReleased ==
    ASSUME Inv, Inv', Anchored, Anchored', NoneLostNoneTwice, Released
    PROVE  NoneLostNoneTwice'
<1> DEFINE m == Len(pops)
           k == Top.pending
<1>1. /\ pops # <<>> /\ Running /\ due' = [due EXCEPT ![Top.obj] = @ - 1]
      /\ pops' = SetTop(Top.obj, k - 1) /\ UNCHANGED <<setting, pages>>
  BY DEF Released
<1>2. m \in 1..m /\ m \in Nat /\ Top = pops[m] /\ pops \in Seq(Popping)
  BY <1>1, TopFacts DEF Inv, TypeOK
<1>3. k \in Nat /\ k # 0
  BY <1>1, <1>2, InvPops, RunningFacts
<1>4. /\ Len(pops') = m /\ pops'[m].obj = Top.obj /\ pops'[m].pending = k - 1
      /\ \A i \in 1..m : i # m => pops'[i] = pops[i]
  BY <1>1, <1>2 DEF SetTop
<1> HIDE DEF m, k
<1>5. ASSUME NEW o \in Objects PROVE due'[o] = Owed(o)'
  <2> DEFINE P == InPops(o)
             Q == InPops(o)'
             last == <<m, k>>
  <2>1. OnPages(o)' = OnPages(o)
    BY <1>1 DEF OnPages, Capacity
  <2>2. InPopsMembers /\ InPopsMembers'
    BY InPopsAre, NextMembers
  <2>3. /\ \A y \in P : y = <<y[1], y[2]>>
        /\ \A i, c : <<i, c>> \in P <=>
            i \in 1..Len(pops) /\ pops[i].obj = o /\ c \in 1..pops[i].pending
    BY <2>2 DEF InPopsMembers
  <2>4. /\ \A y \in Q : y = <<y[1], y[2]>>
        /\ \A i, c : <<i, c>> \in Q <=>
            i \in 1..Len(pops') /\ pops'[i].obj = o /\ c \in 1..pops'[i].pending
    BY <2>2 DEF InPopsMembers
  <2>5. /\ IsFiniteSet(P) /\ Cardinality(P) \in Nat /\ Cardinality(OnPages(o)) \in Nat
    BY OwedFinite
  <2>6. /\ due[o] = Cardinality(OnPages(o)) + Cardinality(P)
        /\ Owed(o)' = Cardinality(OnPages(o)) + Cardinality(Q)
    BY <2>1 DEF NoneLostNoneTwice, Owed
  <2>7. due'[o] = due[o] - (IF Top.obj = o THEN 1 ELSE 0)
    <3>1. due \in [Objects -> Int]
      BY DEF Inv, TypeOK
    <3> QED
      BY <1>1, <3>1
  <2> HIDE DEF P, Q
  <2>8. Len(pops) = m /\ pops[m].obj = Top.obj /\ pops[m].pending = k
    BY <1>2 DEF m, k
  <2>9. ASSUME NEW i, NEW c
        PROVE  <<i, c>> \in Q <=> <<i, c>> \in P /\ ~(i = m /\ c = k)
    <3>1. CASE i = m
      <4>1. c \in 1 .. k - 1 <=> c \in 1..k /\ c # k
        BY <1>3
      <4> QED
        BY <1>4, <2>3, <2>4, <2>8, <3>1, <4>1
    <3>2. CASE i # m
      BY <1>4, <2>3, <2>4, <2>8, <3>2
    <3> QED
      BY <3>1, <3>2
  <2>10. Q = P \ {last}
    <3>1. \A y \in Q : y \in P /\ y # last
      <4> SUFFICES ASSUME NEW y \in Q PROVE y \in P /\ y # last
        OBVIOUS
      <4>1. y = <<y[1], y[2]>>
        BY <2>4
      <4>2. y \in P /\ ~(y[1] = m /\ y[2] = k)
        BY <2>9, <4>1
      <4> QED
        BY <4>2
    <3>2. \A y \in P : y # last => y \in Q
      <4> SUFFICES ASSUME NEW y \in P, y # last PROVE y \in Q
        OBVIOUS
      <4>1. y = <<y[1], y[2]>>
        BY <2>3
      <4>2. ~(y[1] = m /\ y[2] = k)
        BY <4>1
      <4> QED
        BY <2>9, <4>1, <4>2
    <3> QED
      BY <3>1, <3>2
  <2>11. last \in P <=> Top.obj = o
    <3>1. m \in 1..m /\ k \in 1..k
      BY <1>2, <1>3
    <3> QED
      BY <2>3, <2>8, <3>1
  <2> HIDE DEF last
  <2>12. Cardinality(Q) = IF Top.obj = o THEN Cardinality(P) - 1 ELSE Cardinality(P)
    BY <2>5, <2>10, <2>11, FS_RemoveElement
  <2> QED
    BY <2>5, <2>6, <2>7, <2>12
<1> QED
  BY <1>5 DEF NoneLostNoneTwice

\* The pages that the end of a pop frees are empty.
LEMMA OwedFinishPop ==
    ASSUME Inv, Inv', Anchored, Anchored', NoneLostNoneTwice, FinishPop
    PROVE  NoneLostNoneTwice'
<1> DEFINE m == Len(pops)
<1>1. /\ hot \in Nat /\ Len(pages) \in Nat /\ Len(pages') \in hot..Len(pages)
      /\ \A q \in 1..Len(pages') : pages'[q] = pages[q]
      /\ Len(pops') = m - 1
      /\ \A i \in 1 .. m - 1 : pops'[i] = pops[i] /\ i \in 1..m
  BY FinishPopKeeps, InvNumbers
<1>2. pops # <<>> /\ Top.pending = 0 /\ due' = due
  BY DEF FinishPop
<1>3. m \in 1..m /\ m \in Nat /\ pops[m].pending = 0
  BY <1>2, TopFacts
<1> HIDE DEF m
<1>4. \A q \in 1..Len(pages) : q > hot => Len(pages[q]) = 0
  BY SMTT(20) DEF Inv, TypeOK, Stack, PagesContiguous
<1>5. ASSUME NEW o \in Objects PROVE due'[o] = Owed(o)'
  <2> DEFINE S == OnPages(o)
             T == OnPages(o)'
  <2>1. OnPagesMembers /\ OnPagesMembers'
    BY OnPagesAre, NextMembers
  <2>2. /\ \A y \in S : y = <<y[1], y[2], y[3]>>
        /\ \A q, j, c : <<q, j, c>> \in S <=>
                /\ q \in 1..Len(pages) /\ j \in 1..Len(pages[q])
                /\ pages[q][j].ptr = o /\ c \in 0..pages[q][j].count
    BY <2>1 DEF OnPagesMembers
  <2>3. /\ \A y \in T : y = <<y[1], y[2], y[3]>>
        /\ \A q, j, c : <<q, j, c>> \in T <=>
                /\ q \in 1..Len(pages') /\ j \in 1..Len(pages'[q])
                /\ pages'[q][j].ptr = o /\ c \in 0..pages'[q][j].count
    BY <2>1 DEF OnPagesMembers
  <2> HIDE DEF S, T
  <2>4. ASSUME NEW q, NEW j, NEW c PROVE <<q, j, c>> \in T <=> <<q, j, c>> \in S
    <3>1. CASE q \in 1..Len(pages')
      <4>1. q \in 1..Len(pages) /\ pages'[q] = pages[q]
        BY <1>1, <3>1
      <4> QED
        BY <2>2, <2>3, <3>1, <4>1
    <3>2. CASE q \notin 1..Len(pages')
      <4>1. <<q, j, c>> \in S => q \in 1..Len(pages) /\ j \in 1..Len(pages[q])
        BY <2>2
      <4>2. q \in 1..Len(pages) => q > hot /\ Len(pages[q]) = 0
        BY <1>1, <1>4, <3>2
      <4> QED
        BY <2>3, <3>2, <4>1, <4>2
    <3> QED
      BY <3>1, <3>2
  <2>5. T = S
    <3>1. \A y \in T : y \in S
      BY <2>3, <2>4
    <3>2. \A y \in S : y \in T
      BY <2>2, <2>4
    <3> QED
      BY <3>1, <3>2
  <2>6. ASSUME NEW i, NEW c
        PROVE  (i \in 1..Len(pops') /\ pops'[i].obj = o /\ c \in 1..pops'[i].pending)
           <=> (i \in 1..Len(pops) /\ pops[i].obj = o /\ c \in 1..pops[i].pending)
    <3>1. CASE i = m
      <4>1. i \notin 1..Len(pops') /\ ~(c \in 1..pops[i].pending)
        BY <1>1, <1>3, <3>1
      <4> QED
        BY <4>1
    <3>2. CASE i # m
      <4>1. i \in 1..Len(pops') <=> i \in 1..Len(pops)
        BY <1>1, <1>3, <3>2 DEF m
      <4> QED
        BY <1>1, <4>1
    <3> QED
      BY <3>1, <3>2
  <2>7. InPops(o)' = InPops(o)
    BY <2>6, SameInPops
  <2> QED
    BY <1>2, <2>5, <2>7 DEF NoneLostNoneTwice, Owed, S, T
<1> QED
  BY <1>5 DEF NoneLostNoneTwice

\* So are the ones that thread exit frees.
LEMMA OwedFinishExit ==
    ASSUME Inv, Inv', Anchored, NoneLostNoneTwice, FinishExit
    PROVE  NoneLostNoneTwice'
<1>1. /\ exiting /\ pops = <<>> /\ UNCHANGED <<setting, pops, due>>
      /\ pages' = pages \/ pages' = <<>>
  BY DEF FinishExit
<1>2. \A q \in 1..Len(pages) : pages[q] = <<>>
  BY <1>1 DEF Anchored, ExitEmpties, Empty, Inv, TypeOK
<1>3. \A q \in 1..Len(pages') : Len(pages'[q]) = 0
  <2>1. CASE pages' = pages
    BY <1>2, <2>1
  <2>2. CASE pages' = <<>>
    <3>1. Len(pages') = 0
      BY <2>2
    <3> QED
      BY <3>1
  <2> QED
    BY <1>1, <2>1, <2>2
<1>4. ASSUME NEW o \in Objects PROVE due'[o] = Owed(o)'
  <2>1. OnPagesMembers /\ OnPagesMembers'
    BY OnPagesAre, NextMembers
  <2>2. OnPages(o) = {}
    <3>1. \A y \in OnPages(o) : /\ y = <<y[1], y[2], y[3]>> /\ y[1] \in 1..Len(pages)
                               /\ y[2] \in 1..Len(pages[y[1]])
      BY <2>1 DEF OnPagesMembers
    <3>2. \A q \in 1..Len(pages) : Len(pages[q]) = 0
      BY <1>2
    <3> QED
      BY <3>1, <3>2
  <2>3. OnPages(o)' = {}
    <3>1. \A y \in OnPages(o)' : /\ y = <<y[1], y[2], y[3]>> /\ y[1] \in 1..Len(pages')
                                /\ y[2] \in 1..Len(pages'[y[1]])
      BY <2>1 DEF OnPagesMembers
    <3> QED
      BY <1>3, <3>1
  <2>4. InPops(o)' = InPops(o)
    BY <1>1 DEF InPops
  <2> QED
    BY <1>1, <2>2, <2>3, <2>4 DEF NoneLostNoneTwice, Owed
<1> QED
  BY <1>4 DEF NoneLostNoneTwice

\* Nothing is owed at the start.
LEMMA OwedInit == Init => NoneLostNoneTwice
<1> SUFFICES ASSUME Init, NEW o \in Objects PROVE due[o] = Owed(o)
  BY DEF NoneLostNoneTwice
<1>1. DOMAIN pages = {} /\ DOMAIN pops = {} /\ due[o] = 0
  BY DEF Init
<1>2. OnPages(o) = {} /\ InPops(o) = {}
  BY <1>1 DEF OnPages, InPops
<1> QED
  BY <1>1, <1>2, FS_EmptySet DEF Owed

\* Every step keeps the count.
LEMMA OwedNext ==
    Inv /\ Anchored /\ NoneLostNoneTwice /\ [Next]_vars => NoneLostNoneTwice'
<1> SUFFICES ASSUME Inv, Anchored, NoneLostNoneTwice, [Next]_vars
             PROVE  NoneLostNoneTwice'
  OBVIOUS
<1>1. Inv' /\ Anchored'
  BY InvNext, AnchoredNext
<1>2. CASE UNCHANGED <<setting, pages, pops, due>>
  BY <1>2 DEF NoneLostNoneTwice, Owed, OnPages, InPops, Capacity
<1>3. ASSUME NEW o \in Objects, Autorelease(o) PROVE NoneLostNoneTwice'
  BY <1>1, <1>3, OwedAutorelease
<1>4. CASE Push
  BY <1>1, <1>4, OwedPush
<1>5. ASSUME NEW k \in DOMAIN tokens, Pop(k) PROVE NoneLostNoneTwice'
  <2> DEFINE new(p, s) == [page |-> p, stop |-> s, pending |-> 0,
                           obj |-> POOL_BOUNDARY, base |-> Len(tokens')]
  <2>1. UNCHANGED <<setting, pages, due>>
    BY <1>5 DEF Pop
  <2>2. \E p, s : BeginPop(p, s)
    BY <1>5 DEF Pop
  <2>3. \/ UNCHANGED pops
        \/ \E p, s : pops' = Append(pops, new(p, s))
    BY <2>2 DEF BeginPop
  <2>4. \A p, s : new(p, s).pending = 0
    OBVIOUS
  <2> HIDE DEF new
  <2>5. CASE UNCHANGED pops
    BY <1>2, <2>1, <2>5
  <2>6. ASSUME NEW p, NEW s, pops' = Append(pops, new(p, s)) PROVE NoneLostNoneTwice'
    BY <1>1, <2>1, <2>4, <2>6, OwedBegin
  <2> QED
    BY <2>3, <2>5, <2>6
<1>6. ASSUME NEW p \in 1..hot, TakeEntry(p) PROVE NoneLostNoneTwice'
  BY <1>1, <1>6, OwedTakeEntry
<1>7. CASE Released
  BY <1>1, <1>7, OwedReleased
<1>8. CASE FinishPop
  BY <1>1, <1>8, OwedFinishPop
<1>9. CASE ThreadExit
  <2> DEFINE new == [page |-> 1, stop |-> 1, pending |-> 0,
                     obj |-> POOL_BOUNDARY, base |-> Len(tokens')]
  <2>1. UNCHANGED <<setting, pages, due>>
    BY <1>9 DEF ThreadExit
  <2>2. UNCHANGED pops \/ pops' = Append(pops, new)
    BY <1>9 DEF ThreadExit, BeginPop
  <2>3. new.pending = 0
    OBVIOUS
  <2> HIDE DEF new
  <2> QED
    BY <1>1, <1>2, <2>1, <2>2, <2>3, OwedBegin
<1>10. CASE FinishExit
  BY <1>1, <1>10, OwedFinishExit
<1>11. CASE PushPlaceholder \/ (\E k \in DOMAIN tokens : PopPlaceholder(k)) \/ UNCHANGED vars
  BY <1>2, <1>11 DEF PushPlaceholder, PopPlaceholder, vars
<1> QED
  BY <1>3, <1>4, <1>5, <1>6, <1>7, <1>8, <1>9, <1>10, <1>11 DEF Next

\* Without pool debugging every autorelease is answered by exactly one release:
\* coalescing, spilling to another page, popping, freeing pages and thread exit
\* lose none and repeat none.
THEOREM EveryAutoreleaseAnswered == Spec => [](Production => NoneLostNoneTwice)
<1>1. Init => (Production => NoneLostNoneTwice)
  BY OwedInit
<1>2. (Production => Inv /\ Anchored) /\ (Production => NoneLostNoneTwice) /\ [Next]_vars
        => (Production => NoneLostNoneTwice)'
  <2> SUFFICES ASSUME Production => Inv /\ Anchored, Production => NoneLostNoneTwice,
                      [Next]_vars, Production'
               PROVE  NoneLostNoneTwice'
    OBVIOUS
  <2>1. Production
    BY SettingFixed DEF Production
  <2> QED
    BY <2>1, OwedNext
<1> QED
  BY <1>1, <1>2, AnchoredHolds, PTL DEF Spec
=============================================================================
