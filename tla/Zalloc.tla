-------------------------------- MODULE Zalloc -------------------------------
(***************************************************************************)
(* The zone allocator for class_rw_t and class_rw_ext_t: a free list that  *)
(* threads pop from and push to with one compare-and-swap of the head and  *)
(* a generation.  The first load of the pair is not atomic, and the next   *)
(* pointer is read from an element that another thread may meanwhile own   *)
(* and have written over.                                                  *)
(***************************************************************************)
EXTENDS Integers, Sequences, FiniteSets

CONSTANTS
    Threads,
    Slabs,          \* how many slabs may be allocated
    PerSlab,        \* n_elem
    MaxGen,         \* bound on the generation
    Null, Garbage

VARIABLES
    head, gen,      \* _freelist
    next, buf,      \* [element -> the words of its memory]
    slabs,          \* slabs allocated so far
    frame,          \* [thread -> pc, l1 = (h, g), n = l2.head, first, last]
    owner           \* [element -> the thread it was allocated to, or Null]

vars == <<head, gen, next, buf, slabs, frame, owner>>

Element(slab, i) == (slab - 1) * PerSlab + i + 1
Elements == 1 .. Slabs * PerSlab
Idle == [pc |-> "idle", h |-> Null, g |-> 0, n |-> Null, first |-> Null, last |-> Null]

Set(t, f) == frame' = [frame EXCEPT ![t] = f]

----------------------------------------------------------------------------
(* AtomicQueue::pop.  The pair is loaded word by word, in either order.    *)
alloc(t) ==
    /\ frame[t] = Idle /\ gen < MaxGen
    /\ \/ Set(t, [Idle EXCEPT !.pc = "pop_gen", !.h = head])
       \/ Set(t, [Idle EXCEPT !.pc = "pop_head", !.g = gen])
    /\ UNCHANGED <<head, gen, next, buf, slabs, owner>>

pop_load(t) ==
    /\ frame[t].pc \in {"pop_gen", "pop_head"}
    /\ Set(t, IF frame[t].pc = "pop_gen" THEN [frame[t] EXCEPT !.pc = "pop_next", !.g = gen]
              ELSE [frame[t] EXCEPT !.pc = "pop_next", !.h = head])
    /\ UNCHANGED <<head, gen, next, buf, slabs, owner>>

pop_next(t) ==
    /\ frame[t].pc = "pop_next"
    /\ Set(t, IF frame[t].h = Null THEN [Idle EXCEPT !.pc = "slow"]
              ELSE [frame[t] EXCEPT !.pc = "pop_swap", !.n = next[frame[t].h]])
    /\ UNCHANGED <<head, gen, next, buf, slabs, owner>>

(* compare_exchange_weak; when it fails it leaves the pair it found.       *)
pop_swap_NoGeneration(t) ==
    /\ frame[t].pc = "pop_swap"
    /\ IF head = frame[t].h
       THEN head' = frame[t].n /\ gen' = gen + 1 /\ Set(t, [frame[t] EXCEPT !.pc = "zero"])
       ELSE Set(t, [frame[t] EXCEPT !.pc = "pop_next", !.h = head, !.g = gen]) /\ UNCHANGED <<head, gen>>
    /\ UNCHANGED <<next, buf, slabs, owner>>
pop_swap(t) ==
    /\ frame[t].pc = "pop_swap"
    /\ IF head = frame[t].h /\ gen = frame[t].g
       THEN head' = frame[t].n /\ gen' = gen + 1 /\ Set(t, [frame[t] EXCEPT !.pc = "zero"])
       ELSE Set(t, [frame[t] EXCEPT !.pc = "pop_next", !.h = head, !.g = gen]) /\ UNCHANGED <<head, gen>>
    /\ UNCHANGED <<next, buf, slabs, owner>>

(* Zone::alloc clears the word that was the link.                          *)
Owned(e, t) == owner' = [owner EXCEPT ![e] = t]
alloc_zero(t) ==
    /\ frame[t].pc = "zero"
    /\ next' = [next EXCEPT ![frame[t].h] = Null]
    /\ Owned(frame[t].h, t)
    /\ Set(t, [Idle EXCEPT !.pc = "got", !.h = frame[t].h])
    /\ UNCHANGED <<head, gen, buf, slabs>>

(* alloc_slow: a zeroed slab; its first element is the result, the others  *)
(* are linked and pushed.                                                  *)
alloc_slow(t) ==
    /\ frame[t].pc = "slow" /\ slabs < Slabs
    /\ slabs' = slabs + 1
    /\ next' = [e \in Elements |->
           IF \E i \in 1 .. PerSlab - 2 : e = Element(slabs', i) THEN e + 1
           ELSE IF \E i \in 0 .. PerSlab - 1 : e = Element(slabs', i) THEN Null ELSE next[e]]
    /\ buf' = [e \in Elements |-> IF \E i \in 0 .. PerSlab - 1 : e = Element(slabs', i) THEN 0 ELSE buf[e]]
    /\ Owned(Element(slabs', 0), t)
    /\ Set(t, [frame[t] EXCEPT !.pc = "push_load",
                               !.first = Element(slabs', 1), !.last = Element(slabs', PerSlab - 1)])
    /\ UNCHANGED <<head, gen>>

----------------------------------------------------------------------------
(* The owner uses the element; Zone::free.                                 *)
use(t) ==
    /\ \E e \in Elements :
           /\ owner[e] = t /\ buf[e] = 0
           /\ next' = [next EXCEPT ![e] = Garbage] /\ buf' = [buf EXCEPT ![e] = Garbage]
    /\ frame[t] = Idle
    /\ UNCHANGED <<head, gen, slabs, frame, owner>>

free(t) ==
    /\ frame[t] = Idle /\ gen < MaxGen
    /\ \E e \in Elements :
           /\ owner[e] = t
           /\ buf' = [buf EXCEPT ![e] = 0]
           /\ owner' = [owner EXCEPT ![e] = Null]
           /\ Set(t, [Idle EXCEPT !.pc = "push_load", !.first = e, !.last = e])
    /\ UNCHANGED <<head, gen, next, slabs>>

(* push_list.                                                              *)
push_load(t) ==
    /\ frame[t].pc \in {"push_load", "push_gen", "push_head"}
    /\ CASE frame[t].pc = "push_gen" -> Set(t, [frame[t] EXCEPT !.pc = "push_link", !.g = gen])
         [] frame[t].pc = "push_head" -> Set(t, [frame[t] EXCEPT !.pc = "push_link", !.h = head])
         [] OTHER -> \/ Set(t, [frame[t] EXCEPT !.pc = "push_gen", !.h = head])
                     \/ Set(t, [frame[t] EXCEPT !.pc = "push_head", !.g = gen])
    /\ UNCHANGED <<head, gen, next, buf, slabs, owner>>

push_link(t) ==
    /\ frame[t].pc = "push_link"
    /\ next' = [next EXCEPT ![frame[t].last] = frame[t].h]
    /\ Set(t, [frame[t] EXCEPT !.pc = "push_swap"])
    /\ UNCHANGED <<head, gen, buf, slabs, owner>>

push_swap(t) ==
    /\ frame[t].pc = "push_swap"
    /\ IF head = frame[t].h /\ gen = frame[t].g
       THEN head' = frame[t].first /\ gen' = gen + 1 /\ Set(t, Idle)
       ELSE Set(t, [frame[t] EXCEPT !.pc = "push_link", !.h = head, !.g = gen]) /\ UNCHANGED <<head, gen>>
    /\ UNCHANGED <<next, buf, slabs, owner>>

return(t) ==
    /\ frame[t].pc = "got" /\ Set(t, Idle)
    /\ UNCHANGED <<head, gen, next, buf, slabs, owner>>

Init ==
    /\ head = Null /\ gen = 0
    /\ next = [e \in Elements |-> Null] /\ buf = [e \in Elements |-> 0]
    /\ slabs = 0
    /\ frame = [t \in Threads |-> Idle]
    /\ owner = [e \in Elements |-> Null]

Next ==
    \E t \in Threads :
        \/ alloc(t) \/ pop_load(t) \/ pop_next(t) \/ pop_swap(t) \/ alloc_zero(t) \/ alloc_slow(t)
        \/ use(t) \/ free(t) \/ push_load(t) \/ push_link(t) \/ push_swap(t) \/ return(t)

----------------------------------------------------------------------------
(* The free list holds exactly the elements that nobody owns or is about   *)
(* to own or to give back, each once, and never leads into memory that is  *)
(* in use; an element comes zeroed.                                        *)
RECURSIVE Walk(_, _)
Walk(e, n) == IF e \notin Elements \/ n = 0 THEN <<>> ELSE <<e>> \o Walk(next[e], n - 1)
FreeList == Walk(head, Cardinality(Elements) + 1)
Pushed(t) == IF frame[t].pc \in {"push_load", "push_gen", "push_head", "push_link", "push_swap"}
             THEN frame[t].first .. frame[t].last ELSE {}
Popped(t) == IF frame[t].pc = "zero" THEN {frame[t].h} ELSE {}
ZoneSound ==
    LET listed == {FreeList[i] : i \in DOMAIN FreeList}
        held == {e \in Elements : owner[e] # Null}
        moving == UNION {Pushed(t) \cup Popped(t) : t \in Threads}
    IN /\ Len(FreeList) = Cardinality(listed)
       /\ listed \cap held = {} /\ listed \cap moving = {} /\ held \cap moving = {}
       /\ listed \cup held \cup moving = 1 .. slabs * PerSlab
       /\ \A t, u \in Threads : t # u => (Pushed(t) \cup Popped(t)) \cap (Pushed(u) \cup Popped(u)) = {}
       /\ \A t \in Threads : frame[t].pc = "got" => next[frame[t].h] = Null /\ buf[frame[t].h] = 0

=============================================================================
