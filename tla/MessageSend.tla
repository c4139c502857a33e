----------------------------- MODULE MessageSend -----------------------------
(***************************************************************************)
(* Message sends of the Windows port, whose messengers are written in this *)
(* file's assembly over the method caches of the old runtime.  A messenger *)
(* scans the cache bucket by bucket with no lock while other threads fill, *)
(* reuse and replace caches and add methods; nothing it may look at is     *)
(* ever freed there.                                                       *)
(***************************************************************************)
EXTENDS Integers, Sequences, FiniteSets, SequencesExt

CONSTANTS
    Threads,
    Classes, Superclass,    \* [class -> its superclass or Nil]
    Selectors,              \* addresses
    Methods,                \* the methods from the start, a set of <<class, sel>>
    Added,                  \* the methods that are added later
    Kinds,                  \* the messengers used, of send, fpret, stret, super, super_stret
    Warm,                   \* [caches, cache]s that earlier sends may have left
    MaxSends, Nil

VARIABLES
    methods,        \* method lists
    caches,         \* every cache ever made: [mask, occupied, buckets]; 1 is the empty cache
    cache,          \* [class -> index into caches]
    grow,           \* [class -> shouldGrowCache]
    adding,         \* the method being added, and the buckets left to flush
    frame,          \* [thread -> what its send has in registers and arguments]
    sends

vars == <<methods, caches, cache, grow, adding, frame, sends>>

Idle == [pc |-> "idle", kind |-> "send", sel |-> 0, receiver |-> Nil, arg |-> Nil, cls |-> Nil,
         at |-> 1, index |-> 0, imp |-> Nil, stret |-> FALSE, valid |-> {}]
NotAdding == [on |-> FALSE, m |-> <<Nil, 0>>, locked |-> FALSE, left |-> {}]
Forward == "forward"
RECURSIVE Resolve(_, _, _)
Resolve(ms, cls, sel) ==
    CASE cls = Nil -> Forward
      [] <<cls, sel>> \in ms -> cls
      [] OTHER -> Resolve(ms, Superclass[cls], sel)
RECURSIVE IsKind(_, _)
IsKind(c, d) == c # Nil /\ (c = d \/ IsKind(Superclass[c], d))

(* An entry is a method, or one that forwards.  The implementation of a    *)
(* method is named after the class that has it.                            *)
Entry(sel, imp) == [name |-> sel, imp |-> imp]
NoEntry == Entry(0, Nil)

----------------------------------------------------------------------------
(* CACHE_HASH, and CacheLookup as one run over a cache that does not       *)
(* change, which is how _cache_getImp is used under the lock.              *)
CACHE_HASH(sel, mask) == (sel \div 4) % (mask + 1)
RECURSIVE Scan(_, _, _)
Scan(c, sel, index) ==
    CASE c.buckets[index] = NoEntry -> Nil
      [] c.buckets[index].name = sel -> c.buckets[index].imp
      [] OTHER -> Scan(c, sel, (index + 1) % (c.mask + 1))
_cache_getImp(cs, cls, sel) == LET c == cs[cache[cls]] IN Scan(c, sel, CACHE_HASH(sel, c.mask))
_cache_getMethod(cs, cls, sel) ==               \* not one that forwards
    LET imp == _cache_getImp(cs, cls, sel) IN IF imp = Forward THEN Nil ELSE imp

EmptyCache(slots) == [mask |-> slots - 1, occupied |-> 0, buckets |-> [i \in 0 .. slots - 1 |-> NoEntry]]

(* _cache_expand: the first real cache, the same one emptied, or another   *)
(* of twice the size, in turn.  The result is [caches, at, grow].          *)
_cache_expand(cls) ==
    LET old == cache[cls] IN
    CASE old = 1 -> [caches |-> Append(caches, EmptyCache(4)), at |-> Len(caches) + 1, grow |-> FALSE]
      [] old # 1 /\ ~grow[cls] ->
            [caches |-> [caches EXCEPT ![old] = EmptyCache(@.mask + 1)], at |-> old, grow |-> TRUE]
      [] OTHER ->
            [caches |-> Append(caches, EmptyCache(2 * (caches[old].mask + 1))),
             at |-> Len(caches) + 1, grow |-> FALSE]

RECURSIVE FreeSlot(_, _)
FreeSlot(c, index) == IF c.buckets[index] = NoEntry THEN index ELSE FreeSlot(c, (index + 1) % (c.mask + 1))

_cache_fill(cls, sel, imp) ==
    LET old == caches[cache[cls]]
        e == IF (old.occupied + 1) * 4 <= (old.mask + 1) * 3
             THEN [caches |-> caches, at |-> cache[cls], grow |-> grow[cls]]
             ELSE _cache_expand(cls)
        c == e.caches[e.at]
        slot == FreeSlot(c, CACHE_HASH(sel, c.mask))
    IN IF _cache_getImp(caches, cls, sel) # Nil THEN UNCHANGED <<caches, cache, grow>>
       ELSE /\ caches' = [e.caches EXCEPT ![e.at].occupied = @ + 1, ![e.at].buckets[slot] = Entry(sel, imp)]
            /\ cache' = [cache EXCEPT ![cls] = e.at]
            /\ grow' = [grow EXCEPT ![cls] = e.grow]

(* What lookUpImpOrForward finds: the class's cache, its methods, then the *)
(* same for every superclass.                                              *)
RECURSIVE LookUpFrom(_, _)
LookUpFrom(cls, sel) ==
    CASE cls = Nil -> Forward
      [] _cache_getMethod(caches, cls, sel) # Nil -> _cache_getMethod(caches, cls, sel)
      [] <<cls, sel>> \in methods -> cls
      [] OTHER -> LookUpFrom(Superclass[cls], sel)
lookUp(cls, sel) ==
    LET imp == _cache_getImp(caches, cls, sel) IN IF imp # Nil THEN imp ELSE LookUpFrom(cls, sel)

----------------------------------------------------------------------------
(* The messengers.  A receiver is Nil or an object, named by its class;    *)
(* a super send has the object and the class where the search starts.      *)
(* The file has the same code five times, for send, fpret, stret, super    *)
(* and super_stret: an action is that step of all of them, and kind is     *)
(* which one runs.                                                         *)
IsSuper(kind) == kind \in {"super", "super_stret"}
ReturnsStruct(kind) == kind \in {"stret", "super_stret"}

Valid(cls, sel) ==      \* what may be found now
    {Resolve(methods, cls, sel)}
    \cup IF ~adding.on THEN {} ELSE {Resolve(methods \ {adding.m}, cls, sel)}

objc_msgSend(t) ==
    /\ frame[t] = Idle /\ sends < MaxSends
    /\ \E kind \in Kinds, sel \in Selectors, obj \in Classes \cup {Nil} :
           LET cls == IF IsSuper(kind) THEN Superclass[obj] ELSE obj IN
           /\ IsSuper(kind) => obj # Nil /\ Superclass[obj] # Nil
           /\ frame' = [frame EXCEPT ![t] =
                 IF obj = Nil THEN [Idle EXCEPT !.pc = "returned", !.kind = kind]
                 ELSE [Idle EXCEPT !.pc = "class", !.kind = kind, !.sel = sel, !.receiver = obj, !.cls = cls,
                                   !.arg = IF IsSuper(kind) THEN "super" ELSE obj,
                                   !.valid = Valid(cls, sel)]]
    /\ sends' = sends + 1
    /\ UNCHANGED <<methods, caches, cache, grow, adding>>

(* CacheLookup: the cache and its mask once, then bucket after bucket.     *)
LoadCache(t) ==
    /\ frame[t].pc = "class"
    /\ LET at == cache[frame[t].cls]
       IN frame' = [frame EXCEPT ![t].pc = "scan", ![t].at = at,
                                 ![t].index = CACHE_HASH(frame[t].sel, caches[at].mask)]
    /\ UNCHANGED <<methods, caches, cache, grow, adding, sends>>

SCAN(t) ==
    /\ frame[t].pc = "scan"
    /\ LET f == frame[t]
           entry == caches[f.at].buckets[f.index]
       IN frame' = [frame EXCEPT ![t] =
              CASE entry = NoEntry -> [f EXCEPT !.pc = "MISS"]
                [] entry # NoEntry /\ entry.name = f.sel -> [f EXCEPT !.pc = "HIT", !.imp = entry.imp]
                [] OTHER -> [f EXCEPT !.index = (@ + 1) % (caches[f.at].mask + 1)]]
    /\ UNCHANGED <<methods, caches, cache, grow, adding, sends>>

(* The jump: a super send passes the receiver in place of the structure,   *)
(* and the messenger says by a register which kind of forwarding it needs. *)
Jump_SuperLeft(f, imp) ==
    [f EXCEPT !.pc = "called", !.imp = imp, !.stret = ReturnsStruct(f.kind)]
Jump(f, imp) ==
    [f EXCEPT !.pc = "called", !.imp = imp, !.stret = ReturnsStruct(f.kind),
              !.arg = IF IsSuper(f.kind) THEN f.receiver ELSE @]

HIT(t) ==
    /\ frame[t].pc = "HIT"
    /\ frame' = [frame EXCEPT ![t] = Jump(@, @.imp)]
    /\ UNCHANGED <<methods, caches, cache, grow, adding, sends>>

(* lookUpImpOrForward under methodListLock; it fills the cache, for which  *)
(* it needs the lock a flush holds.                                        *)
MISS(t) ==
    /\ frame[t].pc = "MISS" /\ ~adding.locked
    /\ LET imp == lookUp(frame[t].cls, frame[t].sel)
       IN /\ _cache_fill(frame[t].cls, frame[t].sel, imp)
          /\ frame' = [frame EXCEPT ![t] = Jump(@, imp)]
    /\ UNCHANGED <<methods, adding, sends>>

(* What is called: the method, or a forwarding handler for its kind.       *)
_objc_msgForward_cached(f) == IF f.stret THEN "_objc_forward_stret_handler" ELSE "_objc_forward_handler"
Callee(f) == IF f.imp = Forward THEN _objc_msgForward_cached(f) ELSE f.imp

return(t) ==
    /\ frame[t].pc \in {"called", "returned"}
    /\ frame' = [frame EXCEPT ![t] = Idle]
    /\ UNCHANGED <<methods, caches, cache, grow, adding, sends>>

----------------------------------------------------------------------------
(* class_addMethods: the method first, then, under the lock, the caches of *)
(* the class and its subclasses are flushed bucket by bucket.              *)
flush_caches_TargetOnly(target) == {target}
flush_caches(target) == {c \in Classes : IsKind(c, target)}

class_addMethods ==
    /\ ~adding.on
    /\ \E m \in Added \ methods :
           /\ methods' = methods \cup {m}
           /\ adding' = [on |-> TRUE, m |-> m, locked |-> FALSE, left |-> {}]
           /\ frame' = [t \in Threads |->
                 [frame[t] EXCEPT !.valid =
                     IF frame[t].cls = Nil THEN @ ELSE @ \cup {Resolve(methods \cup {m}, frame[t].cls, frame[t].sel)}]]
    /\ UNCHANGED <<caches, cache, grow, sends>>

flush_begin ==
    /\ adding.on /\ ~adding.locked
    /\ adding' = [adding EXCEPT !.locked = TRUE,
          !.left = UNION {{c} \X (0 .. caches[cache[c]].mask) : c \in flush_caches(adding.m[1])}]
    /\ UNCHANGED <<methods, caches, cache, grow, frame, sends>>

_cache_flush ==
    /\ adding.locked
    /\ IF adding.left = {} THEN adding' = NotAdding /\ UNCHANGED caches
       ELSE \E slot \in adding.left :
              LET at == cache[slot[1]]
                  of == {s \in adding.left : s[1] = slot[1]}
              IN /\ \A s \in of : slot[2] <= s[2]           \* in the order of its buckets
                 /\ caches' = [caches EXCEPT ![at].buckets[slot[2]] = NoEntry,
                                             ![at].occupied = IF of = {slot} THEN 0 ELSE @]
                 /\ adding' = [adding EXCEPT !.left = @ \ {slot}]
    /\ UNCHANGED <<methods, cache, grow, frame, sends>>

Init ==
    /\ methods = Methods
    /\ \E w \in Warm : caches = w.caches /\ cache = w.cache
    /\ grow = [c \in Classes |-> FALSE]
    /\ adding = NotAdding
    /\ frame = [t \in Threads |-> Idle] /\ sends = 0

Next ==
    \/ \E t \in Threads : objc_msgSend(t) \/ LoadCache(t) \/ SCAN(t) \/ HIT(t) \/ MISS(t) \/ return(t)
    \/ class_addMethods \/ flush_begin \/ _cache_flush

----------------------------------------------------------------------------
(* A message calls the method its receiver's class (for super: the         *)
(* superclass) had at some moment of the send, never one that was          *)
(* overridden before it; self is the receiver; an unknown message goes to  *)
(* the forwarding handler of its kind.  A scan always has a free bucket to *)
(* end at.                                                                 *)
SendsReachTheMethod ==
    /\ \A t \in Threads : frame[t].pc = "called" =>
           /\ frame[t].imp \in frame[t].valid
           /\ frame[t].arg = frame[t].receiver
           /\ Callee(frame[t]) = "_objc_forward_stret_handler" => ReturnsStruct(frame[t].kind)
           /\ Callee(frame[t]) = "_objc_forward_handler" => ~ReturnsStruct(frame[t].kind)
    /\ \A k \in DOMAIN caches : \E i \in DOMAIN caches[k].buckets : caches[k].buckets[i] = NoEntry

=============================================================================
