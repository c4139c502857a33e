--------------------------- MODULE AutoreleasePool ---------------------------
(***************************************************************************)
(* The autorelease pool of one thread, class AutoreleasePoolPage of        *)
(* runtime/NSObject.mm.  It is a stack of objects to release and pool      *)
(* boundaries, cut into pages; page i+1 is the child of page i.  Popping a *)
(* pool releases its objects, and -dealloc runs in the middle of that: it  *)
(* may push pools, autorelease objects and pop pools itself.               *)
(***************************************************************************)
EXTENDS Integers, Sequences, FiniteSets

CONSTANTS
    Objects,
    POOL_BOUNDARY,  \* nil
    MaxCount,       \* AutoreleasePoolEntry::maxCount
    Settings,       \* the builds and environments to run in: see Setting
    MaxPages,       \* bounds the pages
    MaxTokens,      \*   the pools pushed and not popped
    MaxPops,        \*   the pops in progress
    MaxDue          \*   the releases each object is owed

Setting ==
    [capacity : Nat \ {0, 1},  \* the slots of a page, end() - begin()
     debugPool : BOOLEAN,     \* DebugPoolAllocation
     debugMissing : BOOLEAN,  \* DebugMissingPools
     coalesce : {"none", "last", "recent"},  \* Disable...Coalescing, ...LRU
     leaves : BOOLEAN]  \* whether a -dealloc may leave a pool it pushed

ASSUME PoolAssumption ==
    /\ POOL_BOUNDARY \notin Objects
    /\ MaxCount \in Nat
    /\ Settings \subseteq Setting
    /\ MaxPages \in Nat /\ MaxTokens \in Nat /\ MaxPops \in Nat
    /\ MaxDue \in [Objects -> Nat]

VARIABLES
    setting,      \* fixed by the build and when the process starts
    pages,        \* the contents of each page, coldest first
    hot,          \* hotPage(): its number, or 0 when the TLS value is not a page
    placeholder,  \* the TLS value is EMPTY_POOL_PLACEHOLDER
    tokens,       \* what push() returned, for the pools not yet popped
    pops,         \* the pops in progress, innermost last
    exiting,      \* tls_dealloc is running
    due,          \* ghost: the releases each object is owed
    bad           \* badPop

vars == <<setting, pages, hot, placeholder, tokens, pops, exiting, due, bad>>

Entry == [ptr : Objects \cup {POOL_BOUNDARY}, count : 0..MaxCount]

\* A token; page 0 is EMPTY_POOL_PLACEHOLDER.
Token == [page : Nat, slot : Nat]

\* A call of releaseUntil: `this`, `stop`, the object being released, the
\* releases it still gets, and how many tokens were there when it began.
Popping ==
    [page : Nat \ {0}, stop : Nat \ {0}, obj : Objects \cup {POOL_BOUNDARY},
     pending : Nat, base : Nat]

TypeOK ==
    /\ setting \in Settings
    /\ pages \in Seq(Seq(Entry))
    /\ hot \in 0..Len(pages)
    /\ placeholder \in BOOLEAN
    /\ tokens \in Seq(Token)
    /\ pops \in Seq(Popping)
    /\ exiting \in BOOLEAN
    /\ due \in [Objects -> Int]
    /\ bad \in BOOLEAN

Init ==
    /\ setting \in Settings
    /\ pages = <<>>
    /\ hot = 0
    /\ placeholder = FALSE
    /\ tokens = <<>>
    /\ pops = <<>>
    /\ exiting = FALSE
    /\ due = [o \in Objects |-> 0]
    /\ bad = FALSE

Top == pops[Len(pops)]

\* The innermost pop now has n releases of o to make.
SetTop(o, n) ==
    [pops EXCEPT ![Len(pops)] =
        [page |-> Top.page, stop |-> Top.stop, obj |-> o, pending |-> n,
         base |-> Top.base]]

Base == IF pops = <<>> THEN 0 ELSE Top.base

\* The program runs: outside of any pop, or in the release of an object.
Running ==
    /\ ~exiting \/ pops # <<>>
    /\ pops # <<>> => Top.pending > 0
    /\ ~bad

Capacity == setting.capacity

Full(p) == Len(pages[p]) = Capacity
Empty(p) == pages[p] = <<>>

-----------------------------------------------------------------------------
(* Adding to a page. *)

LookBack == 4

\* Mutant: the look-back does not end at a pool boundary.
Coalescable_CrossesBoundary(s, o, i) ==
    /\ o # POOL_BOUNDARY
    /\ s[i].ptr = o
    /\ s[i].count < MaxCount
    /\ setting.coalesce # "none"
    /\ i > 1

\* Mutant: the count is not checked against its width.
Coalescable_Overflows(s, o, i) ==
    /\ s[i].ptr = o
    /\ setting.coalesce = "recent"
    /\ i > 1
    /\ \A j \in i..Len(s) : s[j].ptr # POOL_BOUNDARY

\* Another autorelease of o may be counted in entry i of page contents s.  The
\* look-back skips the first slot and ends at a boundary.
Coalescable(s, o, i) ==
    /\ o # POOL_BOUNDARY
    /\ s[i].ptr = o
    /\ s[i].count < MaxCount
    /\ \/ setting.coalesce = "last" /\ i = Len(s)
       \/ /\ setting.coalesce = "recent"
          /\ i > 1
          /\ Len(s) - i < LookBack
          /\ \A j \in i..Len(s) : s[j].ptr # POOL_BOUNDARY

\* The loop finds entry i first.
Found(s, o, i) ==
    /\ Coalescable(s, o, i)
    /\ \A j \in i + 1 .. Len(s) : ~Coalescable(s, o, j)

\* Mutant: the autorelease is not counted.
Coalesce_NotCounted(s, i) ==
    SubSeq(s, 1, i - 1) \o SubSeq(s, i + 1, Len(s)) \o <<s[i]>>

\* The entry is moved to the top, and the ones above it down.
Coalesce(s, i) ==
    SubSeq(s, 1, i - 1) \o SubSeq(s, i + 1, Len(s))
        \o <<[ptr |-> s[i].ptr, count |-> s[i].count + 1]>>

\* add() on page contents s; what it returns is the last slot.
add(s, o) ==
    IF \E i \in 1..Len(s) : Found(s, o, i)
    THEN Coalesce(s, CHOOSE i \in 1..Len(s) : Found(s, o, i))
    ELSE Append(s, [ptr |-> o, count |-> 0])

\* Mutant: always a new page, although an empty child was kept.
NextRoom_AlwaysNew == Len(pages) + 1

\* autoreleaseFullPage: the first page after the hot one that is not full,
\* or a new one.
NextRoom ==
    CHOOSE n \in hot + 1 .. Len(pages) + 1 :
        /\ n <= Len(pages) => ~Full(n)
        /\ \A m \in hot + 1 .. n - 1 : Full(m)

AddTo(n, o) ==
    /\ n <= MaxPages
    /\ pages' = IF n <= Len(pages) THEN [pages EXCEPT ![n] = add(@, o)]
                ELSE Append(pages, add(<<>>, o))
    /\ hot' = n
    /\ UNCHANGED placeholder

\* autoreleaseNoPage with a placeholder in TLS: a boundary for the pool it
\* stands for, then o.
ReplacePlaceholder(o) ==
    /\ pages' = <<add(add(<<>>, POOL_BOUNDARY), o)>>
    /\ hot' = 1
    /\ placeholder' = FALSE

\* autoreleaseFast, or with newPage autoreleaseNewPage, whenever a page is
\* written.
Place(o, newPage) ==
    \/ /\ hot # 0 /\ ~newPage /\ ~Full(hot)
       /\ AddTo(hot, o)
    \/ /\ hot # 0 /\ (newPage \/ Full(hot))
       /\ AddTo(NextRoom, o)
    \/ /\ hot = 0 /\ placeholder
       /\ ReplacePlaceholder(o)
    \/ /\ hot = 0 /\ ~placeholder
       /\ AddTo(1, o)

\* Bounds the pools; a -dealloc must be able to pop what it pushes.
RoomToPush == Len(tokens) < MaxTokens /\ Len(pops) < MaxPops

\* objc_autorelease(o).  Without any pool DebugMissingPools leaks the object.
Autorelease(o) ==
    /\ Running
    /\ due[o] < MaxDue[o]
    /\ hot = 0 /\ ~placeholder => ~setting.debugMissing
    /\ Place(o, FALSE)
    /\ due' = [due EXCEPT ![o] = @ + 1]
    /\ UNCHANGED <<setting, tokens, pops, exiting, bad>>

\* objc_autoreleasePoolPush().
Push ==
    /\ Running
    /\ RoomToPush
    /\ hot = 0 /\ ~placeholder => setting.debugPool
    /\ Place(POOL_BOUNDARY, setting.debugPool)
    /\ tokens' = Append(tokens, [page |-> hot', slot |-> Len(pages'[hot'])])
    /\ UNCHANGED <<setting, pops, exiting, due, bad>>

\* The first pool of a thread is only a placeholder.
PushPlaceholder ==
    /\ Running
    /\ RoomToPush
    /\ hot = 0 /\ ~placeholder /\ ~setting.debugPool
    /\ placeholder' = TRUE
    /\ tokens' = Append(tokens, [page |-> 0, slot |-> 0])
    /\ UNCHANGED <<setting, pages, hot, pops, exiting, due, bad>>

-----------------------------------------------------------------------------
(* Popping. *)

\* *stop, when it is a slot in use; a slot given up holds SCRIBBLE.
IsBoundary(p, slot) ==
    /\ p <= Len(pages)
    /\ slot <= Len(pages[p])
    /\ pages[p][slot].ptr = POOL_BOUNDARY

\* pop() up to the call of popPage, for a token that stands for page p and
\* slot.  Only the start of the coldest page need not be a boundary.
BeginPop(p, slot) ==
    IF IsBoundary(p, slot) \/ (slot = 1 /\ p = 1)
    THEN /\ pops' = Append(pops, [page |-> p, stop |-> slot, pending |-> 0,
                                  obj |-> POOL_BOUNDARY, base |-> Len(tokens')])
         /\ UNCHANGED bad
    ELSE bad' = TRUE /\ UNCHANGED pops

\* objc_autoreleasePoolPop(token) for the k-th pool, which ends the ones
\* pushed after it too.  A -dealloc only pops its own pools.
Pop(k) ==
    /\ Running
    /\ Len(pops) < MaxPops
    /\ k > Base
    /\ hot # 0 \/ tokens[k].page # 0
    /\ tokens' = SubSeq(tokens, 1, k - 1)
    /\ IF tokens[k].page = 0 THEN BeginPop(1, 1)
       ELSE BeginPop(tokens[k].page, tokens[k].slot)
    /\ UNCHANGED <<setting, pages, hot, placeholder, exiting, due>>

\* The placeholder pool was never used.
PopPlaceholder(k) ==
    /\ Running
    /\ k > Base
    /\ hot = 0 /\ tokens[k].page = 0
    /\ placeholder' = FALSE
    /\ tokens' = SubSeq(tokens, 1, k - 1)
    /\ UNCHANGED <<setting, pages, hot, pops, exiting, due, bad>>

\* releaseUntil has work to do, and is not inside a release.
Releasing ==
    /\ pops # <<>> /\ ~bad
    /\ Top.pending = 0
    /\ Len(pages[Top.page]) # Top.stop - 1

\* The page the inner while ends at.
IsHottest(p) ==
    /\ ~Empty(p)
    /\ \A q \in p + 1 .. hot : Empty(q)

\* Mutant: the loop stays on `this` instead of restarting from hotPage().
TakeEntry_FromThis(p) ==
    /\ Releasing
    /\ p = Top.page
    /\ LET s == pages[p]
           entry == s[Len(s)]
       IN  /\ hot' = p
           /\ pages' = [pages EXCEPT ![p] = SubSeq(s, 1, Len(s) - 1)]
           /\ pops' = SetTop(entry.ptr, IF entry.ptr = POOL_BOUNDARY
                                       THEN 0 ELSE entry.count + 1)
    /\ UNCHANGED <<setting, placeholder, tokens, exiting, due, bad>>

\* One round of releaseUntil's loop, down to the first objc_release.
TakeEntry(p) ==
    /\ Releasing
    /\ IsHottest(p)
    /\ LET s == pages[p]
           entry == s[Len(s)]
       IN  /\ hot' = p
           /\ pages' = [pages EXCEPT ![p] = SubSeq(s, 1, Len(s) - 1)]
           /\ pops' = SetTop(entry.ptr, IF entry.ptr = POOL_BOUNDARY
                                       THEN 0 ELSE entry.count + 1)
    /\ UNCHANGED <<setting, placeholder, tokens, exiting, due, bad>>

\* An objc_release returns, and with it the -dealloc it may have caused.
Released ==
    /\ pops # <<>> /\ Running
    /\ Len(tokens) > Base => setting.leaves
    /\ due' = [due EXCEPT ![Top.obj] = @ - 1]
    /\ tokens' = SubSeq(tokens, 1, Base)
    /\ pops' = SetTop(Top.obj, Top.pending - 1)
    /\ UNCHANGED <<setting, pages, hot, placeholder, exiting, bad>>

lessThanHalfFull(p) == Len(pages[p]) < Capacity \div 2

\* Mutant: page->kill() for page->child->kill().
Kept_KillsThis(p) ==
    IF setting.debugPool /\ Empty(p) THEN p - 1
    ELSE IF lessThanHalfFull(p) /\ p > 1 THEN p - 1
    ELSE IF p < Len(pages) THEN p + 1 ELSE p

\* Mutant: no hysteresis, children are kept.
Kept_KeepsChildren(p) ==
    IF setting.debugPool /\ Empty(p) THEN p - 1
    ELSE IF setting.debugMissing /\ Empty(p) /\ p = 1 THEN 0
    ELSE Len(pages)

\* How many pages popPage keeps after releaseUntil on page p.
Kept(p) ==
    IF setting.debugPool /\ Empty(p) THEN p - 1
    ELSE IF setting.debugMissing /\ Empty(p) /\ p = 1 THEN 0
    ELSE IF lessThanHalfFull(p) THEN p
    ELSE IF p < Len(pages) THEN p + 1 ELSE p

\* releaseUntil is done: the rest of it, and of popPage.
FinishPop ==
    /\ pops # <<>> /\ ~bad
    /\ Top.pending = 0
    /\ Len(pages[Top.page]) = Top.stop - 1
    /\ pages' = SubSeq(pages, 1, Kept(Top.page))
    /\ hot' = IF Kept(Top.page) < Top.page THEN Kept(Top.page) ELSE Top.page
    /\ pops' = SubSeq(pops, 1, Len(pops) - 1)
    /\ UNCHANGED <<setting, placeholder, tokens, exiting, due, bad>>

-----------------------------------------------------------------------------
(* Thread exit. *)

\* tls_dealloc up to the call of pop.  No pool can be popped any more.
ThreadExit ==
    /\ Running /\ pops = <<>>
    /\ tokens' = <<>>
    /\ placeholder' = FALSE
    /\ IF hot # 0 /\ ~Empty(1) THEN BeginPop(1, 1) ELSE UNCHANGED <<pops, bad>>
    /\ exiting' = TRUE
    /\ UNCHANGED <<setting, pages, hot, due>>

\* The rest of tls_dealloc; the destructor of another key may then start over.
FinishExit ==
    /\ exiting /\ pops = <<>> /\ ~bad
    /\ pages' = IF hot = 0 \/ setting.debugMissing \/ setting.debugPool
                THEN pages ELSE <<>>
    /\ hot' = 0
    /\ exiting' = FALSE
    /\ UNCHANGED <<setting, placeholder, tokens, pops, due, bad>>

-----------------------------------------------------------------------------
Next ==
    \/ \E o \in Objects : Autorelease(o)
    \/ Push
    \/ PushPlaceholder
    \/ \E k \in DOMAIN tokens : Pop(k)
    \/ \E k \in DOMAIN tokens : PopPlaceholder(k)
    \/ \E p \in 1..hot : TakeEntry(p)
    \/ Released
    \/ FinishPop
    \/ ThreadExit
    \/ FinishExit

Spec == Init /\ [][Next]_vars

-----------------------------------------------------------------------------
(* Properties. *)

\* The releases of o that the pages hold: page, slot and number in its entry.
OnPages(o) ==
    {x \in (DOMAIN pages) \X (1..Capacity) \X (0..MaxCount) :
        /\ x[2] <= Len(pages[x[1]])
        /\ pages[x[1]][x[2]].ptr = o
        /\ x[3] <= pages[x[1]][x[2]].count}

\* The ones that the pops in progress have taken and not made yet.
InPops(o) ==
    {x \in (DOMAIN pops) \X (1 .. MaxCount + 1) :
        pops[x[1]].obj = o /\ x[2] <= pops[x[1]].pending}

Owed(o) == Cardinality(OnPages(o)) + Cardinality(InPops(o))

\* Every autorelease is answered by exactly one release: whatever was
\* coalesced, moved, spilled to another page or freed with its page, the pages
\* and the pops in progress hold what each object is owed (add(), releaseUntil
\* and kill()).
NoneLostNoneTwice == \A o \in Objects : due[o] = Owed(o)

\* A pool popped at most once, and not after one outside it, is always found:
\* badPop() never reports "Invalid or prematurely-freed autorelease pool".
NoBadPop == ~bad

\* The pages that hold what push() and pop() still point to are never freed
\* under them: the page a pop works on, however its releases push and pop, and
\* the page of every token (kill(), from popPage).
NoDanglingPage ==
    /\ \A i \in DOMAIN pops : pops[i].page <= Len(pages)
    /\ \A k \in DOMAIN tokens : tokens[k].page <= Len(pages)

\* The entries below slot n of page p, and the pages before it.
Below(ps, p, n) == <<SubSeq(ps, 1, p - 1), SubSeq(ps[p], 1, n - 1)>>

\* The step leaves what is below the boundary of every pool that is there before
\* and after it, and below the place where every pop in progress stops.
LeavesOuterPools ==
    /\ \A k \in DOMAIN tokens \cap DOMAIN tokens' :
        tokens[k].page # 0 =>
            Below(pages', tokens[k].page, tokens[k].slot)
                = Below(pages, tokens[k].page, tokens[k].slot)
    /\ \A i \in DOMAIN pops \cap DOMAIN pops' :
        Below(pages', pops[i].page, pops[i].stop)
            = Below(pages, pops[i].page, pops[i].stop)

\* Nothing done inside a pool reaches the pools around it: neither coalescing
\* with an object that was autoreleased before the pool was pushed, nor a pop
\* in progress with anything that -dealloc does meanwhile, changes an entry
\* below the pool's boundary (add() and releaseUntil).
OuterPoolsUntouched == [][LeavesOuterPools]_vars

Trimmed ==
    /\ Len(pages) <= hot + 1
    /\ Len(pages) = hot + 1 => ~lessThanHalfFull(hot)

\* popPage's hysteresis: between pops at most one page is kept beyond the hot
\* one, and only when the hot one is at least half full.
PagesTrimmed == pops = <<>> /\ hot # 0 => Trimmed

\* The expectation asserted at the end of releaseUntil: when the page is down
\* to `stop`, its children are completely empty, so that popPage frees no page
\* with objects in it.
ChildrenEmpty ==
    pops # <<>> /\ Top.pending = 0 /\ Len(pages[Top.page]) = Top.stop - 1 =>
        \A p \in Top.page + 1 .. Len(pages) : Empty(p)

\* The comment in releaseUntil: "I think this `while` can be `if`, but I can't
\* prove it".  When the hot page is empty there, its parent is not.
WhileCanBeIf == Releasing /\ Empty(hot) => hot > 1 /\ ~Empty(hot - 1)

\* No page is allocated that the thread does not know of: pages are freed
\* before the TLS value becomes nil, at thread exit too (tls_dealloc).
NoPageLeaked == hot = 0 => pages = <<>>

-----------------------------------------------------------------------------
(* The inductive invariant, for the environments without pool debugging. *)

\* The pages before the hot one are full and the ones after it empty.
PagesContiguous ==
    \A p \in DOMAIN pages :
        /\ Len(pages[p]) <= Capacity
        /\ p < hot => Len(pages[p]) = Capacity
        /\ p > hot => Len(pages[p]) = 0

\* A position in the stack of entries that comes before another, or is it.
NotAfter(p1, s1, p2, s2) == p1 < p2 \/ (p1 = p2 /\ s1 <= s2)

\* The pops in progress are inside the stack and nested, and all but the
\* innermost are waiting for a release.
PopsNested ==
    /\ \A i \in DOMAIN pops :
        /\ pops[i].page <= hot
        /\ pops[i].stop <= Capacity
        /\ pops[i].stop <= Len(pages[pops[i].page]) + 1
        /\ pops[i].base <= Len(tokens)
        /\ i < Len(pops) => pops[i].pending > 0
    /\ \A i, j \in DOMAIN pops :
        i < j => /\ NotAfter(pops[i].page, pops[i].stop,
                             pops[j].page, pops[j].stop)
                 /\ pops[i].base <= pops[j].base

\* A token stands for a slot of an allocated page, and the pools pushed during
\* a pop are above where that pop will stop.
TokensNested ==
    /\ \A k \in DOMAIN tokens :
        tokens[k].page # 0 => hot # 0 /\ tokens[k].slot > 0
    /\ \A i \in DOMAIN pops, k \in DOMAIN tokens :
        k > pops[i].base =>
            /\ tokens[k].page # 0
            /\ NotAfter(pops[i].page, pops[i].stop,
                        tokens[k].page, tokens[k].slot)

\* Outside of a release no pool is left of the ones -dealloc pushed; at thread
\* exit there is none at all.
TokensDropped ==
    /\ pops # <<>> /\ Top.pending = 0 => Len(tokens) = Top.base
    /\ exiting /\ pops # <<>> => pops[1].base = 0
    /\ exiting /\ pops = <<>> => tokens = <<>>

\* A pop of everything on the pages.
FromStart(i) == pops[i].page = 1 /\ pops[i].stop = 1

Before(p1, s1, p2, s2) == p1 < p2 \/ (p1 = p2 /\ s1 < s2)

\* The slots of tokens hold boundaries, in the order of the pools; only the first pool
\* can be a placeholder.
TokensAnchored ==
    /\ \A k \in DOMAIN tokens :
        IF tokens[k].page = 0 THEN k = 1 /\ (placeholder \/ hot # 0)
        ELSE IsBoundary(tokens[k].page, tokens[k].slot)
    /\ \A j, k \in DOMAIN tokens :
        j < k /\ tokens[j].page # 0 =>
            Before(tokens[j].page, tokens[j].slot, tokens[k].page, tokens[k].slot)

\* A pop in progress stops at a boundary that is there until the pop is done, above
\* the pools that are left and below the ones that -dealloc pushed since.
PopsAnchored ==
    /\ \A i \in DOMAIN pops :
        /\ \/ FromStart(i)
           \/ IsBoundary(pops[i].page, pops[i].stop)
           \/ /\ i = Len(pops) /\ pops[i].pending = 0
              /\ Len(pages[pops[i].page]) = pops[i].stop - 1
        /\ pops[i].pending <= MaxCount + 1
        /\ \A j \in DOMAIN pops : i < j /\ ~FromStart(i) =>
              Before(pops[i].page, pops[i].stop, pops[j].page, pops[j].stop)
    /\ \A i \in DOMAIN pops, k \in DOMAIN tokens :
        IF k > pops[i].base
        THEN ~FromStart(i) =>
                Before(pops[i].page, pops[i].stop, tokens[k].page, tokens[k].slot)
        ELSE tokens[k].page # 0 =>
                Before(tokens[k].page, tokens[k].slot, pops[i].page, pops[i].stop)

\* The pop at thread exit empties all pages.
ExitEmpties ==
    /\ exiting /\ pops # <<>> => FromStart(1)
    /\ exiting /\ pops = <<>> => \A p \in DOMAIN pages : Empty(p)

Anchored == TokensAnchored /\ PopsAnchored /\ ExitEmpties /\ NoBadPop

Production == ~setting.debugPool /\ ~setting.debugMissing

Stack ==
    /\ PagesContiguous
    /\ hot = 0 => pages = <<>>
    /\ placeholder => hot = 0
    /\ PopsNested
    /\ TokensNested
    /\ TokensDropped
    /\ PagesTrimmed

StackInv == Production => Stack /\ Anchored

\* The page a pop works on and the pages of tokens are never freed under them, and
\* popPage frees only pages that are empty; with the inductive invariant of the stack
\* of pages, from which AutoreleasePoolProofs proves both.
PagesHold == NoDanglingPage /\ ChildrenEmpty /\ StackInv
=============================================================================
