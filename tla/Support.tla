------------------------------- MODULE Support -------------------------------
(***************************************************************************)
(* The runtime's small building blocks: values created once without a      *)
(* lock, hook functions that are chained without one, vectors that move    *)
(* from inline storage to the heap, and pointers that are stored disguised. *)
(* A behaviour exercises one of them.                                      *)
(***************************************************************************)
EXTENDS Integers, Sequences, SequencesExt, FiniteSets

CONSTANTS
    Threads,
    PtrBits,        \* width of a pointer
    InlineCount, OtherCount, MaxCount,  \* SmallVector's, initFrom's source's, and a bound
    Null

VARIABLES
    var, made, pcOnce,              \* INIT_ONCE_PTR
    hook, oldVariable, oldValue, pcHook,   \* ChainedHookFunction
    vector, other,                  \* [count, union, appended]
    heap, freed,                    \* the allocations, and which of them are freed
    subject                         \* what the behaviour exercises

vars == <<var, made, pcOnce, hook, oldVariable, oldValue, pcHook, vector, other, heap, freed, subject>>
onceVars == <<var, made, pcOnce>>
hookVars == <<hook, oldVariable, oldValue, pcHook>>
vectorVars == <<vector, other, heap, freed>>

----------------------------------------------------------------------------
(* INIT_ONCE_PTR: everyone may create, one is kept, the others delete.     *)
(* A thread's value is named after it.                                     *)
INIT_ONCE_PTR(t) ==
    /\ CASE pcOnce[t] = "test" ->
              /\ IF var # Null THEN pcOnce' = [pcOnce EXCEPT ![t] = "done"] /\ UNCHANGED made
                 ELSE pcOnce' = [pcOnce EXCEPT ![t] = "swap"] /\ made' = made \cup {t}
              /\ UNCHANGED var
         [] pcOnce[t] = "swap" ->
              /\ IF var = Null THEN var' = t /\ pcOnce' = [pcOnce EXCEPT ![t] = "done"]
                 ELSE pcOnce' = [pcOnce EXCEPT ![t] = "delete"] /\ UNCHANGED var
              /\ UNCHANGED made
         [] pcOnce[t] = "delete" ->
              /\ made' = made \ {t} /\ pcOnce' = [pcOnce EXCEPT ![t] = "done"]
              /\ UNCHANGED var
         [] OTHER -> FALSE
    /\ UNCHANGED <<hookVars, vectorVars, subject>>

----------------------------------------------------------------------------
(* ChainedHookFunction::set.  Thread t installs the function t.  The weak  *)
(* exchange may fail for no reason.                                        *)
set_NotReloaded(t) ==
    CASE pcHook[t] = "load" ->
              /\ oldValue' = [oldValue EXCEPT ![t] = hook] /\ pcHook' = [pcHook EXCEPT ![t] = "store"]
              /\ UNCHANGED <<hook, oldVariable>>
      [] pcHook[t] = "store" ->
              /\ oldVariable' = [oldVariable EXCEPT ![t] = oldValue[t]]
              /\ pcHook' = [pcHook EXCEPT ![t] = "exchange"]
              /\ UNCHANGED <<hook, oldValue>>
      [] pcHook[t] = "exchange" ->
              /\ hook' = t /\ pcHook' = [pcHook EXCEPT ![t] = "done"]
              /\ UNCHANGED <<oldVariable, oldValue>>
      [] OTHER -> FALSE

set(t) ==
    CASE pcHook[t] = "load" ->
              /\ oldValue' = [oldValue EXCEPT ![t] = hook] /\ pcHook' = [pcHook EXCEPT ![t] = "store"]
              /\ UNCHANGED <<hook, oldVariable>>
      [] pcHook[t] = "store" ->
              /\ oldVariable' = [oldVariable EXCEPT ![t] = oldValue[t]]
              /\ pcHook' = [pcHook EXCEPT ![t] = "exchange"]
              /\ UNCHANGED <<hook, oldValue>>
      [] pcHook[t] = "exchange" ->
              \/ /\ hook = oldValue[t] /\ hook' = t /\ pcHook' = [pcHook EXCEPT ![t] = "done"]
                 /\ UNCHANGED <<oldVariable, oldValue>>
              \/ /\ oldValue' = [oldValue EXCEPT ![t] = hook] /\ pcHook' = [pcHook EXCEPT ![t] = "store"]
                 /\ UNCHANGED <<hook, oldVariable>>
      [] OTHER -> FALSE

setHook(t) == set(t) /\ UNCHANGED <<onceVars, vectorVars, subject>>

(* What a call of get() leads through, each hook calling the one before.   *)
RECURSIVE Chain(_, _)
Chain(f, n) == IF f = Null \/ n = 0 THEN <<>> ELSE <<f>> \o Chain(oldVariable[f], n - 1)

----------------------------------------------------------------------------
(* GlobalSmallVector and SmallVector: a union of the elements and of a     *)
(* pointer to them, told apart by the count.                               *)
Inline(elements) == [elements |-> elements, at |-> 0]
Pointer(at) == [elements |-> <<>>, at |-> at]
begin(v, limit) == IF v.count <= limit THEN v.union.elements ELSE heap[v.union.at]

Fresh == Len(heap) + 1
append(v, limit, val) ==
    LET grown == [v EXCEPT !.count = @ + 1, !.appended = Append(@, val)]
    IN CASE v.count < limit ->
              [v |-> [grown EXCEPT !.union = Inline(Append(v.union.elements, val))], heap |-> heap]
         [] v.count = limit ->                      \* malloc, copy, switch
              [v |-> [grown EXCEPT !.union = Pointer(Fresh)],
               heap |-> Append(heap, Append(v.union.elements, val))]
         [] OTHER ->                                \* realloc
              [v |-> grown, heap |-> [heap EXCEPT ![v.union.at] = Append(@, val)]]

appendOne ==
    /\ vector.count < MaxCount
    /\ LET r == append(vector, InlineCount, vector.count + 1) IN vector' = r.v /\ heap' = r.heap
    /\ UNCHANGED <<onceVars, hookVars, other, freed, subject>>

Empty == [count |-> 0, union |-> Inline(<<>>), appended |-> <<>>]

initFrom ==
    /\ other = Empty /\ Len(heap) < MaxCount
    /\ LET elements == SubSeq(begin(vector, InlineCount), 1, vector.count)
           onHeap == vector.count > OtherCount
       IN /\ other' = [count |-> vector.count, appended |-> vector.appended,
                       union |-> IF onHeap THEN Pointer(Fresh) ELSE Inline(elements)]
          /\ heap' = IF onHeap THEN Append(heap, elements) ELSE heap
    /\ UNCHANGED <<onceVars, hookVars, vector, freed, subject>>

(* ~SmallVector.                                                           *)
destroy ==
    /\ other # Empty
    /\ freed' = IF other.count > OtherCount THEN freed \cup {other.union.at} ELSE freed
    /\ other' = Empty
    /\ UNCHANGED <<onceVars, hookVars, vector, heap, subject>>

----------------------------------------------------------------------------
(* DisguisedPtr.                                                           *)
disguise(ptr) == (2 ^ PtrBits - ptr) % 2 ^ PtrBits
undisguise(val) == (2 ^ PtrBits - val) % 2 ^ PtrBits

Init ==
    /\ subject \in {"once", "hook", "vector"}
    /\ var = Null /\ made = {} /\ pcOnce = [t \in Threads |-> "test"]
    /\ hook = Null /\ oldVariable = [t \in Threads |-> Null] /\ oldValue = oldVariable
    /\ pcHook = [t \in Threads |-> "load"]
    /\ vector = Empty /\ other = Empty /\ heap = <<>> /\ freed = {}

Next ==
    \/ \E t \in Threads : subject = "once" /\ INIT_ONCE_PTR(t)
    \/ \E t \in Threads : subject = "hook" /\ setHook(t)
    \/ subject = "vector" /\ (appendOne \/ initFrom \/ destroy)

----------------------------------------------------------------------------
(* One value is kept, everyone who is done uses it, and it is never        *)
(* deleted.  A call of the hook reaches every function that was installed, *)
(* once, at every moment.  A vector holds what was appended, wherever it   *)
(* is stored, and its storage is freed with it and not before.  Disguised  *)
(* pointers come back, nil is nil, and the low bits of an aligned one stay *)
(* clear, on which the weak table's out-of-line mark relies.               *)
Installed == {t \in Threads : pcHook[t] = "done"}
Holds(v, limit) == SubSeq(begin(v, limit), 1, v.count) = v.appended
BlocksHold ==
    /\ \A t \in Threads : pcOnce[t] = "done" => var # Null /\ var \in made
    /\ (\A t \in Threads : pcOnce[t] = "done") => made = {var}
    /\ LET chain == Chain(hook, Cardinality(Threads) + 1)
       IN ToSet(chain) = Installed /\ Len(chain) = Cardinality(Installed)
    /\ Holds(vector, InlineCount) /\ Holds(other, OtherCount)
    /\ vector.union.at \notin freed /\ other.union.at \notin freed
    /\ other = Empty => freed \cup {0, vector.union.at} = DOMAIN heap \cup {0}
    /\ \A p \in 0 .. 2 ^ PtrBits - 1 :
           /\ undisguise(disguise(p)) = p /\ (disguise(p) = 0 <=> p = 0)
           /\ p % 4 = 0 => disguise(p) % 4 = 0

=============================================================================
