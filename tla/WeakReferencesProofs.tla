------------------------ MODULE WeakReferencesProofs ------------------------
(***************************************************************************)
(* The invariants of WeakReferences, for all constants.  The order is: the *)
(* stacks of calls; what a step keeps of the calls below the top; steps    *)
(* that only push or advance a call; one lemma for each of the others; the *)
(* theorems.                                                               *)
(***************************************************************************)
EXTENDS WeakReferences, SequenceTheorems, FiniteSetTheorems, TLAPS

-----------------------------------------------------------------------------
(* Calls in progress and the stacks of them.                               *)

\* Calls keep their shape when they are advanced.
LEMMA FrameExcept ==
    ASSUME NEW f \in Frame,
           NEW p \in {"read", "lock", "locked", "classInit", "running", "release", "free"},
           NEW o \in Objects \cup {nil}, NEW h \in SUBSET Stripes, NEW b \in BOOLEAN
    PROVE  /\ [f EXCEPT !.pc = p] \in Frame
           /\ [f EXCEPT !.old = o, !.pc = p] \in Frame
           /\ [f EXCEPT !.pc = p, !.held = h] \in Frame
           /\ [f EXCEPT !.held = h, !.pc = p] \in Frame
           /\ [f EXCEPT !.pc = p, !.known = b] \in Frame
<1>1. [f EXCEPT !.pc = p] \in Frame BY DEF Frame
<1>2. [f EXCEPT !.old = o, !.pc = p] \in Frame BY DEF Frame
<1>3. [f EXCEPT !.pc = p, !.held = h] \in Frame BY DEF Frame
<1>4. [f EXCEPT !.held = h, !.pc = p] \in Frame BY DEF Frame
<1>5. [f EXCEPT !.pc = p, !.known = b] \in Frame BY DEF Frame
<1> QED BY <1>1, <1>2, <1>3, <1>4, <1>5

\* A new call is one.
LEMMA NewFrameType ==
    ASSUME NEW op \in Ops,
           NEW p \in {"read", "lock", "locked", "classInit", "running", "release", "free"},
           NEW v \in Locations \cup {nil}, NEW w \in Locations \cup {nil},
           NEW o \in Objects \cup {nil}
    PROVE  NewFrame(op, p, v, w, o) \in Frame
BY DEF NewFrame, Frame

\* The fields of a call.
LEMMA FrameFields ==
    ASSUME NEW f \in Frame
    PROVE  /\ f.op \in Ops
           /\ f.pc \in {"read", "lock", "locked", "classInit", "running", "release", "free"}
           /\ f.loc \in Locations \cup {nil} /\ f.from \in Locations \cup {nil}
           /\ f.new \in Objects \cup {nil} /\ f.old \in Objects \cup {nil}
           /\ f.held \subseteq Stripes
BY DEF Frame

\* The stack of t changes at its top alone: the calls at the positions B stay, and
\* a new or changed one is at k, if k is not 0.
StackStep(t, B, k) ==
    /\ \A u \in Threads : u # t => stack'[u] = stack[u]
    /\ B \subseteq DOMAIN stack[t]
    /\ \A i \in B : stack'[t][i] = stack[t][i]
    /\ k \notin B
    /\ DOMAIN stack'[t] = B \cup (IF k = 0 THEN {} ELSE {k})

Below(t) == 1 .. Len(stack[t]) - 1

\* Stacks are sequences of calls.
LEMMA StackTypes ==
    ASSUME TypeOK, NEW t \in Threads
    PROVE  /\ stack[t] \in Seq(Frame)
           /\ Len(stack[t]) \in Nat
           /\ DOMAIN stack[t] = 1 .. Len(stack[t])
           /\ \A i \in DOMAIN stack[t] : stack[t][i] \in Frame
           /\ stack[t] # <<>> => /\ Len(stack[t]) \in DOMAIN stack[t]
                                 /\ Top(t) \in Frame
                                 /\ Top(t) = stack[t][Len(stack[t])]
<1>1. stack[t] \in Seq(Frame) BY DEF TypeOK
<1>2. Len(stack[t]) \in Nat /\ DOMAIN stack[t] = 1 .. Len(stack[t])
  BY <1>1, LenProperties
<1>3. \A i \in DOMAIN stack[t] : stack[t][i] \in Frame BY <1>1, <1>2, ElementOfSeq
<1>4. stack[t] # <<>> => Len(stack[t]) \in DOMAIN stack[t]
  BY <1>1, <1>2, EmptySeq
<1> QED BY <1>1, <1>2, <1>3, <1>4 DEF Top

\* A call is pushed.
LEMMA PushStep ==
    ASSUME TypeOK, NEW t \in Threads, NEW f \in Frame, Push(t, f)
    PROVE  /\ stack' \in [Threads -> Seq(Frame)]
           /\ StackStep(t, DOMAIN stack[t], Len(stack[t]) + 1)
           /\ stack'[t][Len(stack[t]) + 1] = f
<1> DEFINE s == stack[t]
<1>1. s \in Seq(Frame) /\ Len(s) \in Nat /\ DOMAIN s = 1 .. Len(s) BY StackTypes
<1>2. /\ stack'[t] = Append(s, f)
      /\ \A u \in Threads : u # t => stack'[u] = stack[u]
  BY DEF Push, TypeOK
<1>3. /\ Append(s, f) \in Seq(Frame)
      /\ Len(Append(s, f)) = Len(s) + 1
      /\ Append(s, f)[Len(s) + 1] = f
      /\ \A i \in 1 .. Len(s) : Append(s, f)[i] = s[i]
  <2> HIDE DEF s
  <2> QED BY <1>1, AppendProperties
<1>4. DOMAIN stack'[t] = 1 .. Len(s) + 1 BY <1>2, <1>3, LenProperties
<1>5. stack' \in [Threads -> Seq(Frame)] BY <1>3 DEF Push, TypeOK
<1>6. StackStep(t, DOMAIN stack[t], Len(stack[t]) + 1)
  BY <1>1, <1>2, <1>3, <1>4 DEF StackStep
<1> QED BY <1>2, <1>3, <1>5, <1>6

\* The top call changes.
LEMMA SetTopStep ==
    ASSUME TypeOK, NEW t \in Threads, NEW f \in Frame, stack[t] # <<>>, SetTop(t, f)
    PROVE  /\ stack' \in [Threads -> Seq(Frame)]
           /\ StackStep(t, Below(t), Len(stack[t]))
           /\ stack'[t][Len(stack[t])] = f
<1> DEFINE s == stack[t]
           r == [s EXCEPT ![Len(s)] = f]
<1>1. s \in Seq(Frame) /\ Len(s) \in Nat /\ DOMAIN s = 1 .. Len(s)
      /\ Len(s) \in 1 .. Len(s)
  BY StackTypes
<1>2. /\ stack'[t] = r
      /\ \A u \in Threads : u # t => stack'[u] = stack[u]
  BY DEF SetTop, TypeOK
<1>3. /\ r \in Seq(Frame)
      /\ Len(r) = Len(s)
      /\ \A i \in 1 .. Len(s) : r[i] = IF i = Len(s) THEN f ELSE s[i]
  <2> HIDE DEF s
  <2> QED BY <1>1, ExceptSeq
<1>4. DOMAIN stack'[t] = 1 .. Len(s) BY <1>2, <1>3, LenProperties
<1>5. stack' \in [Threads -> Seq(Frame)] BY <1>3 DEF SetTop, TypeOK
<1> HIDE DEF r
<1>6. StackStep(t, Below(t), Len(stack[t]))
  BY <1>1, <1>2, <1>3, <1>4 DEF StackStep, Below
<1> QED BY <1>1, <1>2, <1>3, <1>5, <1>6

\* The top call returns.
LEMMA ReturnStep ==
    ASSUME TypeOK, NEW t \in Threads, stack[t] # <<>>, Return(t)
    PROVE  /\ stack' \in [Threads -> Seq(Frame)]
           /\ StackStep(t, Below(t), 0)
<1> DEFINE s == stack[t]
           r == SubSeq(s, 1, Len(s) - 1)
<1>1. s \in Seq(Frame) /\ Len(s) \in Nat /\ DOMAIN s = 1 .. Len(s)
      /\ Len(s) \in 1 .. Len(s) /\ \A i \in 1 .. Len(s) : s[i] \in Frame
  BY StackTypes
<1>2. /\ stack'[t] = r
      /\ \A u \in Threads : u # t => stack'[u] = stack[u]
  BY DEF Return, TypeOK
<1>3. /\ r \in Seq(Frame)
      /\ Len(r) = Len(s) - 1
      /\ \A i \in 1 .. Len(s) - 1 : r[i] = s[i]
  <2>1. \A i \in 1 .. Len(s) - 1 : s[i] \in Frame BY <1>1
  <2>2. Len(s) - 1 \in Int /\ 1 \in Int BY <1>1
  <2> HIDE DEF s
  <2>3. /\ r \in Seq(Frame)
        /\ Len(r) = IF 1 <= Len(s) - 1 THEN Len(s) - 1 - 1 + 1 ELSE 0
        /\ \A i \in 1 .. Len(s) - 1 - 1 + 1 : r[i] = s[1 + i - 1]
    BY <2>1, <2>2, SubSeqProperties
  <2> HIDE DEF r
  <2>4. Len(r) = Len(s) - 1
    <3> DEFINE n == Len(s)
               m == Len(r)
    <3>1. n \in Nat /\ n \in 1 .. n BY <1>1
    <3>2. m = IF 1 <= n - 1 THEN n - 1 - 1 + 1 ELSE 0 BY <2>3
    <3> HIDE DEF n, m
    <3>3. m = n - 1 BY <3>1, <3>2
    <3> QED BY <3>3 DEF n, m
  <2>5. ASSUME NEW i \in 1 .. Len(s) - 1 PROVE r[i] = s[i]
    <3>1. i \in 1 .. Len(s) - 1 - 1 + 1 /\ 1 + i - 1 = i BY <1>1
    <3> QED BY <2>3, <3>1
  <2> QED BY <2>3, <2>4, <2>5
<1>4. DOMAIN stack'[t] = 1 .. Len(s) - 1 BY <1>2, <1>3, LenProperties
<1>5. stack' \in [Threads -> Seq(Frame)] BY <1>3 DEF Return, TypeOK
<1> HIDE DEF r
<1>6. StackStep(t, Below(t), 0)
  BY <1>1, <1>2, <1>3, <1>4 DEF StackStep, Below
<1> QED BY <1>5, <1>6

-----------------------------------------------------------------------------
(* What a step keeps of the calls in progress.                             *)

\* What the step leaves as it was for the call f of thread u.
Undisturbed(u, f) ==
    /\ f.loc # nil => live'[f.loc] = live[f.loc]
    /\ f.from # nil => live'[f.from] = live[f.from]
    /\ f.op = "dealloc" =>
          /\ life'[f.new] = life[f.new]
          /\ f.pc = "free" /\ referrers[f.new] = {} => referrers'[f.new] = {}
    /\ \A s \in f.held : lock'[s] = lock[s]

\* A call that is not disturbed stays in order.
LEMMA FrameKept ==
    ASSUME NEW u \in Threads, NEW f \in Frame, FrameOK(u, f), Undisturbed(u, f)
    PROVE  FrameOK(u, f)'
<1>1. ArgumentsOK(f) /\ VariablesOK(f) /\ DeallocOK(f) /\ TablesOK(u, f)
  BY DEF FrameOK
<1>2. VariablesOK(f)' BY <1>1 DEF VariablesOK, ArgumentsOK, Undisturbed, Loads, Moves
<1>3. DeallocOK(f)' BY <1>1 DEF DeallocOK, Undisturbed
<1>4. TablesOK(u, f)' BY <1>1 DEF TablesOK, Undisturbed
<1> QED BY <1>1, <1>2, <1>3, <1>4 DEF FrameOK

\* The invariant of the calls holds again if the step disturbs none below the top, and
\* the new call at the top is in order and apart from them.
LEMMA FramesStep ==
    ASSUME TypeOK, FramesOK, FramesApart, NEW t \in Threads, NEW B, NEW k \in Nat,
           stack' \in [Threads -> Seq(Frame)],
           StackStep(t, B, k),
           \A u \in Threads : \A i \in DOMAIN stack[u] :
              u # t \/ i \in B => Undisturbed(u, stack[u][i]),
           k # 0 => \A f \in Frame : f = stack'[t][k] =>
              /\ FrameOK(t, f)'
              /\ \A u \in Threads : \A i \in DOMAIN stack[u] : u # t \/ i \in B =>
                    Apart(f, stack[u][i]) /\ Apart(stack[u][i], f)
    PROVE  FramesOK' /\ FramesApart'
<1>1. \A u \in Threads : \A i \in DOMAIN stack[u] : stack[u][i] \in Frame
  BY StackTypes
<1>2. \A u \in Threads : \A i \in DOMAIN stack'[u] : stack'[u][i] \in Frame
  BY ElementOfSeq, LenProperties
<1>3. ASSUME NEW u \in Threads, NEW i \in DOMAIN stack'[u]
      PROVE  \/ u = t /\ i = k /\ k # 0
             \/ i \in DOMAIN stack[u] /\ (u # t \/ i \in B) /\ stack'[u][i] = stack[u][i]
  BY <1>3 DEF StackStep
<1>4. FramesOK'
  <2> SUFFICES ASSUME NEW u \in Threads, NEW i \in DOMAIN stack'[u]
               PROVE  FrameOK(u, stack[u][i])'
    BY DEF FramesOK
  <2>1. PICK f \in Frame : f = stack'[u][i] BY <1>2
  <2>2. FrameOK(u, f)'
    <3>1. CASE u = t /\ i = k /\ k # 0 BY <2>1, <3>1
    <3>2. CASE i \in DOMAIN stack[u] /\ (u # t \/ i \in B) /\ stack'[u][i] = stack[u][i]
      <4>1. FrameOK(u, f) BY <2>1, <3>2 DEF FramesOK
      <4>2. Undisturbed(u, f) BY <2>1, <3>2
      <4> QED BY <4>1, <4>2, FrameKept
    <3> QED BY <1>3, <3>1, <3>2
  <2> QED BY <2>1, <2>2 DEF FrameOK, ArgumentsOK, VariablesOK, DeallocOK, TablesOK,
      Loads, Moves, Reads, haveOld, haveNew, Needed
<1>5. FramesApart'
  <2> SUFFICES ASSUME NEW u \in Threads, NEW v \in Threads,
                      NEW i \in DOMAIN stack'[u], NEW j \in DOMAIN stack'[v],
                      u # v \/ i # j
               PROVE  Apart(stack'[u][i], stack'[v][j])
    BY DEF FramesApart
  <2>1. CASE u = t /\ i = k /\ k # 0
    <3>1. j \in DOMAIN stack[v] /\ (v # t \/ j \in B) /\ stack'[v][j] = stack[v][j]
      BY <1>3, <2>1
    <3> QED BY <1>2, <2>1, <3>1
  <2>2. CASE v = t /\ j = k /\ k # 0
    <3>1. i \in DOMAIN stack[u] /\ (u # t \/ i \in B) /\ stack'[u][i] = stack[u][i]
      BY <1>3, <2>2
    <3> QED BY <1>2, <2>2, <3>1
  <2>3. CASE /\ i \in DOMAIN stack[u] /\ stack'[u][i] = stack[u][i]
             /\ j \in DOMAIN stack[v] /\ stack'[v][j] = stack[v][j]
    BY <2>3 DEF FramesApart
  <2> QED BY <1>3, <2>1, <2>2, <2>3
<1> QED BY <1>4, <1>5

-----------------------------------------------------------------------------
(* The references that objc_copyWeak holds.                                *)

\* There are finitely many, as the stacks are finite.
LEMMA CopiesFinite ==
    ASSUME TypeOK, NEW t \in Threads, NEW o \in Objects
    PROVE  /\ IsFiniteSet(Copies(t, o))
           /\ Cardinality(Copies(t, o)) \in Nat
           /\ Copies(t, o) \subseteq DOMAIN stack[t]
<1>1. Len(stack[t]) \in Nat /\ DOMAIN stack[t] = 1 .. Len(stack[t]) BY StackTypes
<1>2. IsFiniteSet(1 .. Len(stack[t]))
  <2>1. 1 \in Int /\ Len(stack[t]) \in Int BY <1>1
  <2> QED BY <2>1, FS_Interval
<1>3. Copies(t, o) \subseteq DOMAIN stack[t] BY DEF Copies
<1> QED BY <1>1, <1>2, <1>3, FS_Subset, FS_CardinalityType

\* How a step changes them: those below the top stay.
LEMMA CopiesStep ==
    ASSUME TypeOK, NEW t \in Threads, NEW B, NEW k \in Nat, NEW o \in Objects,
           StackStep(t, B, k)
    PROVE  /\ \A u \in Threads : u # t => Copies(u, o)' = Copies(u, o)
           /\ Copies(t, o)' = (Copies(t, o) \cap B) \cup
                (IF k # 0 /\ stack'[t][k].op = "copyInit" /\ stack'[t][k].new = o
                 THEN {k} ELSE {})
<1>1. ASSUME NEW u \in Threads, u # t PROVE Copies(u, o)' = Copies(u, o)
  BY <1>1 DEF Copies, StackStep
<1>2. Copies(t, o)' = (Copies(t, o) \cap B) \cup
        (IF k # 0 /\ stack'[t][k].op = "copyInit" /\ stack'[t][k].new = o
         THEN {k} ELSE {})
  BY DEF Copies, StackStep
<1> QED BY <1>1, <1>2

\* A step that makes none keeps their number within the references, if it leaves
\* those alone.
LEMMA CopiesKept ==
    ASSUME TypeOK, TypeOK', ReferencesOK, UNCHANGED Lives,
           NEW t \in Threads, NEW B, NEW k \in Nat, StackStep(t, B, k),
           k # 0 /\ stack'[t][k].op = "copyInit" =>
              /\ k \in DOMAIN stack[t]
              /\ stack[t][k].op = "copyInit" /\ stack[t][k].new = stack'[t][k].new
    PROVE  ReferencesOK'
<1> SUFFICES ASSUME NEW u \in Threads, NEW o \in Objects
             PROVE  /\ refs'[u][o] > 0 => life'[o] = "alive"
                    /\ Cardinality(Copies(u, o)') <= refs'[u][o]
  BY DEF ReferencesOK
<1>1. Copies(u, o)' \subseteq Copies(u, o)
  <2>1. CASE u # t BY <2>1, CopiesStep
  <2>2. CASE u = t BY <2>2, CopiesStep DEF Copies
  <2> QED BY <2>1, <2>2
<1>2. Cardinality(Copies(u, o)') <= Cardinality(Copies(u, o))
  BY <1>1, CopiesFinite, FS_Subset
<1>3. Cardinality(Copies(u, o)') \in Nat
  BY <1>1, CopiesFinite, FS_Subset, FS_CardinalityType
<1>4. Cardinality(Copies(u, o)) <= refs[u][o] /\ (refs[u][o] > 0 => life[o] = "alive")
  BY DEF ReferencesOK
<1>5. refs' = refs /\ life' = life BY DEF Lives
<1>6. refs[u][o] \in Nat BY DEF TypeOK
<1> QED BY <1>2, <1>3, <1>4, <1>5, <1>6, CopiesFinite

-----------------------------------------------------------------------------
(* Steps that only change the stack of calls and the locks.                *)

\* Such a step preserves the invariant if it leaves the others' locks alone and the
\* call at the top is in order.
LEMMA QuietStep ==
    ASSUME IInv, NEW t \in Threads, NEW B, NEW k \in Nat,
           stack' \in [Threads -> Seq(Frame)],
           StackStep(t, B, k),
           UNCHANGED <<Table, Lives>>,
           lock' \in [Stripes -> Threads \cup {NoThread}],
           cls' \in {"uninitialized", "initializing", "initialized"},
           fatal' \in BOOLEAN,
           \A u \in Threads : \A i \in DOMAIN stack[u] :
              u # t \/ i \in B => \A s \in stack[u][i].held : lock'[s] = lock[s],
           k # 0 => \A f \in Frame : f = stack'[t][k] =>
              /\ FrameOK(t, f)'
              /\ f.op = "copyInit" =>
                    /\ k \in DOMAIN stack[t]
                    /\ stack[t][k].op = "copyInit" /\ stack[t][k].new = f.new
              /\ \A u \in Threads : \A i \in DOMAIN stack[u] : u # t \/ i \in B =>
                    Apart(f, stack[u][i]) /\ Apart(stack[u][i], f)
    PROVE  IInv'
<1>h. TypeOK /\ FramesOK /\ FramesApart /\ ReferencesOK /\ MarkedOK
      /\ RegistrationExact /\ NoWeakError
  BY DEF IInv
<1>1. UNCHANGED <<location, live, referrers, weaklyReferenced, weakError, life, refs>>
  BY DEF Table, Lives
<1>2. TypeOK' BY <1>h, <1>1 DEF TypeOK
<1>3. \A u \in Threads : \A i \in DOMAIN stack[u] :
         u # t \/ i \in B => Undisturbed(u, stack[u][i])
  BY <1>1 DEF Undisturbed
<1>4. FramesOK' /\ FramesApart' BY <1>h, <1>3, FramesStep
<1>5. k # 0 => stack'[t][k] \in Frame
  BY <1>2, ElementOfSeq, LenProperties DEF StackStep
<1>6. k # 0 /\ stack'[t][k].op = "copyInit" =>
         /\ k \in DOMAIN stack[t]
         /\ stack[t][k].op = "copyInit" /\ stack[t][k].new = stack'[t][k].new
  BY <1>5
<1>7. ReferencesOK' BY <1>h, <1>2, <1>6, CopiesKept
<1>8. MarkedOK' /\ RegistrationExact' /\ NoWeakError'
  BY <1>h, <1>1 DEF MarkedOK, RegistrationExact, NoWeakError
<1> QED BY <1>2, <1>4, <1>7, <1>8 DEF IInv

\* A call begins.
LEMMA CallStep ==
    ASSUME IInv, NEW t \in Threads, NEW f \in Frame, Push(t, f),
           UNCHANGED <<Table, Lives, lock, fatal>>,
           cls' \in {"uninitialized", "initializing", "initialized"},
           ArgumentsOK(f), VariablesOK(f), f.op \notin {"copyInit", "dealloc"},
           f.held = {}, f.pc # "locked",
           \A u \in Threads : \A i \in DOMAIN stack[u] :
              Apart(f, stack[u][i]) /\ Apart(stack[u][i], f)
    PROVE  IInv'
<1>h. TypeOK BY DEF IInv
<1> DEFINE k == Len(stack[t]) + 1
<1>1. k \in Nat BY <1>h, StackTypes
<1>2. /\ stack' \in [Threads -> Seq(Frame)]
      /\ StackStep(t, DOMAIN stack[t], k)
      /\ stack'[t][k] = f
  BY <1>h, PushStep
<1>3. FrameOK(t, f)'
  <2>1. VariablesOK(f)' BY DEF VariablesOK, Table
  <2>2. DeallocOK(f)' BY DEF DeallocOK
  <2>3. TablesOK(t, f)' BY DEF TablesOK
  <2> QED BY <2>1, <2>2, <2>3 DEF FrameOK
<1>4. lock' \in [Stripes -> Threads \cup {NoThread}] /\ fatal' \in BOOLEAN
  BY <1>h DEF TypeOK
<1>5. k \notin DOMAIN stack[t] BY <1>2 DEF StackStep
<1> HIDE DEF k
<1> QED BY <1>1, <1>2, <1>3, <1>4, <1>5, QuietStep

\* The call at the top goes on, and takes or releases locks of its own.
LEMMA AdvanceStep ==
    ASSUME IInv, NEW t \in Threads, stack[t] # <<>>, NEW f \in Frame, SetTop(t, f),
           UNCHANGED <<Table, Lives, fatal>>,
           cls' \in {"uninitialized", "initializing", "initialized"},
           lock' \in [Stripes -> Threads \cup {NoThread}],
           f.op = Top(t).op, f.loc = Top(t).loc, f.from = Top(t).from, f.new = Top(t).new,
           \A s \in f.held : s \in Top(t).held \/ lock[s] = NoThread,
           \A s \in Stripes : s \notin Top(t).held /\ lock[s] # NoThread
              => lock'[s] = lock[s],
           FrameOK(t, f)'
    PROVE  IInv'
<1>h. TypeOK /\ FramesOK /\ FramesApart BY DEF IInv
<1> DEFINE k == Len(stack[t])
           g == Top(t)
<1>1. /\ k \in Nat /\ k # 0 /\ k \in DOMAIN stack[t] /\ g = stack[t][k] /\ g \in Frame
      /\ k \notin Below(t) /\ Below(t) \subseteq DOMAIN stack[t]
  BY <1>h, StackTypes DEF Below
<1>2. /\ stack' \in [Threads -> Seq(Frame)]
      /\ StackStep(t, Below(t), k)
      /\ stack'[t][k] = f
  BY <1>h, SetTopStep
<1> HIDE DEF k, g
<1>3. ASSUME NEW u \in Threads, NEW i \in DOMAIN stack[u], u # t \/ i \in Below(t)
      PROVE  /\ \A s \in stack[u][i].held : s \notin g.held /\ lock[s] = u /\ s \in Stripes
             /\ Apart(f, stack[u][i]) /\ Apart(stack[u][i], f)
  <2>1. u # t \/ i # k BY <1>1, <1>3
  <2>2. Apart(g, stack[u][i]) /\ Apart(stack[u][i], g)
    BY <1>h, <1>1, <2>1 DEF FramesApart
  <2>3. stack[u][i] \in Frame BY <1>h, StackTypes
  <2>4. \A s \in stack[u][i].held : s \notin g.held /\ lock[s] = u /\ s \in Stripes
    BY <1>h, <2>2, <2>3, FrameFields DEF FramesOK, FrameOK, TablesOK, Apart
  <2>5. f.held \cap stack[u][i].held = {} BY <2>4, WeakAssumption DEF g
  <2> QED BY <2>2, <2>4, <2>5 DEF Apart, Moves, g
<1>4. ASSUME NEW u \in Threads, NEW i \in DOMAIN stack[u], u # t \/ i \in Below(t)
      PROVE  \A s \in stack[u][i].held : lock'[s] = lock[s]
  <2>1. \A s \in stack[u][i].held : s \notin g.held /\ lock[s] = u /\ s \in Stripes
    BY <1>3, <1>4
  <2> QED BY <2>1, WeakAssumption DEF g
<1>5. fatal' \in BOOLEAN BY <1>h DEF TypeOK
<1> QED BY <1>1, <1>2, <1>3, <1>4, <1>5, QuietStep DEF g

-----------------------------------------------------------------------------
(* The calls begin.                                                        *)

\* The calls in progress are the frames of the stacks.
LEMMA InProgress ==
    ASSUME NEW u \in Threads, NEW i \in DOMAIN stack[u]
    PROVE  stack[u][i] \in Frames
BY DEF Frames

\* objc_storeWeak.
LEMMA StoreWeakInv ==
    ASSUME IInv, NEW t \in Threads, NEW v \in Locations, NEW o \in Objects \cup {nil},
           StoreWeak(t, v, o)
    PROVE  IInv'
<1> DEFINE f == NewFrame("store", "read", v, nil, o)
<1>1. f \in Frame BY NewFrameType DEF Ops
<1>2. Push(t, f) /\ UNCHANGED <<Table, Lives, lock, cls, fatal>> /\ Storable(v)
  BY DEF StoreWeak, Call
<1>3. ArgumentsOK(f) /\ VariablesOK(f)
  BY <1>2, WeakAssumption DEF NewFrame, ArgumentsOK, VariablesOK, Storable, Loads,
      Moves, Reads, haveOld
<1>4. ASSUME NEW u \in Threads, NEW i \in DOMAIN stack[u]
      PROVE  Apart(f, stack[u][i]) /\ Apart(stack[u][i], f)
  <2>1. FrameOK(u, stack[u][i]) BY DEF IInv, FramesOK
  <2>2. Modifies(stack[u][i], v) => stack[u][i].op = "store" BY <1>2, InProgress DEF Storable
  <2> QED BY <2>1, <2>2, WeakAssumption
      DEF NewFrame, Apart, Modifies, Moves, FrameOK, ArgumentsOK
<1>5. cls \in {"uninitialized", "initializing", "initialized"} BY DEF IInv, TypeOK
<1>6. f.op = "store" /\ f.held = {} /\ f.pc = "read" BY DEF NewFrame
<1> HIDE DEF f
<1> QED BY <1>1, <1>2, <1>3, <1>4, <1>5, <1>6, CallStep

\* objc_initWeak.
LEMMA InitWeakInv ==
    ASSUME IInv, NEW t \in Threads, NEW v \in Locations, NEW o \in Objects, InitWeak(t, v, o)
    PROVE  IInv'
<1> DEFINE f == NewFrame("init", "lock", v, nil, o)
<1>1. f \in Frame BY NewFrameType DEF Ops
<1>2. Push(t, f) /\ UNCHANGED <<Table, Lives, lock, cls, fatal>> /\ Initializable(v)
  BY DEF InitWeak, Call
<1>3. ArgumentsOK(f) /\ VariablesOK(f)
  BY <1>2, WeakAssumption DEF NewFrame, ArgumentsOK, VariablesOK, Initializable, Loads,
      Moves, Reads, haveOld
<1>4. ASSUME NEW u \in Threads, NEW i \in DOMAIN stack[u]
      PROVE  Apart(f, stack[u][i]) /\ Apart(stack[u][i], f)
  <2>1. ArgumentsOK(stack[u][i]) /\ VariablesOK(stack[u][i])
    BY DEF IInv, FramesOK, FrameOK
  <2>2. stack[u][i].loc # v
    BY <1>2, InProgress DEF Initializable
  <2> QED BY <1>2, <2>1, <2>2, WeakAssumption
      DEF NewFrame, Apart, Modifies, Moves, Loads, ArgumentsOK, VariablesOK, Initializable
<1>5. cls \in {"uninitialized", "initializing", "initialized"} BY DEF IInv, TypeOK
<1>6. f.op = "init" /\ f.held = {} /\ f.pc = "lock" BY DEF NewFrame
<1> HIDE DEF f
<1> QED BY <1>1, <1>2, <1>3, <1>4, <1>5, <1>6, CallStep

\* objc_destroyWeak.
LEMMA DestroyWeakInv ==
    ASSUME IInv, NEW t \in Threads, NEW v \in Locations, DestroyWeak(t, v)
    PROVE  IInv'
<1> DEFINE f == NewFrame("destroy", "read", v, nil, nil)
<1>1. f \in Frame BY NewFrameType DEF Ops
<1>2. Push(t, f) /\ UNCHANGED <<Table, Lives, lock, cls, fatal>> /\ Destroyable(v)
  BY DEF DestroyWeak, Call
<1>3. ArgumentsOK(f) /\ VariablesOK(f)
  BY <1>2, WeakAssumption DEF NewFrame, ArgumentsOK, VariablesOK, Destroyable, Movable, Loads,
      Moves, Reads, haveOld
<1>4. ASSUME NEW u \in Threads, NEW i \in DOMAIN stack[u]
      PROVE  Apart(f, stack[u][i]) /\ Apart(stack[u][i], f)
  <2>1. ArgumentsOK(stack[u][i]) /\ VariablesOK(stack[u][i])
    BY DEF IInv, FramesOK, FrameOK
  <2>2. ~Modifies(stack[u][i], v) /\ stack[u][i].from # v
    BY <1>2, InProgress DEF Destroyable, Movable
  <2> QED BY <1>2, <2>1, <2>2, WeakAssumption
      DEF NewFrame, Apart, Modifies, Moves, Loads, ArgumentsOK, VariablesOK,
          Destroyable, Movable
<1>5. cls \in {"uninitialized", "initializing", "initialized"} BY DEF IInv, TypeOK
<1>6. f.op = "destroy" /\ f.held = {} /\ f.pc = "read" BY DEF NewFrame
<1> HIDE DEF f
<1> QED BY <1>1, <1>2, <1>3, <1>4, <1>5, <1>6, CallStep

\* objc_loadWeakRetained.
LEMMA LoadWeakInv ==
    ASSUME IInv, NEW t \in Threads, NEW v \in Locations, LoadWeak(t, v)
    PROVE  IInv'
<1> DEFINE f == NewFrame("load", "read", nil, v, nil)
<1>1. f \in Frame BY NewFrameType DEF Ops
<1>2. Push(t, f) /\ UNCHANGED <<Table, Lives, lock, cls, fatal>> /\ Loadable(v)
  BY DEF LoadWeak, Call
<1>3. ArgumentsOK(f) /\ VariablesOK(f)
  BY <1>2, WeakAssumption DEF NewFrame, ArgumentsOK, VariablesOK, Loadable, Loads,
      Moves, Reads, haveOld
<1>4. ASSUME NEW u \in Threads, NEW i \in DOMAIN stack[u]
      PROVE  Apart(f, stack[u][i]) /\ Apart(stack[u][i], f)
  <2>1. ArgumentsOK(stack[u][i]) /\ VariablesOK(stack[u][i])
    BY DEF IInv, FramesOK, FrameOK
  <2>2. stack[u][i].loc = v => stack[u][i].op # "destroy"
    BY <1>2, InProgress DEF Loadable
  <2> QED BY <1>2, <2>1, <2>2, WeakAssumption
      DEF NewFrame, Apart, Modifies, Moves, Loads, ArgumentsOK, VariablesOK, Loadable
<1>5. cls \in {"uninitialized", "initializing", "initialized"} BY DEF IInv, TypeOK
<1>6. f.op = "load" /\ f.held = {} /\ f.pc = "read" BY DEF NewFrame
<1> HIDE DEF f
<1> QED BY <1>1, <1>2, <1>3, <1>4, <1>5, <1>6, CallStep

\* objc_copyWeak.
LEMMA CopyWeakInv ==
    ASSUME IInv, NEW t \in Threads, NEW dst \in Locations, NEW src \in Locations,
           CopyWeak(t, dst, src)
    PROVE  IInv'
<1> DEFINE f == NewFrame("copy", "read", dst, src, nil)
<1>1. f \in Frame BY NewFrameType DEF Ops
<1>2. /\ Push(t, f) /\ UNCHANGED <<Table, Lives, lock, cls, fatal>>
      /\ Loadable(src) /\ Initializable(dst)
  BY DEF CopyWeak, Call
<1>3. ArgumentsOK(f) /\ VariablesOK(f)
  BY <1>2, WeakAssumption DEF NewFrame, ArgumentsOK, VariablesOK, Loadable, Initializable,
      Loads, Moves, Reads, haveOld
<1>4. ASSUME NEW u \in Threads, NEW i \in DOMAIN stack[u]
      PROVE  Apart(f, stack[u][i]) /\ Apart(stack[u][i], f)
  <2>1. ArgumentsOK(stack[u][i]) /\ VariablesOK(stack[u][i])
    BY DEF IInv, FramesOK, FrameOK
  <2>2. stack[u][i].loc # dst /\ (stack[u][i].loc = src => stack[u][i].op # "destroy")
    BY <1>2, InProgress DEF Loadable, Initializable
  <2> QED BY <1>2, <2>1, <2>2, WeakAssumption
      DEF NewFrame, Apart, Modifies, Moves, Loads, ArgumentsOK, VariablesOK,
          Loadable, Initializable
<1>5. cls \in {"uninitialized", "initializing", "initialized"} BY DEF IInv, TypeOK
<1>6. f.op = "copy" /\ f.held = {} /\ f.pc = "read" BY DEF NewFrame
<1> HIDE DEF f
<1> QED BY <1>1, <1>2, <1>3, <1>4, <1>5, <1>6, CallStep

\* objc_moveWeak.
LEMMA MoveWeakInv ==
    ASSUME IInv, NEW t \in Threads, NEW dst \in Locations, NEW src \in Locations,
           MoveWeak(t, dst, src)
    PROVE  IInv'
<1> DEFINE f == NewFrame("move", "read", dst, src, nil)
<1>1. f \in Frame BY NewFrameType DEF Ops
<1>2. /\ Push(t, f) /\ UNCHANGED <<Table, Lives, lock, cls, fatal>>
      /\ Movable(src) /\ Initializable(dst)
  BY DEF MoveWeak, Call
<1>3. ArgumentsOK(f) /\ VariablesOK(f)
  BY <1>2, WeakAssumption DEF NewFrame, ArgumentsOK, VariablesOK, Movable, Initializable,
      Loads, Moves, Reads, haveOld
<1>4. ASSUME NEW u \in Threads, NEW i \in DOMAIN stack[u]
      PROVE  Apart(f, stack[u][i]) /\ Apart(stack[u][i], f)
  <2>1. ArgumentsOK(stack[u][i]) /\ VariablesOK(stack[u][i])
    BY DEF IInv, FramesOK, FrameOK
  <2>2. stack[u][i].loc # dst /\ ~Modifies(stack[u][i], src)
    BY <1>2, InProgress DEF Movable, Initializable
  <2> QED BY <1>2, <2>1, <2>2, WeakAssumption
      DEF NewFrame, Apart, Modifies, Moves, Loads, ArgumentsOK, VariablesOK,
          Movable, Initializable
<1>5. cls \in {"uninitialized", "initializing", "initialized"} BY DEF IInv, TypeOK
<1>6. f.op = "move" /\ f.held = {} /\ f.pc = "read" BY DEF NewFrame
<1> HIDE DEF f
<1> QED BY <1>1, <1>2, <1>3, <1>4, <1>5, <1>6, CallStep

\* The first message to the class.
LEMMA MessageInv ==
    ASSUME IInv, NEW t \in Threads, Message(t)
    PROVE  IInv'
<1> DEFINE f == NewFrame("message", "classInit", nil, nil, nil)
<1>1. f \in Frame BY NewFrameType DEF Ops
<1>2. Push(t, f) /\ UNCHANGED <<Table, Lives, lock, fatal>>
  BY DEF Message, Call
<1>3. cls' \in {"uninitialized", "initializing", "initialized"}
  BY DEF Message, Call, IInv, TypeOK
<1>4. ArgumentsOK(f) /\ VariablesOK(f)
  BY DEF NewFrame, ArgumentsOK, VariablesOK, Loads, Moves, Reads, haveOld
<1>5. ASSUME NEW u \in Threads, NEW i \in DOMAIN stack[u]
      PROVE  Apart(f, stack[u][i]) /\ Apart(stack[u][i], f)
  <2>1. ArgumentsOK(stack[u][i]) BY DEF IInv, FramesOK, FrameOK
  <2> QED BY <2>1 DEF NewFrame, Apart, Moves, ArgumentsOK
<1>6. f.op = "message" /\ f.held = {} /\ f.pc = "classInit" BY DEF NewFrame
<1> HIDE DEF f
<1> QED BY <1>1, <1>2, <1>3, <1>4, <1>5, <1>6, CallStep

\* A thread sends +initialize.
LEMMA BeginInitializeInv ==
    ASSUME IInv, NEW t \in Threads, BeginInitialize(t)
    PROVE  IInv'
<1> DEFINE f == NewFrame("initialize", "running", nil, nil, nil)
<1>1. f \in Frame BY NewFrameType DEF Ops
<1>2. Push(t, f) /\ UNCHANGED <<Table, Lives, lock, fatal>>
  BY DEF BeginInitialize
<1>3. cls' \in {"uninitialized", "initializing", "initialized"}
  BY DEF BeginInitialize, IInv, TypeOK
<1>4. ArgumentsOK(f) /\ VariablesOK(f)
  BY DEF NewFrame, ArgumentsOK, VariablesOK, Loads, Moves, Reads, haveOld
<1>5. ASSUME NEW u \in Threads, NEW i \in DOMAIN stack[u]
      PROVE  Apart(f, stack[u][i]) /\ Apart(stack[u][i], f)
  <2>1. ArgumentsOK(stack[u][i]) BY DEF IInv, FramesOK, FrameOK
  <2> QED BY <2>1 DEF NewFrame, Apart, Moves, ArgumentsOK
<1>6. f.op = "initialize" /\ f.held = {} /\ f.pc = "running" BY DEF NewFrame
<1> HIDE DEF f
<1> QED BY <1>1, <1>2, <1>3, <1>4, <1>5, <1>6, CallStep

-----------------------------------------------------------------------------
(* The call at the top of a stack, and the ones below it and in other      *)
(* stacks.                                                                 *)

\* The call at the top is in order, and the others are, and are apart from it.
LEMMA TopFacts ==
    ASSUME IInv, NEW t \in Threads, stack[t] # <<>>
    PROVE  /\ Top(t) \in Frame
           /\ ArgumentsOK(Top(t)) /\ VariablesOK(Top(t)) /\ DeallocOK(Top(t))
           /\ TablesOK(t, Top(t))
           /\ \A u \in Threads : \A i \in DOMAIN stack[u] : u # t \/ i \in Below(t) =>
                 /\ stack[u][i] \in Frame
                 /\ ArgumentsOK(stack[u][i]) /\ VariablesOK(stack[u][i])
                 /\ DeallocOK(stack[u][i]) /\ TablesOK(u, stack[u][i])
                 /\ Apart(Top(t), stack[u][i]) /\ Apart(stack[u][i], Top(t))
<1>h. TypeOK /\ FramesOK /\ FramesApart BY DEF IInv
<1>1. Len(stack[t]) \in DOMAIN stack[t] /\ Top(t) = stack[t][Len(stack[t])]
      /\ Top(t) \in Frame /\ Len(stack[t]) \in Nat
  BY <1>h, StackTypes
<1>2. FrameOK(t, Top(t)) BY <1>h, <1>1 DEF FramesOK
<1>3. ASSUME NEW u \in Threads, NEW i \in DOMAIN stack[u], u # t \/ i \in Below(t)
      PROVE  /\ stack[u][i] \in Frame
             /\ FrameOK(u, stack[u][i])
             /\ Apart(Top(t), stack[u][i]) /\ Apart(stack[u][i], Top(t))
  <2>1. u # t \/ i # Len(stack[t]) BY <1>1, <1>3 DEF Below
  <2>2. Apart(Top(t), stack[u][i]) /\ Apart(stack[u][i], Top(t))
    BY <1>h, <1>1, <2>1 DEF FramesApart
  <2> QED BY <1>h, <2>2, StackTypes DEF FramesOK
<1> QED BY <1>1, <1>2, <1>3 DEF FrameOK

\* Unlock leaves the other calls their side tables.
LEMMA UnlockOthers ==
    ASSUME IInv, NEW t \in Threads, stack[t] # <<>>, Unlock(Top(t))
    PROVE  /\ lock' \in [Stripes -> Threads \cup {NoThread}]
           /\ \A s \in Stripes : s \notin Top(t).held => lock'[s] = lock[s]
           /\ \A u \in Threads : \A i \in DOMAIN stack[u] : u # t \/ i \in Below(t) =>
                 \A s \in stack[u][i].held : lock'[s] = lock[s]
<1>1. lock' = [s \in Stripes |-> IF s \in Top(t).held THEN NoThread ELSE lock[s]]
  BY DEF Unlock
<1>2. lock \in [Stripes -> Threads \cup {NoThread}] BY DEF IInv, TypeOK
<1>3. ASSUME NEW u \in Threads, NEW i \in DOMAIN stack[u], u # t \/ i \in Below(t)
      PROVE  \A s \in stack[u][i].held : lock'[s] = lock[s]
  <2>1. stack[u][i].held \subseteq Stripes /\ Apart(Top(t), stack[u][i])
    BY <1>3, TopFacts, FrameFields
  <2> QED BY <1>1, <2>1 DEF Apart
<1> QED BY <1>1, <1>2, <1>3

\* A call returns without having changed the variables and the objects.
LEMMA QuietReturn ==
    ASSUME IInv, NEW t \in Threads, stack[t] # <<>>, Return(t),
           UNCHANGED <<Table, Lives, lock, fatal>>,
           cls' \in {"uninitialized", "initializing", "initialized"}
    PROVE  IInv'
<1>1. TypeOK BY DEF IInv
<1>2. stack' \in [Threads -> Seq(Frame)] /\ StackStep(t, Below(t), 0) BY <1>1, ReturnStep
<1>3. lock' \in [Stripes -> Threads \cup {NoThread}] /\ fatal' \in BOOLEAN
  BY <1>1 DEF TypeOK
<1> QED BY <1>2, <1>3, QuietStep

\* An object's variables change and the call at the top returns; what is below is not
\* disturbed, no reference is made or dropped.
LEMMA ReturnFrames ==
    ASSUME IInv, NEW t \in Threads, stack[t] # <<>>, Return(t), TypeOK', UNCHANGED Lives,
           \A u \in Threads : \A i \in DOMAIN stack[u] :
              u # t \/ i \in Below(t) => Undisturbed(u, stack[u][i])
    PROVE  FramesOK' /\ FramesApart' /\ ReferencesOK'
<1>1. TypeOK /\ FramesOK /\ FramesApart /\ ReferencesOK BY DEF IInv
<1>2. stack' \in [Threads -> Seq(Frame)] /\ StackStep(t, Below(t), 0) BY <1>1, ReturnStep
<1>3. FramesOK' /\ FramesApart' BY <1>1, <1>2, FramesStep
<1>4. ReferencesOK' BY <1>1, <1>2, CopiesKept
<1> QED BY <1>3, <1>4

\* A call that goes on with the same operation and the same variables is in order
\* again, if it has its locks.
LEMMA AdvancedOK ==
    ASSUME IInv, NEW t \in Threads, stack[t] # <<>>, NEW f \in Frame,
           UNCHANGED <<Table, Lives>>,
           f.op = Top(t).op, f.loc = Top(t).loc, f.from = Top(t).from, f.new = Top(t).new,
           ArgumentsOK(f),
           f.pc \notin {"release", "free"}, Top(t).pc # "release",
           f.pc = "locked" => Needed(f) \subseteq f.held,
           \A s \in f.held : lock'[s] = t
    PROVE  FrameOK(t, f)'
<1>1. VariablesOK(Top(t)) /\ DeallocOK(Top(t)) BY TopFacts
<1>2. UNCHANGED <<live, life, referrers>> BY DEF Table, Lives
<1>3. VariablesOK(f)' BY <1>1, <1>2 DEF VariablesOK, Loads, Moves
<1>4. DeallocOK(f)' BY <1>1, <1>2 DEF DeallocOK
<1>5. TablesOK(t, f)' BY DEF TablesOK
<1> QED BY <1>3, <1>4, <1>5 DEF FrameOK

-----------------------------------------------------------------------------
(* Reading and locking.                                                    *)

\* *dst = nil, and the call returns.
LEMMA StoreNilInv ==
    ASSUME IInv, NEW t \in Threads, stack[t] # <<>>, Top(t).op \in {"copy", "move"},
           StoreNil(Top(t)), Return(t), UNCHANGED <<Lives, cls, fatal>>,
           lock' \in [Stripes -> Threads \cup {NoThread}],
           \A u \in Threads : \A i \in DOMAIN stack[u] : u # t \/ i \in Below(t) =>
              \A s \in stack[u][i].held : lock'[s] = lock[s]
    PROVE  IInv'
<1>h. TypeOK /\ FramesOK /\ FramesApart /\ ReferencesOK /\ MarkedOK
      /\ RegistrationExact /\ NoWeakError
  BY DEF IInv
<1> DEFINE f == Top(t)
<1>1. f \in Frame /\ ArgumentsOK(f) /\ VariablesOK(f) BY TopFacts
<1>2. f.loc \in Locations /\ ~live[f.loc]
  BY <1>1, FrameFields DEF ArgumentsOK, VariablesOK
<1>3. /\ location' = [location EXCEPT ![f.loc] = nil]
      /\ live' = [live EXCEPT ![f.loc] = TRUE]
      /\ UNCHANGED <<referrers, weaklyReferenced, weakError, life, refs>>
  BY DEF StoreNil, Lives
<1>4. TypeOK'
  <2>1. stack' \in [Threads -> Seq(Frame)] BY <1>h, ReturnStep
  <2> QED BY <1>h, <1>2, <1>3, <2>1 DEF TypeOK
<1>5. ASSUME NEW u \in Threads, NEW i \in DOMAIN stack[u], u # t \/ i \in Below(t)
      PROVE  Undisturbed(u, stack[u][i])
  <2> DEFINE g == stack[u][i]
  <2>1. /\ g \in Frame /\ ArgumentsOK(g) /\ VariablesOK(g)
        /\ Apart(f, g) /\ Apart(g, f)
    BY <1>5, TopFacts
  <2>2. g.loc # f.loc BY <1>1, <1>2, <2>1, WeakAssumption DEF Apart
  <2>3. g.from # f.loc
    BY <1>2, <2>1, FrameFields, WeakAssumption DEF ArgumentsOK, VariablesOK
  <2>4. g.loc \in Locations \cup {nil} /\ g.from \in Locations \cup {nil}
    BY <2>1, FrameFields
  <2>5. \A s \in g.held : lock'[s] = lock[s] BY <1>5
  <2> HIDE DEF g, f
  <2> QED BY <1>h, <1>3, <2>2, <2>3, <2>4, <2>5 DEF Undisturbed, TypeOK, g
<1>6. FramesOK' /\ FramesApart' /\ ReferencesOK' BY <1>4, <1>5, ReturnFrames
<1>7. RegistrationExact'
  BY <1>h, <1>2, <1>3, WeakAssumption DEF RegistrationExact, TypeOK
<1>8. MarkedOK' /\ NoWeakError' BY <1>h, <1>3 DEF MarkedOK, NoWeakError
<1> QED BY <1>4, <1>6, <1>7, <1>8 DEF IInv

\* retry: the variable is read without a lock.
LEMMA ReadInv ==
    ASSUME IInv, NEW t \in Threads, Read(t)
    PROVE  IInv'
<1>h. TypeOK BY DEF IInv
<1> DEFINE f == Top(t)
           obj == location[Watched(f)]
<1>1. stack[t] # <<>> /\ f.pc = "read" /\ UNCHANGED <<Lives, lock, cls, fatal>>
  BY DEF Read, At
<1>2. /\ f \in Frame /\ ArgumentsOK(f) /\ VariablesOK(f) /\ DeallocOK(f)
      /\ TablesOK(t, f)
  BY <1>1, TopFacts
<1>3. cls' \in {"uninitialized", "initializing", "initialized"}
      /\ lock' \in [Stripes -> Threads \cup {NoThread}]
  BY <1>h, <1>1 DEF TypeOK
<1>4. CASE obj = nil /\ ~haveOld(f)
  <2>1. LoadedNil(f) /\ Return(t) BY <1>4 DEF Read
  <2>2. CASE f.op = "load" BY <1>1, <1>3, <2>1, <2>2, QuietReturn DEF LoadedNil
  <2>3. CASE f.op # "load"
    <3>1. f.op \in {"copy", "move"}
      BY <1>1, <1>2, <1>4, <2>3 DEF ArgumentsOK, Reads, haveOld, Loads, Moves
    <3>2. StoreNil(f) BY <2>1, <2>3 DEF LoadedNil
    <3> QED BY <1>1, <1>3, <2>1, <3>1, <3>2, StoreNilInv
  <2> QED BY <2>2, <2>3
<1>5. CASE ~(obj = nil /\ ~haveOld(f))
  <2>1. SetTop(t, [f EXCEPT !.old = obj, !.pc = "lock"]) /\ UNCHANGED Table
    BY <1>5 DEF Read
  <2>2. Reads(f) BY <1>1, <1>2 DEF ArgumentsOK
  <2>3. Watched(f) \in Locations
    BY <1>2, <2>2, FrameFields DEF Watched, Reads, haveOld, Loads, Moves, ArgumentsOK
  <2>4. obj \in Objects \cup {nil} BY <1>h, <2>3 DEF TypeOK
  <2>5. PICK f2 \in Frame : f2 = [f EXCEPT !.old = obj, !.pc = "lock"]
    BY <1>2, <2>4, FrameExcept
  <2>6. /\ f2.op = f.op /\ f2.loc = f.loc /\ f2.from = f.from /\ f2.new = f.new
        /\ f2.held = f.held /\ f2.old = obj /\ f2.pc = "lock"
    BY <1>2, <2>5 DEF Frame
  <2>7. SetTop(t, f2) BY <2>1, <2>5
  <2> HIDE DEF obj
  <2>8. ArgumentsOK(f2)
    BY <1>1, <1>2, <1>5, <2>2, <2>6 DEF ArgumentsOK, Reads, haveOld, Loads, Moves
  <2>9. FrameOK(t, f2)'
    <3>1. \A s \in f2.held : lock'[s] = t BY <1>1, <1>2, <2>6 DEF TablesOK
    <3> QED BY <1>1, <2>1, <2>6, <2>8, <3>1, AdvancedOK
  <2>10. \A s \in Stripes : lock'[s] = lock[s] BY <1>1
  <2> QED BY <1>1, <1>3, <2>1, <2>6, <2>7, <2>9, <2>10, AdvanceStep
<1> QED BY <1>4, <1>5

\* lockTwo takes one of the side tables.
LEMMA AcquireInv ==
    ASSUME IInv, NEW t \in Threads, Acquire(t)
    PROVE  IInv'
<1>h. TypeOK BY DEF IInv
<1> DEFINE f == Top(t)
           wanted == Needed(f) \ f.held
<1>1. stack[t] # <<>> /\ f.pc = "lock" /\ UNCHANGED <<Table, Lives, cls, fatal>>
  BY DEF Acquire, At
<1>2. /\ f \in Frame /\ ArgumentsOK(f) /\ TablesOK(t, f)
  BY <1>1, TopFacts
<1>3. PICK s \in wanted :
         /\ lock[s] = NoThread
         /\ lock' = [lock EXCEPT ![s] = t]
         /\ SetTop(t, [f EXCEPT !.held = @ \cup {s},
                       !.pc = IF wanted = {s} THEN "locked" ELSE "lock"])
  BY DEF Acquire
<1>4. f.held \subseteq Stripes /\ Needed(f) \subseteq Stripes
  BY <1>2, FrameFields, WeakAssumption DEF Needed
<1> DEFINE pc2 == IF wanted = {s} THEN "locked" ELSE "lock"
<1>5. [f EXCEPT !.held = f.held \cup {s}, !.pc = pc2] \in Frame
  <2>1. f.held \cup {s} \in SUBSET Stripes /\ pc2 \in {"lock", "locked"} BY <1>3, <1>4
  <2> HIDE DEF pc2, f
  <2> QED BY <1>2, <2>1, FrameExcept
<1>6. PICK f2 \in Frame : f2 = [f EXCEPT !.held = f.held \cup {s}, !.pc = pc2]
  BY <1>5
<1>7. /\ f2.op = f.op /\ f2.loc = f.loc /\ f2.from = f.from /\ f2.new = f.new
      /\ f2.held = f.held \cup {s} /\ f2.old = f.old /\ f2.pc = pc2
  BY <1>2, <1>6 DEF Frame
<1>8. SetTop(t, f2) BY <1>3, <1>6
<1>9. ArgumentsOK(f2)
  BY <1>1, <1>2, <1>7 DEF ArgumentsOK, Reads, haveOld, Loads, Moves
<1>10. f2.pc = "locked" => Needed(f2) \subseteq f2.held
  BY <1>3, <1>7 DEF Needed, Reads, haveOld, haveNew, Loads, Moves
<1>11. \A r \in Stripes : lock'[r] = IF r = s THEN t ELSE lock[r]
  BY <1>h, <1>3 DEF TypeOK
<1>12. \A r \in f2.held : lock'[r] = t BY <1>2, <1>4, <1>7, <1>11 DEF TablesOK
<1>13. /\ lock' \in [Stripes -> Threads \cup {NoThread}]
       /\ cls' \in {"uninitialized", "initializing", "initialized"}
  BY <1>h, <1>1, <1>3 DEF TypeOK
<1> HIDE DEF pc2, wanted
<1>14. f2.pc \in {"lock", "locked"} BY <1>7 DEF pc2
<1>15. FrameOK(t, f2)' BY <1>1, <1>7, <1>9, <1>10, <1>12, <1>14, AdvancedOK
<1>16. /\ \A r \in f2.held : r \in f.held \/ lock[r] = NoThread
       /\ \A r \in Stripes : r \notin f.held /\ lock[r] # NoThread => lock'[r] = lock[r]
  BY <1>3, <1>7, <1>11
<1> QED BY <1>1, <1>7, <1>8, <1>13, <1>15, <1>16, AdvanceStep

\* The call gives up its side tables and goes on to p without them.
LEMMA UnlockStep ==
    ASSUME IInv, NEW t \in Threads, stack[t] # <<>>, NEW p \in {"read", "classInit"},
           Top(t).pc = "locked", p = "read" => Reads(Top(t)),
           Unlock(Top(t)), SetTop(t, [Top(t) EXCEPT !.pc = p, !.held = {}]),
           UNCHANGED <<Table, Lives, cls, fatal>>
    PROVE  IInv'
<1>h. TypeOK BY DEF IInv
<1> DEFINE f == Top(t)
<1>1. f \in Frame /\ ArgumentsOK(f) BY TopFacts
<1>2. [f EXCEPT !.pc = p, !.held = {}] \in Frame BY <1>1, FrameExcept
<1>3. PICK f2 \in Frame : f2 = [f EXCEPT !.pc = p, !.held = {}] BY <1>2
<1>4. /\ f2.op = f.op /\ f2.loc = f.loc /\ f2.from = f.from /\ f2.new = f.new
      /\ f2.held = {} /\ f2.old = f.old /\ f2.pc = p
  BY <1>1, <1>3 DEF Frame
<1>5. SetTop(t, f2) BY <1>3
<1>6. ArgumentsOK(f2) BY <1>1, <1>4 DEF ArgumentsOK, Reads, haveOld, Loads, Moves
<1>7. FrameOK(t, f2)' BY <1>4, <1>6, AdvancedOK
<1>8. /\ lock' \in [Stripes -> Threads \cup {NoThread}]
      /\ \A s \in Stripes : s \notin f.held => lock'[s] = lock[s]
  BY UnlockOthers
<1>9. cls' \in {"uninitialized", "initializing", "initialized"} BY <1>h DEF TypeOK
<1> QED BY <1>4, <1>5, <1>7, <1>8, <1>9, AdvanceStep

\* "Retry if the old value changes underneath us."
LEMMA RetryInv ==
    ASSUME IInv, NEW t \in Threads, Retry(t)
    PROVE  IInv'
BY UnlockStep DEF Retry, At, Stale

\* The locks are given up for +initialize.
LEMMA LeaveToInitializeInv ==
    ASSUME IInv, NEW t \in Threads, LeaveToInitialize(t)
    PROVE  IInv'
BY UnlockStep DEF LeaveToInitialize, At

\* class_initialize returns.
LEMMA InitializedInv ==
    ASSUME IInv, NEW t \in Threads, Initialized(t)
    PROVE  IInv'
<1>h. TypeOK BY DEF IInv
<1> DEFINE f == Top(t)
           p == Start(f)
<1>1. stack[t] # <<>> /\ f.pc = "classInit" /\ UNCHANGED <<Table, Lives, lock, cls, fatal>>
  BY DEF Initialized, At
<1>2. f \in Frame /\ ArgumentsOK(f) /\ TablesOK(t, f) BY <1>1, TopFacts
<1>3. /\ lock' \in [Stripes -> Threads \cup {NoThread}]
      /\ cls' \in {"uninitialized", "initializing", "initialized"}
  BY <1>h, <1>1 DEF TypeOK
<1>4. CASE f.op = "message"
  <2>1. Return(t) BY <1>4 DEF Initialized
  <2> QED BY <1>1, <1>3, <2>1, QuietReturn
<1>5. CASE f.op # "message"
  <2>1. p \in {"read", "lock"} /\ (p = "read" <=> Reads(f)) BY DEF Start
  <2>2. SetTop(t, [f EXCEPT !.pc = p, !.known = TRUE]) BY <1>5 DEF Initialized
  <2>3. [f EXCEPT !.pc = p, !.known = TRUE] \in Frame BY <1>2, <2>1, FrameExcept
  <2>4. PICK f2 \in Frame : f2 = [f EXCEPT !.pc = p, !.known = TRUE] BY <2>3
  <2>5. /\ f2.op = f.op /\ f2.loc = f.loc /\ f2.from = f.from /\ f2.new = f.new
        /\ f2.held = f.held /\ f2.old = f.old /\ f2.pc = p
    BY <1>2, <2>4 DEF Frame
  <2>6. SetTop(t, f2) BY <2>2, <2>4
  <2> HIDE DEF p
  <2>7. ArgumentsOK(f2)
    BY <1>2, <2>1, <2>5 DEF ArgumentsOK, Reads, haveOld, Loads, Moves
  <2>8. \A s \in f2.held : lock'[s] = t BY <1>1, <1>2, <2>5 DEF TablesOK
  <2>9. FrameOK(t, f2)' BY <1>1, <2>1, <2>5, <2>7, <2>8, AdvancedOK
  <2>10. \A s \in Stripes : lock'[s] = lock[s] BY <1>1
  <2> QED BY <1>1, <1>3, <2>5, <2>6, <2>9, <2>10, AdvanceStep
<1> QED BY <1>4, <1>5

\* +initialize returns.
LEMMA FinishInitializeInv ==
    ASSUME IInv, NEW t \in Threads, FinishInitialize(t)
    PROVE  IInv'
BY QuietReturn DEF FinishInitialize, At

-----------------------------------------------------------------------------
(* Steps that change the variables.                                        *)

\* -dealloc is through: an object that is not marked has no variables registered.
LEMMA RootDeallocInv ==
    ASSUME IInv, NEW t \in Threads, RootDealloc(t)
    PROVE  IInv'
<1>h. TypeOK /\ MarkedOK BY DEF IInv
<1> DEFINE f == Top(t)
           p == IF weaklyReferenced[f.new] THEN "lock" ELSE "free"
<1>1. stack[t] # <<>> /\ f.pc = "running" /\ f.op = "dealloc"
      /\ UNCHANGED <<Table, Lives, lock, cls, fatal>>
      /\ SetTop(t, [f EXCEPT !.pc = p])
  BY DEF RootDealloc, At
<1>2. f \in Frame /\ ArgumentsOK(f) /\ VariablesOK(f) /\ DeallocOK(f) /\ TablesOK(t, f)
  BY <1>1, TopFacts
<1>3. [f EXCEPT !.pc = p] \in Frame BY <1>2, FrameExcept
<1>4. PICK f2 \in Frame : f2 = [f EXCEPT !.pc = p] BY <1>3
<1>5. /\ f2.op = f.op /\ f2.loc = f.loc /\ f2.from = f.from /\ f2.new = f.new
      /\ f2.held = f.held /\ f2.old = f.old /\ f2.pc = p
  BY <1>2, <1>4 DEF Frame
<1>6. SetTop(t, f2) BY <1>1, <1>4
<1>7. f.new \in Objects BY <1>1, <1>2, FrameFields DEF ArgumentsOK
<1>8. p = "free" => referrers[f.new] = {} BY <1>h, <1>7 DEF MarkedOK
<1>9. p \in {"lock", "free"} OBVIOUS
<1>10. /\ lock' \in [Stripes -> Threads \cup {NoThread}]
       /\ cls' \in {"uninitialized", "initializing", "initialized"}
  BY <1>h, <1>1 DEF TypeOK
<1> HIDE DEF p
<1>11. FrameOK(t, f2)'
  <2>1. ArgumentsOK(f2)
    BY <1>1, <1>2, <1>5, <1>9 DEF ArgumentsOK, Reads, haveOld, Loads, Moves
  <2>2. VariablesOK(f2)' BY <1>1, <1>5 DEF VariablesOK, Loads, Moves
  <2>3. DeallocOK(f2)' BY <1>1, <1>2, <1>5, <1>8 DEF DeallocOK, Table, Lives
  <2>4. TablesOK(t, f2)' BY <1>1, <1>2, <1>5, <1>9 DEF TablesOK
  <2> QED BY <2>1, <2>2, <2>3, <2>4 DEF FrameOK
<1>12. \A s \in Stripes : lock'[s] = lock[s] BY <1>1
<1> QED BY <1>1, <1>5, <1>6, <1>10, <1>11, <1>12, AdvanceStep

\* The stacks do not change, and no call in progress is disturbed.
LEMMA StackUnchanged ==
    ASSUME FramesOK, FramesApart, UNCHANGED stack,
           \A u \in Threads : \A i \in DOMAIN stack[u] : Undisturbed(u, stack[u][i]),
           \A u \in Threads : \A i \in DOMAIN stack[u] : stack[u][i] \in Frame
    PROVE  FramesOK' /\ FramesApart'
<1>1. FramesApart' BY DEF FramesApart
<1>2. FramesOK'
  <2> SUFFICES ASSUME NEW u \in Threads, NEW i \in DOMAIN stack[u]
               PROVE  FrameOK(u, stack[u][i])'
    BY DEF FramesOK
  <2>1. PICK f \in Frame : f = stack[u][i] OBVIOUS
  <2>2. FrameOK(u, f)' BY <2>1, FrameKept DEF FramesOK
  <2> QED BY <2>1, <2>2 DEF FrameOK, ArgumentsOK, VariablesOK, DeallocOK, TablesOK,
      Loads, Moves, Reads, haveOld, haveNew, Needed
<1> QED BY <1>1, <1>2

\* CrashIfDeallocating.
LEMMA CannotFormInv ==
    ASSUME IInv, NEW t \in Threads, CannotForm(t)
    PROVE  IInv'
<1>h. TypeOK /\ FramesOK /\ FramesApart /\ ReferencesOK /\ MarkedOK
      /\ RegistrationExact /\ NoWeakError
  BY DEF IInv
<1>1. UNCHANGED <<location, live, referrers, weaklyReferenced, weakError, life, refs,
                  lock, cls, stack>> /\ fatal' \in BOOLEAN
  BY DEF CannotForm, Table, Lives
<1>2. TypeOK' BY <1>h, <1>1 DEF TypeOK
<1>3. \A u \in Threads : \A i \in DOMAIN stack[u] :
         Undisturbed(u, stack[u][i]) /\ stack[u][i] \in Frame
  BY <1>h, <1>1, StackTypes DEF Undisturbed
<1>4. FramesOK' /\ FramesApart' BY <1>h, <1>1, <1>3, StackUnchanged
<1>5. ReferencesOK' BY <1>h, <1>1 DEF ReferencesOK, Copies
<1>6. MarkedOK' /\ RegistrationExact' /\ NoWeakError'
  BY <1>h, <1>1 DEF MarkedOK, RegistrationExact, NoWeakError
<1> QED BY <1>2, <1>4, <1>5, <1>6 DEF IInv

\* objc_initWeak(location, nil).
LEMMA InitWeakNilInv ==
    ASSUME IInv, NEW t \in Threads, NEW v \in Locations, InitWeakNil(t, v)
    PROVE  IInv'
<1>h. TypeOK /\ FramesOK /\ FramesApart /\ ReferencesOK /\ MarkedOK
      /\ RegistrationExact /\ NoWeakError
  BY DEF IInv
<1>1. /\ Initializable(v)
      /\ location' = [location EXCEPT ![v] = nil]
      /\ live' = [live EXCEPT ![v] = TRUE]
      /\ UNCHANGED <<referrers, weaklyReferenced, weakError, life, refs, lock, cls,
                     stack, fatal>>
  BY DEF InitWeakNil, Lives
<1>2. ~live[v] BY <1>1 DEF Initializable
<1>3. TypeOK' BY <1>h, <1>1 DEF TypeOK
<1>4. ASSUME NEW u \in Threads, NEW i \in DOMAIN stack[u]
      PROVE  stack[u][i] \in Frame /\ Undisturbed(u, stack[u][i])
  <2> DEFINE g == stack[u][i]
  <2>1. g \in Frame /\ ArgumentsOK(g) /\ VariablesOK(g)
    BY <1>h, StackTypes DEF FramesOK, FrameOK
  <2>2. g.loc # v BY <1>1, InProgress DEF Initializable
  <2>3. g.from # v
    BY <1>2, <2>1, WeakAssumption DEF ArgumentsOK, VariablesOK
  <2>4. g.loc \in Locations \cup {nil} /\ g.from \in Locations \cup {nil}
    BY <2>1, FrameFields
  <2> HIDE DEF g
  <2> QED BY <1>h, <1>1, <2>1, <2>2, <2>3, <2>4 DEF Undisturbed, TypeOK, g
<1>5. FramesOK' /\ FramesApart' BY <1>h, <1>1, <1>4, StackUnchanged
<1>6. ReferencesOK' BY <1>h, <1>1 DEF ReferencesOK, Copies
<1>7. RegistrationExact'
  BY <1>h, <1>1, <1>2, WeakAssumption DEF RegistrationExact, TypeOK
<1>8. MarkedOK' /\ NoWeakError' BY <1>h, <1>1 DEF MarkedOK, NoWeakError
<1> QED BY <1>3, <1>5, <1>6, <1>7, <1>8 DEF IInv

\* An object is allocated.
LEMMA AllocInv ==
    ASSUME IInv, NEW t \in Threads, NEW o \in Objects, Alloc(t, o)
    PROVE  IInv'
<1>h. TypeOK /\ FramesOK /\ FramesApart /\ ReferencesOK /\ MarkedOK
      /\ RegistrationExact /\ NoWeakError
  BY DEF IInv
<1>1. /\ life[o] = "unallocated"
      /\ life' = [life EXCEPT ![o] = "alive"]
      /\ refs' = [refs EXCEPT ![t][o] = 1]
      /\ UNCHANGED <<location, live, referrers, weaklyReferenced, weakError, lock, cls,
                     stack, fatal>>
  BY DEF Alloc, Table
<1>2. TypeOK'
  <2>1. refs' \in [Threads -> [Objects -> Nat]] BY <1>h, <1>1 DEF TypeOK
  <2>2. life' \in [Objects -> {"unallocated", "alive", "deallocating"}]
    BY <1>h, <1>1 DEF TypeOK
  <2> QED BY <1>h, <1>1, <2>1, <2>2 DEF TypeOK
<1>3. ASSUME NEW u \in Threads, NEW i \in DOMAIN stack[u]
      PROVE  stack[u][i] \in Frame /\ Undisturbed(u, stack[u][i])
  <2> DEFINE g == stack[u][i]
  <2>1. g \in Frame /\ ArgumentsOK(g) /\ DeallocOK(g)
    BY <1>h, StackTypes DEF FramesOK, FrameOK
  <2>2. g.new \in Objects \cup {nil} BY <2>1, FrameFields
  <2> HIDE DEF g
  <2>3. g.op = "dealloc" => g.new # o /\ g.new \in Objects
    BY <1>1, <2>1, <2>2 DEF DeallocOK, ArgumentsOK
  <2> QED BY <1>h, <1>1, <2>1, <2>3 DEF Undisturbed, TypeOK, g
<1>4. FramesOK' /\ FramesApart' BY <1>h, <1>1, <1>3, StackUnchanged
<1>5. ReferencesOK'
  <2> SUFFICES ASSUME NEW u \in Threads, NEW q \in Objects
               PROVE  /\ refs'[u][q] > 0 => life'[q] = "alive"
                      /\ Cardinality(Copies(u, q)') <= refs'[u][q]
    BY DEF ReferencesOK
  <2>1. Copies(u, q)' = Copies(u, q) BY <1>1 DEF Copies
  <2>2. /\ refs[u][q] > 0 => life[q] = "alive"
        /\ Cardinality(Copies(u, q)) <= refs[u][q]
        /\ refs[u][q] \in Nat /\ Cardinality(Copies(u, q)) \in Nat
    BY <1>h, CopiesFinite DEF ReferencesOK, TypeOK
  <2>3. CASE q = o
    <3>1. refs[u][q] = 0 BY <1>1, <2>2, <2>3
    <3>2. refs'[u][q] \in Nat /\ life'[q] = "alive" BY <1>h, <1>1, <1>2, <2>3 DEF TypeOK
    <3> QED BY <2>1, <2>2, <3>1, <3>2
  <2>4. CASE q # o
    <3>1. refs'[u][q] = refs[u][q] /\ life'[q] = life[q]
      BY <1>h, <1>1, <2>4 DEF TypeOK
    <3> QED BY <2>1, <2>2, <3>1
  <2> QED BY <2>3, <2>4
<1>6. MarkedOK' BY <1>h, <1>1 DEF MarkedOK, TypeOK
<1>7. RegistrationExact' /\ NoWeakError' BY <1>h, <1>1 DEF RegistrationExact, NoWeakError
<1> QED BY <1>2, <1>4, <1>5, <1>6, <1>7 DEF IInv

-----------------------------------------------------------------------------
(* With the side tables locked.                                            *)

\* The rest of storeWeak.
LEMMA StoreInv ==
    ASSUME IInv, NEW t \in Threads, Store(t)
    PROVE  IInv'
<1>h. TypeOK /\ FramesOK /\ FramesApart /\ ReferencesOK /\ MarkedOK
      /\ RegistrationExact /\ NoWeakError
  BY DEF IInv
<1> DEFINE f == Top(t)
           newObj == Registered(f)
<1>1. /\ stack[t] # <<>> /\ f.pc = "locked" /\ f.op \in StoreOps /\ ~Stale(f)
      /\ Unlock(f)
      /\ UNCHANGED <<life, refs, cls, fatal>>
  BY DEF Store, Ready, At, Lives
<1>2. /\ referrers' = Register(Unregister(referrers, f.old, f.loc), newObj, f.loc)
      /\ weakError' = (weakError \/ UnknownReferrer(f.old, f.loc))
      /\ weaklyReferenced' = IF newObj = nil THEN weaklyReferenced
                             ELSE [weaklyReferenced EXCEPT ![newObj] = TRUE]
      /\ location' = IF haveNew(f) THEN [location EXCEPT ![f.loc] = newObj]
                     ELSE [location EXCEPT ![f.loc] = nil]
      /\ live' = [live EXCEPT ![f.loc] = haveNew(f)]
  BY DEF Store
<1>3. /\ f \in Frame /\ ArgumentsOK(f) /\ VariablesOK(f) /\ TablesOK(t, f)
  BY <1>1, TopFacts
<1>4. /\ f.loc \in Locations
      /\ f.old \in Objects \cup {nil} /\ f.new \in Objects \cup {nil}
  BY <1>1, <1>3, FrameFields DEF ArgumentsOK, StoreOps
<1>5. \/ live[f.loc] /\ location[f.loc] = f.old
      \/ ~live[f.loc] /\ f.old = nil
  BY <1>1, <1>3 DEF ArgumentsOK, VariablesOK, StoreOps, Stale, Reads, haveOld,
      Loads, Moves, Watched
<1>6. /\ newObj \in Objects \cup {nil}
      /\ newObj # nil => life[newObj] = "alive" /\ haveNew(f)
  BY <1>1, <1>3, <1>4 DEF Registered, rootIsDeallocating, haveNew, ArgumentsOK, StoreOps
<1> HIDE DEF newObj, f
<1>7. /\ \A v \in Locations : v # f.loc => location'[v] = location[v] /\ live'[v] = live[v]
      /\ live'[f.loc] = haveNew(f)
      /\ location'[f.loc] = newObj
      /\ location' \in [Locations -> Objects \cup {nil}]
      /\ live' \in [Locations -> BOOLEAN]
  BY <1>h, <1>2, <1>4, <1>6 DEF TypeOK, haveNew
<1>8. /\ referrers' \in [Objects -> SUBSET Locations]
      /\ \A o \in Objects, v \in Locations :
            v \in referrers'[o] <=>
               \/ v = f.loc /\ o = newObj
               \/ v \in referrers[o] /\ ~(v = f.loc /\ o = f.old)
  <2> DEFINE rs == Unregister(referrers, f.old, f.loc)
  <2>1. /\ rs \in [Objects -> SUBSET Locations]
        /\ \A o \in Objects : rs[o] = IF o = f.old THEN referrers[o] \ {f.loc}
                                      ELSE referrers[o]
    BY <1>h, <1>4, WeakAssumption DEF TypeOK, Unregister
  <2> HIDE DEF rs
  <2>2. /\ referrers' \in [Objects -> SUBSET Locations]
        /\ \A o \in Objects : referrers'[o] = IF o = newObj THEN rs[o] \cup {f.loc}
                                              ELSE rs[o]
    BY <1>2, <1>4, <1>6, <2>1, WeakAssumption DEF Register, rs
  <2> QED BY <2>1, <2>2
<1>9. /\ weaklyReferenced' \in [Objects -> BOOLEAN]
      /\ \A o \in Objects : weaklyReferenced'[o] <=> weaklyReferenced[o] \/ o = newObj
  BY <1>h, <1>2, <1>6, WeakAssumption DEF TypeOK
<1>10. RegistrationExact'
  <2>1. \A v \in Locations, o \in Objects :
           v \in referrers[o] <=> live[v] /\ location[v] = o
    BY <1>h DEF RegistrationExact
  <2>2. ASSUME NEW v \in Locations, NEW o \in Objects
        PROVE  v \in referrers'[o] <=> live'[v] /\ location'[v] = o
    <3>1. CASE v = f.loc
      <4>1. live'[v] = haveNew(f) /\ location'[v] = newObj BY <1>7, <3>1
      <4>2. v \in referrers[o] => o = f.old BY <1>5, <2>1, <3>1
      <4>3. v \in referrers'[o] <=> o = newObj BY <1>8, <3>1, <4>2
      <4> QED BY <1>6, <4>1, <4>3, WeakAssumption
    <3>2. CASE v # f.loc BY <1>7, <1>8, <2>1, <3>2
    <3> QED BY <3>1, <3>2
  <2> QED BY <2>2 DEF RegistrationExact
<1>11. MarkedOK'
  BY <1>h, <1>1, <1>6, <1>8, <1>9, WeakAssumption DEF MarkedOK, TypeOK
<1>12. NoWeakError'
  <2>1. ~UnknownReferrer(f.old, f.loc)
    BY <1>h, <1>4, <1>5 DEF UnknownReferrer, RegistrationExact
  <2> QED BY <1>h, <1>2, <2>1 DEF NoWeakError
<1>13. /\ lock' \in [Stripes -> Threads \cup {NoThread}]
       /\ \A u \in Threads : \A i \in DOMAIN stack[u] : u # t \/ i \in Below(t) =>
             \A s \in stack[u][i].held : lock'[s] = lock[s]
  BY <1>1, UnlockOthers DEF f
<1>14. ASSUME NEW u \in Threads, NEW i \in DOMAIN stack[u], u # t \/ i \in Below(t)
       PROVE  Undisturbed(u, stack[u][i])
  <2> DEFINE g == stack[u][i]
  <2>1. /\ g \in Frame /\ ArgumentsOK(g) /\ VariablesOK(g) /\ DeallocOK(g)
        /\ Apart(f, g) /\ Apart(g, f)
    BY <1>1, <1>14, TopFacts DEF f
  <2>2. /\ g.loc \in Locations \cup {nil} /\ g.from \in Locations \cup {nil}
        /\ g.new \in Objects \cup {nil}
    BY <2>1, FrameFields
  <2>3. \A s \in g.held : lock'[s] = lock[s] BY <1>13, <1>14
  <2> HIDE DEF g
  <2>4. g.loc # nil => live'[g.loc] = live[g.loc]
    <3>1. CASE g.loc = f.loc
      <4>1. f.op = "store" /\ g.op = "store" BY <1>4, <2>1, <3>1, WeakAssumption DEF Apart
      <4>2. live[f.loc] /\ live'[f.loc]
        BY <1>3, <1>7, <4>1 DEF VariablesOK, haveNew
      <4> QED BY <1>h, <1>4, <1>7, <3>1, <4>2 DEF TypeOK
    <3>2. CASE g.loc # f.loc BY <1>7, <2>2, <3>2
    <3> QED BY <3>1, <3>2
  <2>5. g.from # nil => live'[g.from] = live[g.from]
    <3>1. CASE g.from = f.loc
      <4>1. f.op # "destroy" BY <2>1, <3>1 DEF Apart
      <4>2. haveNew(f) BY <1>1, <4>1 DEF haveNew, StoreOps
      <4>3. live[g.from] BY <1>4, <2>1, <3>1, WeakAssumption DEF VariablesOK, ArgumentsOK
      <4> QED BY <1>h, <1>4, <1>7, <3>1, <4>2, <4>3 DEF TypeOK
    <3>2. CASE g.from # f.loc BY <1>7, <2>2, <3>2
    <3> QED BY <3>1, <3>2
  <2>6. g.op = "dealloc" => /\ life'[g.new] = life[g.new]
                            /\ referrers[g.new] = {} => referrers'[g.new] = {}
    <3> SUFFICES ASSUME g.op = "dealloc"
                 PROVE  referrers[g.new] = {} => referrers'[g.new] = {}
      BY <1>1
    <3>1. g.new \in Objects /\ life[g.new] = "deallocating"
      BY <2>1, <2>2 DEF ArgumentsOK, DeallocOK
    <3>2. g.new # newObj BY <1>6, <3>1, WeakAssumption
    <3> QED BY <1>8, <3>1, <3>2
  <2> QED BY <2>3, <2>4, <2>5, <2>6 DEF Undisturbed, g
<1>15. CASE f.op # "copyInit"
  <2>1. Return(t) BY <1>15 DEF Store, f
  <2>2. stack' \in [Threads -> Seq(Frame)] BY <1>h, <1>1, <2>1, ReturnStep
  <2>3. TypeOK'
    <3>1. weakError' \in BOOLEAN BY <1>2
    <3> QED BY <1>h, <1>1, <1>7, <1>8, <1>9, <1>13, <2>2, <3>1 DEF TypeOK
  <2>4. FramesOK' /\ FramesApart' /\ ReferencesOK'
    BY <1>1, <1>14, <2>1, <2>3, ReturnFrames DEF Lives
  <2> QED BY <1>10, <1>11, <1>12, <2>3, <2>4 DEF IInv
<1>16. CASE f.op = "copyInit"
  <2>1. SetTop(t, [f EXCEPT !.pc = "release", !.held = {}]) BY <1>16 DEF Store, f
  <2>2. [f EXCEPT !.pc = "release", !.held = {}] \in Frame BY <1>3, FrameExcept
  <2>3. PICK f2 \in Frame : f2 = [f EXCEPT !.pc = "release", !.held = {}] BY <2>2
  <2>4. /\ f2.op = f.op /\ f2.loc = f.loc /\ f2.from = f.from /\ f2.new = f.new
        /\ f2.held = {} /\ f2.old = f.old /\ f2.pc = "release"
    BY <1>3, <2>3 DEF Frame
  <2>5. SetTop(t, f2) BY <2>1, <2>3
  <2> DEFINE k == Len(stack[t])
  <2>6. /\ stack' \in [Threads -> Seq(Frame)]
        /\ StackStep(t, Below(t), k)
        /\ stack'[t][k] = f2
    BY <1>h, <1>1, <2>5, SetTopStep
  <2>7. k \in Nat /\ k \in DOMAIN stack[t] /\ stack[t][k] = f BY <1>h, <1>1, StackTypes DEF f
  <2> HIDE DEF k
  <2>8. TypeOK'
    <3>1. weakError' \in BOOLEAN BY <1>2
    <3> QED BY <1>h, <1>1, <1>7, <1>8, <1>9, <1>13, <2>6, <3>1 DEF TypeOK
  <2>9. FrameOK(t, f2)'
    <3>1. ArgumentsOK(f2)
      BY <1>3, <1>16, <2>4 DEF ArgumentsOK, Reads, haveOld, Loads, Moves
    <3>2. VariablesOK(f2)'
      BY <1>3, <1>7, <1>16, <2>4 DEF VariablesOK, Loads, Moves, haveNew
    <3>3. DeallocOK(f2)' BY <1>16, <2>4 DEF DeallocOK
    <3>4. TablesOK(t, f2)' BY <2>4 DEF TablesOK
    <3> QED BY <3>1, <3>2, <3>3, <3>4 DEF FrameOK
  <2>10. \A u \in Threads : \A i \in DOMAIN stack[u] : u # t \/ i \in Below(t) =>
            Apart(f2, stack[u][i]) /\ Apart(stack[u][i], f2)
    BY <1>1, <2>4, TopFacts DEF Apart, Moves, f
  <2>11. FramesOK' /\ FramesApart'
    BY <1>h, <1>14, <2>6, <2>7, <2>9, <2>10, FramesStep
  <2>12. ReferencesOK' BY <1>h, <1>1, <2>4, <2>6, <2>7, <2>8, CopiesKept DEF Lives
  <2> QED BY <1>10, <1>11, <1>12, <2>8, <2>11, <2>12 DEF IInv
<1> QED BY <1>15, <1>16

\* The rest of objc_moveWeak.
LEMMA MoveInv ==
    ASSUME IInv, NEW t \in Threads, Move(t)
    PROVE  IInv'
<1>h. TypeOK /\ FramesOK /\ FramesApart /\ ReferencesOK /\ MarkedOK
      /\ RegistrationExact /\ NoWeakError
  BY DEF IInv
<1> DEFINE f == Top(t)
<1>1. /\ stack[t] # <<>> /\ f.pc = "locked" /\ f.op = "move" /\ ~Stale(f)
      /\ Unlock(f) /\ Return(t)
      /\ UNCHANGED <<weaklyReferenced, life, refs, cls, fatal>>
  BY DEF Move, Ready, At, Lives
<1>2. /\ referrers' = Register(Unregister(referrers, f.old, f.from), f.old, f.loc)
      /\ weakError' = (weakError \/ UnknownReferrer(f.old, f.from))
      /\ location' = [location EXCEPT ![f.loc] = f.old, ![f.from] = nil]
      /\ live' = [live EXCEPT ![f.loc] = TRUE]
  BY DEF Move
<1>3. /\ f \in Frame /\ ArgumentsOK(f) /\ VariablesOK(f) /\ TablesOK(t, f)
  BY <1>1, TopFacts
<1>4. f.loc \in Locations /\ f.from \in Locations /\ f.old \in Objects
  BY <1>1, <1>3, FrameFields DEF ArgumentsOK, Moves
<1>5. live[f.from] /\ location[f.from] = f.old /\ ~live[f.loc]
  BY <1>1, <1>3 DEF VariablesOK, Stale, Reads, haveOld, Loads, Moves, Watched
<1> HIDE DEF f
<1>6. f.loc # f.from BY <1>5
<1>7. /\ \A v \in Locations : live'[v] <=> live[v] \/ v = f.loc
      /\ \A v \in Locations : v # f.loc => live'[v] = live[v]
      /\ \A v \in Locations : location'[v] = IF v = f.from THEN nil
                                             ELSE IF v = f.loc THEN f.old ELSE location[v]
      /\ location' \in [Locations -> Objects \cup {nil}]
      /\ live' \in [Locations -> BOOLEAN]
  BY <1>h, <1>2, <1>4, <1>6 DEF TypeOK
<1>8. /\ referrers' \in [Objects -> SUBSET Locations]
      /\ \A o \in Objects : referrers'[o] =
            IF o = f.old THEN (referrers[o] \ {f.from}) \cup {f.loc} ELSE referrers[o]
  BY <1>h, <1>2, <1>4, WeakAssumption DEF TypeOK, Register, Unregister
<1>9. f.from \in referrers[f.old] BY <1>h, <1>4, <1>5 DEF RegistrationExact
<1>10. RegistrationExact'
  <2>1. \A v \in Locations, o \in Objects :
           v \in referrers[o] <=> live[v] /\ location[v] = o
    BY <1>h DEF RegistrationExact
  <2>2. ASSUME NEW v \in Locations, NEW o \in Objects
        PROVE  v \in referrers'[o] <=> live'[v] /\ location'[v] = o
    <3>1. CASE v = f.loc BY <1>4, <1>5, <1>6, <1>7, <1>8, <2>1, <3>1
    <3>2. CASE v = f.from
      <4>1. location'[v] = nil /\ nil \notin Objects BY <1>7, <3>2, WeakAssumption
      <4>2. v \notin referrers'[o] BY <1>4, <1>5, <1>6, <1>8, <2>1, <3>2
      <4> QED BY <4>1, <4>2
    <3>3. CASE v # f.loc /\ v # f.from BY <1>7, <1>8, <2>1, <3>3
    <3> QED BY <3>1, <3>2, <3>3
  <2> QED BY <2>2 DEF RegistrationExact
<1>11. MarkedOK'
  BY <1>h, <1>1, <1>4, <1>8, <1>9 DEF MarkedOK
<1>12. NoWeakError'
  <2>1. ~UnknownReferrer(f.old, f.from) BY <1>9 DEF UnknownReferrer
  <2> QED BY <1>h, <1>2, <2>1 DEF NoWeakError
<1>13. /\ lock' \in [Stripes -> Threads \cup {NoThread}]
       /\ \A u \in Threads : \A i \in DOMAIN stack[u] : u # t \/ i \in Below(t) =>
             \A s \in stack[u][i].held : lock'[s] = lock[s]
  BY <1>1, UnlockOthers DEF f
<1>14. ASSUME NEW u \in Threads, NEW i \in DOMAIN stack[u], u # t \/ i \in Below(t)
       PROVE  Undisturbed(u, stack[u][i])
  <2> DEFINE g == stack[u][i]
  <2>1. /\ g \in Frame /\ ArgumentsOK(g) /\ VariablesOK(g) /\ DeallocOK(g)
        /\ Apart(f, g) /\ Apart(g, f)
    BY <1>1, <1>14, TopFacts DEF f
  <2>2. /\ g.loc \in Locations \cup {nil} /\ g.from \in Locations \cup {nil}
        /\ g.new \in Objects \cup {nil}
    BY <2>1, FrameFields
  <2>3. \A s \in g.held : lock'[s] = lock[s] BY <1>13, <1>14
  <2> HIDE DEF g
  <2>4. g.loc # f.loc BY <1>1, <1>4, <2>1, WeakAssumption DEF Apart
  <2>5. g.from # nil => g.from # f.loc
    BY <1>5, <2>1 DEF VariablesOK, ArgumentsOK
  <2>6. /\ g.loc # nil => live'[g.loc] = live[g.loc]
        /\ g.from # nil => live'[g.from] = live[g.from]
    BY <1>h, <1>7, <2>2, <2>4, <2>5 DEF TypeOK
  <2>7. g.op = "dealloc" => /\ life'[g.new] = life[g.new]
                            /\ referrers[g.new] = {} => referrers'[g.new] = {}
    BY <1>1, <1>8, <1>9, <2>1, <2>2 DEF ArgumentsOK
  <2> QED BY <2>3, <2>6, <2>7 DEF Undisturbed, g
<1>15. TypeOK'
  <2>1. stack' \in [Threads -> Seq(Frame)] BY <1>h, <1>1, ReturnStep
  <2>2. weakError' \in BOOLEAN BY <1>2
  <2> QED BY <1>h, <1>1, <1>7, <1>8, <1>13, <2>1, <2>2 DEF TypeOK
<1>16. FramesOK' /\ FramesApart' /\ ReferencesOK'
  BY <1>1, <1>14, <1>15, ReturnFrames DEF Lives
<1> QED BY <1>10, <1>11, <1>12, <1>15, <1>16 DEF IInv

\* clearDeallocating and weak_clear_no_lock.
LEMMA ClearInv ==
    ASSUME IInv, NEW t \in Threads, Clear(t)
    PROVE  IInv'
<1>h. TypeOK /\ FramesOK /\ FramesApart /\ ReferencesOK /\ MarkedOK
      /\ RegistrationExact /\ NoWeakError
  BY DEF IInv
<1> DEFINE f == Top(t)
           o == f.new
<1>1. /\ stack[t] # <<>> /\ f.pc = "locked" /\ f.op = "dealloc"
      /\ Unlock(f) /\ SetTop(t, [f EXCEPT !.pc = "free", !.held = {}])
      /\ UNCHANGED <<live, weaklyReferenced, life, refs, cls, fatal>>
  BY DEF Clear, Ready, At, Lives
<1>2. /\ location' = [v \in Locations |->
            IF v \in referrers[o] /\ location[v] = o THEN nil ELSE location[v]]
      /\ weakError' = (weakError \/ \E v \in referrers[o] : location[v] \notin {o, nil})
      /\ referrers' = [referrers EXCEPT ![o] = {}]
  BY DEF Clear
<1>3. /\ f \in Frame /\ ArgumentsOK(f) /\ VariablesOK(f) /\ DeallocOK(f) /\ TablesOK(t, f)
  BY <1>1, TopFacts
<1>4. o \in Objects BY <1>1, <1>3, FrameFields DEF ArgumentsOK
<1>5. PICK f2 \in Frame : f2 = [f EXCEPT !.pc = "free", !.held = {}]
  BY <1>3, FrameExcept
<1>6. /\ f2.op = f.op /\ f2.loc = f.loc /\ f2.from = f.from /\ f2.new = f.new
      /\ f2.held = {} /\ f2.old = f.old /\ f2.pc = "free"
  BY <1>3, <1>5 DEF Frame
<1>7. SetTop(t, f2) BY <1>1, <1>5
<1> DEFINE k == Len(stack[t])
<1>8. /\ stack' \in [Threads -> Seq(Frame)]
      /\ StackStep(t, Below(t), k)
      /\ stack'[t][k] = f2
  BY <1>h, <1>1, <1>7, SetTopStep
<1>9. k \in Nat /\ k \in DOMAIN stack[t] /\ stack[t][k] = f BY <1>h, <1>1, StackTypes
<1> HIDE DEF f, k
<1>10. /\ referrers' \in [Objects -> SUBSET Locations]
       /\ \A q \in Objects : referrers'[q] = IF q = o THEN {} ELSE referrers[q]
  BY <1>h, <1>2, <1>4 DEF TypeOK
<1>11. RegistrationExact'
  BY <1>h, <1>1, <1>2, <1>4, <1>10, WeakAssumption DEF RegistrationExact
<1>12. MarkedOK' BY <1>h, <1>1, <1>10 DEF MarkedOK
<1>13. NoWeakError' BY <1>h, <1>2, <1>4 DEF NoWeakError, RegistrationExact, TypeOK
<1>14. /\ lock' \in [Stripes -> Threads \cup {NoThread}]
       /\ \A u \in Threads : \A i \in DOMAIN stack[u] : u # t \/ i \in Below(t) =>
             \A s \in stack[u][i].held : lock'[s] = lock[s]
  BY <1>1, UnlockOthers DEF f
<1>15. TypeOK'
  <2>1. weakError' \in BOOLEAN BY <1>2
  <2>2. location' \in [Locations -> Objects \cup {nil}] BY <1>h, <1>2 DEF TypeOK
  <2> QED BY <1>h, <1>1, <1>8, <1>10, <1>14, <2>1, <2>2 DEF TypeOK
<1>16. ASSUME NEW u \in Threads, NEW i \in DOMAIN stack[u], u # t \/ i \in Below(t)
       PROVE  Undisturbed(u, stack[u][i])
  <2> DEFINE g == stack[u][i]
  <2>1. g \in Frame /\ ArgumentsOK(g) BY <1>1, <1>16, TopFacts DEF f
  <2>2. g.op = "dealloc" => g.new \in Objects BY <2>1, FrameFields DEF ArgumentsOK
  <2>3. \A s \in g.held : lock'[s] = lock[s] BY <1>14, <1>16
  <2> HIDE DEF g
  <2> QED BY <1>1, <1>10, <2>2, <2>3 DEF Undisturbed, g
<1>17. FrameOK(t, f2)'
  <2>1. ArgumentsOK(f2)
    BY <1>1, <1>3, <1>6 DEF ArgumentsOK, Reads, haveOld, Loads, Moves
  <2>2. VariablesOK(f2)' BY <1>1, <1>6 DEF VariablesOK, Loads, Moves
  <2>3. DeallocOK(f2)' BY <1>1, <1>3, <1>4, <1>6, <1>10 DEF DeallocOK
  <2>4. TablesOK(t, f2)' BY <1>6 DEF TablesOK
  <2> QED BY <2>1, <2>2, <2>3, <2>4 DEF FrameOK
<1>18. \A u \in Threads : \A i \in DOMAIN stack[u] : u # t \/ i \in Below(t) =>
          Apart(f2, stack[u][i]) /\ Apart(stack[u][i], f2)
  BY <1>1, <1>6, TopFacts DEF Apart, Moves, f
<1>19. FramesOK' /\ FramesApart'
  BY <1>h, <1>8, <1>9, <1>16, <1>17, <1>18, FramesStep
<1>20. ReferencesOK' BY <1>h, <1>1, <1>6, <1>8, <1>9, <1>15, CopiesKept DEF Lives
<1> QED BY <1>11, <1>12, <1>13, <1>15, <1>19, <1>20 DEF IInv

\* The memory is freed.
LEMMA FreeInv ==
    ASSUME IInv, NEW t \in Threads, Free(t)
    PROVE  IInv'
<1>h. TypeOK /\ FramesOK /\ FramesApart /\ ReferencesOK /\ MarkedOK
      /\ RegistrationExact /\ NoWeakError
  BY DEF IInv
<1> DEFINE f == Top(t)
           o == f.new
<1>1. /\ stack[t] # <<>> /\ f.pc = "free" /\ Return(t)
      /\ life' = [life EXCEPT ![o] = "unallocated"]
      /\ weaklyReferenced' = [weaklyReferenced EXCEPT ![o] = FALSE]
      /\ UNCHANGED <<location, live, referrers, weakError, refs, lock, cls, fatal>>
  BY DEF Free, At
<1>2. f \in Frame /\ ArgumentsOK(f) /\ DeallocOK(f) BY <1>1, TopFacts
<1>3. o \in Objects /\ f.op = "dealloc" /\ life[o] = "deallocating" /\ referrers[o] = {}
  BY <1>1, <1>2, FrameFields DEF ArgumentsOK, DeallocOK
<1>4. stack' \in [Threads -> Seq(Frame)] /\ StackStep(t, Below(t), 0)
  BY <1>h, <1>1, ReturnStep
<1> HIDE DEF f
<1>5. TypeOK' BY <1>h, <1>1, <1>3, <1>4 DEF TypeOK
<1>6. \A q \in Objects : q # o => /\ life'[q] = life[q]
                                  /\ weaklyReferenced'[q] = weaklyReferenced[q]
  BY <1>h, <1>1 DEF TypeOK
<1>7. ASSUME NEW u \in Threads, NEW i \in DOMAIN stack[u], u # t \/ i \in Below(t)
      PROVE  Undisturbed(u, stack[u][i])
  <2> DEFINE g == stack[u][i]
  <2>1. g \in Frame /\ ArgumentsOK(g) /\ Apart(f, g)
    BY <1>1, <1>7, TopFacts DEF f
  <2>2. g.op = "dealloc" => g.new \in Objects /\ g.new # o
    BY <1>3, <2>1, FrameFields DEF ArgumentsOK, Apart
  <2> HIDE DEF g
  <2> QED BY <1>1, <1>6, <2>2 DEF Undisturbed, g
<1>8. FramesOK' /\ FramesApart' BY <1>h, <1>4, <1>7, FramesStep
<1>9. ReferencesOK'
  <2> SUFFICES ASSUME NEW u \in Threads, NEW q \in Objects
               PROVE  /\ refs'[u][q] > 0 => life'[q] = "alive"
                      /\ Cardinality(Copies(u, q)') <= refs'[u][q]
    BY DEF ReferencesOK
  <2>1. Copies(u, q)' \subseteq Copies(u, q) BY <1>h, <1>4, CopiesStep
  <2>2. Cardinality(Copies(u, q)') <= Cardinality(Copies(u, q))
        /\ Cardinality(Copies(u, q)') \in Nat
    BY <1>h, <2>1, CopiesFinite, FS_Subset, FS_CardinalityType
  <2>3. /\ refs[u][q] > 0 => life[q] = "alive"
        /\ Cardinality(Copies(u, q)) <= refs[u][q]
        /\ refs[u][q] \in Nat /\ Cardinality(Copies(u, q)) \in Nat
    BY <1>h, CopiesFinite DEF ReferencesOK, TypeOK
  <2>4. refs'[u][q] > 0 => life'[q] = "alive" BY <1>1, <1>3, <1>6, <2>3
  <2> QED BY <1>1, <2>2, <2>3, <2>4
<1>10. MarkedOK' BY <1>h, <1>1, <1>3, <1>6 DEF MarkedOK
<1>11. RegistrationExact' /\ NoWeakError' BY <1>h, <1>1 DEF RegistrationExact, NoWeakError
<1> QED BY <1>5, <1>8, <1>9, <1>10, <1>11 DEF IInv

-----------------------------------------------------------------------------
(* References are made and dropped.                                        *)

\* objc_loadWeakRetained makes a reference to an object that is not being
\* deallocated.
LEMMA RetainFacts ==
    ASSUME IInv, NEW t \in Threads, NEW o \in Objects, life[o] = "alive",
           refs' = [refs EXCEPT ![t][o] = @ + 1]
    PROVE  /\ refs' \in [Threads -> [Objects -> Nat]]
           /\ refs'[t][o] = refs[t][o] + 1
           /\ \A u \in Threads, q \in Objects : u # t \/ q # o =>
                 refs'[u][q] = refs[u][q]
<1> DEFINE r == [refs[t] EXCEPT ![o] = refs[t][o] + 1]
<1>1. refs \in [Threads -> [Objects -> Nat]] BY DEF IInv, TypeOK
<1>2. /\ r \in [Objects -> Nat]
      /\ \A q \in Objects : r[q] = IF q = o THEN refs[t][o] + 1 ELSE refs[t][q]
  BY <1>1
<1>3. refs' = [refs EXCEPT ![t] = r] OBVIOUS
<1> HIDE DEF r
<1>4. /\ refs' \in [Threads -> [Objects -> Nat]]
      /\ \A u \in Threads : refs'[u] = IF u = t THEN r ELSE refs[u]
  BY <1>1, <1>2, <1>3
<1> QED BY <1>2, <1>4

\* Dropping a reference: the last one starts the deallocation.
LEMMA DropFacts ==
    ASSUME IInv, NEW t \in Threads, NEW o \in Objects, refs[t][o] > 0, DropRef(t, o)
    PROVE  /\ life[o] = "alive"
           /\ refs' \in [Threads -> [Objects -> Nat]]
           /\ life' \in [Objects -> {"unallocated", "alive", "deallocating"}]
           /\ refs'[t][o] = refs[t][o] - 1
           /\ \A u \in Threads, q \in Objects : u # t \/ q # o =>
                 refs'[u][q] = refs[u][q]
           /\ \A q \in Objects : q # o => life'[q] = life[q]
           /\ life'[o] = IF Last(t, o) THEN "deallocating" ELSE "alive"
           /\ \A u \in Threads, q \in Objects : refs'[u][q] > 0 => life'[q] = "alive"
           /\ \A u \in Threads : \A i \in DOMAIN stack[u] : Undisturbed(u, stack[u][i])
           /\ MarkedOK' /\ RegistrationExact' /\ NoWeakError'
<1>h. TypeOK /\ FramesOK /\ ReferencesOK /\ MarkedOK /\ RegistrationExact /\ NoWeakError
  BY DEF IInv
<1>1. /\ refs \in [Threads -> [Objects -> Nat]]
      /\ life \in [Objects -> {"unallocated", "alive", "deallocating"}]
  BY <1>h DEF TypeOK
<1>2. /\ refs' = [refs EXCEPT ![t][o] = @ - 1]
      /\ life' = IF Last(t, o) THEN [life EXCEPT ![o] = "deallocating"] ELSE life
      /\ UNCHANGED <<location, live, referrers, weaklyReferenced, weakError, lock>>
  BY DEF DropRef, Table
<1>3. life[o] = "alive" BY <1>h DEF ReferencesOK
<1>4. /\ refs'[t][o] = refs[t][o] - 1
      /\ \A u \in Threads, q \in Objects : u # t \/ q # o => refs'[u][q] = refs[u][q]
      /\ refs' \in [Threads -> [Objects -> Nat]]
  <2> DEFINE r == [refs[t] EXCEPT ![o] = refs[t][o] - 1]
  <2>1. refs[t][o] \in Nat /\ refs[t][o] - 1 \in Nat BY <1>1
  <2>2. /\ r \in [Objects -> Nat]
        /\ \A q \in Objects : r[q] = IF q = o THEN refs[t][o] - 1 ELSE refs[t][q]
    BY <1>1, <2>1
  <2>3. refs' = [refs EXCEPT ![t] = r] BY <1>2
  <2> HIDE DEF r
  <2>4. /\ refs' \in [Threads -> [Objects -> Nat]]
        /\ \A u \in Threads : refs'[u] = IF u = t THEN r ELSE refs[u]
    BY <1>1, <2>2, <2>3
  <2> QED BY <2>2, <2>4
<1>5. /\ \A q \in Objects : q # o => life'[q] = life[q]
      /\ life'[o] = IF Last(t, o) THEN "deallocating" ELSE "alive"
      /\ life' \in [Objects -> {"unallocated", "alive", "deallocating"}]
  BY <1>1, <1>2, <1>3
<1>6. ASSUME NEW u \in Threads, NEW q \in Objects, refs'[u][q] > 0
      PROVE  life'[q] = "alive"
  <2>1. CASE q # o BY <1>4, <1>5, <1>6, <1>h, <2>1 DEF ReferencesOK
  <2>2. CASE q = o
    <3>1. CASE Last(t, o)
      <4>1. refs'[u][o] = 0
        <5>1. CASE u = t BY <1>4, <3>1, <5>1 DEF Last
        <5>2. CASE u # t BY <1>4, <3>1, <5>2 DEF Last
        <5> QED BY <5>1, <5>2
      <4> QED BY <1>6, <2>2, <4>1
    <3>2. CASE ~Last(t, o) BY <1>5, <2>2, <3>2
    <3> QED BY <3>1, <3>2
  <2> QED BY <2>1, <2>2
<1>7. ASSUME NEW u \in Threads, NEW i \in DOMAIN stack[u]
      PROVE  Undisturbed(u, stack[u][i])
  <2> DEFINE g == stack[u][i]
  <2>1. g \in Frame /\ ArgumentsOK(g) /\ DeallocOK(g)
    BY <1>h, StackTypes DEF FramesOK, FrameOK
  <2>2. g.op = "dealloc" => g.new \in Objects /\ g.new # o
    BY <1>3, <2>1, FrameFields DEF ArgumentsOK, DeallocOK
  <2> HIDE DEF g
  <2> QED BY <1>2, <1>5, <2>2 DEF Undisturbed, g
<1>8. MarkedOK' BY <1>h, <1>2, <1>5 DEF MarkedOK
<1>9. RegistrationExact' /\ NoWeakError' BY <1>h, <1>2 DEF RegistrationExact, NoWeakError
<1> QED BY <1>3, <1>4, <1>5, <1>6, <1>7, <1>8, <1>9

\* The references that are left cover the calls that hold one.
LEMMA DropCopies ==
    ASSUME IInv, NEW t \in Threads, NEW o \in Objects, refs[t][o] > 0, DropRef(t, o),
           NEW B, NEW k \in Nat, StackStep(t, B, k),
           k # 0 => stack'[t][k].op # "copyInit",
           \/ Copies(t, o) = {}
           \/ \E i \in Copies(t, o) : i \notin B
    PROVE  ReferencesOK'
<1>h. TypeOK /\ ReferencesOK BY DEF IInv
<1> SUFFICES ASSUME NEW u \in Threads, NEW q \in Objects
             PROVE  /\ refs'[u][q] > 0 => life'[q] = "alive"
                    /\ Cardinality(Copies(u, q)') <= refs'[u][q]
  BY DEF ReferencesOK
<1>1. refs'[u][q] > 0 => life'[q] = "alive" BY DropFacts
<1>2. /\ Copies(u, q)' \subseteq Copies(u, q)
      /\ Copies(t, o)' = Copies(t, o) \cap B
  BY <1>h, CopiesStep
<1>3. /\ Cardinality(Copies(u, q)) <= refs[u][q]
      /\ Cardinality(Copies(t, o)) <= refs[t][o]
      /\ refs[u][q] \in Nat /\ refs[t][o] \in Nat
  BY <1>h DEF ReferencesOK, TypeOK
<1>4. CASE u # t \/ q # o
  <2>1. refs'[u][q] = refs[u][q] BY <1>4, DropFacts
  <2>2. /\ Cardinality(Copies(u, q)') <= Cardinality(Copies(u, q))
        /\ Cardinality(Copies(u, q)') \in Nat /\ Cardinality(Copies(u, q)) \in Nat
    BY <1>h, <1>2, CopiesFinite, FS_Subset, FS_CardinalityType
  <2> QED BY <1>1, <1>3, <2>1, <2>2
<1>5. CASE u = t /\ q = o
  <2>1. refs'[t][o] = refs[t][o] - 1 BY DropFacts
  <2>2. CASE Copies(t, o) = {}
    <3>1. Cardinality(Copies(t, o)') = 0 BY <1>2, <2>2, FS_EmptySet
    <3> QED BY <1>1, <1>3, <1>5, <2>1, <3>1
  <2>3. CASE \E i \in Copies(t, o) : i \notin B
    <3>1. PICK i \in Copies(t, o) : i \notin B BY <2>3
    <3>2. Copies(t, o)' \subseteq Copies(t, o) \ {i} BY <1>2, <3>1
    <3>3. /\ IsFiniteSet(Copies(t, o) \ {i})
          /\ Cardinality(Copies(t, o) \ {i}) = Cardinality(Copies(t, o)) - 1
      BY <1>h, <3>1, CopiesFinite, FS_RemoveElement
    <3>4. /\ Cardinality(Copies(t, o)') <= Cardinality(Copies(t, o) \ {i})
          /\ Cardinality(Copies(t, o)') \in Nat
      BY <3>2, <3>3, FS_Subset, FS_CardinalityType
    <3>5. Cardinality(Copies(t, o)) \in Nat BY <1>h, CopiesFinite
    <3> QED BY <1>1, <1>3, <1>5, <2>1, <3>3, <3>4, <3>5
  <2> QED BY <2>2, <2>3
<1> QED BY <1>4, <1>5

\* The object whose last reference was dropped is in -dealloc, once.
LEMMA NewDealloc ==
    ASSUME IInv, NEW t \in Threads, NEW o \in Objects, refs[t][o] > 0, DropRef(t, o),
           Last(t, o), NEW f \in Frame, f = NewFrame("dealloc", "running", nil, nil, o)
    PROVE  /\ FrameOK(t, f)'
           /\ f.op = "dealloc"
           /\ \A u \in Threads : \A i \in DOMAIN stack[u] :
                 Apart(f, stack[u][i]) /\ Apart(stack[u][i], f)
<1>1. /\ f.op = "dealloc" /\ f.pc = "running" /\ f.loc = nil /\ f.from = nil
      /\ f.new = o /\ f.old = nil /\ f.held = {}
  BY DEF NewFrame
<1>2. life[o] = "alive" /\ life'[o] = "deallocating" BY DropFacts
<1>3. ArgumentsOK(f)
  BY <1>1, WeakAssumption DEF ArgumentsOK, Reads, haveOld, Loads, Moves
<1>4. VariablesOK(f)' BY <1>1 DEF VariablesOK, Loads, Moves
<1>5. DeallocOK(f)' BY <1>1, <1>2 DEF DeallocOK
<1>6. TablesOK(t, f)' BY <1>1 DEF TablesOK
<1>7. ASSUME NEW u \in Threads, NEW i \in DOMAIN stack[u]
      PROVE  Apart(f, stack[u][i]) /\ Apart(stack[u][i], f)
  <2>1. ArgumentsOK(stack[u][i]) /\ DeallocOK(stack[u][i]) BY DEF IInv, FramesOK, FrameOK
  <2> QED BY <1>1, <1>2, <2>1 DEF Apart, ArgumentsOK, DeallocOK, Moves
<1> QED BY <1>1, <1>3, <1>4, <1>5, <1>6, <1>7 DEF FrameOK

\* objc_release by the program.
LEMMA ReleaseInv ==
    ASSUME IInv, NEW t \in Threads, NEW o \in Objects, Release(t, o)
    PROVE  IInv'
<1>h. TypeOK /\ FramesOK /\ FramesApart BY DEF IInv
<1>1. /\ refs[t][o] > 0 /\ DropRef(t, o)
      /\ UNCHANGED <<location, live, referrers, weaklyReferenced, weakError, lock, cls,
                     fatal>>
  BY DEF Release, DropRef, Table
<1>2. Copies(t, o) = {} BY DEF Release, Copies, haveNew
<1>3. CASE Last(t, o)
  <2>1. Push(t, NewFrame("dealloc", "running", nil, nil, o)) BY <1>3 DEF Release
  <2>2. NewFrame("dealloc", "running", nil, nil, o) \in Frame BY NewFrameType DEF Ops
  <2>3. PICK f \in Frame : f = NewFrame("dealloc", "running", nil, nil, o) BY <2>2
  <2> DEFINE k == Len(stack[t]) + 1
             B == DOMAIN stack[t]
  <2>4. /\ stack' \in [Threads -> Seq(Frame)]
        /\ StackStep(t, B, k)
        /\ stack'[t][k] = f
    BY <1>h, <2>1, <2>3, PushStep
  <2>5. k \in Nat BY <1>h, StackTypes
  <2> HIDE DEF k, B
  <2>6. /\ FrameOK(t, f)' /\ f.op = "dealloc"
        /\ \A u \in Threads : \A i \in DOMAIN stack[u] :
              Apart(f, stack[u][i]) /\ Apart(stack[u][i], f)
    BY <1>1, <1>3, <2>3, NewDealloc
  <2>7. FramesOK' /\ FramesApart' BY <1>h, <1>1, <2>4, <2>5, <2>6, DropFacts, FramesStep
  <2>8. ReferencesOK' BY <1>1, <1>2, <2>4, <2>5, <2>6, DropCopies
  <2>9. TypeOK' BY <1>h, <1>1, <2>4, DropFacts DEF TypeOK
  <2> QED BY <1>1, <2>7, <2>8, <2>9, DropFacts DEF IInv
<1>4. CASE ~Last(t, o)
  <2>1. UNCHANGED stack BY <1>4 DEF Release
  <2>2. TypeOK' BY <1>h, <1>1, <2>1, DropFacts DEF TypeOK
  <2>3. \A u \in Threads : \A i \in DOMAIN stack[u] : stack[u][i] \in Frame
    BY <1>h, StackTypes
  <2>4. FramesOK' /\ FramesApart' BY <1>h, <1>1, <2>1, <2>3, DropFacts, StackUnchanged
  <2>5. ReferencesOK'
    <3>1. StackStep(t, DOMAIN stack[t], 0)
      <4>1. 0 \notin DOMAIN stack[t] BY <1>h, StackTypes
      <4> QED BY <2>1, <4>1 DEF StackStep
    <3> QED BY <1>1, <1>2, <3>1, DropCopies
  <2> QED BY <1>1, <2>2, <2>4, <2>5, DropFacts DEF IInv
<1> QED BY <1>3, <1>4

\* The objc_release that ends objc_copyWeak.
LEMMA CopyReleaseInv ==
    ASSUME IInv, NEW t \in Threads, CopyRelease(t)
    PROVE  IInv'
<1>h. TypeOK /\ FramesOK /\ FramesApart /\ ReferencesOK BY DEF IInv
<1> DEFINE g == Top(t)
           o == g.new
           k == Len(stack[t])
<1>1. /\ stack[t] # <<>> /\ g.pc = "release" /\ DropRef(t, o)
      /\ UNCHANGED <<location, live, referrers, weaklyReferenced, weakError, lock, cls,
                     fatal>>
  BY DEF CopyRelease, At, DropRef, Table
<1>2. g \in Frame /\ ArgumentsOK(g) BY <1>1, TopFacts
<1>3. g.op = "copyInit" /\ o \in Objects BY <1>1, <1>2, FrameFields DEF ArgumentsOK
<1>4. /\ k \in Nat /\ k \in DOMAIN stack[t] /\ stack[t][k] = g
      /\ k \notin Below(t)
  BY <1>h, <1>1, StackTypes DEF Below
<1>5. k \in Copies(t, o) BY <1>3, <1>4 DEF Copies
<1>6. refs[t][o] > 0
  <2>1. Cardinality(Copies(t, o)) # 0 BY <1>h, <1>3, <1>5, CopiesFinite, FS_EmptySet
  <2> QED BY <1>h, <1>3, <2>1, CopiesFinite DEF ReferencesOK, TypeOK
<1>7. CASE Last(t, o)
  <2>1. SetTop(t, NewFrame("dealloc", "running", nil, nil, o)) BY <1>7 DEF CopyRelease
  <2>2. NewFrame("dealloc", "running", nil, nil, o) \in Frame
    BY <1>3, NewFrameType DEF Ops
  <2>3. PICK f \in Frame : f = NewFrame("dealloc", "running", nil, nil, o) BY <2>2
  <2>4. /\ stack' \in [Threads -> Seq(Frame)]
        /\ StackStep(t, Below(t), k)
        /\ stack'[t][k] = f
    BY <1>h, <1>1, <2>1, <2>3, SetTopStep
  <2> HIDE DEF k, o
  <2>5. /\ FrameOK(t, f)' /\ f.op = "dealloc"
        /\ \A u \in Threads : \A i \in DOMAIN stack[u] :
              Apart(f, stack[u][i]) /\ Apart(stack[u][i], f)
    BY <1>1, <1>3, <1>6, <1>7, <2>3, NewDealloc
  <2>6. FramesOK' /\ FramesApart'
    BY <1>h, <1>1, <1>3, <1>4, <1>6, <2>4, <2>5, DropFacts, FramesStep
  <2>7. ReferencesOK'
    BY <1>1, <1>3, <1>4, <1>5, <1>6, <2>4, <2>5, DropCopies
  <2>8. TypeOK' BY <1>h, <1>1, <1>3, <1>6, <2>4, DropFacts DEF TypeOK
  <2> QED BY <1>1, <1>3, <1>6, <2>6, <2>7, <2>8, DropFacts DEF IInv
<1>8. CASE ~Last(t, o)
  <2>1. Return(t) BY <1>8 DEF CopyRelease
  <2>2. stack' \in [Threads -> Seq(Frame)] /\ StackStep(t, Below(t), 0)
    BY <1>h, <1>1, <2>1, ReturnStep
  <2> HIDE DEF k, o
  <2>3. FramesOK' /\ FramesApart'
    BY <1>h, <1>1, <1>3, <1>6, <2>2, DropFacts, FramesStep
  <2>4. ReferencesOK' BY <1>1, <1>3, <1>4, <1>5, <1>6, <2>2, DropCopies
  <2>5. TypeOK' BY <1>h, <1>1, <1>3, <1>6, <2>2, DropFacts DEF TypeOK
  <2> QED BY <1>1, <1>3, <1>6, <2>3, <2>4, <2>5, DropFacts DEF IInv
<1> QED BY <1>7, <1>8

\* The rest of objc_loadWeakRetained and of the first half of objc_copyWeak.
LEMMA LoadInv ==
    ASSUME IInv, NEW t \in Threads, Load(t)
    PROVE  IInv'
<1>h. TypeOK /\ FramesOK /\ FramesApart /\ ReferencesOK /\ MarkedOK
      /\ RegistrationExact /\ NoWeakError
  BY DEF IInv
<1> DEFINE f == Top(t)
           o == f.old
           k == Len(stack[t])
<1>1. /\ stack[t] # <<>> /\ f.pc = "locked" /\ f.op \in {"load", "copy"} /\ ~Stale(f)
      /\ Unlock(f) /\ UNCHANGED <<life, cls, fatal>>
  BY DEF Load, Ready, At
<1>2. /\ f \in Frame /\ ArgumentsOK(f) /\ VariablesOK(f)
  BY <1>1, TopFacts
<1>3. o \in Objects BY <1>1, <1>2, FrameFields DEF ArgumentsOK, Loads
<1>4. /\ lock' \in [Stripes -> Threads \cup {NoThread}]
      /\ \A u \in Threads : \A i \in DOMAIN stack[u] : u # t \/ i \in Below(t) =>
            \A s \in stack[u][i].held : lock'[s] = lock[s]
  BY <1>1, UnlockOthers
<1>5. cls' \in {"uninitialized", "initializing", "initialized"} /\ fatal' \in BOOLEAN
  BY <1>h, <1>1 DEF TypeOK
<1>6. CASE rootIsDeallocating(o)
  <2>1. LoadedNil(f) /\ Return(t) /\ UNCHANGED refs BY <1>6 DEF Load
  <2>2. stack' \in [Threads -> Seq(Frame)] /\ StackStep(t, Below(t), 0)
    BY <1>h, <1>1, <2>1, ReturnStep
  <2>3. CASE f.op = "load"
    <3>1. UNCHANGED <<Table, Lives>> BY <1>1, <2>1, <2>3 DEF LoadedNil, Lives
    <3> QED BY <1>4, <1>5, <2>2, <3>1, QuietStep
  <2>4. CASE f.op = "copy"
    <3>1. StoreNil(f) BY <2>1, <2>4 DEF LoadedNil
    <3> QED BY <1>1, <1>4, <2>1, <2>4, <3>1, StoreNilInv DEF Lives
  <2> QED BY <1>1, <2>3, <2>4
<1>7. CASE ~rootIsDeallocating(o)
  <2>1. /\ refs' = [refs EXCEPT ![t][o] = @ + 1]
        /\ UNCHANGED <<location, live, referrers, weaklyReferenced, weakError>>
    BY <1>7 DEF Load, Table
  <2>2. life[o] = "alive" BY <1>3, <1>7, WeakAssumption DEF rootIsDeallocating
  <2>3. /\ refs' \in [Threads -> [Objects -> Nat]]
        /\ refs'[t][o] = refs[t][o] + 1
        /\ \A u \in Threads, q \in Objects : u # t \/ q # o =>
              refs'[u][q] = refs[u][q]
    BY <1>3, <2>1, <2>2, RetainFacts
  <2>4. \A u \in Threads : \A i \in DOMAIN stack[u] :
           u # t \/ i \in Below(t) => Undisturbed(u, stack[u][i])
    BY <1>1, <1>4, <2>1 DEF Undisturbed
  <2>5. MarkedOK' /\ RegistrationExact' /\ NoWeakError'
    BY <1>h, <1>1, <2>1 DEF MarkedOK, RegistrationExact, NoWeakError
  <2>6. ASSUME stack' \in [Threads -> Seq(Frame)] PROVE TypeOK'
    BY <1>h, <1>1, <1>4, <2>1, <2>3, <2>6 DEF TypeOK
  <2>7. ASSUME NEW B, NEW n \in Nat, StackStep(t, B, n),
               n # 0 => n \in DOMAIN stack[t] /\ stack'[t][n].new = o
        PROVE  ReferencesOK'
    <3> SUFFICES ASSUME NEW u \in Threads, NEW q \in Objects
                 PROVE  /\ refs'[u][q] > 0 => life'[q] = "alive"
                        /\ Cardinality(Copies(u, q)') <= refs'[u][q]
      BY DEF ReferencesOK
    <3>1. /\ refs[u][q] > 0 => life[q] = "alive"
          /\ Cardinality(Copies(u, q)) <= refs[u][q]
          /\ refs[u][q] \in Nat /\ Cardinality(Copies(u, q)) \in Nat
          /\ IsFiniteSet(Copies(u, q))
      BY <1>h, CopiesFinite DEF ReferencesOK, TypeOK
    <3>2. CASE u = t /\ q = o
      <4>1. Copies(u, q)' \subseteq Copies(u, q) \cup {n}
        BY <1>h, <2>7, <3>2, CopiesStep
      <4>2. /\ IsFiniteSet(Copies(u, q) \cup {n})
            /\ Cardinality(Copies(u, q) \cup {n}) \in Nat
            /\ Cardinality(Copies(u, q) \cup {n}) <= Cardinality(Copies(u, q)) + 1
        BY <3>1, FS_AddElement, FS_CardinalityType
      <4>3. /\ Cardinality(Copies(u, q)') \in Nat
            /\ Cardinality(Copies(u, q)') <= Cardinality(Copies(u, q) \cup {n})
        BY <4>1, <4>2, FS_Subset, FS_CardinalityType
      <4> QED BY <1>1, <2>2, <2>3, <3>1, <3>2, <4>2, <4>3
    <3>3. CASE u # t \/ q # o
      <4>1. Copies(u, q)' \subseteq Copies(u, q) BY <1>h, <2>7, <3>3, CopiesStep
      <4>2. /\ Cardinality(Copies(u, q)') \in Nat
            /\ Cardinality(Copies(u, q)') <= Cardinality(Copies(u, q))
        BY <3>1, <4>1, FS_Subset, FS_CardinalityType
      <4>3. refs'[u][q] = refs[u][q] BY <2>3, <3>3
      <4> QED BY <1>1, <3>1, <4>2, <4>3
    <3> QED BY <3>2, <3>3
  <2>8. CASE f.op = "load"
    <3>1. Return(t) BY <1>7, <2>8 DEF Load
    <3>2. stack' \in [Threads -> Seq(Frame)] /\ StackStep(t, Below(t), 0)
      BY <1>h, <1>1, <3>1, ReturnStep
    <3>3. FramesOK' /\ FramesApart' BY <1>h, <2>4, <3>2, FramesStep
    <3>4. ReferencesOK' BY <2>7, <3>2
    <3> QED BY <2>5, <2>6, <3>2, <3>3, <3>4 DEF IInv
  <2>9. CASE f.op = "copy"
    <3>1. SetTop(t, NewFrame("copyInit", "lock", f.loc, nil, o))
      BY <1>7, <2>9 DEF Load
    <3>2. f.loc \in Locations \cup {nil} BY <1>2, FrameFields
    <3>3. NewFrame("copyInit", "lock", f.loc, nil, o) \in Frame
      BY <1>3, <3>2, NewFrameType DEF Ops
    <3>4. PICK f2 \in Frame : f2 = NewFrame("copyInit", "lock", f.loc, nil, o) BY <3>3
    <3>5. /\ f2.op = "copyInit" /\ f2.pc = "lock" /\ f2.loc = f.loc /\ f2.from = nil
          /\ f2.new = o /\ f2.old = nil /\ f2.held = {}
      BY <3>4 DEF NewFrame
    <3>6. /\ stack' \in [Threads -> Seq(Frame)]
          /\ StackStep(t, Below(t), k)
          /\ stack'[t][k] = f2
      BY <1>h, <1>1, <3>1, <3>4, SetTopStep
    <3>7. k \in Nat /\ k \in DOMAIN stack[t] BY <1>h, <1>1, StackTypes
    <3> HIDE DEF k, f, o
    <3>8. FrameOK(t, f2)'
      <4>1. ArgumentsOK(f2)
        BY <1>2, <1>3, <2>9, <3>5, WeakAssumption
        DEF ArgumentsOK, Reads, haveOld, Loads, Moves
      <4>2. VariablesOK(f2)'
        BY <1>2, <2>1, <2>9, <3>5 DEF VariablesOK, Loads, Moves
      <4>3. DeallocOK(f2)' BY <3>5 DEF DeallocOK
      <4>4. TablesOK(t, f2)' BY <3>5 DEF TablesOK
      <4> QED BY <4>1, <4>2, <4>3, <4>4 DEF FrameOK
    <3>9. ASSUME NEW u \in Threads, NEW i \in DOMAIN stack[u], u # t \/ i \in Below(t)
          PROVE  Apart(f2, stack[u][i]) /\ Apart(stack[u][i], f2)
      <4>1. /\ Apart(f, stack[u][i]) /\ Apart(stack[u][i], f)
            /\ ArgumentsOK(stack[u][i])
        BY <1>1, <3>9, TopFacts DEF f
      <4> QED BY <2>9, <3>5, <4>1 DEF Apart, Moves, ArgumentsOK
    <3>10. FramesOK' /\ FramesApart'
      BY <1>h, <2>4, <3>6, <3>7, <3>8, <3>9, FramesStep
    <3>11. ReferencesOK' BY <2>7, <3>5, <3>6, <3>7
    <3> QED BY <2>5, <2>6, <3>6, <3>10, <3>11 DEF IInv
  <2> QED BY <1>1, <2>8, <2>9
<1> QED BY <1>6, <1>7

-----------------------------------------------------------------------------
(* The invariant and what follows from it.                                 *)

\* The invariant holds at the start.
LEMMA InitInv == Init => IInv
<1> SUFFICES ASSUME Init PROVE IInv OBVIOUS
<1>1. \A t \in Threads : stack[t] = <<>> /\ DOMAIN stack[t] = {} BY DEF Init
<1>2. TypeOK
  <2>1. stack \in [Threads -> Seq(Frame)] BY EmptySeq DEF Init
  <2> QED BY <2>1 DEF Init, TypeOK
<1>3. FramesOK /\ FramesApart BY <1>1 DEF FramesOK, FramesApart
<1>4. ReferencesOK
  <2>1. \A t \in Threads, o \in Objects : Copies(t, o) = {} BY <1>1 DEF Copies
  <2>2. Cardinality({}) = 0 BY FS_EmptySet
  <2>3. \A t \in Threads, o \in Objects : refs[t][o] = 0 /\ life[o] = "unallocated"
    BY DEF Init
  <2>4. \A t \in Threads, o \in Objects : Cardinality(Copies(t, o)) = 0
    BY <2>1, <2>2
  <2> QED BY <2>3, <2>4 DEF ReferencesOK
<1>5. MarkedOK /\ NoWeakError BY DEF Init, MarkedOK, NoWeakError
<1>6. RegistrationExact BY DEF Init, RegistrationExact
<1> QED BY <1>2, <1>3, <1>4, <1>5, <1>6 DEF IInv

\* Every step preserves it.
LEMMA NextInv == IInv /\ [Next]_vars => IInv'
<1> SUFFICES ASSUME IInv, [Next]_vars PROVE IInv' OBVIOUS
<1>1. ASSUME NEW t \in Threads, Calls(t) PROVE IInv'
  BY <1>1, StoreWeakInv, InitWeakInv, InitWeakNilInv, DestroyWeakInv, LoadWeakInv,
     CopyWeakInv, MoveWeakInv, MessageInv, AllocInv, ReleaseInv
  DEF Calls
<1>2. ASSUME NEW t \in Threads, Steps(t) PROVE IInv'
  BY <1>2, ReadInv, AcquireInv, RetryInv, LeaveToInitializeInv, BeginInitializeInv,
     InitializedInv, FinishInitializeInv, CannotFormInv, StoreInv, LoadInv, MoveInv,
     CopyReleaseInv, RootDeallocInv, ClearInv, FreeInv
  DEF Steps
<1>3. CASE UNCHANGED vars
  <2>1. TypeOK' BY <1>3 DEF IInv, TypeOK, vars
  <2>2. FramesOK' /\ FramesApart' /\ ReferencesOK'
    <3>1. /\ UNCHANGED <<stack, live, life, referrers, lock, refs>>
          /\ TypeOK /\ FramesOK /\ FramesApart /\ ReferencesOK
      BY <1>3 DEF IInv, vars
    <3>2. \A u \in Threads : \A i \in DOMAIN stack[u] :
             Undisturbed(u, stack[u][i]) /\ stack[u][i] \in Frame
      BY <3>1, StackTypes DEF Undisturbed
    <3> QED BY <3>1, <3>2, StackUnchanged DEF ReferencesOK, Copies
  <2>3. MarkedOK' /\ RegistrationExact' /\ NoWeakError'
    BY <1>3 DEF IInv, MarkedOK, RegistrationExact, NoWeakError, vars
  <2> QED BY <2>1, <2>2, <2>3 DEF IInv
<1> QED BY <1>1, <1>2, <1>3 DEF Next

\* It holds in every behaviour.
LEMMA Invariance == Spec => []IInv
BY InitInv, NextInv, PTL DEF Spec

\* Exactly the variables that hold an object are registered with it, so -dealloc
\* clears all of them and nothing else (weak_register_no_lock, storeWeak,
\* objc_moveWeak, weak_clear_no_lock), with any number of threads, objects, variables
\* and side tables.
THEOREM RegistrationIsExact == Spec => []RegistrationExact
<1>1. IInv => RegistrationExact BY DEF IInv
<1> QED BY <1>1, Invariance, PTL

\* A weak variable never holds an object that has been freed.
THEOREM NoZombies == Spec => []NoZombie
<1>1. IInv => NoZombie
  <2> SUFFICES ASSUME IInv, NEW v \in Locations, live[v], location[v] # nil
               PROVE  life[location[v]] # "unallocated"
    BY DEF NoZombie
  <2>1. location[v] \in Objects BY DEF IInv, TypeOK
  <2>2. v \in referrers[location[v]] BY <2>1 DEF IInv, RegistrationExact
  <2> QED BY <2>1, <2>2 DEF IInv, MarkedOK
<1> QED BY <1>1, Invariance, PTL

\* objc_loadWeakRetained looks only at objects that have not been freed, and no allowed
\* use of the functions calls objc_weak_error.
THEOREM LoadsAreSafe == Spec => [](NoUseAfterFree /\ NoWeakError)
<1>1. IInv => NoUseAfterFree /\ NoWeakError
  <2> SUFFICES ASSUME IInv, NEW t \in Threads, At(t, "locked"), Loads(Top(t)),
                      ~Stale(Top(t))
               PROVE  life[Top(t).old] # "unallocated"
    BY DEF NoUseAfterFree, IInv
  <2> DEFINE f == Top(t)
  <2>1. f \in Frame /\ ArgumentsOK(f) /\ VariablesOK(f) /\ f.pc = "locked"
    BY TopFacts DEF At
  <2>2. f.old \in Objects /\ f.from \in Locations /\ live[f.from]
    BY <2>1, FrameFields DEF ArgumentsOK, VariablesOK
  <2>3. location[f.from] = f.old
    BY DEF Stale, Reads, Watched, haveOld, Loads
  <2> HIDE DEF f
  <2>4. f.from \in referrers[f.old] BY <2>2, <2>3 DEF IInv, RegistrationExact
  <2> QED BY <2>2, <2>4 DEF IInv, MarkedOK, f
<1> QED BY <1>1, Invariance, PTL

\* The weak table's entry of an object is only written by a thread that has locked the
\* side table of the object: between SideTable::lockTwo and unlockTwo the code of
\* storeWeak, objc_moveWeak and clearDeallocating is one step for the others.
THEOREM TablesAreLocked == Spec => RegisteredUnderLock
<1>1. IInv /\ [Next]_vars =>
        [\A o \in Objects : referrers'[o] # referrers[o] =>
            \E t \in Threads : At(t, "locked") /\ lock[StripeOf[o]] = t]_vars
  <2> SUFFICES ASSUME IInv, Next, NEW o \in Objects, referrers'[o] # referrers[o]
               PROVE  \E t \in Threads : At(t, "locked") /\ lock[StripeOf[o]] = t
    OBVIOUS
  <2>h. TypeOK BY DEF IInv
  <2>1. PICK t \in Threads : Store(t) \/ Move(t) \/ Clear(t)
    <3>1. PICK t \in Threads : Calls(t) \/ Steps(t) BY DEF Next
    <3>2. ~Calls(t)
      BY DEF Calls, StoreWeak, InitWeak, InitWeakNil, DestroyWeak, LoadWeak, CopyWeak,
         MoveWeak, Message, Alloc, Release, Call, DropRef, Table
    <3>3. Store(t) \/ Move(t) \/ Clear(t)
      BY <3>1, <3>2 DEF Steps, Read, Acquire, Retry, LeaveToInitialize, BeginInitialize,
         Initialized, FinishInitialize, CannotForm, Load, CopyRelease, RootDealloc, Free,
         DropRef, Table, LoadedNil, StoreNil
    <3> QED BY <3>3
  <2> DEFINE f == Top(t)
  <2>2. At(t, "locked") /\ stack[t] # <<>> /\ f.pc = "locked"
    BY <2>1 DEF Store, Move, Clear, Ready, At
  <2>3. f \in Frame /\ ArgumentsOK(f) /\ TablesOK(t, f) BY <2>2, TopFacts
  <2>4. /\ f.old \in Objects \cup {nil} /\ f.new \in Objects \cup {nil}
        /\ f.loc \in Locations \cup {nil} /\ f.from \in Locations \cup {nil}
    BY <2>3, FrameFields
  <2>5. StripeOf[o] \in Needed(f)
    <3>1. CASE Store(t)
      <4>1. /\ f.op \in StoreOps
            /\ referrers' = Register(Unregister(referrers, f.old, f.loc), Registered(f), f.loc)
        BY <3>1 DEF Store, Ready
      <4>2. o = f.old \/ o = f.new
        BY <2>h, <2>4, <4>1 DEF TypeOK, Register, Unregister, Registered
      <4>3. o # nil BY WeakAssumption
      <4> QED BY <2>3, <4>1, <4>2, <4>3
          DEF Needed, Reads, haveOld, haveNew, ArgumentsOK, StoreOps
    <3>2. CASE Move(t)
      <4>1. /\ f.op = "move"
            /\ referrers' = Register(Unregister(referrers, f.old, f.from), f.old, f.loc)
        BY <3>2 DEF Move, Ready
      <4>2. o = f.old BY <2>h, <2>4, <4>1 DEF TypeOK, Register, Unregister
      <4> QED BY <4>1, <4>2 DEF Needed, Reads, Moves
    <3>3. CASE Clear(t)
      <4>1. f.op = "dealloc" /\ referrers' = [referrers EXCEPT ![f.new] = {}]
        BY <3>3 DEF Clear, Ready
      <4>2. o = f.new BY <2>h, <4>1 DEF TypeOK
      <4> QED BY <4>1, <4>2 DEF Needed
    <3> QED BY <2>1, <3>1, <3>2, <3>3
  <2>6. lock[StripeOf[o]] = t BY <2>2, <2>3, <2>5 DEF TablesOK
  <2> QED BY <2>2, <2>6
<1> QED BY <1>1, Invariance, PTL DEF Spec, RegisteredUnderLock
====
