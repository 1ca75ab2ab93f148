------------------------ MODULE WebhookEnqueueProofs ------------------------
(***************************************************************************)
(* Theorems about the queueing of events, for any number of tasks, saves   *)
(* and nested blocks: the types, the list of callbacks, what a callback    *)
(* finds when it runs, and what a plain transaction announces.             *)
(***************************************************************************)
EXTENDS WebhookEnqueue, SequenceTheorems, WellFoundedInduction, TLAPS

Ranks == {NoEvent} \cup Events

Rows == [Tasks -> [stage : {"none", "draft", "real"}, version : 0..MaxSaves]]

\* What an open block restores.
Frame == [task : Rows, owed : [Tasks -> Ranks]]

\* The inductive invariant: a rollback restores what its block began with, so
\* the types of the frames are part of it.
Enqueueing == TypeOK /\ stack \in Seq(Frame)

-----------------------------------------------------------------------------
LEMMA HigherRank == \A a, b \in Ranks : Higher(a, b) \in Ranks
BY DEF Higher

LEMMA NoEntryType == NoEntry \in [event : Ranks, version : 0..MaxSaves]
BY EnqueueAssumption DEF NoEntry, Ranks

LEMMA RegistryType ==
    ASSUME TypeOK
    PROVE  Registry \in [Tasks -> [event : Ranks, version : 0..MaxSaves]]
BY NoEntryType DEF TypeOK, Registry, Empty, Ranks

\* An entry is as specific as the events it stands for.
LEMMA ScheduleType ==
    ASSUME TypeOK, NEW t, NEW event \in Ranks, NEW version,
           t \in Tasks => version \in 0..MaxSaves,
           Schedule(t, event, version)
    PROVE  pending' \in [Tasks -> [event : Ranks, version : 0..MaxSaves]]
<1>1. PICK entry :
         /\ pending' = [Registry EXCEPT ![t] = entry]
         /\ entry = [event |-> Higher(Registry[t].event, event), version |-> version]
  BY DEF Schedule
<1>2. t \in Tasks => entry \in [event : Ranks, version : 0..MaxSaves]
  BY <1>1, RegistryType, HigherRank
<1>. QED  BY <1>1, <1>2, RegistryType

\* What the history records of a save.
LEMMA WriteType ==
    ASSUME Enqueueing, NEW t \in Tasks, NEW stage \in {"draft", "real"},
           NEW event \in Ranks, Write(t, stage, event),
           pending' \in [Tasks -> [event : Ranks, version : 0..MaxSaves]]
    PROVE  Enqueueing'
<1>1. saves' \in 0..MaxSaves /\ saves' = saves + 1
  BY EnqueueAssumption DEF Enqueueing, TypeOK, Write
<1>2. task' \in Rows
  BY <1>1 DEF Enqueueing, TypeOK, Write, Rows
<1>3. owed' \in [Tasks -> Ranks] /\ due' \in [Tasks -> Ranks] /\ posted' \in [Tasks -> Nat]
  <2>1. CASE Atomic
    <3>1. owed[t] \in Ranks
      BY DEF Enqueueing, TypeOK, Ranks
    <3>2. owed' = [owed EXCEPT ![t] = Higher(owed[t], event)] /\ UNCHANGED <<posted, due>>
      BY <2>1 DEF Write
    <3>3. Higher(owed[t], event) \in Ranks
      BY <3>1, HigherRank
    <3>4. owed \in [Tasks -> Ranks] /\ due \in [Tasks -> Ranks] /\ posted \in [Tasks -> Nat]
      BY DEF Enqueueing, TypeOK, Ranks
    <3>. QED  BY <3>2, <3>3, <3>4
  <2>2. CASE ~Atomic
    <3>1. Nobody \in [Tasks -> Ranks]
      BY DEF Nobody, Ranks
    <3>2. due' \in [Tasks -> Ranks]
      BY <2>2, <3>1 DEF Write
    <3>3. posted' = [u \in Tasks |-> 0] /\ owed' = owed
      BY <2>2 DEF Write
    <3>. QED  BY <3>2, <3>3 DEF Enqueueing, TypeOK, Ranks
  <2>. QED  BY <2>1, <2>2
<1>4. plain' \in BOOLEAN
  BY DEF Enqueueing, TypeOK, Write
<1>5. /\ taken' \subseteq Tasks
      /\ UNCHANGED <<stack, running, undone>>
  BY DEF Enqueueing, TypeOK, Write
<1>. QED  BY <1>1, <1>2, <1>3, <1>4, <1>5 DEF Enqueueing, TypeOK, Rows, Ranks

-----------------------------------------------------------------------------
LEMMA EnqueueingInit == Init => Enqueueing
<1>. SUFFICES ASSUME Init PROVE Enqueueing
  OBVIOUS
<1>1. stack = <<>> /\ Len(stack) = 0 /\ stack \in Seq(Frame)
  BY DEF Init
<1>2. pending \in [Tasks -> [event : Ranks, version : 0..MaxSaves]]
  BY NoEntryType DEF Init, Empty
<1>. QED  BY <1>1, <1>2, EnqueueAssumption
          DEF Init, Enqueueing, TypeOK, Nobody, Ranks

\* Saves.
LEMMA EnqueueingSave ==
    ASSUME Enqueueing, NEW t \in Tasks,
           \/ Insert(t) \/ (\E e \in {Updated, Completed} : Edit(t, e))
           \/ SaveDraft(t) \/ Finalize(t)
    PROVE  Enqueueing'
<1>1. saves < MaxSaves => saves + 1 \in 0..MaxSaves
  BY EnqueueAssumption DEF Enqueueing, TypeOK
<1>2. Events \subseteq Ranks /\ NoEvent \in Ranks
      /\ {Updated, Completed, Created} \subseteq Ranks
  BY DEF Events, Ranks
<1>3. ASSUME NEW event \in Ranks, Write(t, "real", event), Schedule(t, event, saves + 1)
      PROVE  Enqueueing'
  <2>1. saves + 1 \in 0..MaxSaves
    BY <1>1, <1>3 DEF Write
  <2>2. pending' \in [Tasks -> [event : Ranks, version : 0..MaxSaves]]
    BY <1>3, <2>1, ScheduleType DEF Enqueueing
  <2>. QED  BY <1>3, <2>2, WriteType
<1>4. CASE Insert(t)
  BY <1>2, <1>3, <1>4 DEF Insert
<1>5. CASE \E e \in {Updated, Completed} : Edit(t, e)
  BY <1>2, <1>3, <1>5 DEF Edit
<1>6. CASE SaveDraft(t) \/ Finalize(t)
  <2>1. pending' \in [Tasks -> [event : Ranks, version : 0..MaxSaves]]
    BY <1>6 DEF SaveDraft, Finalize, Enqueueing, TypeOK, Ranks
  <2>2. \/ Write(t, "draft", NoEvent)
        \/ Write(t, "real", Created)
    BY <1>6 DEF SaveDraft, Finalize
  <2>. QED  BY <1>2, <2>1, <2>2, WriteType
<1>. QED  BY <1>4, <1>5, <1>6

\* The innermost block closes.
LEMMA OuterBlocks ==
    ASSUME stack \in Seq(Frame), stack # <<>>
    PROVE  /\ Front(stack) \in Seq(Frame)
           /\ Len(Front(stack)) = Len(stack) - 1
           /\ \A k \in 1..Len(stack) - 1 : Front(stack)[k] = stack[k]
           /\ Last(stack) \in Frame
           /\ Last(stack) = stack[Len(stack)]
           /\ Len(stack) \in Nat /\ Len(stack) >= 1
<1>1. Len(stack) \in Nat /\ Len(stack) >= 1 /\ \A i \in 1..Len(stack) : stack[i] \in Frame
  OBVIOUS
<1>2. /\ Front(stack) \in Seq(Frame)
      /\ Len(Front(stack)) = Len(stack) - 1
      /\ \A k \in 1..Len(stack) - 1 : Front(stack)[k] = stack[k]
  <2>. DEFINE n == Len(stack) - 1
  <2>1. n \in Nat /\ \A i \in 1..n : stack[i] \in Frame
    BY <1>1
  <2>2. Front(stack) = SubSeq(stack, 1, n)
    BY DEF Front
  <2>. HIDE DEF n
  <2>3. /\ SubSeq(stack, 1, n) \in Seq(Frame)
        /\ Len(SubSeq(stack, 1, n)) = IF 1 <= n THEN n - 1 + 1 ELSE 0
        /\ \A k \in 1 .. n - 1 + 1 : SubSeq(stack, 1, n)[k] = stack[1 + k - 1]
    BY <2>1, SubSeqProperties
  <2>4. /\ (IF 1 <= n THEN n - 1 + 1 ELSE 0) = n
        /\ \A k \in 1..n : k \in 1 .. n - 1 + 1 /\ 1 + k - 1 = k
    BY <2>1
  <2>. QED  BY <2>2, <2>3, <2>4 DEF n
<1>3. Last(stack) \in Frame /\ Last(stack) = stack[Len(stack)]
  BY <1>1 DEF Last
<1>. QED  BY <1>1, <1>2, <1>3

\* Blocks open, close and are rolled back.
LEMMA EnqueueingBlock ==
    ASSUME Enqueueing, Begin \/ Release \/ Commit \/ Rollback
    PROVE  Enqueueing'
<1>t. stack \in Seq(Frame) /\ Len(stack) \in Nat /\ Len(stack) <= MaxDepth
      /\ (stack # <<>> => running = <<>>)
  BY DEF Enqueueing, TypeOK
<1>f. stack # <<>> =>
          /\ Front(stack) \in Seq(Frame)
          /\ Len(Front(stack)) = Len(stack) - 1
          /\ Last(stack) \in Frame
  BY <1>t, OuterBlocks
<1>n. Nobody \in [Tasks -> Ranks] /\ [t \in Tasks |-> 0] \in [Tasks -> Nat]
  BY DEF Nobody, Ranks
<1>1. CASE Begin
  <2>1. [task |-> task, owed |-> owed] \in Frame
    BY DEF Enqueueing, TypeOK, Frame, Rows, Ranks
  <2>2. stack' \in Seq(Frame) /\ Len(stack') <= MaxDepth /\ running' = <<>>
    BY <1>t, <1>1, <2>1, EnqueueAssumption DEF Begin
  <2>3. due' \in [Tasks -> Ranks] /\ posted' \in [Tasks -> Nat] /\ plain' \in BOOLEAN
    BY <1>1, <1>n DEF Begin, Enqueueing, TypeOK, Ranks
  <2>4. UNCHANGED <<task, taken, saves, pending, owed, undone>>
    BY <1>1 DEF Begin
  <2>. QED  BY <2>2, <2>3, <2>4 DEF Enqueueing, TypeOK, Ranks
<1>2. CASE Release
  <2>1. stack # <<>>
    BY <1>2 DEF Release
  <2>2. stack' \in Seq(Frame) /\ Len(stack') <= MaxDepth /\ running' = <<>>
    BY <1>t, <1>f, <1>2, <2>1, EnqueueAssumption DEF Release
  <2>3. UNCHANGED <<task, taken, saves, pending, posted, owed, due, undone, plain>>
    BY <1>2 DEF Release
  <2>. QED  BY <2>2, <2>3 DEF Enqueueing, TypeOK, Ranks
<1>3. CASE Commit
  <2>1. stack' \in Seq(Frame) /\ Len(stack') <= MaxDepth /\ stack' = <<>>
    BY <1>3, EnqueueAssumption DEF Commit
  <2>2. due' \in [Tasks -> Ranks] /\ owed' \in [Tasks -> Ranks]
    BY <1>3, <1>n DEF Commit, Enqueueing, TypeOK, Ranks
  <2>3. UNCHANGED <<task, taken, saves, pending, posted, undone, plain>>
    BY <1>3 DEF Commit
  <2>. QED  BY <2>1, <2>2, <2>3 DEF Enqueueing, TypeOK, Ranks
<1>4. CASE Rollback
  <2>1. stack # <<>>
    BY <1>4 DEF Rollback, Atomic
  <2>2. stack' \in Seq(Frame) /\ Len(stack') <= MaxDepth /\ running' = <<>>
    BY <1>t, <1>f, <1>4, <2>1, EnqueueAssumption DEF Rollback
  <2>3. task' \in Rows /\ owed' \in [Tasks -> Ranks]
    BY <1>f, <1>4, <2>1 DEF Rollback, Frame
  <2>4. undone' \subseteq 0..MaxSaves
    <3>1. \A t \in Tasks : task[t].version \in 0..MaxSaves
      BY DEF Enqueueing, TypeOK
    <3>2. undone \subseteq 0..MaxSaves
      BY DEF Enqueueing, TypeOK
    <3>. QED  BY <1>4, <3>1, <3>2 DEF Rollback
  <2>5. plain' \in BOOLEAN
    BY <1>4 DEF Rollback, Enqueueing, TypeOK
  <2>6. UNCHANGED <<taken, saves, pending, posted, due>>
    BY <1>4 DEF Rollback
  <2>. QED  BY <2>2, <2>3, <2>4, <2>5, <2>6 DEF Enqueueing, TypeOK, Rows, Ranks
<1>. QED  BY <1>1, <1>2, <1>3, <1>4

\* Callbacks: registered, and run after the commit.
LEMMA EnqueueingHook ==
    ASSUME Enqueueing,
           \/ RunHook
           \/ \E t \in Tasks, kind \in {"calendar", "other"} : OtherHook(kind, t)
    PROVE  Enqueueing'
<1>1. CASE \E t \in Tasks, kind \in {"calendar", "other"} : OtherHook(kind, t)
  <2>1. /\ UNCHANGED <<task, taken, saves, stack, pending, running, posted, owed,
                      due, undone>>
        /\ plain' \in BOOLEAN
    BY <1>1 DEF OtherHook
  <2>. QED  BY <2>1 DEF Enqueueing, TypeOK, Ranks
<1>2. CASE RunHook
  <2>. DEFINE t == Head(running).task
  <2>1. stack = <<>>
    BY <1>2 DEF RunHook, Enqueueing, TypeOK
  <2>2. UNCHANGED <<task, taken, saves, stack, owed, due, undone, plain>>
    BY <1>2 DEF RunHook
  <2>3. \/ Flush(t)
        \/ Schedule(t, Updated, task[t].version) /\ UNCHANGED posted
        \/ UNCHANGED <<pending, posted>>
    BY <1>2 DEF RunHook
  <2>4. /\ pending' \in [Tasks -> [event : Ranks, version : 0..MaxSaves]]
        /\ posted' \in [Tasks -> Nat]
    <3>. HIDE DEF t
    <3>1. CASE Flush(t)
      <4>1. pending' = [pending EXCEPT ![t] = NoEntry]
        BY <3>1 DEF Flush
      <4>2. posted' = posted \/ posted' = [posted EXCEPT ![t] = @ + 1]
        BY <3>1 DEF Flush
      <4>3. posted \in [Tasks -> Nat]
        BY DEF Enqueueing, TypeOK
      <4>4. posted' \in [Tasks -> Nat]
        BY <4>2, <4>3
      <4>. QED  BY <4>1, <4>4, NoEntryType DEF Enqueueing, TypeOK, Ranks
    <3>2. CASE Schedule(t, Updated, task[t].version) /\ UNCHANGED posted
      <4>1. Updated \in Ranks
        BY DEF Ranks, Events
      <4>2. t \in Tasks => task[t].version \in 0..MaxSaves
        BY DEF Enqueueing, TypeOK
      <4>. QED  BY <3>2, <4>1, <4>2, ScheduleType DEF Enqueueing, TypeOK
    <3>3. CASE UNCHANGED <<pending, posted>>
      BY <3>3 DEF Enqueueing, TypeOK, Ranks
    <3>. QED  BY <2>3, <3>1, <3>2, <3>3
  <2>. QED  BY <2>1, <2>2, <2>4 DEF Enqueueing, TypeOK, Ranks
<1>. QED  BY <1>1, <1>2

LEMMA EnqueueingStep == Enqueueing /\ [Next]_vars => Enqueueing'
<1>. SUFFICES ASSUME Enqueueing, [Next]_vars PROVE Enqueueing'
  OBVIOUS
<1>1. CASE Next
  BY <1>1, EnqueueingSave, EnqueueingBlock, EnqueueingHook DEF Next
<1>2. CASE UNCHANGED vars
  BY <1>2 DEF vars, Enqueueing, TypeOK
<1>. QED  BY <1>1, <1>2

\* Every variable keeps its type: an entry is an event of a version that was
\* saved, and no callback runs while a block is open.
THEOREM TypeCorrect == Spec => []TypeOK
<1>1. Enqueueing => TypeOK
  BY DEF Enqueueing
<1>. QED  BY <1>1, EnqueueingInit, EnqueueingStep, PTL DEF Spec

-----------------------------------------------------------------------------
(* The list of callbacks *)

HookRow == [kind : {"flush", "calendar", "feed", "other"}, task : Tasks, depth : Nat]

\* The entries of a list that hand a task to the outbox.
Flushes(q) == {i \in 1..Len(q) : q[i].kind = "flush"}

OnceEach(q) == \A i, j \in Flushes(q) : q[i].task = q[j].task => i = j

\* The list on the connection: callbacks of deeper blocks come later, and outside a
\* transaction there are none.
Registering ==
    /\ Enqueueing
    /\ hooks \in Seq(HookRow)
    /\ running \in Seq(HookRow)
    /\ ~Atomic => hooks = <<>>
    /\ \A i \in 1..Len(hooks) : hooks[i].depth \in 1..Len(stack)
    /\ \A i, j \in 1..Len(hooks) : i <= j => hooks[i].depth <= hooks[j].depth
    /\ OnceEach(hooks)
    /\ OnceEach(running)

LEMMA LeastNumber ==
    ASSUME NEW S, S \subseteq Nat, S # {}
    PROVE  \E m \in S : \A n \in S : m <= n
<1>1. PICK m \in S : \A n \in S : ~(<<n, m>> \in OpToRel(<, Nat))
  BY NatLessThanWellFounded, WFMin
<1>2. \A n \in S : ~(n < m)
  BY <1>1 DEF OpToRel
<1>. QED  BY <1>2

\* What a rollback keeps are the callbacks of the enclosing blocks, all of them and in
\* their order: they come before those of the block.
LEMMA OuterComesFirst ==
    ASSUME Registering
    PROVE  \E n \in 0..Len(hooks) :
               /\ Outer \in Seq(HookRow) /\ Len(Outer) = n
               /\ \A i \in 1..n : Outer[i] = hooks[i]
               /\ \A i \in 1..Len(hooks) : hooks[i].depth < Len(stack) <=> i <= n
<1>. DEFINE I == {i \in 1..Len(hooks) : hooks[i].depth = Len(stack)}
            first == SelectInSeq(hooks, LAMBDA h : h.depth = Len(stack))
<1>1. /\ hooks \in Seq(HookRow) /\ Len(hooks) \in Nat /\ Len(stack) \in Nat
      /\ \A i \in 1..Len(hooks) : hooks[i] \in HookRow /\ hooks[i].depth \in 1..Len(stack)
      /\ \A i, j \in 1..Len(hooks) : i <= j => hooks[i].depth <= hooks[j].depth
  BY DEF Registering, Enqueueing
<1>2. first = IF I # {} THEN Min(I) ELSE 0
  BY DEF SelectInSeq
<1>3. Outer = IF first = 0 THEN hooks ELSE SubSeq(hooks, 1, first - 1)
  BY DEF Outer
<1>4. CASE I = {}
  <2>1. Outer = hooks
    BY <1>2, <1>3, <1>4
  <2>2. \A i \in 1..Len(hooks) : hooks[i].depth < Len(stack)
    BY <1>1, <1>4
  <2>3. Len(hooks) \in 0..Len(hooks)
    BY <1>1
  <2>. HIDE DEF I, first
  <2>. QED  BY <1>1, <2>1, <2>2, <2>3
<1>5. CASE I # {}
  <2>1. PICK m \in I : \A i \in I : m <= i
    <3>1. I \subseteq Nat
      BY <1>1
    <3>. HIDE DEF I
    <3>. QED  BY <1>5, <3>1, LeastNumber
  <2>2. Min(I) \in I /\ \A i \in I : Min(I) <= i
    <3>. HIDE DEF I
    <3>. QED  BY <2>1 DEF Min
  <2>3. PICK n \in Nat : first = n + 1 /\ n + 1 \in I /\ \A i \in I : n + 1 <= i
    <3>1. first \in I /\ \A i \in I : first <= i
      BY <1>2, <1>5, <2>2
    <3>2. first \in Nat \ {0}
      BY <3>1, <1>1
    <3>3. first - 1 \in Nat /\ first = (first - 1) + 1
      BY <3>2
    <3>. HIDE DEF first, I
    <3>. QED  BY <3>1, <3>3
  <2>4. n \in 0..Len(hooks) /\ hooks[n + 1].depth = Len(stack)
    BY <1>1, <2>3
  <2>5. Outer = SubSeq(hooks, 1, n)
    <3>. HIDE DEF first, I
    <3>. QED  BY <1>3, <2>3
  <2>6. /\ Outer \in Seq(HookRow) /\ Len(Outer) = n
        /\ \A i \in 1..n : Outer[i] = hooks[i]
    <3>. HIDE DEF first, I
    <3>1. \A i \in 1..n : hooks[i] \in HookRow
      BY <1>1, <2>4
    <3>2. /\ SubSeq(hooks, 1, n) \in Seq(HookRow)
          /\ Len(SubSeq(hooks, 1, n)) = IF 1 <= n THEN n - 1 + 1 ELSE 0
          /\ \A i \in 1 .. n - 1 + 1 : SubSeq(hooks, 1, n)[i] = hooks[1 + i - 1]
      BY <3>1, <2>4, SubSeqProperties
    <3>3. (IF 1 <= n THEN n - 1 + 1 ELSE 0) = n /\ \A i \in 1..n : i \in 1..n-1+1 /\ 1 + i - 1 = i
      BY <2>4
    <3>. QED  BY <2>5, <3>2, <3>3
  <2>7. ASSUME NEW i \in 1..Len(hooks) PROVE hooks[i].depth < Len(stack) <=> i <= n
    <3>1. CASE i <= n
      <4>1. i \notin I
        BY <2>3, <3>1
      <4>. QED  BY <1>1, <3>1, <4>1
    <3>2. CASE ~(i <= n)
      <4>1. n + 1 \in 1..Len(hooks) /\ n + 1 <= i
        BY <2>3, <3>2
      <4>2. hooks[n + 1].depth <= hooks[i].depth
        BY <1>1, <4>1
      <4>. QED  BY <1>1, <2>4, <3>2, <4>2
    <3>. QED  BY <3>1, <3>2
  <2>. HIDE DEF I, first
  <2>. QED  BY <2>4, <2>6, <2>7
<1>. QED  BY <1>4, <1>5

-----------------------------------------------------------------------------
(* The list of callbacks in every step *)

LEMMA AppendRow ==
    ASSUME NEW q \in Seq(HookRow), NEW h \in HookRow
    PROVE  /\ Append(q, h) \in Seq(HookRow)
           /\ Len(q) \in Nat /\ Len(Append(q, h)) = Len(q) + 1
           /\ \A i \in 1..Len(q) : Append(q, h)[i] = q[i]
           /\ Append(q, h)[Len(q) + 1] = h
OBVIOUS

\* The list on the connection in a block.
Listed(q) ==
    /\ q \in Seq(HookRow)
    /\ \A i \in 1..Len(q) : q[i].depth \in 1..Len(stack)
    /\ \A i, j \in 1..Len(q) : i <= j => q[i].depth <= q[j].depth
    /\ OnceEach(q)

\* A callback is appended by the innermost block.
LEMMA ListedAppend ==
    ASSUME NEW q, Listed(q), Enqueueing, Atomic,
           NEW kind \in {"flush", "calendar", "feed", "other"}, NEW t \in Tasks,
           kind = "flush" => \A i \in Flushes(q) : q[i].task # t
    PROVE  /\ Listed(Append(q, Hook(kind, t)))
           /\ Len(q) \in Nat /\ Len(Append(q, Hook(kind, t))) = Len(q) + 1
           /\ \A i \in 1..Len(q) : Append(q, Hook(kind, t))[i] = q[i]
           /\ Append(q, Hook(kind, t))[Len(q) + 1] = Hook(kind, t)
<1>. DEFINE more == Append(q, Hook(kind, t))
<1>1. Len(stack) \in Nat /\ Len(stack) \in 1..Len(stack)
  BY DEF Enqueueing, Atomic
<1>2. Hook(kind, t) \in HookRow
  BY <1>1 DEF Hook, HookRow
<1>3. /\ more \in Seq(HookRow)
      /\ Len(q) \in Nat /\ Len(more) = Len(q) + 1
      /\ \A i \in 1..Len(q) : more[i] = q[i]
      /\ more[Len(q) + 1] = Hook(kind, t)
  BY <1>2, AppendRow DEF Listed
<1>. HIDE DEF more
<1>4. \A i \in 1..Len(more) : more[i].depth \in 1..Len(stack)
  BY <1>1, <1>3 DEF Listed, Hook
<1>5. \A i, j \in 1..Len(more) : i <= j => more[i].depth <= more[j].depth
  <2>1. SUFFICES ASSUME NEW i \in 1..Len(more), NEW j \in 1..Len(more), i <= j
                 PROVE  more[i].depth <= more[j].depth
    OBVIOUS
  <2>2. CASE j \in 1..Len(q)
    BY <1>3, <2>1, <2>2 DEF Listed
  <2>3. CASE j = Len(q) + 1
    <3>1. more[j].depth = Len(stack)
      BY <1>3, <2>3 DEF Hook
    <3>. QED  BY <1>1, <1>4, <3>1
  <2>. QED  BY <1>3, <2>2, <2>3
<1>6. OnceEach(more)
  <2>1. SUFFICES ASSUME NEW i \in Flushes(more), NEW j \in Flushes(more),
                        more[i].task = more[j].task
                 PROVE  i = j
    BY DEF OnceEach
  <2>2. \A k \in Flushes(more) :
            \/ k \in Flushes(q) /\ more[k].task = q[k].task
            \/ k = Len(q) + 1 /\ kind = "flush" /\ more[k].task = t
    BY <1>3 DEF Flushes, Hook
  <2>. QED  BY <2>1, <2>2 DEF Listed, OnceEach
<1>. QED  BY <1>3, <1>4, <1>5, <1>6 DEF Listed, more

LEMMA RegisteringListed ==
    ASSUME Registering, Enqueueing', Atomic, UNCHANGED <<stack, running>>, Listed(hooks')
    PROVE  Registering'
<1>1. stack' = stack /\ running' = running /\ OnceEach(running') /\ running' \in Seq(HookRow)
      /\ Atomic'
  BY DEF Registering, Atomic
<1>. QED  BY <1>1 DEF Registering, Listed

\* What a callback that hands no task to the outbox does to the list.
LEMMA RegisteringAppend ==
    ASSUME Registering, Enqueueing', Atomic, UNCHANGED <<stack, running>>,
           NEW kind \in {"calendar", "feed", "other"}, NEW t \in Tasks,
           hooks' = Append(hooks, Hook(kind, t))
    PROVE  /\ Registering'
           /\ Len(hooks) \in Nat /\ Len(hooks') = Len(hooks) + 1
           /\ \A i \in 1..Len(hooks) : hooks'[i] = hooks[i]
           /\ hooks'[Len(hooks) + 1] = Hook(kind, t)
           /\ Flushes(hooks') = Flushes(hooks)
<1>1. Listed(hooks) /\ Enqueueing
  BY DEF Registering, Listed
<1>2. /\ Listed(hooks')
      /\ Len(hooks) \in Nat /\ Len(hooks') = Len(hooks) + 1
      /\ \A i \in 1..Len(hooks) : hooks'[i] = hooks[i]
      /\ hooks'[Len(hooks) + 1] = Hook(kind, t)
  <2>1. /\ Listed(Append(hooks, Hook(kind, t)))
        /\ Len(hooks) \in Nat /\ Len(Append(hooks, Hook(kind, t))) = Len(hooks) + 1
        /\ \A i \in 1..Len(hooks) : Append(hooks, Hook(kind, t))[i] = hooks[i]
        /\ Append(hooks, Hook(kind, t))[Len(hooks) + 1] = Hook(kind, t)
    <3>1. kind \in {"flush", "calendar", "feed", "other"} /\ kind # "flush"
      OBVIOUS
    <3>. QED  BY <1>1, <3>1, ListedAppend
  <2>. QED  BY <2>1 DEF Listed
<1>3. Flushes(hooks') = Flushes(hooks)
  BY <1>2 DEF Flushes, Hook
<1>. QED  BY <1>2, <1>3, RegisteringListed

LEMMA RegisteringSame ==
    ASSUME Registering, Enqueueing', UNCHANGED <<stack, hooks, running>>
    PROVE  Registering'
BY DEF Registering, Atomic, OnceEach, Flushes

\* A transaction is over, and its callbacks are run.
LEMMA RegisteringBlock ==
    ASSUME Registering, Enqueueing', Begin \/ Release \/ Commit \/ Rollback
    PROVE  Registering'
<1>t. /\ stack \in Seq(Frame) /\ Len(stack) \in Nat /\ (stack = <<>> <=> Len(stack) = 0)
      /\ hooks \in Seq(HookRow) /\ Len(hooks) \in Nat
      /\ \A i \in 1..Len(hooks) : hooks[i] \in HookRow
  BY DEF Registering, Enqueueing
<1>e. /\ <<>> \in Seq(HookRow) /\ Len(<<>>) = 0 /\ OnceEach(<<>>)
  BY DEF OnceEach, Flushes
<1>1. CASE Begin
  <2>1. stack' # <<>> /\ Len(stack') = Len(stack) + 1 /\ UNCHANGED <<hooks, running>>
    BY <1>t, <1>1 DEF Begin
  <2>2. \A i \in 1..Len(hooks) : hooks[i].depth \in 1..Len(stack')
    BY <1>t, <2>1 DEF Registering
  <2>. QED  BY <2>1, <2>2 DEF Registering, Atomic, OnceEach, Flushes
<1>2. CASE Release
  <2>. DEFINE d(i) == IF hooks[i].depth < Len(stack) THEN hooks[i].depth ELSE Len(stack) - 1
  <2>1. /\ Len(stack) > 1 /\ running' = running
        /\ Len(stack') = Len(stack) - 1 /\ stack' # <<>>
    <3>1. Len(stack) > 1 /\ stack # <<>> /\ stack' = Front(stack) /\ running' = running
      BY <1>t, <1>2 DEF Release
    <3>2. Len(stack') = Len(stack) - 1 /\ stack' \in Seq(Frame)
      BY <1>t, <3>1, OuterBlocks
    <3>. QED  BY <1>t, <3>1, <3>2
  <2>2. hooks' = [i \in 1..Len(hooks) |-> [hooks[i] EXCEPT !.depth = d(i)]]
    BY <1>t, <1>2 DEF Release
  <2>3. \A i \in 1..Len(hooks) : /\ hooks[i].depth \in 1..Len(stack)
                                 /\ d(i) \in 1..Len(stack')
    BY <1>t, <2>1 DEF Registering
  <2>4. \A i \in 1..Len(hooks) : /\ hooks'[i] \in HookRow
                                 /\ hooks'[i].kind = hooks[i].kind
                                 /\ hooks'[i].task = hooks[i].task
                                 /\ hooks'[i].depth = d(i)
    <3>. HIDE DEF d
    <3>1. \A i \in 1..Len(hooks) : d(i) \in Nat
      BY <2>1, <2>3, <1>t
    <3>. QED  BY <1>t, <2>2, <3>1 DEF HookRow
  <2>5. hooks' \in Seq(HookRow) /\ Len(hooks') = Len(hooks)
    <3>. HIDE DEF d
    <3>1. hooks' \in [1..Len(hooks) -> HookRow]
      BY <2>2, <2>4
    <3>. QED  BY <1>t, <3>1
  <2>6. \A i, j \in 1..Len(hooks) : i <= j => d(i) <= d(j)
    <3>1. \A i, j \in 1..Len(hooks) : i <= j => hooks[i].depth <= hooks[j].depth
      BY DEF Registering
    <3>. QED  BY <1>t, <2>1, <2>3, <3>1
  <2>. HIDE DEF d
  <2>7. OnceEach(hooks')
    BY <2>4, <2>5 DEF Registering, OnceEach, Flushes
  <2>. QED  BY <2>1, <2>3, <2>4, <2>5, <2>6, <2>7 DEF Registering, Atomic
<1>3. CASE Commit
  <2>1. stack' = <<>> /\ hooks' = <<>> /\ running' = hooks
    BY <1>3 DEF Commit
  <2>. QED  BY <1>e, <2>1 DEF Registering, Atomic
<1>4. CASE Rollback
  <2>1. /\ stack # <<>> /\ running' = running
        /\ Len(stack') = Len(stack) - 1 /\ hooks' = Outer
    BY <1>t, <1>4, OuterBlocks DEF Rollback, Atomic
  <2>2. PICK n \in 0..Len(hooks) :
          /\ Outer \in Seq(HookRow) /\ Len(Outer) = n
          /\ \A i \in 1..n : Outer[i] = hooks[i]
          /\ \A i \in 1..Len(hooks) : hooks[i].depth < Len(stack) <=> i <= n
    BY OuterComesFirst
  <2>3. \A i \in 1..n : i \in 1..Len(hooks) /\ hooks'[i] = hooks[i]
    BY <1>t, <2>1, <2>2
  <2>4. \A i \in 1..n : hooks'[i].depth \in 1..Len(stack')
    <3>1. \A i \in 1..n : hooks[i].depth \in 1..Len(stack) /\ hooks[i].depth < Len(stack)
      BY <2>2, <2>3 DEF Registering
    <3>. QED  BY <1>t, <2>1, <2>3, <3>1
  <2>5. OnceEach(hooks')
    BY <2>1, <2>2, <2>3 DEF Registering, OnceEach, Flushes
  <2>6. stack' = <<>> => hooks' = <<>>
    <3>1. SUFFICES ASSUME stack' = <<>> PROVE n = 0
      BY <2>1, <2>2
    <3>2. Len(stack') = 0
      BY <3>1
    <3>. QED  BY <2>2, <2>4, <3>2
  <2>. QED  BY <2>1, <2>2, <2>3, <2>4, <2>5, <2>6 DEF Registering, Atomic
<1>. QED  BY <1>1, <1>2, <1>3, <1>4

\* A callback runs.
LEMMA RunHookRow ==
    ASSUME Registering, RunHook
    PROVE  /\ 1 \in 1..Len(running) /\ Head(running) = running[1] /\ running[1] \in HookRow
           /\ Len(running') = Len(running) - 1
           /\ \A i \in 1..Len(running') : i + 1 \in 1..Len(running) /\ running'[i] = running[i + 1]
           /\ ~Atomic /\ hooks = <<>> /\ hooks' = <<>> /\ stack' = stack
           /\ running' \in Seq(HookRow)
<1>1. running \in Seq(HookRow) /\ running # <<>> /\ running' = Tail(running)
  BY DEF Registering, RunHook
<1>2. /\ Len(running) \in Nat /\ Len(running) >= 1
      /\ Head(running) = running[1] /\ running[1] \in HookRow
      /\ Len(running') = Len(running) - 1 /\ running' \in Seq(HookRow)
      /\ \A i \in 1..Len(running') : running'[i] = running[i + 1]
  BY <1>1, HeadTailProperties
<1>3. ~Atomic /\ hooks = <<>>
  BY <1>1 DEF Registering, Enqueueing, TypeOK, Atomic
<1>4. hooks' = hooks /\ stack' = stack
  BY <1>3 DEF RunHook, Schedule
<1>. QED  BY <1>2, <1>3, <1>4

LEMMA RegisteringHook ==
    ASSUME Registering, Enqueueing', RunHook
    PROVE  Registering'
<1>1. \A i, j \in Flushes(running') : running'[i].task = running'[j].task => i = j
  <2>1. \A i \in Flushes(running') : i + 1 \in Flushes(running) /\ running'[i] = running[i + 1]
    BY RunHookRow DEF Flushes
  <2>2. \A i \in Flushes(running') : i \in Int
    BY DEF Flushes
  <2>. QED  BY <2>1, <2>2 DEF Registering, OnceEach
<1>2. Len(<<>>) = 0 /\ OnceEach(<<>>) /\ <<>> \in Seq(HookRow)
  BY DEF OnceEach, Flushes
<1>. QED  BY <1>1, <1>2, RunHookRow DEF Registering, Atomic, OnceEach

-----------------------------------------------------------------------------
(* What a callback finds *)

\* A callback that waits for the commit belongs to a change of the open
\* transaction, and its entry holds the row as it is or a save that was undone.
Owes(t) ==
    /\ owed[t] # NoEvent
    /\ task[t].stage = "real"
    /\ pending[t].event # NoEvent
    /\ pending[t].version = task[t].version \/ pending[t].version \in undone

\* A callback that waits to run belongs to a change of the transaction committed
\* last, has not been run, and its entry, if any, may be sent.
Announces(t) ==
    /\ due[t] # NoEvent
    /\ posted[t] = 0
    /\ pending[t] # NoEntry =>
           <<t, pending[t].version>> \in committed \/ pending[t].version \in undone

\* The rollback of a block opened after the callback was registered leaves it right.
Stands(t, depth) ==
    \A k \in 1..Len(stack) :
        depth < k => stack[k].owed[t] # NoEvent /\ stack[k].task[t].stage = "real"

Settled(rows) ==
    \A t \in Tasks : rows[t].stage # "none" => <<t, rows[t].version>> \in committed

\* What an outermost block restores, and what there is outside of one.
Outermost ==
    /\ Atomic => /\ posted = [t \in Tasks |-> 0]
                 /\ due = Nobody
                 /\ stack[1].owed = Nobody
                 /\ Settled(stack[1].task)
    /\ ~Atomic => owed = Nobody /\ Settled(task)

\* The inductive invariant of the two promises about what is sent.
Owing ==
    /\ Registering
    /\ Outermost
    /\ \A i \in Flushes(hooks) :
           Owes(hooks[i].task) /\ Stands(hooks[i].task, hooks[i].depth)
    /\ \A i \in Flushes(running) : Announces(running[i].task)
    /\ OneEventPerChange
    /\ OnlyCommittedStates

LEMMA EventIsSomething ==
    \A a \in Ranks, b \in Events : Higher(a, b) # NoEvent /\ Higher(a, b) \in Events
BY DEF Higher, Ranks, Events, NoEvent, Updated, Completed, Created

LEMMA FlushTask ==
    ASSUME NEW q \in Seq(HookRow), NEW i \in Flushes(q)
    PROVE  q[i].task \in Tasks /\ q[i] \in HookRow /\ i \in 1..Len(q) /\ Len(q) \in Nat
<1>1. i \in 1..Len(q) /\ Len(q) \in Nat
  BY DEF Flushes
<1>2. q[i] \in HookRow
  BY <1>1
<1>. QED  BY <1>1, <1>2 DEF HookRow

LEMMA OwingInit == Init => Owing
<1>. SUFFICES ASSUME Init PROVE Owing
  OBVIOUS
<1>1. Enqueueing
  BY EnqueueingInit
<1>2. /\ hooks = <<>> /\ running = <<>> /\ stack = <<>>
      /\ Len(<<>>) = 0 /\ <<>> \in Seq(HookRow)
  BY DEF Init
<1>3. OnceEach(<<>>) /\ Flushes(<<>>) = {}
  BY <1>2 DEF OnceEach, Flushes
<1>4. Registering
  BY <1>1, <1>2, <1>3 DEF Registering, Atomic
<1>5. Outermost
  BY <1>2 DEF Init, Outermost, Atomic, Settled
<1>6. OneEventPerChange /\ OnlyCommittedStates
  BY DEF Init, OneEventPerChange, OnlyCommittedStates, Nobody, NoEvent
<1>. QED  BY <1>2, <1>3, <1>4, <1>5, <1>6 DEF Owing

-----------------------------------------------------------------------------
(* Saves *)

\* A save in a transaction: the task has a callback that waits, an older one or
\* that of this save.
LEMMA OwingSaveInBlock ==
    ASSUME Owing, Registering', Atomic, NEW t \in Tasks, NEW event \in Events,
           Write(t, "real", event), Schedule(t, event, saves + 1),
           \A i \in 1..Len(hooks) : hooks'[i] = hooks[i],
           \A i \in 1..Len(hooks') :
               i \notin 1..Len(hooks) => hooks'[i] \in {Hook("flush", t), Hook("feed", t)}
    PROVE  Owing'
<1>1. /\ UNCHANGED <<stack, running, sent, undone, posted, committed, due>>
      /\ task' = [task EXCEPT ![t] = [stage |-> "real", version |-> saves + 1]]
      /\ owed' = [owed EXCEPT ![t] = Higher(owed[t], event)]
      /\ running = <<>>
  BY DEF Write
<1>2. /\ task \in Rows /\ owed \in [Tasks -> Ranks]
      /\ pending \in [Tasks -> [event : Ranks, version : 0..MaxSaves]]
      /\ hooks \in Seq(HookRow)
  BY DEF Owing, Registering, Enqueueing, TypeOK, Rows, Ranks
<1>3. PICK entry :
        /\ pending' = [Registry EXCEPT ![t] = entry]
        /\ entry = [event |-> Higher(Registry[t].event, event), version |-> saves + 1]
  BY DEF Schedule
<1>4. Registry \in [Tasks -> [event : Ranks, version : 0..MaxSaves]]
  BY RegistryType DEF Owing, Registering, Enqueueing
<1>5. Owes(t)'
  <2>1. owed'[t] = Higher(owed[t], event) /\ task'[t] = [stage |-> "real", version |-> saves + 1]
        /\ pending'[t] = entry
    BY <1>1, <1>2, <1>3, <1>4 DEF Rows
  <2>2. Higher(owed[t], event) # NoEvent /\ Higher(Registry[t].event, event) # NoEvent
    BY <1>2, <1>4, EventIsSomething
  <2>. QED  BY <1>3, <2>1, <2>2 DEF Owes
<1>6. ASSUME NEW u \in Tasks, u # t, hooks # <<>>, Owes(u) PROVE Owes(u)'
  <2>1. Registry = pending
    BY <1>6 DEF Registry
  <2>2. task'[u] = task[u] /\ owed'[u] = owed[u] /\ pending'[u] = pending[u]
    BY <1>1, <1>2, <1>3, <1>6, <2>1 DEF Rows
  <2>. QED  BY <1>1, <1>6, <2>2 DEF Owes
<1>7. ASSUME NEW i \in Flushes(hooks')
      PROVE  (Owes(hooks[i].task) /\ Stands(hooks[i].task, hooks[i].depth))'
  <2>1. CASE i \in 1..Len(hooks)
    <3>1. hooks'[i] = hooks[i] /\ hooks # <<>>
      BY <2>1
    <3>2. i \in Flushes(hooks)
      BY <1>7, <2>1, <3>1 DEF Flushes
    <3>3. hooks[i].task \in Tasks
      BY <1>2, <3>2, FlushTask
    <3>4. Owes(hooks[i].task) /\ Stands(hooks[i].task, hooks[i].depth)
      BY <3>2 DEF Owing
    <3>5. PICK u, d : u \in Tasks /\ u = hooks[i].task /\ d = hooks[i].depth
      BY <3>3
    <3>6. Owes(u)' /\ Stands(u, d)'
      BY <1>1, <1>5, <1>6, <3>1, <3>4, <3>5 DEF Stands
    <3>. QED  BY <3>1, <3>5, <3>6 DEF Owes, Stands
  <2>2. CASE hooks'[i] \in {Hook("flush", t), Hook("feed", t)}
    <3>1. hooks'[i].task = t /\ hooks'[i].depth = Len(stack)
      BY <2>2 DEF Hook
    <3>2. Len(stack) \in Nat
      BY DEF Owing, Registering, Enqueueing
    <3>. QED  BY <1>1, <1>5, <3>1, <3>2 DEF Owes, Stands
  <2>. QED  BY <1>7, <2>1, <2>2 DEF Flushes
<1>8. Outermost'
  BY <1>1 DEF Owing, Outermost, Atomic, Settled
<1>9. Flushes(running') = {}
  BY <1>1 DEF Flushes
<1>10. OneEventPerChange' /\ OnlyCommittedStates'
  BY <1>1 DEF Owing, OneEventPerChange, OnlyCommittedStates
<1>. QED  BY <1>7, <1>8, <1>9, <1>10 DEF Owing

\* Outside a transaction there is no callback; the row is committed at once.
LEMMA OwingAutocommit ==
    ASSUME Owing, Registering', ~Atomic, NEW t \in Tasks, NEW stage \in {"draft", "real"},
           NEW event, Write(t, stage, event), hooks' = hooks
    PROVE  Owing'
<1>1. /\ UNCHANGED <<stack, running, sent, undone, owed>>
      /\ task' = [task EXCEPT ![t] = [stage |-> stage, version |-> saves + 1]]
      /\ committed' = committed \cup {<<t, saves + 1>>}
      /\ posted' = [u \in Tasks |-> 0]
      /\ running = <<>>
  BY DEF Write
<1>2. hooks' = <<>> /\ Flushes(<<>>) = {} /\ running' = <<>> /\ ~Atomic'
  BY <1>1 DEF Owing, Registering, Flushes, Atomic
<1>3. Settled(task)'
  BY <1>1 DEF Owing, Outermost, Settled, Registering, Enqueueing, TypeOK
<1>4. Outermost'
  BY <1>1, <1>2, <1>3 DEF Owing, Outermost
<1>5. OneEventPerChange'
  BY <1>1 DEF OneEventPerChange
<1>6. OnlyCommittedStates'
  BY <1>1 DEF Owing, OnlyCommittedStates
<1>. QED  BY <1>2, <1>4, <1>5, <1>6 DEF Owing

\* A draft has no callback that waits.
LEMMA OwingDraft ==
    ASSUME Owing, Registering', Atomic, NEW t \in Tasks, NEW stage, NEW event,
           task[t].stage \in {"none", "draft"},
           Write(t, stage, event), UNCHANGED pending,
           Flushes(hooks') = Flushes(hooks), \A i \in Flushes(hooks) : hooks'[i] = hooks[i]
    PROVE  Owing'
<1>1. /\ UNCHANGED <<stack, running, sent, undone, posted, committed, due>>
      /\ task' = [task EXCEPT ![t] = [stage |-> stage, version |-> saves + 1]]
      /\ owed' = [owed EXCEPT ![t] = Higher(owed[t], event)]
      /\ running = <<>>
  BY DEF Write
<1>2. hooks \in Seq(HookRow) /\ task \in Rows /\ owed \in [Tasks -> Ranks]
  BY DEF Owing, Registering, Enqueueing, TypeOK, Rows, Ranks
<1>3. ASSUME NEW i \in Flushes(hooks)
      PROVE  (Owes(hooks[i].task) /\ Stands(hooks[i].task, hooks[i].depth))'
  <2>1. Owes(hooks[i].task) /\ Stands(hooks[i].task, hooks[i].depth)
    BY DEF Owing
  <2>2. hooks'[i] = hooks[i] /\ hooks[i].task \in Tasks
    BY <1>2, <1>3, FlushTask
  <2>3. hooks[i].task # t
    BY <2>1 DEF Owes
  <2>4. task'[hooks[i].task] = task[hooks[i].task] /\ owed'[hooks[i].task] = owed[hooks[i].task]
    BY <1>1, <1>2, <2>2, <2>3 DEF Rows
  <2>. QED  BY <1>1, <2>1, <2>2, <2>4 DEF Owes, Stands
<1>4. Outermost'
  BY <1>1 DEF Owing, Outermost, Atomic, Settled
<1>5. Flushes(running') = {} /\ Flushes(hooks') = Flushes(hooks)
  BY <1>1 DEF Flushes
<1>6. OneEventPerChange' /\ OnlyCommittedStates'
  BY <1>1 DEF Owing, OneEventPerChange, OnlyCommittedStates
<1>. QED  BY <1>3, <1>4, <1>5, <1>6 DEF Owing

\* What a save that is announced does to the list of callbacks.
LEMMA SaveHooks ==
    ASSUME Owing, Atomic, NEW t \in Tasks, Bump(Scheduled(t), t)
    PROVE  /\ Listed(hooks') /\ hooks' # <<>>
           /\ \A i \in 1..Len(hooks) : i \in 1..Len(hooks') /\ hooks'[i] = hooks[i]
           /\ \A i \in 1..Len(hooks') :
                  i \notin 1..Len(hooks) => hooks'[i] \in {Hook("flush", t), Hook("feed", t)}
           /\ Registry[t].event = NoEvent =>
                  \E i \in 1..Len(hooks') : hooks'[i] = Hook("flush", t)
<1>1. Listed(hooks) /\ Enqueueing
  BY DEF Owing, Registering, Listed
<1>2. hooks' = Append(Scheduled(t), Hook("feed", t))
  BY DEF Bump
<1>3. CASE Registry[t].event = NoEvent
  <2>. DEFINE first == Append(hooks, Hook("flush", t))
  <2>1. ASSUME NEW i \in Flushes(hooks) PROVE hooks[i].task # t
    <3>1. hooks # <<>>
      BY DEF Flushes
    <3>2. pending[t].event = NoEvent
      BY <1>3, <3>1 DEF Registry
    <3>. QED  BY <3>2 DEF Owing, Owes
  <2>2. /\ Listed(first)
        /\ Len(hooks) \in Nat /\ Len(first) = Len(hooks) + 1
        /\ \A i \in 1..Len(hooks) : first[i] = hooks[i]
        /\ first[Len(hooks) + 1] = Hook("flush", t)
    BY <1>1, <2>1, ListedAppend
  <2>3. hooks' = Append(first, Hook("feed", t))
    BY <1>2, <1>3 DEF Scheduled
  <2>. HIDE DEF first
  <2>4. /\ Listed(hooks')
        /\ Len(hooks') = Len(hooks) + 2
        /\ \A i \in 1..Len(first) : hooks'[i] = first[i]
        /\ hooks'[Len(hooks) + 2] = Hook("feed", t)
    <3>1. /\ Listed(Append(first, Hook("feed", t)))
          /\ Len(Append(first, Hook("feed", t))) = Len(first) + 1
          /\ \A i \in 1..Len(first) : Append(first, Hook("feed", t))[i] = first[i]
          /\ Append(first, Hook("feed", t))[Len(first) + 1] = Hook("feed", t)
      BY <1>1, <2>2, ListedAppend
    <3>2. Len(hooks) + 1 + 1 = Len(hooks) + 2
      BY <2>2
    <3>. QED  BY <2>2, <2>3, <3>1, <3>2 DEF Listed
  <2>5. hooks'[Len(hooks) + 1] = Hook("flush", t) /\ Len(hooks) + 1 \in 1..Len(hooks')
    BY <2>2, <2>4
  <2>6. \A i \in 1..Len(hooks) : i \in 1..Len(hooks') /\ hooks'[i] = hooks[i]
    BY <2>2, <2>4
  <2>7. \A i \in 1..Len(hooks') :
            i \in 1..Len(hooks) \/ i = Len(hooks) + 1 \/ i = Len(hooks) + 2
    BY <2>2, <2>4
  <2>8. hooks' # <<>>
    BY <2>2, <2>4
  <2>. QED  BY <2>4, <2>5, <2>6, <2>7, <2>8
<1>4. CASE Registry[t].event # NoEvent
  <2>1. hooks' = Append(hooks, Hook("feed", t))
    BY <1>2, <1>4 DEF Scheduled
  <2>2. /\ Listed(hooks')
        /\ Len(hooks) \in Nat /\ Len(hooks') = Len(hooks) + 1
        /\ \A i \in 1..Len(hooks) : hooks'[i] = hooks[i]
        /\ hooks'[Len(hooks) + 1] = Hook("feed", t)
    BY <1>1, <2>1, ListedAppend
  <2>3. hooks' # <<>> /\ \A i \in 1..Len(hooks') : i \in 1..Len(hooks) \/ i = Len(hooks) + 1
    BY <2>2
  <2>. QED  BY <1>4, <2>2, <2>3
<1>. QED  BY <1>3, <1>4

LEMMA OwingSave ==
    ASSUME Owing, Enqueueing', NEW t \in Tasks,
           \/ Insert(t) \/ (\E e \in {Updated, Completed} : Edit(t, e))
           \/ SaveDraft(t) \/ Finalize(t)
    PROVE  Owing'
<1>1. ASSUME NEW event \in Events, Write(t, "real", event), Schedule(t, event, saves + 1),
             Bump(Scheduled(t), t)
      PROVE  Owing'
  <2>1. UNCHANGED <<stack, running>>
    BY <1>1 DEF Write
  <2>2. CASE Atomic
    <3>1. /\ Listed(hooks')
          /\ \A i \in 1..Len(hooks) : hooks'[i] = hooks[i]
          /\ \A i \in 1..Len(hooks') :
                 i \notin 1..Len(hooks) => hooks'[i] \in {Hook("flush", t), Hook("feed", t)}
      BY <1>1, <2>2, SaveHooks
    <3>2. Registering'
      BY <2>1, <2>2, <3>1, RegisteringListed DEF Owing
    <3>. QED  BY <1>1, <2>2, <3>1, <3>2, OwingSaveInBlock
  <2>3. CASE ~Atomic
    <3>1. hooks' = hooks
      BY <1>1, <2>3 DEF Bump
    <3>2. Registering'
      BY <2>1, <3>1, RegisteringSame DEF Owing
    <3>. QED  BY <1>1, <2>3, <3>1, <3>2, OwingAutocommit
  <2>. QED  BY <2>2, <2>3
<1>2. Updated \in Events /\ Completed \in Events /\ Created \in Events
  BY DEF Events
<1>3. CASE Insert(t)
  BY <1>1, <1>2, <1>3 DEF Insert
<1>4. CASE \E e \in {Updated, Completed} : Edit(t, e)
  BY <1>1, <1>2, <1>4 DEF Edit
<1>5. CASE SaveDraft(t) \/ Finalize(t)
  <2>1. PICK stage, event : stage \in {"draft", "real"} /\ Write(t, stage, event)
    BY <1>5 DEF SaveDraft, Finalize
  <2>2. /\ task[t].stage \in {"none", "draft"} /\ UNCHANGED <<pending, stack, running>>
        /\ hooks' = hooks \/ (Atomic /\ hooks' = Append(hooks, Hook("feed", t)))
    BY <1>5 DEF SaveDraft, Finalize, Write, Bump
  <2>3. /\ Registering'
        /\ Flushes(hooks') = Flushes(hooks) /\ \A i \in Flushes(hooks) : hooks'[i] = hooks[i]
    <3>1. CASE hooks' = hooks
      BY <2>2, <3>1, RegisteringSame DEF Owing
    <3>2. CASE Atomic /\ hooks' = Append(hooks, Hook("feed", t))
      <4>1. /\ Registering' /\ Flushes(hooks') = Flushes(hooks)
            /\ \A i \in 1..Len(hooks) : hooks'[i] = hooks[i]
        BY <2>2, <3>2, RegisteringAppend DEF Owing
      <4>. QED  BY <4>1 DEF Flushes
    <3>. QED  BY <2>2, <3>1, <3>2
  <2>4. CASE Atomic
    BY <2>1, <2>2, <2>3, <2>4, OwingDraft
  <2>5. CASE ~Atomic
    BY <2>1, <2>2, <2>3, <2>5, OwingAutocommit
  <2>. QED  BY <2>4, <2>5
<1>. QED  BY <1>3, <1>4, <1>5

\* Another part of the program waits for the commit.
LEMMA OwingOther ==
    ASSUME Owing, Enqueueing', NEW t \in Tasks, NEW kind \in {"calendar", "other"}, OtherHook(kind, t)
    PROVE  Owing'
<1>1. /\ Atomic /\ hooks' = Append(hooks, Hook(kind, t)) /\ kind # "flush"
      /\ UNCHANGED <<task, stack, pending, running, sent, posted, committed, owed, due, undone>>
  BY DEF OtherHook
<1>2. /\ Registering'
      /\ Len(hooks) \in Nat /\ Len(hooks') = Len(hooks) + 1
      /\ \A i \in 1..Len(hooks) : hooks'[i] = hooks[i]
      /\ hooks'[Len(hooks) + 1] = Hook(kind, t)
      /\ Flushes(hooks') = Flushes(hooks)
  BY <1>1, RegisteringAppend DEF Owing
<1>3. Flushes(hooks') = Flushes(hooks)
  BY <1>2
<1>4. ASSUME NEW i \in Flushes(hooks)
      PROVE  (Owes(hooks[i].task) /\ Stands(hooks[i].task, hooks[i].depth))'
  <2>1. hooks'[i] = hooks[i]
    BY <1>2 DEF Flushes
  <2>2. Owes(hooks[i].task) /\ Stands(hooks[i].task, hooks[i].depth)
    BY DEF Owing
  <2>. QED  BY <1>1, <2>1, <2>2 DEF Owes, Stands
<1>5. ASSUME NEW i \in Flushes(running')
      PROVE  Announces(running[i].task)'
  BY <1>1, <1>5 DEF Owing, Flushes, Announces
<1>6. Outermost' /\ OneEventPerChange' /\ OnlyCommittedStates'
  BY <1>1 DEF Owing, Outermost, Atomic, Settled, OneEventPerChange, OnlyCommittedStates
<1>. QED  BY <1>2, <1>3, <1>4, <1>5, <1>6 DEF Owing

-----------------------------------------------------------------------------
(* Blocks *)

LEMMA OwingBegin ==
    ASSUME Owing, Enqueueing', Begin
    PROVE  Owing'
<1>. DEFINE frame == [task |-> task, owed |-> owed]
<1>1. /\ UNCHANGED <<task, pending, hooks, running, sent, committed, owed, undone>>
      /\ running = <<>>
      /\ stack' = Append(stack, frame)
      /\ IF Atomic THEN UNCHANGED <<posted, due>>
         ELSE posted' = [t \in Tasks |-> 0] /\ due' = Nobody
  BY DEF Begin
<1>2. Registering'
  BY RegisteringBlock DEF Owing
<1>3. stack \in Seq(Frame) /\ hooks \in Seq(HookRow)
  BY DEF Owing, Registering, Enqueueing
<1>4. frame \in Frame
  BY DEF Owing, Registering, Enqueueing, TypeOK, Frame, Rows, Ranks
<1>5. /\ Len(stack) \in Nat /\ Len(stack') = Len(stack) + 1
      /\ \A k \in 1..Len(stack) : stack'[k] = stack[k]
      /\ stack'[Len(stack) + 1] = frame
  <2>. HIDE DEF frame
  <2>. QED  BY <1>1, <1>3, <1>4
<1>6. ASSUME NEW i \in Flushes(hooks)
      PROVE  (Owes(hooks[i].task) /\ Stands(hooks[i].task, hooks[i].depth))'
  <2>1. Owes(hooks[i].task) /\ Stands(hooks[i].task, hooks[i].depth)
    BY DEF Owing
  <2>2. frame.owed[hooks[i].task] # NoEvent /\ frame.task[hooks[i].task].stage = "real"
    BY <2>1 DEF Owes
  <2>. HIDE DEF frame
  <2>3. \A k \in 1..Len(stack') : k \in 1..Len(stack) \/ k = Len(stack) + 1
    BY <1>5
  <2>. QED  BY <1>1, <1>5, <2>1, <2>2, <2>3 DEF Owes, Stands
<1>7. Outermost'
  <2>1. CASE Atomic
    <3>1. stack # <<>> /\ Len(stack) >= 1
      BY <1>3, <2>1 DEF Atomic
    <3>2. stack'[1] = stack[1] /\ stack' # <<>>
      BY <1>5, <3>1
    <3>. QED  BY <1>1, <2>1, <3>2 DEF Owing, Outermost, Atomic, Settled
  <2>2. CASE ~Atomic
    <3>1. stack = <<>> /\ Len(stack) = 0
      BY <1>3, <2>2 DEF Atomic
    <3>2. stack'[1] = frame /\ stack' # <<>>
      BY <1>5, <3>1
    <3>. QED  BY <1>1, <2>2, <3>2 DEF Owing, Outermost, Atomic, Settled
  <2>. QED  BY <2>1, <2>2
<1>8. OneEventPerChange'
  <2>1. CASE Atomic
    BY <1>1, <2>1 DEF Owing, OneEventPerChange
  <2>2. CASE ~Atomic
    BY <1>1, <2>2 DEF OneEventPerChange
  <2>. QED  BY <2>1, <2>2
<1>9. OnlyCommittedStates' /\ Flushes(running') = {} /\ Flushes(hooks') = Flushes(hooks)
  BY <1>1 DEF Owing, OnlyCommittedStates, Flushes
<1>. QED  BY <1>2, <1>6, <1>7, <1>8, <1>9 DEF Owing

LEMMA OwingRelease ==
    ASSUME Owing, Enqueueing', Release
    PROVE  Owing'
<1>1. /\ Len(stack) > 1 /\ stack' = Front(stack)
      /\ UNCHANGED <<task, pending, running, sent, posted, committed, owed, due, undone>>
  BY DEF Release
<1>2. /\ stack \in Seq(Frame) /\ hooks \in Seq(HookRow) /\ stack # <<>>
      /\ Len(hooks) \in Nat /\ DOMAIN hooks = 1..Len(hooks)
  BY <1>1 DEF Owing, Registering, Enqueueing
<1>3. /\ Len(stack) \in Nat /\ Len(stack') = Len(stack) - 1
      /\ \A k \in 1..Len(stack) - 1 : stack'[k] = stack[k]
      /\ stack' \in Seq(Frame)
  BY <1>1, <1>2, OuterBlocks
<1>4. Registering'
  BY RegisteringBlock DEF Owing
<1>5. hooks' = [i \in 1..Len(hooks) |-> [hooks[i] EXCEPT !.depth =
                    IF @ < Len(stack) THEN @ ELSE Len(stack) - 1]]
  BY <1>2 DEF Release
<1>6. Len(hooks') = Len(hooks)
  BY <1>2, <1>4, <1>5 DEF Registering
<1>7. \A i \in 1..Len(hooks) :
          /\ hooks'[i].kind = hooks[i].kind /\ hooks'[i].task = hooks[i].task
          /\ hooks'[i].depth = IF hooks[i].depth < Len(stack) THEN hooks[i].depth
                               ELSE Len(stack) - 1
  <2>1. \A i \in 1..Len(hooks) : hooks[i] \in HookRow
    BY <1>2
  <2>. QED  BY <1>5, <2>1 DEF HookRow
<1>8. Flushes(hooks') = Flushes(hooks)
  BY <1>6, <1>7 DEF Flushes
<1>9. ASSUME NEW i \in Flushes(hooks)
      PROVE  (Owes(hooks[i].task) /\ Stands(hooks[i].task, hooks[i].depth))'
  <2>1. Owes(hooks[i].task) /\ Stands(hooks[i].task, hooks[i].depth)
    BY DEF Owing
  <2>2. i \in 1..Len(hooks) /\ hooks[i].depth \in 1..Len(stack)
    BY DEF Flushes, Owing, Registering
  <2>3. Owes(hooks[i].task)'
    BY <1>1, <1>7, <2>1, <2>2 DEF Owes
  <2>4. ASSUME NEW k \in 1..Len(stack'), hooks'[i].depth < k
        PROVE  stack'[k].owed[hooks[i].task] # NoEvent /\ stack'[k].task[hooks[i].task].stage = "real"
    <3>1. k \in 1..Len(stack) - 1 /\ hooks[i].depth < k
      BY <1>3, <1>7, <2>2, <2>4
    <3>2. k \in 1..Len(stack) /\ stack'[k] = stack[k]
      BY <1>3, <3>1
    <3>. QED  BY <2>1, <3>1, <3>2 DEF Stands
  <2>. QED  BY <1>7, <2>2, <2>3, <2>4 DEF Stands
<1>10. Outermost'
  <2>1. stack'[1] = stack[1] /\ stack' # <<>>
    BY <1>1, <1>3
  <2>. QED  BY <1>1, <1>2, <2>1 DEF Owing, Outermost, Atomic, Settled
<1>11. \A i \in Flushes(running') : Announces(running[i].task)'
  BY <1>1 DEF Owing, Flushes, Announces
<1>12. OneEventPerChange' /\ OnlyCommittedStates'
  BY <1>1 DEF Owing, OneEventPerChange, OnlyCommittedStates
<1>. QED  BY <1>4, <1>8, <1>9, <1>10, <1>11, <1>12 DEF Owing

LEMMA OwingCommit ==
    ASSUME Owing, Enqueueing', Commit
    PROVE  Owing'
<1>1. /\ stack' = <<>> /\ hooks' = <<>> /\ running' = hooks /\ due' = owed /\ owed' = Nobody
      /\ committed' = committed \cup {<<t, task[t].version>> : t \in Tasks}
      /\ UNCHANGED <<task, pending, sent, posted, undone>>
  BY DEF Commit
<1>2. Atomic /\ hooks \in Seq(HookRow) /\ ~Atomic'
  <2>1. Len(stack) = 1
    BY DEF Commit
  <2>. QED  BY <1>1, <2>1 DEF Owing, Registering, Atomic
<1>3. Registering'
  BY RegisteringBlock DEF Owing
<1>4. posted = [t \in Tasks |-> 0]
  BY <1>2 DEF Owing, Outermost
<1>5. ASSUME NEW i \in Flushes(running') PROVE Announces(running[i].task)'
  <2>1. i \in Flushes(hooks) /\ running'[i] = hooks[i]
    BY <1>1, <1>5 DEF Flushes
  <2>2. Owes(hooks[i].task) /\ hooks[i].task \in Tasks
    BY <1>2, <2>1, FlushTask DEF Owing
  <2>3. PICK t \in Tasks : t = hooks[i].task
    BY <2>2
  <2>4. due'[t] # NoEvent /\ posted'[t] = 0 /\ <<t, task[t].version>> \in committed'
    BY <1>1, <1>4, <2>2, <2>3 DEF Owes
  <2>. QED  BY <1>1, <2>1, <2>2, <2>3, <2>4 DEF Owes, Announces
<1>6. Outermost'
  BY <1>1, <1>2 DEF Outermost, Settled
<1>7. OneEventPerChange'
  BY <1>1, <1>4 DEF OneEventPerChange
<1>8. OnlyCommittedStates'
  BY <1>1 DEF Owing, OnlyCommittedStates
<1>9. Flushes(hooks') = {}
  BY <1>1 DEF Flushes
<1>. QED  BY <1>3, <1>5, <1>6, <1>7, <1>8, <1>9 DEF Owing

\* The callbacks that stay are of blocks that stay: what the rollback restores
\* has their changes in it.
LEMMA OwingRollback ==
    ASSUME Owing, Enqueueing', Rollback
    PROVE  Owing'
<1>1. /\ Atomic /\ stack' = Front(stack) /\ hooks' = Outer
      /\ task' = Last(stack).task /\ owed' = Last(stack).owed
      /\ undone' = IF Len(stack) = 1 THEN undone
                   ELSE undone \cup {task[t].version :
                            t \in {u \in Tasks : task[u] # Last(stack).task[u]}}
      /\ UNCHANGED <<pending, running, sent, posted, committed, due>>
  BY DEF Rollback
<1>2. stack \in Seq(Frame) /\ hooks \in Seq(HookRow) /\ stack # <<>>
  BY <1>1 DEF Owing, Registering, Enqueueing, Atomic
<1>3. /\ Len(stack) \in Nat /\ Len(stack) >= 1 /\ Len(stack') = Len(stack) - 1
      /\ \A k \in 1..Len(stack) - 1 : stack'[k] = stack[k]
      /\ Last(stack) = stack[Len(stack)] /\ stack' \in Seq(Frame)
  BY <1>1, <1>2, OuterBlocks
<1>4. Registering'
  BY RegisteringBlock DEF Owing
<1>5. PICK n \in 0..Len(hooks) :
        /\ Len(Outer) = n
        /\ \A i \in 1..n : Outer[i] = hooks[i]
        /\ \A i \in 1..Len(hooks) : hooks[i].depth < Len(stack) <=> i <= n
  BY OuterComesFirst DEF Owing
<1>6. ASSUME NEW i \in Flushes(hooks')
      PROVE  (Owes(hooks[i].task) /\ Stands(hooks[i].task, hooks[i].depth))'
  <2>1. /\ i \in 1..Len(hooks) /\ i <= n /\ hooks'[i] = hooks[i]
        /\ i \in Flushes(hooks)
    BY <1>1, <1>2, <1>5, <1>6 DEF Flushes
  <2>2. PICK t, d : t \in Tasks /\ t = hooks[i].task /\ d = hooks[i].depth
    BY <1>2, <2>1, FlushTask
  <2>3. Owes(t) /\ Stands(t, d)
    BY <2>1, <2>2 DEF Owing
  <2>4. d \in 1..Len(stack) /\ d < Len(stack)
    BY <1>5, <2>1, <2>2 DEF Owing, Registering
  <2>5. /\ Last(stack).owed[t] # NoEvent
        /\ Last(stack).task[t].stage = "real"
    <3>1. Len(stack) \in 1..Len(stack)
      BY <1>3
    <3>. QED  BY <1>3, <2>3, <2>4, <3>1 DEF Stands
  <2>6. task'[t].version = task[t].version \/ task[t].version \in undone'
    <3>1. t \in Tasks /\ Len(stack) # 1
      BY <1>3, <2>2, <2>4
    <3>. QED  BY <1>1, <3>1
  <2>7. Owes(t)'
    BY <1>1, <2>3, <2>5, <2>6 DEF Owes
  <2>8. Stands(t, d)'
    <3>1. \A k \in 1..Len(stack') : k \in 1..Len(stack) /\ stack'[k] = stack[k]
      BY <1>3
    <3>. QED  BY <2>3, <3>1 DEF Stands
  <2>. QED  BY <2>1, <2>2, <2>7, <2>8 DEF Owes, Stands
<1>7. Outermost'
  <2>1. CASE Len(stack) = 1
    <3>1. stack' = <<>> /\ ~Atomic'
      BY <1>3, <2>1 DEF Atomic
    <3>. QED  BY <1>1, <1>3, <2>1, <3>1 DEF Owing, Outermost, Settled
  <2>2. CASE Len(stack) # 1
    <3>1. stack'[1] = stack[1]
      BY <1>3, <2>2
    <3>. QED  BY <1>1, <1>3, <2>2, <3>1 DEF Owing, Outermost, Atomic, Settled
  <2>. QED  BY <2>1, <2>2
<1>8. \A i \in Flushes(running') : Announces(running[i].task)'
  BY <1>1 DEF Owing, Flushes, Announces
<1>9. OneEventPerChange' /\ OnlyCommittedStates'
  BY <1>1 DEF Owing, OneEventPerChange, OnlyCommittedStates
<1>. QED  BY <1>4, <1>6, <1>7, <1>8, <1>9 DEF Owing

-----------------------------------------------------------------------------
(* Callbacks *)

LEMMA OwingRunHook ==
    ASSUME Owing, Enqueueing', RunHook
    PROVE  Owing'
<1>. DEFINE h == running[1]
<1>1. /\ 1 \in 1..Len(running) /\ Head(running) = h /\ h \in HookRow
      /\ Len(running') = Len(running) - 1
      /\ \A i \in 1..Len(running') : i + 1 \in 1..Len(running) /\ running'[i] = running[i + 1]
      /\ ~Atomic /\ hooks = <<>> /\ hooks' = <<>> /\ stack' = stack
      /\ running \in Seq(HookRow)
  BY RunHookRow DEF Owing, Registering
<1>2. UNCHANGED <<task, stack, committed, owed, due, undone>>
  BY DEF RunHook
<1>3. Registering'
  BY RegisteringHook DEF Owing
<1>4. /\ pending \in [Tasks -> [event : Ranks, version : 0..MaxSaves]]
      /\ posted \in [Tasks -> Nat]
  BY DEF Owing, Registering, Enqueueing, TypeOK, Ranks
<1>5. PICK u \in Tasks : u = h.task
  BY <1>1 DEF HookRow
<1>6. \/ h.kind = "flush" /\ Flush(u)
      \/ /\ h.kind = "calendar" /\ task[u].stage = "real"
         /\ Schedule(u, Updated, task[u].version) /\ UNCHANGED <<sent, posted>>
      \/ UNCHANGED <<pending, sent, posted>>
  BY <1>1, <1>5 DEF RunHook
<1>7. \A i \in Flushes(running') : i + 1 \in Flushes(running) /\ running'[i] = running[i + 1]
                                   /\ running[i + 1].task \in Tasks
  <2>1. \A i \in Flushes(running') : i + 1 \in Flushes(running) /\ running'[i] = running[i + 1]
    BY <1>1 DEF Flushes
  <2>. QED  BY <1>1, <2>1, FlushTask
<1>. HIDE DEF h
<1>8. Outermost' /\ Flushes(hooks') = {}
  BY <1>1, <1>2 DEF Owing, Outermost, Atomic, Settled, Flushes
<1>9. CASE h.kind = "flush" /\ Flush(u)
  <2>1. 1 \in Flushes(running)
    BY <1>1, <1>9 DEF Flushes, h
  <2>2. Announces(u)
    BY <1>5, <2>1 DEF Owing, h
  <2>3. /\ pending' = [pending EXCEPT ![u] = NoEntry]
        /\ \A t \in Tasks : t # u => posted'[t] = posted[t] /\ pending'[t] = pending[t]
        /\ posted'[u] <= 1
    BY <1>4, <1>9, <2>2 DEF Flush, Announces
  <2>4. ASSUME NEW i \in Flushes(running') PROVE Announces(running[i].task)'
    <3>1. PICK t \in Tasks : t = running[i + 1].task
      BY <1>7
    <3>2. i + 1 \in Flushes(running) /\ running'[i] = running[i + 1] /\ i + 1 # 1
      BY <1>7 DEF Flushes
    <3>3. t # u
      BY <1>5, <2>1, <3>1, <3>2 DEF Owing, Registering, OnceEach, h
    <3>4. Announces(t)
      BY <3>1, <3>2 DEF Owing
    <3>. QED  BY <1>2, <2>3, <3>1, <3>2, <3>3, <3>4 DEF Announces
  <2>5. OneEventPerChange'
    <3>1. \A t \in Tasks : t # u => posted'[t] <= IF due'[t] = NoEvent THEN 0 ELSE 1
      BY <1>2, <2>3 DEF Owing, OneEventPerChange
    <3>2. posted'[u] <= IF due'[u] = NoEvent THEN 0 ELSE 1
      BY <1>2, <2>2, <2>3 DEF Announces
    <3>. QED  BY <3>1, <3>2 DEF OneEventPerChange
  <2>6. OnlyCommittedStates'
    <3>1. CASE pending[u] = NoEntry
      BY <1>2, <1>9, <3>1 DEF Flush, Owing, OnlyCommittedStates
    <3>2. CASE pending[u] # NoEntry
      <4>1. sent' = sent \cup {[task |-> u, event |-> pending[u].event,
                                version |-> pending[u].version]}
        BY <1>9, <3>2 DEF Flush
      <4>2. <<u, pending[u].version>> \in committed \/ pending[u].version \in undone
        BY <2>2, <3>2 DEF Announces
      <4>3. SUFFICES ASSUME NEW d \in sent'
                     PROVE  <<d.task, d.version>> \in committed \/ d.version \in undone
        BY <1>2 DEF OnlyCommittedStates
      <4>4. CASE d \in sent
        BY <4>4 DEF Owing, OnlyCommittedStates
      <4>5. CASE d.task = u /\ d.version = pending[u].version
        BY <4>2, <4>5
      <4>. QED  BY <4>1, <4>3, <4>4, <4>5
    <3>. QED  BY <3>1, <3>2
  <2>. QED  BY <1>3, <1>8, <2>4, <2>5, <2>6 DEF Owing
<1>10. CASE /\ task[u].stage = "real"
            /\ Schedule(u, Updated, task[u].version) /\ UNCHANGED <<sent, posted>>
  <2>1. Registry = Empty
    BY <1>1 DEF Registry
  <2>2. \A t \in Tasks : t # u => pending'[t] = NoEntry
    BY <1>10, <2>1 DEF Schedule, Empty
  <2>3. pending'[u].version = task[u].version
    BY <1>10, <2>1 DEF Schedule, Empty
  <2>4. <<u, task[u].version>> \in committed
    BY <1>1, <1>10 DEF Owing, Outermost, Settled
  <2>5. ASSUME NEW i \in Flushes(running') PROVE Announces(running[i].task)'
    <3>1. PICK t \in Tasks : t = running[i + 1].task
      BY <1>7
    <3>2. i + 1 \in Flushes(running) /\ running'[i] = running[i + 1]
      BY <1>7
    <3>3. Announces(t)
      BY <3>1, <3>2 DEF Owing
    <3>. QED  BY <1>2, <1>10, <2>2, <2>3, <2>4, <3>1, <3>2, <3>3 DEF Announces
  <2>6. OneEventPerChange' /\ OnlyCommittedStates'
    BY <1>2, <1>10 DEF Owing, OneEventPerChange, OnlyCommittedStates
  <2>. QED  BY <1>3, <1>8, <2>5, <2>6 DEF Owing
<1>11. CASE UNCHANGED <<pending, sent, posted>>
  <2>1. ASSUME NEW i \in Flushes(running') PROVE Announces(running[i].task)'
    <3>1. PICK t \in Tasks : t = running[i + 1].task
      BY <1>7
    <3>2. i + 1 \in Flushes(running) /\ running'[i] = running[i + 1]
      BY <1>7
    <3>3. Announces(t)
      BY <3>1, <3>2 DEF Owing
    <3>. QED  BY <1>2, <1>11, <3>1, <3>2, <3>3 DEF Announces
  <2>2. OneEventPerChange' /\ OnlyCommittedStates'
    BY <1>2, <1>11 DEF Owing, OneEventPerChange, OnlyCommittedStates
  <2>. QED  BY <1>3, <1>8, <2>1, <2>2 DEF Owing
<1>. QED  BY <1>6, <1>9, <1>10, <1>11

LEMMA OwingStep == Owing /\ [Next]_vars => Owing'
<1>. SUFFICES ASSUME Owing, [Next]_vars PROVE Owing'
  OBVIOUS
<1>1. Enqueueing'
  BY EnqueueingStep DEF Owing, Registering
<1>2. CASE Next
  <2>1. CASE \E t \in Tasks :
                 \/ Insert(t) \/ (\E e \in {Updated, Completed} : Edit(t, e))
                 \/ SaveDraft(t) \/ Finalize(t)
    BY <1>1, <2>1, OwingSave
  <2>2. CASE \E t \in Tasks, kind \in {"calendar", "other"} : OtherHook(kind, t)
    BY <1>1, <2>2, OwingOther
  <2>3. CASE Begin \/ Release \/ Commit \/ Rollback
    BY <1>1, <2>3, OwingBegin, OwingRelease, OwingCommit, OwingRollback
  <2>4. CASE RunHook
    BY <1>1, <2>4, OwingRunHook
  <2>. QED  BY <1>2, <2>1, <2>2, <2>3, <2>4 DEF Next
<1>3. CASE UNCHANGED vars
  <2>1. UNCHANGED <<task, taken, saves, stack, pending, hooks, running, sent, posted,
                    committed, owed, due, undone, plain>>
    BY <1>3 DEF vars
  <2>2. Registering'
    BY <1>1, <2>1, RegisteringSame DEF Owing
  <2>3. Outermost' /\ OneEventPerChange' /\ OnlyCommittedStates'
    BY <2>1 DEF Owing, Outermost, Atomic, Settled, OneEventPerChange, OnlyCommittedStates
  <2>4. \A i \in Flushes(hooks') : (Owes(hooks[i].task) /\ Stands(hooks[i].task, hooks[i].depth))'
    BY <2>1 DEF Owing, Flushes, Owes, Stands
  <2>5. \A i \in Flushes(running') : Announces(running[i].task)'
    BY <2>1 DEF Owing, Flushes, Announces
  <2>. QED  BY <2>2, <2>3, <2>4, <2>5 DEF Owing
<1>. QED  BY <1>2, <1>3

\* A transaction queues at most one event for a task and none for a task it did
\* not change, for any nesting of blocks, saves by other callbacks included.
THEOREM OneEventEach == Spec => []OneEventPerChange
<1>1. Owing => OneEventPerChange
  BY DEF Owing
<1>. QED  BY <1>1, OwingInit, OwingStep, PTL DEF Spec

\* What is sent was committed, but for a save that only its savepoint took back.
THEOREM SentIsCommitted == Spec => []OnlyCommittedStates
<1>1. Owing => OnlyCommittedStates
  BY DEF Owing
<1>. QED  BY <1>1, OwingInit, OwingStep, PTL DEF Spec

-----------------------------------------------------------------------------
(* Plain transactions *)

\* In a plain transaction the registry holds exactly what is owed: what rolled back
\* transactions left in it went with the first save.
PlainBlock ==
    /\ \A i \in 1..Len(hooks) : hooks[i].kind # "calendar"
    /\ hooks = <<>> => owed = Nobody
    /\ hooks # <<>> => \A t \in Tasks :
           /\ pending[t].event = owed[t]
           /\ owed[t] # NoEvent => /\ pending[t].version = task[t].version
                                   /\ \E i \in Flushes(hooks) : hooks[i].task = t

Sent(t) == [task |-> t, event |-> due[t], version |-> task[t].version] \in sent

\* After one, what is due has been sent, or its callback waits for its entry.
PlainRest ==
    /\ \A i \in 1..Len(running) : running[i].kind # "calendar"
    /\ \A t \in Tasks : due[t] # NoEvent =>
           \/ Sent(t)
           \/ /\ pending[t] = [event |-> due[t], version |-> task[t].version]
              /\ \E i \in Flushes(running) : running[i].task = t

Announcing ==
    /\ Owing
    /\ plain /\ Atomic => PlainBlock
    /\ plain /\ ~Atomic => PlainRest

LEMMA AnnouncingInit == Init => Announcing
<1>. SUFFICES ASSUME Init PROVE Announcing
  OBVIOUS
<1>1. stack = <<>> /\ running = <<>> /\ Len(<<>>) = 0 /\ due = Nobody
  BY DEF Init
<1>2. PlainRest
  BY <1>1 DEF PlainRest, Nobody
<1>. QED  BY <1>1, <1>2, OwingInit DEF Announcing, Atomic

\* A save of a plain transaction.  The first one finds an empty list and so clears
\* the registry.
LEMMA PlainSave ==
    ASSUME Announcing, Owing', PlainBlock, Atomic, NEW t \in Tasks, NEW event \in Events,
           Write(t, "real", event), Schedule(t, event, saves + 1), Bump(Scheduled(t), t)
    PROVE  PlainBlock'
<1>1. /\ task' = [task EXCEPT ![t] = [stage |-> "real", version |-> saves + 1]]
      /\ owed' = [owed EXCEPT ![t] = Higher(owed[t], event)]
  BY DEF Write
<1>2. /\ task \in Rows /\ owed \in [Tasks -> Ranks] /\ hooks \in Seq(HookRow)
      /\ Len(hooks) \in Nat /\ Len(stack) \in Nat
  <2>1. task \in Rows /\ owed \in [Tasks -> Ranks]
    BY DEF Announcing, Owing, Registering, Enqueueing, TypeOK, Rows, Ranks
  <2>2. hooks \in Seq(HookRow) /\ stack \in Seq(Frame)
    BY DEF Announcing, Owing, Registering, Enqueueing
  <2>. QED  BY <2>1, <2>2
<1>3. pending' = [Registry EXCEPT ![t] = [event |-> Higher(Registry[t].event, event),
                                         version |-> saves + 1]]
  BY DEF Schedule
<1>4. Registry \in [Tasks -> [event : Ranks, version : 0..MaxSaves]]
  BY RegistryType DEF Announcing, Owing, Registering, Enqueueing
<1>5. \A u \in Tasks : Registry[u].event = owed[u]
  <2>1. CASE hooks = <<>>
    BY <2>1 DEF PlainBlock, Registry, Empty, NoEntry, Nobody
  <2>2. CASE hooks # <<>>
    BY <2>2 DEF PlainBlock, Registry
  <2>. QED  BY <2>1, <2>2
<1>6. \A u \in Tasks : owed[u] # NoEvent =>
          /\ Registry[u].version = task[u].version
          /\ \E i \in Flushes(hooks) : hooks[i].task = u
  <2>1. CASE hooks = <<>>
    BY <2>1 DEF PlainBlock, Nobody
  <2>2. CASE hooks # <<>>
    BY <2>2 DEF PlainBlock, Registry
  <2>. QED  BY <2>1, <2>2
<1>7. /\ hooks' # <<>>
      /\ \A i \in 1..Len(hooks') : hooks'[i].kind # "calendar"
      /\ \A i \in Flushes(hooks) : i \in Flushes(hooks') /\ hooks'[i] = hooks[i]
      /\ \E i \in Flushes(hooks') : hooks'[i].task = t
  <2>1. /\ hooks' # <<>>
        /\ \A i \in 1..Len(hooks) : i \in 1..Len(hooks') /\ hooks'[i] = hooks[i]
        /\ \A i \in 1..Len(hooks') :
               i \notin 1..Len(hooks) => hooks'[i] \in {Hook("flush", t), Hook("feed", t)}
        /\ Registry[t].event = NoEvent =>
               \E i \in 1..Len(hooks') : hooks'[i] = Hook("flush", t)
    BY SaveHooks DEF Announcing
  <2>2. \A i \in 1..Len(hooks') : hooks'[i].kind # "calendar"
    BY <2>1 DEF PlainBlock, Hook
  <2>3. \A i \in Flushes(hooks) : i \in Flushes(hooks') /\ hooks'[i] = hooks[i]
    BY <2>1 DEF Flushes
  <2>4. \E i \in Flushes(hooks') : hooks'[i].task = t
    <3>1. CASE Registry[t].event # NoEvent
      <4>1. owed[t] # NoEvent
        BY <1>5, <3>1
      <4>2. PICK i \in Flushes(hooks) : hooks[i].task = t
        BY <1>6, <4>1
      <4>. QED  BY <2>3, <4>2
    <3>2. CASE Registry[t].event = NoEvent
      <4>1. PICK i \in 1..Len(hooks') : hooks'[i] = Hook("flush", t)
        BY <2>1, <3>2
      <4>. QED  BY <4>1 DEF Flushes, Hook
    <3>. QED  BY <3>1, <3>2
  <2>. QED  BY <2>1, <2>2, <2>3, <2>4
<1>8. ASSUME NEW u \in Tasks
      PROVE  /\ pending'[u].event = owed'[u]
             /\ owed'[u] # NoEvent => /\ pending'[u].version = task'[u].version
                                      /\ \E i \in Flushes(hooks') : hooks'[i].task = u
  <2>1. CASE u = t
    <3>1. /\ pending'[u].event = Higher(Registry[t].event, event)
          /\ pending'[u].version = saves + 1
      BY <1>3, <1>4, <2>1
    <3>2. owed'[u] = Higher(owed[t], event) /\ task'[u].version = saves + 1
      BY <1>1, <1>2, <2>1 DEF Rows
    <3>. QED  BY <1>5, <1>7, <2>1, <3>1, <3>2
  <2>2. CASE u # t
    <3>1. pending'[u] = Registry[u] /\ owed'[u] = owed[u] /\ task'[u] = task[u]
      BY <1>1, <1>2, <1>3, <1>4, <2>2 DEF Rows
    <3>. QED  BY <1>5, <1>6, <1>7, <3>1
  <2>. QED  BY <2>1, <2>2
<1>. QED  BY <1>7, <1>8 DEF PlainBlock

\* A draft is nobody's event, and nothing is owed for one.
LEMMA PlainDraft ==
    ASSUME Announcing, PlainBlock, Atomic, NEW t \in Tasks, SaveDraft(t)
    PROVE  PlainBlock'
<1>1. /\ task' = [task EXCEPT ![t] = [stage |-> "draft", version |-> saves + 1]]
      /\ owed' = [owed EXCEPT ![t] = Higher(owed[t], NoEvent)]
      /\ UNCHANGED <<pending, hooks>>
      /\ task[t].stage # "real"
  BY DEF SaveDraft, Write
<1>2. /\ task \in Rows /\ owed \in [Tasks -> Ranks] /\ hooks \in Seq(HookRow)
  BY DEF Announcing, Owing, Registering, Enqueueing, TypeOK, Rows, Ranks
<1>3. owed' = owed
  <2>1. \A r \in Ranks : Higher(r, NoEvent) = r
    BY DEF Higher, Ranks, Events, NoEvent, Updated, Completed, Created
  <2>2. Higher(owed[t], NoEvent) = owed[t]
    BY <1>2, <2>1
  <2>. QED  BY <1>1, <1>2, <2>2
<1>4. owed[t] = NoEvent
  <2>1. CASE hooks = <<>>
    BY <2>1 DEF PlainBlock, Nobody
  <2>2. CASE hooks # <<>>
    <3>1. SUFFICES ASSUME owed[t] # NoEvent PROVE FALSE
      OBVIOUS
    <3>2. PICK i \in Flushes(hooks) : hooks[i].task = t
      BY <2>2, <3>1 DEF PlainBlock
    <3>. QED  BY <1>1, <3>2 DEF Announcing, Owing, Owes
  <2>. QED  BY <2>1, <2>2
<1>5. \A u \in Tasks : u # t => task'[u] = task[u]
  BY <1>1, <1>2 DEF Rows
<1>. QED  BY <1>1, <1>3, <1>4, <1>5 DEF PlainBlock

\* The callbacks of a plain transaction, one after the other.
LEMMA PlainHook ==
    ASSUME Announcing, Enqueueing', PlainRest, RunHook
    PROVE  PlainRest'
<1>1. /\ 1 \in 1..Len(running) /\ Head(running) = running[1] /\ running[1] \in HookRow
      /\ Len(running) \in Nat /\ Len(running') = Len(running) - 1
      /\ \A i \in 1..Len(running') : i + 1 \in 1..Len(running) /\ running'[i] = running[i + 1]
  <2>1. Registering
    BY DEF Announcing, Owing
  <2>2. Len(running) \in Nat
    BY <2>1 DEF Registering
  <2>. QED  BY <2>1, <2>2, RunHookRow
<1>2. UNCHANGED <<task, due>>
  BY DEF RunHook
<1>3. PICK u \in Tasks : u = running[1].task
  BY <1>1 DEF HookRow
<1>4. \/ running[1].kind = "flush" /\ Flush(u)
      \/ running[1].kind # "flush" /\ UNCHANGED <<pending, sent>>
  BY <1>1, <1>3 DEF RunHook, PlainRest
<1>5. pending \in [Tasks -> [event : Ranks, version : 0..MaxSaves]]
  BY DEF Announcing, Owing, Registering, Enqueueing, TypeOK, Ranks
<1>6. sent \subseteq sent'
  BY <1>4 DEF Flush
<1>7. \A i \in 1..Len(running') : running'[i].kind # "calendar"
  BY <1>1 DEF PlainRest
<1>8. ASSUME NEW i \in Flushes(running), i # 1
      PROVE  i - 1 \in Flushes(running') /\ running'[i - 1] = running[i]
  <2>1. i - 1 \in 1..Len(running') /\ (i - 1) + 1 = i
    BY <1>1, <1>8 DEF Flushes
  <2>. QED  BY <1>1, <1>8, <2>1 DEF Flushes
<1>9. ASSUME NEW t \in Tasks, due'[t] # NoEvent
      PROVE  \/ Sent(t)'
             \/ /\ pending'[t] = [event |-> due'[t], version |-> task'[t].version]
                /\ \E i \in Flushes(running') : running'[i].task = t
  <2>1. CASE Sent(t)
    BY <1>2, <1>6, <2>1 DEF Sent
  <2>2. CASE /\ pending[t] = [event |-> due[t], version |-> task[t].version]
             /\ \E i \in Flushes(running) : running[i].task = t
    <3>1. CASE t = u /\ running[1].kind = "flush" /\ Flush(u)
      <4>1. pending[u] # NoEntry
        BY <1>2, <1>9, <2>2, <3>1 DEF NoEntry
      <4>2. [task |-> u, event |-> pending[u].event, version |-> pending[u].version] \in sent'
        BY <3>1, <4>1 DEF Flush
      <4>3. pending[u].event = due[u] /\ pending[u].version = task[u].version
        BY <2>2, <3>1
      <4>. QED  BY <1>2, <3>1, <4>2, <4>3 DEF Sent
    <3>2. CASE t # u \/ running[1].kind # "flush"
      <4>1. PICK i \in Flushes(running) : running[i].task = t
        BY <2>2
      <4>2. i # 1
        BY <1>3, <3>2, <4>1 DEF Flushes
      <4>3. i - 1 \in Flushes(running') /\ running'[i - 1].task = t
        BY <1>8, <4>1, <4>2
      <4>4. pending'[t] = pending[t]
        BY <1>4, <1>5, <3>2 DEF Flush
      <4>. QED  BY <1>2, <2>2, <4>3, <4>4
    <3>. QED  BY <1>4, <3>1, <3>2
  <2>. QED  BY <1>2, <1>9, <2>1, <2>2 DEF PlainRest
<1>. QED  BY <1>7, <1>9 DEF PlainRest

LEMMA AnnouncingStep == Announcing /\ [Next]_vars => Announcing'
<1>. SUFFICES ASSUME Announcing, [Next]_vars PROVE Announcing'
  OBVIOUS
<1>o. Owing /\ Owing' /\ Enqueueing'
  BY OwingStep DEF Announcing, Owing, Registering
<1>t. /\ stack \in Seq(Frame) /\ Len(stack) \in Nat /\ hooks \in Seq(HookRow)
      /\ plain \in BOOLEAN
      /\ Atomic => running = <<>>
      /\ ~Atomic => hooks = <<>>
  BY <1>o DEF Owing, Registering, Enqueueing, TypeOK, Atomic
<1>1. ASSUME NEW t \in Tasks, NEW event \in Events,
             Write(t, "real", event), Schedule(t, event, saves + 1), Bump(Scheduled(t), t)
      PROVE  Announcing'
  <2>1. stack' = stack /\ (plain' => plain /\ Atomic)
    BY <1>1, <1>t DEF Write
  <2>2. plain' => PlainBlock'
    BY <1>o, <1>1, <2>1, PlainSave DEF Announcing
  <2>. QED  BY <1>o, <2>1, <2>2 DEF Announcing, Atomic
<1>2. CASE \E t \in Tasks : Insert(t) \/ (\E e \in {Updated, Completed} : Edit(t, e))
  BY <1>1, <1>2 DEF Insert, Edit, Events
<1>3. CASE \E t \in Tasks : SaveDraft(t)
  <2>1. PICK t \in Tasks : SaveDraft(t)
    BY <1>3
  <2>2. stack' = stack /\ (plain' => plain /\ Atomic)
    BY <2>1, <1>t DEF SaveDraft, Write
  <2>3. plain' => PlainBlock'
    BY <2>1, <2>2, PlainDraft DEF Announcing
  <2>. QED  BY <1>o, <2>2, <2>3 DEF Announcing, Atomic
<1>4. CASE \E t \in Tasks : Finalize(t) \/ \E kind \in {"calendar", "other"} : OtherHook(kind, t)
  <2>1. CASE \E t \in Tasks : Finalize(t)
    <3>1. plain' = FALSE
      BY <2>1 DEF Finalize, Write
    <3>. QED  BY <1>o, <3>1 DEF Announcing
  <2>2. CASE \E t \in Tasks, kind \in {"calendar", "other"} : OtherHook(kind, t)
    <3>1. PICK t \in Tasks, kind \in {"calendar", "other"} : OtherHook(kind, t)
      BY <2>2
    <3>2. /\ Atomic /\ hooks' = Append(hooks, Hook(kind, t))
          /\ plain' = (plain /\ kind = "other" /\ hooks # <<>>)
          /\ UNCHANGED <<task, stack, pending, running, owed>>
      BY <3>1 DEF OtherHook
    <3>3. /\ Len(hooks) \in Nat /\ Len(hooks') = Len(hooks) + 1
          /\ \A i \in 1..Len(hooks) : hooks'[i] = hooks[i]
          /\ hooks'[Len(hooks) + 1] = Hook(kind, t)
          /\ Flushes(hooks') = Flushes(hooks)
      BY <1>o, <3>2, RegisteringAppend DEF Owing
    <3>4. ASSUME PlainBlock, kind = "other", hooks # <<>> PROVE PlainBlock'
      <4>1. \A i \in 1..Len(hooks') : hooks'[i].kind # "calendar"
        BY <3>3, <3>4 DEF PlainBlock, Hook
      <4>2. \A i \in Flushes(hooks) : hooks'[i] = hooks[i]
        BY <3>3 DEF Flushes
      <4>3. hooks' # <<>>
        BY <3>3
      <4>4. \A u \in Tasks : (\E i \in Flushes(hooks) : hooks[i].task = u)
                             => \E i \in Flushes(hooks') : hooks'[i].task = u
        BY <3>3, <4>2
      <4>. QED  BY <3>2, <3>4, <4>1, <4>3, <4>4 DEF PlainBlock
    <3>. QED  BY <1>o, <3>2, <3>4 DEF Announcing, Atomic
  <2>. QED  BY <1>4, <2>1, <2>2
<1>5. CASE Begin
  <2>1. Len(stack') = Len(stack) + 1 /\ UNCHANGED <<task, pending, hooks, owed>>
    BY <1>t, <1>5 DEF Begin
  <2>2. Atomic'
    <3>1. Len(<<>>) = 0
      OBVIOUS
    <3>. QED  BY <1>t, <2>1, <3>1 DEF Atomic
  <2>3. CASE Atomic
    <3>1. plain' = plain
      BY <1>5, <2>3 DEF Begin
    <3>. QED  BY <1>o, <2>1, <2>2, <2>3, <3>1 DEF Announcing, PlainBlock
  <2>4. CASE ~Atomic
    <3>1. hooks' = <<>> /\ owed' = Nobody /\ Len(<<>>) = 0
      BY <1>t, <1>o, <2>1, <2>4 DEF Owing, Outermost
    <3>2. PlainBlock'
      BY <3>1 DEF PlainBlock, Nobody
    <3>. QED  BY <1>o, <2>2, <3>2 DEF Announcing
  <2>. QED  BY <2>3, <2>4
<1>6. CASE Release
  <2>1. Len(stack) > 1 /\ stack # <<>> /\ UNCHANGED <<task, pending, owed, plain>>
    BY <1>t, <1>6 DEF Release
  <2>2. Len(stack') = Len(stack) - 1
    BY <1>t, <1>6, <2>1, OuterBlocks DEF Release
  <2>3. Atomic' /\ Atomic
    BY <1>t, <2>1, <2>2 DEF Atomic
  <2>4. /\ DOMAIN hooks = 1..Len(hooks) /\ Len(hooks) \in Nat
        /\ \A i \in 1..Len(hooks) : hooks[i] \in HookRow
    BY <1>t
  <2>5. hooks' = [i \in 1..Len(hooks) |-> [hooks[i] EXCEPT !.depth =
                      IF @ < Len(stack) THEN @ ELSE Len(stack) - 1]]
    BY <1>6, <2>4 DEF Release
  <2>6. Len(hooks') = Len(hooks)
    BY <1>o, <2>4, <2>5 DEF Owing, Registering
  <2>7. \A i \in 1..Len(hooks) : hooks'[i].kind = hooks[i].kind /\ hooks'[i].task = hooks[i].task
    BY <2>4, <2>5 DEF HookRow
  <2>8. hooks' = <<>> <=> hooks = <<>>
    BY <1>o, <1>t, <2>6 DEF Owing, Registering
  <2>9. PlainBlock => PlainBlock'
    <3>1. Flushes(hooks') = Flushes(hooks) /\ Flushes(hooks) \subseteq 1..Len(hooks)
      BY <2>6, <2>7 DEF Flushes
    <3>. QED  BY <2>1, <2>6, <2>7, <2>8, <3>1 DEF PlainBlock
  <2>. QED  BY <1>o, <2>1, <2>3, <2>9 DEF Announcing
<1>7. CASE Commit
  <2>1. /\ Len(stack) = 1 /\ stack' = <<>> /\ running' = hooks /\ due' = owed
        /\ UNCHANGED <<task, pending, sent, plain>>
    BY <1>7 DEF Commit
  <2>2. Atomic /\ ~Atomic'
    BY <1>t, <2>1 DEF Atomic
  <2>3. PlainBlock => PlainRest'
    <3>1. SUFFICES ASSUME PlainBlock PROVE PlainRest'
      OBVIOUS
    <3>2. pending \in [Tasks -> [event : Ranks, version : 0..MaxSaves]]
      BY <1>o DEF Owing, Registering, Enqueueing, TypeOK, Ranks
    <3>3. ASSUME NEW t \in Tasks, owed[t] # NoEvent
          PROVE  /\ pending[t] = [event |-> owed[t], version |-> task[t].version]
                 /\ \E i \in Flushes(hooks) : hooks[i].task = t
      <4>1. hooks # <<>>
        BY <3>1, <3>3 DEF PlainBlock, Nobody
      <4>2. /\ pending[t].event = owed[t] /\ pending[t].version = task[t].version
            /\ \E i \in Flushes(hooks) : hooks[i].task = t
        BY <3>1, <3>3, <4>1 DEF PlainBlock
      <4>. QED  BY <3>2, <4>2
    <3>. QED  BY <2>1, <3>1, <3>3 DEF PlainBlock, PlainRest
  <2>. QED  BY <1>o, <2>1, <2>2, <2>3 DEF Announcing
<1>8. CASE Rollback
  <2>1. /\ Atomic /\ stack' = Front(stack) /\ running' = running /\ due' = due
        /\ plain' = (plain /\ Len(stack) = 1)
    BY <1>8 DEF Rollback
  <2>2. SUFFICES ASSUME plain' PROVE PlainRest' /\ ~Atomic'
    BY <1>o DEF Announcing
  <2>3. Len(stack') = 0 /\ stack' \in Seq(Frame)
    <3>1. /\ Len(Front(stack)) = Len(stack) - 1
          /\ Front(stack) \in Seq(Frame)
      BY <1>t, <2>1, OuterBlocks DEF Atomic
    <3>2. Len(stack) = 1
      BY <2>1, <2>2
    <3>. QED  BY <2>1, <3>1, <3>2
  <2>4. running' = <<>> /\ Len(<<>>) = 0 /\ due' = Nobody
    BY <1>t, <1>o, <2>1 DEF Owing, Outermost
  <2>5. stack' = <<>>
    BY <2>3
  <2>. QED  BY <2>4, <2>5 DEF PlainRest, Atomic, Nobody
<1>9. CASE RunHook
  <2>1. ~Atomic /\ stack' = stack /\ plain' = plain
    <3>1. ~Atomic /\ stack' = stack
      BY <1>9, <1>o, RunHookRow DEF Owing
    <3>. QED  BY <1>9, <3>1 DEF RunHook
  <2>2. plain => PlainRest'
    BY <1>9, <1>o, <2>1, PlainHook DEF Announcing
  <2>. QED  BY <1>o, <2>1, <2>2 DEF Announcing, Atomic
<1>10. CASE UNCHANGED vars
  <2>1. UNCHANGED <<task, stack, pending, hooks, running, sent, owed, due, plain>>
    BY <1>10 DEF vars
  <2>2. (PlainBlock => PlainBlock') /\ (PlainRest => PlainRest') /\ (Atomic' <=> Atomic)
    BY <2>1 DEF PlainBlock, PlainRest, Sent, Atomic
  <2>. QED  BY <1>o, <2>1, <2>2 DEF Announcing
<1>. QED  BY <1>2, <1>3, <1>4, <1>5, <1>6, <1>7, <1>8, <1>9, <1>10 DEF Next

\* When the callbacks of a plain transaction are through, every task it changed has
\* been announced as it is and under its most specific event, whatever happened on the
\* connection before.
THEOREM PlainIsAnnounced == Spec => []PlainChangeIsAnnounced
<1>1. Announcing => PlainChangeIsAnnounced
  <2>1. SUFFICES ASSUME Announcing, plain, Quiet, NEW t \in Tasks, due[t] # NoEvent
                 PROVE  Sent(t)
    BY DEF PlainChangeIsAnnounced, EveryChangeIsAnnounced, Sent
  <2>2. ~Atomic /\ running = <<>> /\ Len(<<>>) = 0
    BY <2>1 DEF Quiet, Atomic
  <2>3. PlainRest
    BY <2>1, <2>2 DEF Announcing
  <2>4. Flushes(running) = {}
    BY <2>2 DEF Flushes
  <2>. QED  BY <2>1, <2>3, <2>4 DEF PlainRest
<1>. QED  BY <1>1, AnnouncingInit, AnnouncingStep, PTL DEF Spec
=============================================================================
