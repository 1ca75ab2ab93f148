-------------------------- MODULE TaskBlockingProofs --------------------------
(***************************************************************************)
(* What the automation promises of the status "Blocked", for any tasks and *)
(* dependencies, any number of requests at a time and of requests sent.    *)
(***************************************************************************)
EXTENDS TaskBlocking, TLAPS

Deciding == {"count", "stash", "write"}

\* Tasks whose dependencies a request's transaction removes, or whose status it
\* has written.
Touched(r) ==
    {t \in Tasks : (\E x \in Tasks : <<x, t>> \in req[r].drop) \/ req[r].dirty[t] # Clean}

\* A request sees an open blocker of t.
Sees(r, t) == \E x \in Tasks : <<x, t>> \in SeenEdges(r) /\ IsBlocking(SeenStatus(r, x))

\* Neither t nor a blocker of it was changed under a request.
Calm(E, t) == t \notin raced /\ \A x \in Tasks : <<x, t>> \in E => x \notin raced

Judges(r, t) == req[r].at \in Deciding /\ req[r].by = "sync" /\ req[r].task = t

InTodo(todo, t) == \E i \in DOMAIN todo : t \in todo[i]

\* Request r has still to sync t, or is at it.
Owes(r, t) ==
    \/ InTodo(req[r].todo, t)
    \/ Judges(r, t)
    \/ req[r].at = "list" /\ <<req[r].task, t>> \in SeenEdges(r)

AgreesTo(r, t) ==
    /\ SeenStatus(r, t) = "Blocked" => Sees(r, t)
    /\ Sees(r, t) => SeenStatus(r, t) \in {"Blocked", "Closed"}

\* What the fields of a request say of each other.
WellFormed(r) ==
    /\ req[r].at = "idle" => req[r] = Idle
    /\ req[r].at = "insert" =>
          ~req[r].tx /\ req[r].op = "add" /\ req[r].todo = <<>> /\ req[r].edge \in Pairs
    /\ ~req[r].tx => /\ req[r].drop = {} /\ req[r].gone = {}
                     /\ \A t \in Tasks : req[r].dirty[t] = Clean
    /\ req[r].tx => req[r].op \in {"drop", "delete"}
    /\ \A t \in Tasks : req[r].dirty[t] \in {Clean, "Open", "Blocked"}
    /\ req[r].at = "count" => req[r].by = "sync"
    /\ req[r].at \in Deciding =>
          /\ req[r].task \in Tasks
          /\ req[r].seen \in Statuses
          /\ req[r].by \in {"sync", "member"}
    /\ req[r].at = "list" => req[r].task \in Tasks
    /\ req[r].at \in {"stash", "write"} /\ req[r].by = "sync" =>
          \/ req[r].seen \in {"Open", "WIP"} /\ req[r].to = "Blocked"
          \/ req[r].seen = "Blocked" /\ req[r].to = "Open"
    /\ req[r].at \in {"stash", "write"} /\ req[r].by = "member" =>
          /\ ~req[r].tx
          /\ req[r].task = req[r].subject
          /\ req[r].to \in Statuses
          /\ req[r].want = Same => req[r].to = req[r].seen
          /\ req[r].op = "close" => req[r].to = "Closed"

\* What a sync has read still stands, but that another request that closes
\* blockers may have opened the task; and it counted rightly.
Judged(r) ==
    \A t \in Tasks \ raced : Judges(r, t) =>
        /\ \/ SeenStatus(r, t) = req[r].seen
           \/ ~req[r].tx /\ req[r].seen = "Blocked" /\ SeenStatus(r, t) = "Open"
        /\ req[r].at # "count" /\ (req[r].tx \/ req[r].to = "Blocked") =>
              (Sees(r, t) <=> req[r].to = "Blocked")
        /\ req[r].at = "write" => IsBlocking(req[r].prev)
        /\ Calm(SeenEdges(r), t) =>
              /\ SeenStatus(r, t) = req[r].seen \/ ~Sees(r, t)
              /\ req[r].at # "count" /\ req[r].to = "Open" => ~Sees(r, t)

\* What a member's save has read still stands.
Saving(r) ==
    req[r].at \in {"stash", "write"} /\ req[r].by = "member" /\ req[r].task \notin raced =>
        /\ status[req[r].task] = req[r].seen
        /\ req[r].at = "write" => req[r].prev = req[r].seen

\* What a transaction has written and not committed.
Written(r) ==
    \A t \in Tasks \ raced : req[r].dirty[t] # Clean =>
        /\ \/ status[t] \in {"Open", "WIP"} /\ req[r].dirty[t] = "Blocked"
           \/ status[t] = "Blocked"
        /\ req[r].dirty[t] = "Blocked" => Sees(r, t)

\* A transaction has synced what it touched, or will.
Kept(r) ==
    req[r].tx => \A t \in Touched(r) :
        Calm(SeenEdges(r), t) /\ SeenStatus(r, t) # "Gone" => AgreesTo(r, t) \/ Owes(r, t)

EdgesHaveRows == \A e \in edges : status[e[1]] # "Gone" /\ status[e[2]] # "Gone"

Opens(t) == \E x \in Tasks : <<x, t>> \in edges /\ IsBlocking(status[x])

Settled(t) == IF status[t] = "Blocked" THEN Opens(t) ELSE Opens(t) => status[t] = "Closed"

\* A task that nothing disturbed agrees with its blockers, or some request has
\* still to sync it.
Settling ==
    \A t \in Tasks \ byHand :
        Calm(edges, t) /\ status[t] # "Gone" =>
            Settled(t) \/ \E r \in Requests : ~req[r].tx /\ Owes(r, t)

\* The types, but for the history `shut`.
Rows ==
    /\ status \in [Tasks -> Statuses \cup {"Gone"}]
    /\ edges \subseteq Pairs
    /\ req \in [Requests -> Request]
    /\ sent \in 0..MaxRequests
    /\ byHand \subseteq Tasks /\ raced \subseteq Tasks
    /\ \A q, r \in Requests : q # r =>
          \A t \in Tasks : Clean \in {req[q].dirty[t], req[r].dirty[t]}

Typed == Rows /\ \A r \in Requests : WellFormed(r)

\* The inductive invariant.
Blocking ==
    /\ Typed
    /\ \A r \in Requests : Judged(r) /\ Saving(r) /\ Written(r) /\ Kept(r)
    /\ EdgesHaveRows
    /\ Settling

-----------------------------------------------------------------------------
(* Sequences of sets of tasks *)

Todos == Seq((SUBSET Tasks) \ {{}})

LEMMA EmptyTodo == /\ <<>> \in Todos
                   /\ \A t : ~InTodo(<<>>, t)
<1>1. <<>> \in Todos
  <2>. DEFINE T == (SUBSET Tasks) \ {{}}
  <2>1. <<>> \in Seq(T)
    OBVIOUS
  <2>. QED  BY <2>1 DEF Todos
<1>2. DOMAIN <<>> = {}
  OBVIOUS
<1>. QED  BY <1>1, <1>2 DEF InTodo

LEMMA OneTodo ==
    ASSUME NEW S \in SUBSET Tasks, S # {}
    PROVE  /\ <<S>> \in Todos
           /\ \A t \in S : InTodo(<<S>>, t)
<1>1. <<S>> \in Todos
  <2>. DEFINE T == (SUBSET Tasks) \ {{}}
  <2>1. S \in T
    OBVIOUS
  <2>2. <<S>> \in Seq(T)
    BY <2>1
  <2>. QED  BY <2>2 DEF Todos
<1>2. DOMAIN <<S>> = {1} /\ <<S>>[1] = S
  OBVIOUS
<1>. QED  BY <1>1, <1>2 DEF InTodo

\* Putting a set in front keeps what was there.
LEMMA FrontTodo ==
    ASSUME NEW todo \in Todos, NEW S \in SUBSET Tasks, S # {}
    PROVE  /\ <<S>> \o todo \in Todos
           /\ \A t : InTodo(<<S>> \o todo, t) <=> t \in S \/ InTodo(todo, t)
<1>. DEFINE new == <<S>> \o todo
<1>1. new \in Todos /\ DOMAIN new = 1..(Len(todo) + 1)
  BY DEF Todos
<1>2. new[1] = S /\ \A i \in 1..Len(todo) : new[i + 1] = todo[i]
  BY DEF Todos
<1>3. Len(todo) \in Nat /\ DOMAIN todo = 1..Len(todo)
  BY DEF Todos
<1>. HIDE DEF new
<1>4. ASSUME NEW t, InTodo(new, t) PROVE t \in S \/ InTodo(todo, t)
  <2>1. PICK i \in 1..(Len(todo) + 1) : t \in new[i]
    BY <1>1, <1>4 DEF InTodo
  <2>2. CASE i = 1
    BY <2>1, <2>2, <1>2
  <2>3. CASE i # 1
    <3>1. i - 1 \in 1..Len(todo) /\ i = (i - 1) + 1
      BY <2>1, <2>3, <1>3
    <3>2. t \in todo[i - 1]
      BY <3>1, <2>1, <1>2
    <3>. QED  BY <3>1, <3>2, <1>3 DEF InTodo
  <2>. QED  BY <2>2, <2>3
<1>5. ASSUME NEW t, t \in S \/ InTodo(todo, t) PROVE InTodo(new, t)
  <2>1. CASE t \in S
    BY <2>1, <1>1, <1>2, <1>3, 1 \in 1..(Len(todo) + 1) DEF InTodo
  <2>2. CASE InTodo(todo, t)
    <3>1. PICK i \in 1..Len(todo) : t \in todo[i]
      BY <2>2, <1>3 DEF InTodo
    <3>2. i + 1 \in 1..(Len(todo) + 1) /\ t \in new[i + 1]
      BY <3>1, <1>2, <1>3
    <3>. QED  BY <3>2, <1>1 DEF InTodo
  <2>. QED  BY <1>5, <2>1, <2>2
<1>. QED  BY <1>1, <1>4, <1>5 DEF new

\* What is left to do once t is taken from the first set.
Without(todo, t) ==
    LET rest == Head(todo) \ {t}
    IN IF rest = {} THEN Tail(todo) ELSE <<rest>> \o Tail(todo)

LEMMA TakeTodo ==
    ASSUME NEW todo \in Todos, todo # <<>>, NEW t \in Head(todo)
    PROVE  /\ t \in Tasks
           /\ Without(todo, t) \in Todos
           /\ \A u : InTodo(todo, u) => u = t \/ InTodo(Without(todo, t), u)
<1>1. Head(todo) \in SUBSET Tasks /\ Tail(todo) \in Todos /\ Len(todo) \in Nat \ {0}
  BY DEF Todos
<1>. DEFINE rest == Head(todo) \ {t}
<1>2. ASSUME NEW u, InTodo(todo, u), u # t PROVE u \in rest \/ InTodo(Tail(todo), u)
  <2>1. PICK i \in 1..Len(todo) : u \in todo[i]
    BY <1>2 DEF InTodo, Todos
  <2>2. CASE i = 1
    BY <2>1, <2>2, <1>2
  <2>3. CASE i # 1
    <3>1. i - 1 \in 1..Len(Tail(todo)) /\ Tail(todo)[i - 1] = todo[i]
      BY <2>1, <2>3, <1>1 DEF Todos
    <3>2. DOMAIN Tail(todo) = 1..Len(Tail(todo))
      BY <1>1 DEF Todos
    <3>. QED  BY <3>1, <3>2, <2>1 DEF InTodo
  <2>. QED  BY <2>2, <2>3
<1>3. CASE rest = {}
  <2>1. Without(todo, t) = Tail(todo)
    BY <1>3 DEF Without
  <2>. QED  BY <2>1, <1>1, <1>2, <1>3
<1>4. CASE rest # {}
  <2>1. Without(todo, t) = <<rest>> \o Tail(todo)
    BY <1>4 DEF Without
  <2>2. rest \in SUBSET Tasks
    BY <1>1
  <2>3. /\ <<rest>> \o Tail(todo) \in Todos
        /\ \A u : InTodo(<<rest>> \o Tail(todo), u) <=> u \in rest \/ InTodo(Tail(todo), u)
    BY <1>1, <1>4, <2>2, FrontTodo
  <2>. QED  BY <2>1, <2>3, <1>1, <1>2
<1>. QED  BY <1>3, <1>4

-----------------------------------------------------------------------------
(* Types, and the shape of a request *)

LEMMA IdleTyped ==
    /\ Idle \in Request
    /\ Idle.at = "idle" /\ ~Idle.tx /\ Idle.drop = {} /\ Idle.gone = {}
    /\ Idle.todo = <<>> /\ \A t \in Tasks : Idle.dirty[t] = Clean
<1>1. <<>> \in Seq((SUBSET Tasks) \ {{}})
  BY EmptyTodo DEF Todos
<1>2. [t \in Tasks |-> Clean] \in [Tasks -> Statuses \cup {Clean}]
  OBVIOUS
<1>. QED  BY <1>1, <1>2 DEF Idle, Request, Same, None

\* What is known of the fields of a request.
LEMMA Fields ==
    ASSUME Typed, NEW r \in Requests
    PROVE  /\ req[r] \in Request
           /\ req[r].drop \subseteq Pairs /\ req[r].gone \subseteq Tasks
           /\ req[r].dirty \in [Tasks -> Statuses \cup {Clean}]
           /\ req[r].tx \in BOOLEAN /\ req[r].todo \in Todos
           /\ req[r].seen \in Statuses \cup {"Gone", None}
           /\ req[r].to \in Statuses \cup {None}
           /\ req[r].want \in Statuses \cup {Same, None}
           /\ status \in [Tasks -> Statuses \cup {"Gone"}]
           /\ edges \subseteq Pairs /\ WellFormed(r)
BY DEF Typed, Rows, Request, Todos

LEMMA EdgeEnds ==
    ASSUME NEW e \in Pairs
    PROVE  e[1] \in Tasks /\ e[2] \in Tasks /\ e = <<e[1], e[2]>> /\ e[1] # e[2]
BY DEF Pairs

LEMMA ChangedTyped ==
    ASSUME edges \subseteq Pairs, edges' \subseteq Pairs
    PROVE  Changed \subseteq Tasks
<1>1. \A e \in edges \cup edges' : e[2] \in Tasks
  BY EdgeEnds
<1>. QED  BY <1>1 DEF Changed, Dependents

\* A step of r changes r's request alone.
LEMMA TypedStep ==
    ASSUME Typed, NEW r \in Requests, NEW now \in Request, req' = [req EXCEPT ![r] = now],
           \A q \in Requests \ {r} : \A t \in Tasks : Clean \in {req[q].dirty[t], now.dirty[t]},
           WellFormed(r)',
           status' \in [Tasks -> Statuses \cup {"Gone"}], edges' \subseteq Pairs,
           sent' \in 0..MaxRequests, byHand' \subseteq Tasks, raced' \subseteq Tasks
    PROVE  Typed'
<1>1. req \in [Requests -> Request]
  BY DEF Typed, Rows
<1>2. req' \in [Requests -> Request] /\ req'[r] = now
  BY <1>1
<1>3. \A q \in Requests \ {r} : req'[q] = req[q]
  BY <1>1
<1>4. \A p, q \in Requests : p # q =>
          \A t \in Tasks : Clean \in {req'[p].dirty[t], req'[q].dirty[t]}
  BY <1>2, <1>3 DEF Typed, Rows
<1>5. \A q \in Requests : WellFormed(q)'
  <2>1. ASSUME NEW q \in Requests, q # r PROVE WellFormed(q)'
    <3>1. req'[q] = req[q] /\ WellFormed(q)
      BY <2>1, <1>3 DEF Typed
    <3>. QED  BY <3>1 DEF WellFormed, Idle
  <2>. QED  BY <2>1
<1>. QED  BY <1>2, <1>4, <1>5 DEF Typed, Rows

LEMMA TypedInit == Init => Typed
<1>. SUFFICES ASSUME Init PROVE Typed
  OBVIOUS
<1>1. \A r \in Requests : req[r] = Idle
  BY DEF Init
<1>2. edges \subseteq Pairs /\ status \in [Tasks -> Statuses \cup {"Gone"}]
  BY DEF Init, Statuses
<1>3. \A r \in Requests : WellFormed(r)
  BY <1>1, IdleTyped DEF WellFormed, Deciding
<1>4. \A q, r \in Requests : \A t \in Tasks : Clean \in {req[q].dirty[t], req[r].dirty[t]}
  BY <1>1, IdleTyped
<1>5. req \in [Requests -> Request]
  BY IdleTyped DEF Init
<1>6. 0 \in 0..MaxRequests
  BY BlockingAssumption
<1>. QED  BY <1>2, <1>3, <1>4, <1>5, <1>6 DEF Typed, Rows, Init

\* A step that ends in a well formed request without a new row to its name.
LEMMA TypedGoes ==
    ASSUME Typed, NEW r \in Requests, NEW now \in Request, Goes(r, now),
           \A t \in Tasks : now.dirty[t] \in {Clean, req[r].dirty[t]},
           WellFormed(r)',
           UNCHANGED <<status, edges>>,
           sent' \in 0..MaxRequests, byHand' \subseteq Tasks, raced' \subseteq Tasks
    PROVE  Typed'
<1>1. \A q \in Requests \ {r} : \A t \in Tasks : Clean \in {req[q].dirty[t], now.dirty[t]}
  BY DEF Typed, Rows
<1>2. status' \in [Tasks -> Statuses \cup {"Gone"}] /\ edges' \subseteq Pairs
  BY DEF Typed, Rows
<1>. QED  BY <1>1, <1>2, TypedStep DEF Goes

LEMMA Went ==
    ASSUME Typed, NEW r \in Requests, NEW now, Goes(r, now)
    PROVE  /\ req'[r] = now
           /\ \A q \in Requests \ {r} : req'[q] = req[q]
BY DEF Goes, Typed, Rows

LEMMA SendTyped ==
    ASSUME Typed, NEW r \in Requests, NEW kind, Send(r, kind)
    PROVE  req[r] = Idle /\ sent' \in 0..MaxRequests
<1>1. req[r] = Idle
  BY Fields DEF Send, WellFormed
<1>2. sent \in 0..MaxRequests /\ sent < MaxRequests /\ sent' = sent + 1
  BY DEF Send, Typed, Rows
<1>. QED  BY <1>1, <1>2, BlockingAssumption

LEMMA HistoryTyped ==
    ASSUME Typed
    PROVE  byHand \subseteq Tasks /\ raced \subseteq Tasks /\ sent \in 0..MaxRequests
BY DEF Typed, Rows

LEMMA TypedPut ==
    ASSUME Typed, NEW r \in Requests, NEW t \in Tasks, NEW want \in Statuses \cup {Same},
           Put(r, t, want)
    PROVE  Typed'
<1>. DEFINE op == IF want = "Closed" THEN "close" ELSE "put"
            to == IF want = Same THEN status[t] ELSE want
            now == [Idle EXCEPT !.at = "stash", !.op = op,
                       !.subject = t, !.task = t, !.seen = status[t], !.by = "member",
                       !.want = want, !.to = to]
<1>1. Goes(r, now) /\ Send(r, "put") /\ status[t] # "Gone" /\ UNCHANGED <<status, edges, byHand, raced>>
  BY DEF Put
<1>2. status[t] \in Statuses
  BY <1>1 DEF Typed, Rows
<1>o. op \in {"put", "close"} /\ to \in Statuses
  BY <1>2
<1>s. /\ op = "close" => to = "Closed"
      /\ want = Same => to = status[t]
  BY DEF Same
<1>. HIDE DEF op, to
<1>3. now \in Request
  BY <1>2, <1>o, IdleTyped DEF Request, Idle
<1>4. /\ now.at = "stash" /\ now.task = t /\ now.subject = t /\ now.by = "member"
      /\ now.seen = status[t] /\ now.want = want /\ now.to = to /\ now.op = op
      /\ now.tx = FALSE /\ now.drop = {} /\ now.gone = {}
      /\ \A u \in Tasks : now.dirty[u] = Clean
  BY DEF Idle
<1>. HIDE DEF now
<1>5. req'[r] = now
  BY <1>1, Went
<1>6. WellFormed(r)'
  BY <1>2, <1>o, <1>s, <1>4, <1>5 DEF WellFormed, Deciding
<1>7. sent' \in 0..MaxRequests
  BY <1>1, SendTyped
<1>. QED  BY <1>1, <1>3, <1>4, <1>6, <1>7, TypedGoes, HistoryTyped DEF history

LEMMA TypedAdd ==
    ASSUME Typed, NEW r \in Requests, NEW e \in Pairs, Add(r, e)
    PROVE  Typed'
<1>. DEFINE now == [Idle EXCEPT !.at = "insert", !.op = "add", !.edge = e]
<1>1. Goes(r, now) /\ Send(r, "add") /\ UNCHANGED <<status, edges, byHand, raced>>
  BY DEF Add
<1>3. now \in Request
  BY IdleTyped DEF Request, Idle
<1>4. /\ now.at = "insert" /\ now.edge = e /\ now.op = "add" /\ now.todo = <<>>
      /\ now.tx = FALSE /\ now.drop = {} /\ now.gone = {}
      /\ \A u \in Tasks : now.dirty[u] = Clean
  BY DEF Idle
<1>. HIDE DEF now
<1>5. req'[r] = now
  BY <1>1, Went
<1>6. WellFormed(r)'
  BY <1>4, <1>5 DEF WellFormed, Deciding
<1>7. sent' \in 0..MaxRequests
  BY <1>1, SendTyped
<1>. QED  BY <1>1, <1>3, <1>4, <1>6, <1>7, TypedGoes, HistoryTyped DEF history

\* The start of a transaction that deletes.
LEMMA TypedDeletes ==
    ASSUME Typed, NEW r \in Requests, NEW op \in {"drop", "delete"}, NEW E \in SUBSET Pairs,
           NEW gone \in SUBSET Tasks, Send(r, op), Deletes(r, op, E, gone)
    PROVE  /\ Typed'
           /\ req'[r].at = "next" /\ req'[r].tx = TRUE /\ req'[r].drop = E
           /\ \A u \in Tasks : req'[r].dirty[u] = Clean
           /\ \A e \in E : InTodo(req'[r].todo, e[2])
<1>. DEFINE T == {e[2] : e \in E}
            todo == IF E = {} THEN <<>> ELSE <<T>>
            now == [Idle EXCEPT !.at = "next", !.op = op, !.tx = TRUE, !.drop = E,
                                !.gone = gone, !.todo = todo]
<1>1. Goes(r, now) /\ UNCHANGED <<status, edges, byHand, raced>>
  BY DEF Deletes
<1>2. todo \in Todos /\ \A e \in E : InTodo(todo, e[2])
  <2>1. CASE E = {}
    BY <2>1, EmptyTodo
  <2>2. CASE E # {}
    <3>1. T \in SUBSET Tasks /\ T # {}
      BY <2>2, EdgeEnds
    <3>. HIDE DEF T
    <3>2. <<T>> \in Todos /\ \A t \in T : InTodo(<<T>>, t)
      BY <3>1, OneTodo
    <3>3. \A e \in E : e[2] \in T
      BY DEF T
    <3>. QED  BY <2>2, <3>2, <3>3
  <2>. QED  BY <2>1, <2>2
<1>. HIDE DEF todo
<1>3. now \in Request
  BY <1>2, IdleTyped DEF Request, Idle, Todos
<1>4. /\ now.at = "next" /\ now.op = op /\ now.todo = todo
      /\ now.tx = TRUE /\ now.drop = E /\ now.gone = gone
      /\ \A u \in Tasks : now.dirty[u] = Clean
  BY DEF Idle
<1>. HIDE DEF now
<1>5. req'[r] = now
  BY <1>1, Went
<1>6. WellFormed(r)'
  BY <1>4, <1>5 DEF WellFormed, Deciding
<1>7. sent' \in 0..MaxRequests
  BY SendTyped
<1>8. Typed'
  BY <1>1, <1>3, <1>4, <1>6, <1>7, TypedGoes, HistoryTyped DEF history
<1>. QED  BY <1>2, <1>4, <1>5, <1>8

LEMMA DropDeletes ==
    ASSUME Typed, NEW r \in Requests,
           \/ \E e \in Pairs : Drop(r, e)
           \/ \E t \in Tasks : DeleteTask(r, t)
    PROVE  \E op \in {"drop", "delete"}, E \in SUBSET Pairs, gone \in SUBSET Tasks :
               Send(r, op) /\ Deletes(r, op, E, gone)
<1>1. ASSUME NEW e \in Pairs, Drop(r, e)
      PROVE  Send(r, "drop") /\ Deletes(r, "drop", {e}, {})
  BY <1>1 DEF Drop
<1>2. ASSUME NEW t \in Tasks, DeleteTask(r, t)
      PROVE  \E E \in SUBSET Pairs : Send(r, "delete") /\ Deletes(r, "delete", E, {t})
  <2>1. {e \in edges : t \in {e[1], e[2]}} \in SUBSET Pairs
    BY Fields
  <2>. QED  BY <1>2, <2>1 DEF DeleteTask
<1>. QED
  <2>1. CASE \E e \in Pairs : Drop(r, e)
    <3>1. PICK e \in Pairs : Drop(r, e)
      BY <2>1
    <3>2. {e} \in SUBSET Pairs /\ {} \in SUBSET Tasks
      OBVIOUS
    <3>. QED  BY <3>1, <3>2, <1>1
  <2>2. CASE \E t \in Tasks : DeleteTask(r, t)
    <3>1. PICK t \in Tasks : DeleteTask(r, t)
      BY <2>2
    <3>2. {t} \in SUBSET Tasks
      OBVIOUS
    <3>. QED  BY <3>1, <3>2, <1>2
  <2>. QED  BY <2>1, <2>2

\* The transaction of a request goes on as it was.
SameWork(r) ==
    /\ req'[r].tx = req[r].tx /\ req'[r].drop = req[r].drop /\ req'[r].gone = req[r].gone
    /\ req'[r].dirty = req[r].dirty /\ req'[r].op = req[r].op
    /\ req'[r].subject = req[r].subject

LEMMA WatchTyped ==
    ASSUME Typed, NEW r \in Requests, Watch(r), edges' \subseteq Pairs
    PROVE  raced' \subseteq Tasks
<1>1. Changed \subseteq Tasks
  BY Fields, ChangedTyped
<1>. QED  BY <1>1, HistoryTyped DEF Watch

LEMMA TypedIdle ==
    ASSUME Typed, NEW r \in Requests, Goes(r, Idle), UNCHANGED <<status, edges>>,
           sent' = sent, byHand' \subseteq Tasks, raced' \subseteq Tasks
    PROVE  Typed' /\ req'[r] = Idle
<1>1. req'[r] = Idle
  BY Went
<1>2. WellFormed(r)'
  BY <1>1, IdleTyped DEF WellFormed, Deciding, Idle
<1>. QED  BY <1>1, <1>2, IdleTyped, TypedGoes, HistoryTyped

LEMMA InsertShape ==
    ASSUME Typed, NEW r \in Requests, Insert(r)
    PROVE  /\ Typed' /\ byHand' = byHand /\ status' = status
           /\ ~req[r].tx /\ req[r].op = "add" /\ req[r].todo = <<>> /\ req[r].at = "insert"
           /\ \/ req'[r] = Idle /\ UNCHANGED <<edges, raced>>
              \/ /\ edges' = edges \cup {req[r].edge} /\ Watch(r)
                 /\ req[r].edge \in Pairs
                 /\ status[req[r].edge[1]] # "Gone" /\ status[req[r].edge[2]] # "Gone"
                 /\ ~req'[r].tx /\ req'[r].at = "next"
                 /\ InTodo(req'[r].todo, req[r].edge[2])
<1>. DEFINE e == req[r].edge
<1>1. /\ ~req[r].tx /\ req[r].op = "add" /\ req[r].todo = <<>> /\ req[r].at = "insert"
      /\ e \in Pairs /\ UNCHANGED <<sent, byHand>>
  BY Fields DEF Insert, WellFormed
<1>2. CASE e \in edges \/ status[e[1]] = "Gone" \/ status[e[2]] = "Gone"
  <2>1. Goes(r, Idle) /\ UNCHANGED <<status, edges, raced>>
    BY <1>2 DEF Insert
  <2>. QED  BY <1>1, <2>1, TypedIdle, HistoryTyped
<1>3. CASE ~(e \in edges \/ status[e[1]] = "Gone" \/ status[e[2]] = "Gone")
  <2>. DEFINE S == {e[2]}
              now == [Idle EXCEPT !.at = "next", !.op = "add", !.todo = <<S>>]
  <2>1. edges' = edges \cup {e} /\ status' = status /\ Goes(r, now) /\ Watch(r)
    BY <1>3 DEF Insert
  <2>2. edges' \subseteq Pairs /\ status' \in [Tasks -> Statuses \cup {"Gone"}]
    BY <1>1, <2>1, Fields
  <2>3. S \in SUBSET Tasks /\ S # {} /\ e[2] \in S
    BY <1>1, EdgeEnds
  <2>. HIDE DEF S
  <2>4. <<S>> \in Todos /\ InTodo(<<S>>, e[2])
    BY <2>3, OneTodo
  <2>5. now \in Request
    BY <2>4, IdleTyped DEF Idle, Request, Todos
  <2>6. /\ now.at = "next" /\ now.op = "add" /\ now.todo = <<S>>
        /\ now.tx = FALSE /\ now.drop = {} /\ now.gone = {}
        /\ \A u \in Tasks : now.dirty[u] = Clean
    BY DEF Idle
  <2>. HIDE DEF now
  <2>7. req'[r] = now
    BY <2>1, Went
  <2>8. WellFormed(r)'
    BY <2>6, <2>7 DEF WellFormed, Deciding
  <2>9. \A q \in Requests \ {r} : \A t \in Tasks : Clean \in {req[q].dirty[t], now.dirty[t]}
    BY <2>6
  <2>10. raced' \subseteq Tasks
    BY <2>1, <2>2, WatchTyped
  <2>11. Typed'
    BY <1>1, <2>1, <2>2, <2>5, <2>8, <2>9, <2>10, TypedStep, HistoryTyped DEF Goes
  <2>. QED  BY <1>1, <1>3, <2>1, <2>4, <2>6, <2>7, <2>11
<1>. QED  BY <1>2, <1>3

LEMMA LookShape ==
    ASSUME Typed, NEW r \in Requests, NEW t \in Tasks, Look(r, t)
    PROVE  /\ Typed' /\ SameWork(r) /\ UNCHANGED <<status, edges, byHand, raced>>
           /\ req[r].at = "next"
           /\ \A u : InTodo(req[r].todo, u) => u = t \/ InTodo(req'[r].todo, u)
           /\ \/ SeenStatus(r, t) = "Gone" /\ req'[r].at = "next"
              \/ /\ SeenStatus(r, t) # "Gone"
                 /\ req'[r].at = "count" /\ req'[r].task = t /\ req'[r].by = "sync"
                 /\ req'[r].seen = SeenStatus(r, t)
<1>. DEFINE todo == Without(req[r].todo, t)
            seen == SeenStatus(r, t)
            now == IF seen = "Gone" THEN [req[r] EXCEPT !.todo = todo]
                   ELSE [req[r] EXCEPT !.at = "count", !.task = t, !.seen = seen,
                                       !.by = "sync", !.todo = todo]
<1>1. /\ req[r].at = "next" /\ req[r].todo # <<>> /\ t \in Head(req[r].todo)
      /\ Goes(r, now) /\ UNCHANGED <<status, edges, sent, history>>
  BY DEF Look, Without
<1>2. req[r] \in Request /\ req[r].todo \in Todos /\ WellFormed(r)
  BY Fields
<1>3. todo \in Todos /\ \A u : InTodo(req[r].todo, u) => u = t \/ InTodo(todo, u)
  BY <1>1, <1>2, TakeTodo
<1>4. seen \in Statuses \cup {"Gone"}
  BY Fields DEF SeenStatus
<1>. HIDE DEF todo, seen
<1>5. CASE seen = "Gone"
  <2>1. now = [req[r] EXCEPT !.todo = todo]
    BY <1>5
  <2>2. now \in Request
    BY <2>1, <1>2, <1>3 DEF Request, Todos
  <2>3. /\ now.at = "next" /\ now.todo = todo /\ now.tx = req[r].tx /\ now.op = req[r].op
        /\ now.drop = req[r].drop /\ now.gone = req[r].gone /\ now.dirty = req[r].dirty
        /\ now.subject = req[r].subject
    BY <2>1, <1>1, <1>2 DEF Request
  <2>. HIDE DEF now
  <2>4. req'[r] = now
    BY <1>1, Went
  <2>5. WellFormed(r)'
    BY <1>2, <2>3, <2>4 DEF WellFormed, Deciding
  <2>6. Typed'
    BY <1>1, <2>2, <2>3, <2>5, TypedGoes, HistoryTyped DEF history
  <2>. QED  BY <1>1, <1>3, <1>5, <2>3, <2>4, <2>6 DEF SameWork, seen, history
<1>6. CASE seen # "Gone"
  <2>1. now = [req[r] EXCEPT !.at = "count", !.task = t, !.seen = seen,
                             !.by = "sync", !.todo = todo]
    BY <1>6
  <2>2. now \in Request
    BY <2>1, <1>2, <1>3, <1>4 DEF Request, Todos
  <2>3. /\ now.at = "count" /\ now.todo = todo /\ now.tx = req[r].tx /\ now.op = req[r].op
        /\ now.task = t /\ now.seen = seen /\ now.by = "sync"
        /\ now.drop = req[r].drop /\ now.gone = req[r].gone /\ now.dirty = req[r].dirty
        /\ now.subject = req[r].subject
    BY <2>1, <1>1, <1>2 DEF Request
  <2>. HIDE DEF now
  <2>4. req'[r] = now
    BY <1>1, Went
  <2>5. WellFormed(r)'
    BY <1>2, <1>4, <1>6, <2>3, <2>4 DEF WellFormed, Deciding
  <2>6. Typed'
    BY <1>1, <2>2, <2>3, <2>5, TypedGoes, HistoryTyped DEF history
  <2>. QED  BY <1>1, <1>3, <1>6, <2>3, <2>4, <2>6 DEF SameWork, seen, history
<1>. QED  BY <1>5, <1>6

LEMMA CountShape ==
    ASSUME Typed, NEW r \in Requests, Count(r)
    PROVE  /\ Typed' /\ SameWork(r) /\ UNCHANGED <<status, edges, raced>>
           /\ req[r].at = "count" /\ req[r].by = "sync" /\ req[r].task \in Tasks
           /\ req[r].seen \in Statuses
           /\ req'[r].todo = req[r].todo
           /\ LET to == NextStatus(req[r].seen, HasOpenBlocker(r, req[r].task))
              IN \/ to = None /\ req'[r].at = "next" /\ Synced(r, req[r].task)
                 \/ /\ to # None /\ byHand' = byHand
                    /\ req'[r].at = "stash" /\ req'[r].to = to /\ req'[r].by = "sync"
                    /\ req'[r].task = req[r].task /\ req'[r].seen = req[r].seen
<1>. DEFINE blocked == HasOpenBlocker(r, req[r].task)
            to == NextStatus(req[r].seen, blocked)
            now == IF to = None THEN [req[r] EXCEPT !.at = "next"]
                   ELSE [req[r] EXCEPT !.at = "stash", !.to = to]
<1>1. /\ req[r].at = "count" /\ Goes(r, now) /\ UNCHANGED <<status, edges, sent, raced>>
      /\ (to = None => Synced(r, req[r].task)) /\ (to # None => byHand' = byHand)
  BY DEF Count
<1>2. req[r] \in Request /\ req[r].todo \in Todos /\ WellFormed(r)
  BY Fields
<1>3. req[r].by = "sync" /\ req[r].task \in Tasks /\ req[r].seen \in Statuses
  BY <1>1, <1>2 DEF WellFormed, Deciding
<1>4. \/ to = None
      \/ to = "Blocked" /\ req[r].seen \in {"Open", "WIP"}
      \/ to = "Open" /\ req[r].seen = "Blocked"
  <2>. HIDE DEF blocked
  <2>. QED  BY DEF NextStatus, None
<1>5. byHand' \subseteq Tasks
  BY <1>1, HistoryTyped DEF Synced
<1>. HIDE DEF to, blocked
<1>6. CASE to = None
  <2>1. now = [req[r] EXCEPT !.at = "next"]
    BY <1>6
  <2>2. now \in Request
    BY <2>1, <1>2 DEF Request
  <2>3. /\ now.at = "next" /\ now.todo = req[r].todo /\ now.tx = req[r].tx
        /\ now.op = req[r].op /\ now.drop = req[r].drop /\ now.gone = req[r].gone
        /\ now.dirty = req[r].dirty /\ now.subject = req[r].subject
    BY <2>1, <1>2 DEF Request
  <2>. HIDE DEF now
  <2>4. req'[r] = now
    BY <1>1, Went
  <2>5. WellFormed(r)'
    BY <1>2, <2>3, <2>4 DEF WellFormed, Deciding
  <2>6. Typed'
    BY <1>1, <1>5, <2>2, <2>3, <2>5, TypedGoes, HistoryTyped
  <2>7. SameWork(r)
    BY <2>3, <2>4 DEF SameWork
  <2>. QED  BY <1>1, <1>3, <1>6, <2>3, <2>4, <2>6, <2>7 DEF to, blocked
<1>7. CASE to # None
  <2>1. now = [req[r] EXCEPT !.at = "stash", !.to = to]
    BY <1>7
  <2>t. to \in Statuses
    BY <1>4, <1>7 DEF Statuses
  <2>2. now \in Request
    BY <2>1, <2>t, <1>2 DEF Request
  <2>3. /\ now.at = "stash" /\ now.to = to /\ now.todo = req[r].todo /\ now.tx = req[r].tx
        /\ now.op = req[r].op /\ now.drop = req[r].drop /\ now.gone = req[r].gone
        /\ now.dirty = req[r].dirty /\ now.subject = req[r].subject
        /\ now.by = req[r].by /\ now.task = req[r].task /\ now.seen = req[r].seen
    BY <2>1, <1>2 DEF Request
  <2>. HIDE DEF now
  <2>4. req'[r] = now
    BY <1>1, Went
  <2>5. WellFormed(r)'
    BY <1>2, <1>3, <1>4, <1>7, <2>3, <2>4 DEF WellFormed, Deciding
  <2>6. Typed'
    BY <1>1, <1>5, <2>2, <2>3, <2>5, TypedGoes, HistoryTyped
  <2>7. SameWork(r)
    BY <2>3, <2>4 DEF SameWork
  <2>. QED  BY <1>1, <1>3, <1>7, <2>3, <2>4, <2>6, <2>7 DEF to, blocked
<1>. QED  BY <1>6, <1>7

LEMMA StashShape ==
    ASSUME Typed, NEW r \in Requests, Stash(r)
    PROVE  /\ Typed' /\ SameWork(r) /\ UNCHANGED <<status, edges, byHand, raced>>
           /\ req[r].at = "stash" /\ req'[r].at = "write"
           /\ req'[r].prev = SeenStatus(r, req[r].task)
           /\ req[r].task \in Tasks
           /\ req'[r].todo = req[r].todo /\ req'[r].by = req[r].by
           /\ req'[r].task = req[r].task /\ req'[r].seen = req[r].seen
           /\ req'[r].to = req[r].to
<1>. DEFINE prev == SeenStatus(r, req[r].task)
            now == [req[r] EXCEPT !.at = "write", !.prev = prev]
<1>1. req[r].at = "stash" /\ Goes(r, now) /\ UNCHANGED <<status, edges, sent, history>>
  BY DEF Stash
<1>2. req[r] \in Request /\ req[r].todo \in Todos /\ WellFormed(r)
  BY Fields
<1>3. req[r].task \in Tasks
  BY <1>1, <1>2 DEF WellFormed, Deciding
<1>4. prev \in Statuses \cup {"Gone"}
  BY <1>3, Fields DEF SeenStatus
<1>. HIDE DEF prev
<1>5. now \in Request
  BY <1>2, <1>4 DEF Request
<1>6. /\ now.at = "write" /\ now.prev = prev /\ now.to = req[r].to /\ now.todo = req[r].todo
      /\ now.op = req[r].op /\ now.drop = req[r].drop /\ now.gone = req[r].gone
      /\ now.dirty = req[r].dirty /\ now.subject = req[r].subject /\ now.tx = req[r].tx
      /\ now.by = req[r].by /\ now.task = req[r].task /\ now.seen = req[r].seen
      /\ now.want = req[r].want
  BY <1>2 DEF Request
<1>. HIDE DEF now
<1>7. req'[r] = now
  BY <1>1, Went
<1>8. WellFormed(r)'
  BY <1>1, <1>2, <1>3, <1>6, <1>7 DEF WellFormed, Deciding
<1>9. Typed'
  BY <1>1, <1>5, <1>6, <1>8, TypedGoes, HistoryTyped DEF history
<1>10. SameWork(r)
  BY <1>6, <1>7 DEF SameWork
<1>. QED  BY <1>1, <1>3, <1>6, <1>7, <1>9, <1>10 DEF prev, history

LEMMA WriteShape ==
    ASSUME Typed, NEW r \in Requests, Write(r)
    PROVE  /\ Typed' /\ edges' = edges /\ Watch(r)
           /\ req[r].at = "write" /\ req[r].task \in Tasks /\ req[r].to \in Statuses
           /\ req[r].by \in {"sync", "member"}
           /\ status[req[r].task] = "Gone" => req[r].by = "member"
           /\ \A q \in Requests \ {r} : req[q].dirty[req[r].task] = Clean
           /\ req'[r].at = IF Crosses(r) THEN "list" ELSE "next"
           /\ req'[r].task = req[r].task /\ req'[r].todo = req[r].todo
           /\ req'[r].tx = req[r].tx /\ req'[r].drop = req[r].drop
           /\ req'[r].op = req[r].op
           /\ status' = IF req[r].tx THEN status
                        ELSE [status EXCEPT ![req[r].task] = req[r].to]
           /\ req'[r].dirty = IF req[r].tx THEN [req[r].dirty EXCEPT ![req[r].task] = req[r].to]
                              ELSE req[r].dirty
           /\ IF req[r].by = "sync" THEN Synced(r, req[r].task)
              ELSE byHand' = IF req[r].want = Same THEN byHand ELSE byHand \cup {req[r].task}
<1>. DEFINE t == req[r].task
            at == IF Crosses(r) THEN "list" ELSE "next"
            dirty == IF req[r].tx THEN [req[r].dirty EXCEPT ![t] = req[r].to]
                     ELSE req[r].dirty
            now == [req[r] EXCEPT !.at = at, !.dirty = dirty]
<1>1. /\ req[r].at = "write" /\ Goes(r, now) /\ UNCHANGED <<edges, sent>> /\ Watch(r)
      /\ ~Locked(r, t) /\ (status[t] = "Gone" => req[r].by = "member")
      /\ status' = IF req[r].tx THEN status ELSE [status EXCEPT ![t] = req[r].to]
      /\ IF req[r].by = "sync" THEN Synced(r, t)
         ELSE byHand' = IF req[r].want = Same THEN byHand ELSE byHand \cup {t}
  <2>1. Saved(r) = now
    BY Fields DEF Saved, Request
  <2>. QED  BY <2>1 DEF Write
<1>2. /\ req[r] \in Request /\ req[r].todo \in Todos /\ WellFormed(r)
      /\ req[r].dirty \in [Tasks -> Statuses \cup {Clean}]
  BY Fields
<1>3. /\ t \in Tasks /\ req[r].by \in {"sync", "member"} /\ req[r].to \in Statuses
      /\ req[r].by = "sync" => req[r].to \in {"Open", "Blocked"}
      /\ req[r].tx => req[r].by = "sync"
  BY <1>1, <1>2 DEF WellFormed, Deciding, Statuses
<1>4. dirty \in [Tasks -> Statuses \cup {Clean}]
  BY <1>2, <1>3
<1>5. \A u \in Tasks : u # t => dirty[u] = req[r].dirty[u]
  BY <1>2
<1>6. req[r].tx => dirty[t] = req[r].to
  BY <1>2, <1>3
<1>7. ~req[r].tx => dirty = req[r].dirty
  OBVIOUS
<1>8. at \in {"list", "next"}
  OBVIOUS
<1>9. \A q \in Requests \ {r} : req[q].dirty[t] = Clean
  BY <1>1 DEF Locked
<1>. HIDE DEF at, dirty
<1>10. now \in Request
  BY <1>2, <1>4, <1>8 DEF Request
<1>11. /\ now.at = at /\ now.dirty = dirty /\ now.task = t /\ now.todo = req[r].todo
       /\ now.tx = req[r].tx /\ now.drop = req[r].drop /\ now.gone = req[r].gone
       /\ now.op = req[r].op
  BY <1>2 DEF Request
<1>. HIDE DEF now
<1>12. req'[r] = now
  BY <1>1, Went
<1>13. \A u \in Tasks : dirty[u] \in {Clean, "Open", "Blocked"}
  <2>1. \A u \in Tasks : req[r].dirty[u] \in {Clean, "Open", "Blocked"}
    BY <1>2 DEF WellFormed
  <2>. QED  BY <2>1, <1>3, <1>5, <1>6, <1>7
<1>14. WellFormed(r)'
  BY <1>2, <1>3, <1>7, <1>8, <1>11, <1>12, <1>13 DEF WellFormed, Deciding
<1>15. \A q \in Requests \ {r} : \A u \in Tasks : Clean \in {req[q].dirty[u], now.dirty[u]}
  BY <1>5, <1>9, <1>11 DEF Typed, Rows
<1>16. status' \in [Tasks -> Statuses \cup {"Gone"}] /\ edges' \subseteq Pairs
  BY <1>1, <1>3, Fields
<1>17. byHand' \subseteq Tasks
  BY <1>1, <1>3, HistoryTyped DEF Synced
<1>18. Typed'
  BY <1>1, <1>10, <1>14, <1>15, <1>16, <1>17, WatchTyped, HistoryTyped, TypedStep DEF Goes
<1>. QED  BY <1>1, <1>3, <1>9, <1>11, <1>12, <1>18 DEF at, dirty

LEMMA MissShape ==
    ASSUME Typed, NEW r \in Requests, Miss(r)
    PROVE  /\ Typed' /\ UNCHANGED <<status, edges, byHand, raced>>
           /\ req[r].at = "write" /\ req[r].by = "sync" /\ req[r].task \in Tasks
           /\ status[req[r].task] = "Gone"
           /\ \/ req[r].tx /\ req'[r] = Idle
              \/ /\ ~req[r].tx /\ SameWork(r)
                 /\ req'[r].at = "next" /\ req'[r].todo = req[r].todo
<1>. DEFINE now == [req[r] EXCEPT !.at = "next"]
<1>1. /\ req[r].at = "write" /\ req[r].by = "sync" /\ status[req[r].task] = "Gone"
      /\ Goes(r, IF req[r].tx THEN Idle ELSE now)
      /\ UNCHANGED <<status, edges, sent, byHand, raced>>
  BY DEF Miss
<1>2. req[r] \in Request /\ req[r].todo \in Todos /\ WellFormed(r)
  BY Fields
<1>3. req[r].task \in Tasks
  BY <1>1, <1>2 DEF WellFormed, Deciding
<1>4. CASE req[r].tx
  <2>1. Goes(r, Idle)
    BY <1>1, <1>4
  <2>. QED  BY <1>1, <1>3, <1>4, <2>1, TypedIdle, HistoryTyped DEF history
<1>5. CASE ~req[r].tx
  <2>1. Goes(r, now)
    BY <1>1, <1>5
  <2>2. now \in Request
    BY <1>2 DEF Request
  <2>3. /\ now.at = "next" /\ now.todo = req[r].todo /\ now.tx = req[r].tx
        /\ now.op = req[r].op /\ now.drop = req[r].drop /\ now.gone = req[r].gone
        /\ now.dirty = req[r].dirty /\ now.subject = req[r].subject
    BY <1>2 DEF Request
  <2>. HIDE DEF now
  <2>4. req'[r] = now
    BY <2>1, Went
  <2>5. WellFormed(r)'
    BY <1>2, <2>3, <2>4 DEF WellFormed, Deciding
  <2>6. Typed'
    BY <1>1, <2>1, <2>2, <2>3, <2>5, TypedGoes, HistoryTyped DEF history
  <2>7. SameWork(r)
    BY <2>3, <2>4 DEF SameWork
  <2>. QED  BY <1>1, <1>3, <1>5, <2>3, <2>4, <2>6, <2>7 DEF history
<1>. QED  BY <1>4, <1>5

LEMMA DependentsAre ==
    ASSUME NEW E \in SUBSET Pairs, NEW t \in Tasks
    PROVE  Dependents(t, E) = {u \in Tasks : <<t, u>> \in E}
<1>1. ASSUME NEW u \in Dependents(t, E) PROVE u \in Tasks /\ <<t, u>> \in E
  <2>1. PICK e \in E : e[1] = t /\ e[2] = u
    BY DEF Dependents
  <2>. QED  BY <2>1, EdgeEnds
<1>2. ASSUME NEW u \in Tasks, <<t, u>> \in E PROVE u \in Dependents(t, E)
  <2>1. <<t, u>>[1] = t /\ <<t, u>>[2] = u
    OBVIOUS
  <2>. QED  BY <1>2, <2>1 DEF Dependents
<1>. QED  BY <1>1, <1>2

LEMMA ListShape ==
    ASSUME Typed, NEW r \in Requests, List(r)
    PROVE  /\ Typed' /\ SameWork(r) /\ UNCHANGED <<status, edges, byHand, raced>>
           /\ req[r].at = "list" /\ req'[r].at = "next"
           /\ \A u \in Tasks : InTodo(req[r].todo, u) \/ <<req[r].task, u>> \in SeenEdges(r) =>
                  InTodo(req'[r].todo, u)
<1>. DEFINE found == Dependents(req[r].task, SeenEdges(r))
            todo == IF found = {} THEN req[r].todo ELSE <<found>> \o req[r].todo
            now == [req[r] EXCEPT !.at = "next", !.todo = todo]
<1>1. req[r].at = "list" /\ UNCHANGED <<status, edges, sent, history>>
  BY DEF List
<1>2. req[r] \in Request /\ req[r].todo \in Todos /\ WellFormed(r)
  BY Fields
<1>3. Goes(r, now)
  BY <1>2 DEF List, Request
<1>4. req[r].task \in Tasks /\ SeenEdges(r) \in SUBSET Pairs
  BY <1>1, <1>2, Fields DEF WellFormed, SeenEdges
<1>5. found = {u \in Tasks : <<req[r].task, u>> \in SeenEdges(r)}
  BY <1>4, DependentsAre
<1>6. found \in SUBSET Tasks
  BY <1>5
<1>7. \A u \in Tasks : <<req[r].task, u>> \in SeenEdges(r) => u \in found
  BY <1>5
<1>. HIDE DEF found
<1>8. /\ todo \in Todos
      /\ \A u : u \in found \/ InTodo(req[r].todo, u) => InTodo(todo, u)
  <2>1. CASE found = {}
    BY <2>1, <1>2
  <2>2. CASE found # {}
    <3>1. /\ <<found>> \o req[r].todo \in Todos
          /\ \A u : InTodo(<<found>> \o req[r].todo, u) <=> u \in found \/ InTodo(req[r].todo, u)
      BY <2>2, <1>2, <1>6, FrontTodo
    <3>. QED  BY <2>2, <3>1
  <2>. QED  BY <2>1, <2>2
<1>. HIDE DEF todo
<1>9. now \in Request
  BY <1>2, <1>8 DEF Request, Todos
<1>10. /\ now.at = "next" /\ now.todo = todo /\ now.tx = req[r].tx
       /\ now.op = req[r].op /\ now.drop = req[r].drop /\ now.gone = req[r].gone
       /\ now.dirty = req[r].dirty /\ now.subject = req[r].subject
  BY <1>2 DEF Request
<1>. HIDE DEF now
<1>11. req'[r] = now
  BY <1>3, Went
<1>12. WellFormed(r)'
  BY <1>2, <1>10, <1>11 DEF WellFormed, Deciding
<1>13. Typed'
  BY <1>1, <1>3, <1>9, <1>10, <1>12, TypedGoes, HistoryTyped DEF history
<1>14. SameWork(r)
  BY <1>10, <1>11 DEF SameWork
<1>. QED  BY <1>1, <1>7, <1>8, <1>10, <1>11, <1>13, <1>14 DEF history

LEMMA FinishShape ==
    ASSUME Typed, NEW r \in Requests, Finish(r)
    PROVE  /\ Typed' /\ Watch(r) /\ req'[r] = Idle
           /\ req[r].at = "next" /\ req[r].todo = <<>>
           /\ \/ UNCHANGED <<status, edges, byHand>> /\ req[r].tx
              \/ /\ byHand' = byHand \ {e[2] : e \in req[r].drop}
                 /\ edges' = SeenEdges(r)
                 /\ \A e \in SeenEdges(r) : e[1] \notin req[r].gone /\ e[2] \notin req[r].gone
                 /\ status' = [t \in Tasks |-> IF t \in req[r].gone THEN "Gone"
                                               ELSE SeenStatus(r, t)]
<1>1. Goes(r, Idle) /\ Watch(r) /\ sent' = sent /\ req[r].at = "next" /\ req[r].todo = <<>>
  BY DEF Finish
<1>2. WellFormed(r) /\ status \in [Tasks -> Statuses \cup {"Gone"}] /\ edges \subseteq Pairs
      /\ req[r].dirty \in [Tasks -> Statuses \cup {Clean}]
  BY Fields
<1>3. \/ /\ UNCHANGED <<status, edges, byHand>>
         /\ \E e \in SeenEdges(r) : e[1] \in req[r].gone \/ e[2] \in req[r].gone
      \/ /\ byHand' = byHand \ {e[2] : e \in req[r].drop}
         /\ edges' = SeenEdges(r)
         /\ ~ \E e \in SeenEdges(r) : e[1] \in req[r].gone \/ e[2] \in req[r].gone
         /\ status' = [t \in Tasks |-> IF t \in req[r].gone THEN "Gone"
                                       ELSE SeenStatus(r, t)]
  BY DEF Finish
<1>4. (\E e \in SeenEdges(r) : e[1] \in req[r].gone \/ e[2] \in req[r].gone) => req[r].tx
  BY <1>2 DEF WellFormed
<1>5. \A t \in Tasks : SeenStatus(r, t) \in Statuses \cup {"Gone"}
  BY <1>2 DEF SeenStatus
<1>6. status' \in [Tasks -> Statuses \cup {"Gone"}]
  <2>1. \A t \in Tasks : (IF t \in req[r].gone THEN "Gone" ELSE SeenStatus(r, t))
                             \in Statuses \cup {"Gone"}
    BY <1>5
  <2>. QED  BY <1>2, <1>3, <2>1
<1>7. edges' \subseteq Pairs /\ byHand' \subseteq Tasks
  BY <1>2, <1>3, HistoryTyped DEF SeenEdges
<1>8. req'[r] = Idle
  BY <1>1, Went
<1>9. WellFormed(r)'
  BY <1>8, IdleTyped DEF WellFormed, Deciding, Idle
<1>10. \A q \in Requests \ {r} : \A t \in Tasks : Clean \in {req[q].dirty[t], Idle.dirty[t]}
  BY IdleTyped
<1>11. Typed'
  BY <1>1, <1>6, <1>7, <1>9, <1>10, IdleTyped, WatchTyped, HistoryTyped, TypedStep DEF Goes
<1>. QED  BY <1>1, <1>3, <1>4, <1>8, <1>11

\* What a request may do.
LEMMA Cases ==
    ASSUME [Next]_vars
    PROVE  \/ UNCHANGED vars
           \/ \E r \in Requests :
                 \/ \E t \in Tasks, want \in Statuses \cup {Same} : Put(r, t, want)
                 \/ \E e \in Pairs : Add(r, e)
                 \/ \E e \in Pairs : Drop(r, e)
                 \/ \E t \in Tasks : DeleteTask(r, t)
                 \/ Insert(r)
                 \/ \E t \in Tasks : Look(r, t)
                 \/ Count(r) \/ Stash(r) \/ Write(r) \/ Miss(r) \/ List(r) \/ Finish(r)
BY DEF Next, Proceed

LEMMA TypedNext == Typed /\ [Next]_vars => Typed'
<1>. SUFFICES ASSUME Typed, [Next]_vars PROVE Typed'
  OBVIOUS
<1>1. CASE UNCHANGED vars
  BY <1>1 DEF vars, history, Typed, Rows, WellFormed, Idle
<1>2. ASSUME NEW r \in Requests, NEW t \in Tasks, NEW want \in Statuses \cup {Same},
             Put(r, t, want)
      PROVE  Typed'
  BY <1>2, TypedPut
<1>3. ASSUME NEW r \in Requests, NEW e \in Pairs, Add(r, e) PROVE Typed'
  BY <1>3, TypedAdd
<1>4. ASSUME NEW r \in Requests,
             (\E e \in Pairs : Drop(r, e)) \/ (\E t \in Tasks : DeleteTask(r, t))
      PROVE  Typed'
  BY <1>4, DropDeletes, TypedDeletes
<1>5. ASSUME NEW r \in Requests, NEW t \in Tasks, Look(r, t) PROVE Typed'
  BY <1>5, LookShape
<1>6. ASSUME NEW r \in Requests,
             \/ Insert(r) \/ Count(r) \/ Stash(r) \/ Write(r) \/ Miss(r) \/ List(r)
             \/ Finish(r)
      PROVE  Typed'
  BY <1>6, InsertShape, CountShape, StashShape, WriteShape, MissShape, ListShape, FinishShape
<1>. QED  BY <1>1, <1>2, <1>3, <1>4, <1>5, <1>6, Cases

-----------------------------------------------------------------------------
(* What a request sees *)

\* _has_open_blocker, by the blockers.
LEMMA CountsOpen ==
    ASSUME Typed, NEW r \in Requests, NEW t \in Tasks
    PROVE  HasOpenBlocker(r, t) <=> Sees(r, t)
<1>1. SeenEdges(r) \subseteq Pairs
  BY Fields DEF SeenEdges
<1>2. ASSUME NEW e \in SeenEdges(r), e[2] = t, IsBlocking(SeenStatus(r, e[1]))
      PROVE  Sees(r, t)
  <2>1. e[1] \in Tasks /\ e = <<e[1], t>>
    BY <1>1, <1>2, EdgeEnds
  <2>. QED  BY <1>2, <2>1 DEF Sees
<1>3. ASSUME NEW x \in Tasks, <<x, t>> \in SeenEdges(r), IsBlocking(SeenStatus(r, x))
      PROVE  HasOpenBlocker(r, t)
  <2>1. <<x, t>>[1] = x /\ <<x, t>>[2] = t
    OBVIOUS
  <2>. QED  BY <1>3, <2>1 DEF HasOpenBlocker
<1>. QED  BY <1>2, <1>3 DEF HasOpenBlocker, Sees

\* Outside a transaction a request sees what there is.
LEMMA SeesAll ==
    Typed => \A r \in Requests : ~req[r].tx =>
                 /\ SeenEdges(r) = edges
                 /\ \A t \in Tasks : /\ SeenStatus(r, t) = status[t]
                                     /\ Sees(r, t) <=> Opens(t)
<1>. SUFFICES ASSUME Typed, NEW r \in Requests, ~req[r].tx
              PROVE  /\ SeenEdges(r) = edges
                     /\ \A t \in Tasks : /\ SeenStatus(r, t) = status[t]
                                         /\ Sees(r, t) <=> Opens(t)
  OBVIOUS
<1>1. req[r].drop = {} /\ \A t \in Tasks : req[r].dirty[t] = Clean
  BY Fields DEF WellFormed
<1>2. SeenEdges(r) = edges /\ \A t \in Tasks : SeenStatus(r, t) = status[t]
  BY <1>1 DEF SeenEdges, SeenStatus
<1>. QED  BY <1>2 DEF Sees, Opens

LEMMA SeesAllNext ==
    Typed' => (\A r \in Requests : ~req[r].tx =>
                 /\ SeenEdges(r) = edges
                 /\ \A t \in Tasks : /\ SeenStatus(r, t) = status[t]
                                     /\ Sees(r, t) <=> Opens(t))'
BY SeesAll, PTL

LEMMA NothingChanged ==
    ASSUME Typed, UNCHANGED <<status, edges>>
    PROVE  Changed = {}
BY DEF Changed

\* A task that did not change has its status and its open blockers.
LEMMA Unchanging ==
    ASSUME Typed, Typed', NEW t \in Tasks, t \notin Changed
    PROVE  /\ status'[t] = status[t]
           /\ \A x \in Tasks : /\ <<x, t>> \in edges' <=> <<x, t>> \in edges
                               /\ <<x, t>> \in edges =>
                                     (IsBlocking(status'[x]) <=> IsBlocking(status[x]))
<1>1. status'[t] = status[t]
  BY DEF Changed
<1>2. ASSUME NEW x \in Tasks PROVE <<x, t>> \in edges' <=> <<x, t>> \in edges
  <2>1. <<x, t>>[2] = t
    OBVIOUS
  <2>. QED  BY <2>1 DEF Changed
<1>3. ASSUME NEW x \in Tasks, <<x, t>> \in edges,
             ~(IsBlocking(status'[x]) <=> IsBlocking(status[x]))
      PROVE  FALSE
  <2>1. t \in Dependents(x, edges)
    BY <1>3, Fields, DependentsAre DEF Typed, Rows
  <2>2. IsBlocking(status[x]) # IsBlocking(status'[x])
    BY <1>3 DEF IsBlocking
  <2>. QED  BY <2>1, <2>2 DEF Changed
<1>. QED  BY <1>1, <1>2, <1>3

LEMMA SameView ==
    ASSUME Typed, Typed', NEW q \in Requests, req'[q] = req[q],
           NEW t \in Tasks, t \notin Changed
    PROVE  /\ SeenStatus(q, t)' = SeenStatus(q, t)
           /\ \A x \in Tasks : <<x, t>> \in SeenEdges(q)' <=> <<x, t>> \in SeenEdges(q)
           /\ Sees(q, t)' <=> Sees(q, t)
<1>1. SeenStatus(q, t)' = SeenStatus(q, t)
  BY Unchanging DEF SeenStatus
<1>2. \A x \in Tasks : <<x, t>> \in SeenEdges(q)' <=> <<x, t>> \in SeenEdges(q)
  BY Unchanging DEF SeenEdges
<1>3. ASSUME NEW x \in Tasks, <<x, t>> \in SeenEdges(q)
      PROVE  IsBlocking(SeenStatus(q, x))' <=> IsBlocking(SeenStatus(q, x))
  <2>1. IsBlocking(status'[x]) <=> IsBlocking(status[x])
    BY <1>3, Unchanging DEF SeenEdges
  <2>. QED  BY <2>1 DEF SeenStatus, IsBlocking
<1>. QED  BY <1>1, <1>2, <1>3 DEF Sees

-----------------------------------------------------------------------------
(* Requests that look on while r takes a step *)

\* What r's step changes under another request is on record.
Recorded(r) ==
    /\ raced \subseteq raced'
    /\ \A q \in Requests \ {r} : \A t \in Hands(q) :
           t \in Changed => t \in raced' \/ Closers(q, r, t)

LEMMA WatchRecords ==
    ASSUME NEW r \in Requests, Watch(r)
    PROVE  Recorded(r)
BY DEF Watch, Recorded

LEMMA QuietRecords ==
    ASSUME Typed, NEW r \in Requests, UNCHANGED <<status, edges, raced>>
    PROVE  Recorded(r)
BY NothingChanged DEF Recorded

LEMMA InHands ==
    ASSUME Typed, NEW q \in Requests
    PROVE  /\ Touched(q) \subseteq Hands(q)
           /\ \A t \in Tasks : req[q].dirty[t] # Clean => t \in Hands(q)
           /\ req[q].at \in Deciding => req[q].task \in Hands(q)
<1>1. ASSUME NEW t \in Tasks, NEW x \in Tasks, <<x, t>> \in req[q].drop
      PROVE  t \in Hands(q)
  <2>1. <<x, t>>[2] = t
    OBVIOUS
  <2>. QED  BY <1>1, <2>1 DEF Hands
<1>2. ASSUME NEW t \in Tasks, req[q].dirty[t] # Clean
      PROVE  t \in Hands(q)
  BY <1>2 DEF Hands
<1>3. ASSUME req[q].at \in Deciding PROVE req[q].task \in Hands(q)
  BY <1>3 DEF Hands, Deciding
<1>. QED  BY <1>1, <1>2, <1>3 DEF Touched

LEMMA NoCloser ==
    ASSUME Typed, NEW q \in Requests, NEW r \in Requests, NEW t,
           \/ req[q].tx
           \/ req[r].tx
           \/ req[r].op = "add"
           \/ req[q].at \in {"stash", "write"} /\ req[q].by = "member" /\ req[q].task = t
    PROVE  ~Closers(q, r, t)
<1>1. WellFormed(q) /\ WellFormed(r)
  BY Fields
<1>. QED  BY <1>1 DEF Closers, WellFormed

LEMMA StillSaving ==
    ASSUME Typed, Typed', NEW r \in Requests, NEW q \in Requests \ {r}, Recorded(r),
           req'[q] = req[q], Saving(q)
    PROVE  Saving(q)'
<1>. SUFFICES ASSUME req[q].at \in {"stash", "write"}, req[q].by = "member",
                     req[q].task \notin raced'
              PROVE  status'[req[q].task] = status[req[q].task] /\ req[q].task \notin raced
  BY DEF Saving
<1>1. req[q].task \in Hands(q) /\ req[q].task \in Tasks
  BY InHands, Fields DEF Deciding, WellFormed
<1>2. ~Closers(q, r, req[q].task)
  BY NoCloser
<1>3. req[q].task \notin Changed /\ req[q].task \notin raced
  BY <1>1, <1>2 DEF Recorded
<1>. QED  BY <1>1, <1>3, Unchanging

LEMMA StillWritten ==
    ASSUME Typed, Typed', NEW r \in Requests, NEW q \in Requests \ {r}, Recorded(r),
           req'[q] = req[q], Written(q)
    PROVE  Written(q)'
<1>. SUFFICES ASSUME NEW t \in Tasks \ raced', req[q].dirty[t] # Clean
              PROVE  /\ t \in Tasks \ raced /\ status'[t] = status[t]
                     /\ Sees(q, t)' <=> Sees(q, t)
  BY DEF Written
<1>1. t \in Hands(q)
  BY InHands
<1>2. req[q].tx
  BY Fields DEF WellFormed
<1>3. ~Closers(q, r, t)
  BY <1>2, NoCloser
<1>4. t \notin Changed /\ t \in Tasks \ raced
  BY <1>1, <1>3 DEF Recorded
<1>. QED  BY <1>4, Unchanging, SameView

LEMMA StillKept ==
    ASSUME Typed, Typed', NEW r \in Requests, NEW q \in Requests \ {r}, Recorded(r),
           req'[q] = req[q], Kept(q)
    PROVE  Kept(q)'
<1>. SUFFICES ASSUME req[q].tx, NEW t \in Touched(q), Calm(SeenEdges(q), t)',
                     SeenStatus(q, t)' # "Gone"
              PROVE  AgreesTo(q, t)' \/ Owes(q, t)'
  BY DEF Kept, Touched
<1>1. t \in Hands(q) /\ t \in Tasks
  BY InHands DEF Touched
<1>2. ~Closers(q, r, t)
  BY NoCloser
<1>3. t \notin raced' /\ t \notin Changed /\ raced \subseteq raced'
  BY <1>1, <1>2 DEF Recorded, Calm
<1>4. /\ SeenStatus(q, t)' = SeenStatus(q, t)
      /\ \A x \in Tasks : <<x, t>> \in SeenEdges(q)' <=> <<x, t>> \in SeenEdges(q)
      /\ Sees(q, t)' <=> Sees(q, t)
  BY <1>1, <1>3, SameView
<1>5. \A x \in Tasks : <<x, t>> \in SeenEdges(q)' => x \notin raced'
  BY DEF Calm
<1>6. Calm(SeenEdges(q), t)
  BY <1>3, <1>4, <1>5 DEF Calm
<1>7. AgreesTo(q, t) \/ Owes(q, t)
  BY <1>4, <1>6 DEF Kept
<1>8. AgreesTo(q, t) => AgreesTo(q, t)'
  BY <1>4 DEF AgreesTo
<1>9. Owes(q, t) => Owes(q, t)'
  <2>1. req[q].at = "list" => req[q].task \in Tasks
    BY Fields DEF WellFormed
  <2>. QED  BY <2>1, <1>4 DEF Owes, Judges
<1>. QED  BY <1>7, <1>8, <1>9

\* A write of a request that closes blockers of t, while q syncs t for another.
LEMMA CloserWrites ==
    ASSUME Typed, Typed', NEW r \in Requests, NEW q \in Requests \ {r}, Write(r), Judged(r),
           NEW t \in Tasks \ raced', Closers(q, r, t)
    PROVE  /\ status'[t] = status[t] \/ status'[t] = "Open"
           /\ Calm(edges, t)' =>
                 /\ Opens(t)' => Opens(t)
                 /\ status'[t] # status[t] => ~Opens(t)'
<1>. DEFINE s == req[r].task
<1>1. /\ edges' = edges /\ raced \subseteq raced' /\ s \in Tasks /\ req[r].at = "write"
      /\ req[r].by \in {"sync", "member"}
  BY WriteShape, WatchRecords DEF Recorded
<1>2. req[r].op = "close" /\ req[r].subject # t /\ ~req[r].tx /\ WellFormed(r)
  BY Fields DEF Closers, WellFormed
<1>3. status' = [status EXCEPT ![s] = req[r].to] /\ status \in [Tasks -> Statuses \cup {"Gone"}]
  BY <1>2, WriteShape, Fields
<1>4. \A x \in Tasks : x # s => status'[x] = status[x]
  BY <1>3
<1>5. status'[s] = req[r].to
  BY <1>1, <1>3
<1>6. CASE req[r].by = "member"
  <2>1. s # t /\ req[r].to = "Closed"
    BY <1>1, <1>2, <1>6 DEF WellFormed
  <2>2. ~IsBlocking(status'[s])
    BY <1>5, <2>1 DEF IsBlocking
  <2>3. Opens(t)' => Opens(t)
    BY <1>1, <1>4, <2>2 DEF Opens
  <2>. QED  BY <1>4, <2>1, <2>3
<1>7. CASE req[r].by = "sync" /\ s = t
  <2>1. req[r].to = "Open"
    BY <1>1, <1>2, <1>7 DEF Closers, WellFormed
  <2>2. \A x \in Tasks : <<x, t>> \in edges => x # t
    <3>1. edges \subseteq Pairs
      BY Fields
    <3>. QED  BY <3>1 DEF Pairs
  <2>3. Opens(t)' <=> Opens(t)
    BY <1>1, <1>4, <1>7, <2>2 DEF Opens
  <2>4. ASSUME Calm(edges, t)' PROVE ~Opens(t)
    <3>1. Calm(edges, t) /\ t \notin raced
      BY <1>1, <2>4 DEF Calm
    <3>2. SeenEdges(r) = edges /\ (Sees(r, t) <=> Opens(t))
      BY <1>2, SeesAll
    <3>3. Judges(r, t)
      BY <1>1, <1>7 DEF Judges, Deciding
    <3>. QED  BY <1>1, <2>1, <3>1, <3>2, <3>3 DEF Judged
  <2>. QED  BY <1>5, <1>7, <2>1, <2>3, <2>4
<1>8. CASE req[r].by = "sync" /\ s # t
  <2>1. status'[t] = status[t]
    BY <1>4, <1>8
  <2>2. ASSUME Calm(edges, t)', Opens(t)' PROVE Opens(t)
    <3>1. PICK x \in Tasks : <<x, t>> \in edges /\ IsBlocking(status'[x])
      BY <1>1, <2>2 DEF Opens
    <3>2. x \notin raced
      BY <1>1, <2>2, <3>1 DEF Calm
    <3>3. CASE x = s
      <4>1. Judges(r, s)
        BY <1>1, <1>8 DEF Judges, Deciding
      <4>2. SeenStatus(r, s) = req[r].seen \/ SeenStatus(r, s) = "Open"
        BY <1>1, <3>2, <3>3, <4>1 DEF Judged
      <4>3. req[r].seen \in {"Open", "WIP", "Blocked"}
        BY <1>1, <1>2, <1>8 DEF WellFormed
      <4>4. status[s] = SeenStatus(r, s)
        BY <1>1, <1>2, SeesAll
      <4>5. IsBlocking(status[s])
        BY <4>2, <4>3, <4>4 DEF IsBlocking
      <4>. QED  BY <3>1, <3>3, <4>5 DEF Opens
    <3>4. CASE x # s
      BY <3>1, <3>4, <1>4 DEF Opens
    <3>. QED  BY <3>3, <3>4
  <2>. QED  BY <2>1, <2>2
<1>. QED  BY <1>1, <1>6, <1>7, <1>8

\* What closing a blocker of t does to it.
Opened(t) ==
    /\ status'[t] = status[t] \/ status'[t] = "Open"
    /\ Calm(edges, t)' =>
          /\ Opens(t)' => Opens(t)
          /\ status'[t] # status[t] => ~Opens(t)'

LEMMA StillJudged ==
    ASSUME Typed, Typed', NEW r \in Requests, NEW q \in Requests \ {r}, Recorded(r),
           req'[q] = req[q], Judged(q), edges' = edges \/ \A t : ~Closers(q, r, t),
           \A t \in Tasks \ raced' : t \in Changed /\ Closers(q, r, t) => Opened(t)
    PROVE  Judged(q)'
<1>1. ASSUME NEW t \in Tasks \ raced', Judges(q, t)
      PROVE  /\ \/ SeenStatus(q, t)' = req[q].seen
                \/ ~req[q].tx /\ req[q].seen = "Blocked" /\ SeenStatus(q, t)' = "Open"
             /\ req[q].at # "count" /\ (req[q].tx \/ req[q].to = "Blocked") =>
                   (Sees(q, t)' <=> req[q].to = "Blocked")
             /\ req[q].at = "write" => IsBlocking(req[q].prev)
             /\ Calm(SeenEdges(q), t)' =>
                   /\ SeenStatus(q, t)' = req[q].seen \/ ~Sees(q, t)'
                   /\ req[q].at # "count" /\ req[q].to = "Open" => ~Sees(q, t)'
  <2>1. t \in Hands(q) /\ t \in Tasks \ raced /\ raced \subseteq raced'
    BY <1>1, InHands DEF Judges, Recorded
  <2>2. /\ \/ SeenStatus(q, t) = req[q].seen
           \/ ~req[q].tx /\ req[q].seen = "Blocked" /\ SeenStatus(q, t) = "Open"
        /\ req[q].at # "count" /\ (req[q].tx \/ req[q].to = "Blocked") =>
              (Sees(q, t) <=> req[q].to = "Blocked")
        /\ req[q].at = "write" => IsBlocking(req[q].prev)
        /\ Calm(SeenEdges(q), t) =>
              /\ SeenStatus(q, t) = req[q].seen \/ ~Sees(q, t)
              /\ req[q].at # "count" /\ req[q].to = "Open" => ~Sees(q, t)
    BY <1>1, <2>1 DEF Judged
  <2>3. CASE t \notin Changed
    <3>1. /\ SeenStatus(q, t)' = SeenStatus(q, t)
          /\ \A x \in Tasks : <<x, t>> \in SeenEdges(q)' <=> <<x, t>> \in SeenEdges(q)
          /\ Sees(q, t)' <=> Sees(q, t)
      BY <2>1, <2>3, SameView
    <3>2. Calm(SeenEdges(q), t)' => Calm(SeenEdges(q), t)
      BY <2>1, <3>1 DEF Calm
    <3>. QED  BY <2>2, <3>1, <3>2
  <2>4. CASE t \in Changed
    <3>1. Closers(q, r, t) /\ Opened(t) /\ edges' = edges
      BY <2>1, <2>4 DEF Recorded
    <3>2. ~req[q].tx
      BY <3>1, NoCloser
    <3>3. req[q].seen = "Blocked"
      BY <1>1, <3>1 DEF Closers, Judges, Deciding
    <3>4. req[q].at # "count" => req[q].to = "Open"
      BY <1>1, <3>3, Fields DEF Judges, Deciding, WellFormed
    <3>5. /\ SeenEdges(q) = edges /\ SeenStatus(q, t) = status[t]
          /\ Sees(q, t) <=> Opens(t)
      BY <3>2, SeesAll
    <3>6. ~req'[q].tx
      BY <3>2
    <3>7. /\ SeenEdges(q)' = edges' /\ SeenStatus(q, t)' = status'[t]
          /\ Sees(q, t)' <=> Opens(t)'
      BY <3>6, SeesAllNext
    <3>8. Calm(edges, t)' => Calm(edges, t)
      BY <2>1, <3>1 DEF Calm
    <3>9. Calm(SeenEdges(q), t)' => Calm(edges, t)'
      BY <3>7 DEF Calm
    <3>10. status'[t] = "Blocked" \/ status'[t] = "Open"
      BY <2>2, <3>1, <3>3, <3>5 DEF Opened
    <3>11. ASSUME Calm(SeenEdges(q), t)'
           PROVE  /\ SeenStatus(q, t)' = req[q].seen \/ ~Sees(q, t)'
                  /\ req[q].at # "count" /\ req[q].to = "Open" => ~Sees(q, t)'
      <4>1. Calm(edges, t)' /\ Calm(SeenEdges(q), t)
        BY <3>5, <3>8, <3>9, <3>11
      <4>. QED  BY <4>1, <2>2, <3>1, <3>5, <3>7 DEF Opened
    <3>. QED  BY <2>2, <3>2, <3>3, <3>4, <3>7, <3>10, <3>11
  <2>. QED  BY <2>3, <2>4
<1>. QED  BY <1>1 DEF Judged, Judges

\* The requests that look on keep what they rely on.
Steady(q) == Judged(q) /\ Saving(q) /\ Written(q) /\ Kept(q)

LEMMA StillSteady ==
    ASSUME Typed, Typed', NEW r \in Requests, NEW q \in Requests \ {r}, Recorded(r),
           req'[q] = req[q], Steady(q), edges' = edges \/ \A t : ~Closers(q, r, t),
           \A t \in Tasks \ raced' : t \in Changed /\ Closers(q, r, t) => Opened(t)
    PROVE  Steady(q)'
BY StillJudged, StillSaving, StillWritten, StillKept DEF Steady

LEMMA QuietSteady ==
    ASSUME Typed, Typed', NEW r \in Requests, NEW q \in Requests \ {r},
           req'[q] = req[q], Steady(q), UNCHANGED <<status, edges, raced>>
    PROVE  Steady(q)'
<1>1. Recorded(r) /\ Changed = {}
  BY QuietRecords, NothingChanged
<1>. QED  BY <1>1, StillSteady

-----------------------------------------------------------------------------
(* The request that takes the step: steps that change no row *)

\* A request outside a transaction that is deciding nothing.
LEMMA RestSteady ==
    ASSUME Typed', NEW r \in Requests, ~req'[r].tx,
           req'[r].at \in {"idle", "insert", "next", "list"}
    PROVE  Steady(r)'
<1>1. \A t \in Tasks : req'[r].dirty[t] = Clean
  BY DEF Typed, WellFormed
<1>2. Judged(r)' /\ Saving(r)'
  BY DEF Judged, Judges, Saving, Deciding
<1>3. Written(r)' /\ Kept(r)'
  BY <1>1 DEF Written, Kept
<1>. QED  BY <1>2, <1>3 DEF Steady

LEMMA SameWorkView ==
    ASSUME Typed, Typed', NEW r \in Requests, SameWork(r), UNCHANGED <<status, edges, raced>>
    PROVE  /\ SeenEdges(r)' = SeenEdges(r)
           /\ \A t \in Tasks : /\ SeenStatus(r, t)' = SeenStatus(r, t)
                               /\ Sees(r, t)' <=> Sees(r, t)
                               /\ AgreesTo(r, t)' <=> AgreesTo(r, t)
                               /\ Calm(SeenEdges(r), t)' <=> Calm(SeenEdges(r), t)
<1>1. SeenEdges(r)' = SeenEdges(r)
  BY DEF SameWork, SeenEdges
<1>2. \A t \in Tasks : SeenStatus(r, t)' = SeenStatus(r, t)
  BY DEF SameWork, SeenStatus
<1>3. \A t \in Tasks : Sees(r, t)' <=> Sees(r, t)
  BY <1>1, <1>2 DEF Sees, IsBlocking
<1>4. \A t \in Tasks : AgreesTo(r, t)' <=> AgreesTo(r, t)
  BY <1>2, <1>3 DEF AgreesTo
<1>5. \A t \in Tasks : Calm(SeenEdges(r), t)' <=> Calm(SeenEdges(r), t)
  BY <1>1 DEF Calm
<1>. QED  BY <1>1, <1>2, <1>3, <1>4, <1>5

\* What r owes, it has done or still owes.
Discharges(r) ==
    \A t \in Tasks :
        Calm(SeenEdges(r), t) /\ SeenStatus(r, t) # "Gone" /\ Owes(r, t) =>
            AgreesTo(r, t) \/ Owes(r, t)'

LEMMA OwnWork ==
    ASSUME Typed, Typed', NEW r \in Requests, SameWork(r), UNCHANGED <<status, edges, raced>>,
           Written(r), Kept(r), Discharges(r)
    PROVE  Written(r)' /\ Kept(r)'
<1>1. /\ SeenEdges(r)' = SeenEdges(r)
      /\ \A t \in Tasks : /\ SeenStatus(r, t)' = SeenStatus(r, t)
                          /\ Sees(r, t)' <=> Sees(r, t)
                          /\ AgreesTo(r, t)' <=> AgreesTo(r, t)
                          /\ Calm(SeenEdges(r), t)' <=> Calm(SeenEdges(r), t)
  BY SameWorkView
<1>2. Written(r)'
  BY <1>1 DEF Written, SameWork
<1>3. Touched(r)' = Touched(r)
  BY DEF Touched, SameWork
<1>4. ASSUME req[r].tx, NEW t \in Touched(r), Calm(SeenEdges(r), t), SeenStatus(r, t) # "Gone"
      PROVE  AgreesTo(r, t) \/ Owes(r, t)'
  <2>1. t \in Tasks
    BY DEF Touched
  <2>2. AgreesTo(r, t) \/ Owes(r, t)
    BY <1>4 DEF Kept
  <2>. QED  BY <1>4, <2>1, <2>2 DEF Discharges
<1>5. \A t \in Touched(r) : t \in Tasks
  BY DEF Touched
<1>6. Kept(r)'
  BY <1>1, <1>3, <1>4, <1>5 DEF Kept, SameWork
<1>. QED  BY <1>2, <1>6

\* The rows are as they were: a task that was waiting for r still is, or agrees.
LEMMA QuietSettling ==
    ASSUME Typed, Typed', Settling, NEW r \in Requests, UNCHANGED <<status, edges, raced>>,
           \A q \in Requests \ {r} : req'[q] = req[q],
           \A t \in Tasks :
               Calm(edges, t) /\ status[t] # "Gone"
               /\ ((~req[r].tx /\ Owes(r, t)) \/ t \in byHand \ byHand') =>
                   Settled(t) \/ (~req'[r].tx /\ Owes(r, t)')
    PROVE  Settling'
<1>. SUFFICES ASSUME NEW t \in Tasks \ byHand', Calm(edges, t)', status'[t] # "Gone", ~Settled(t)'
              PROVE  \E q \in Requests : ~req'[q].tx /\ Owes(q, t)'
  BY DEF Settling
<1>1. Calm(edges, t) /\ status[t] # "Gone" /\ ~Settled(t)
  BY DEF Calm, Settled, Opens, IsBlocking
<1>2. CASE t \in byHand
  BY <1>1, <1>2
<1>3. CASE t \notin byHand
  <2>1. PICK q \in Requests : ~req[q].tx /\ Owes(q, t)
    BY <1>1, <1>3 DEF Settling
  <2>2. CASE q = r
    BY <1>1, <2>1, <2>2
  <2>3. CASE q # r
    <3>1. req'[q] = req[q]
      BY <2>3
    <3>2. Owes(q, t)'
      BY <2>1, <3>1 DEF Owes, Judges, SeenEdges
    <3>. QED  BY <2>1, <3>1, <3>2
  <2>. QED  BY <2>2, <2>3
<1>. QED  BY <1>2, <1>3

\* With the same rows and the same work, discharging is enough.
LEMMA DischargeSettles ==
    ASSUME Typed, Typed', Settling, NEW r \in Requests, UNCHANGED <<status, edges, raced>>,
           \A q \in Requests \ {r} : req'[q] = req[q], SameWork(r), Discharges(r),
           \A t \in byHand \ byHand' : ~req[r].tx /\ Owes(r, t)
    PROVE  Settling'
<1>1. ASSUME NEW t \in Tasks, Calm(edges, t), status[t] # "Gone", ~req[r].tx, Owes(r, t)
      PROVE  Settled(t) \/ (~req'[r].tx /\ Owes(r, t)')
  <2>1. /\ SeenEdges(r) = edges /\ SeenStatus(r, t) = status[t]
        /\ Sees(r, t) <=> Opens(t)
    BY <1>1, SeesAll
  <2>2. Calm(SeenEdges(r), t)
    BY <1>1, <2>1
  <2>3. AgreesTo(r, t) \/ Owes(r, t)'
    BY <1>1, <2>1, <2>2 DEF Discharges
  <2>4. AgreesTo(r, t) => Settled(t)
    BY <2>1 DEF AgreesTo, Settled
  <2>5. ~req'[r].tx
    BY <1>1 DEF SameWork
  <2>. QED  BY <2>3, <2>4, <2>5
<1>2. \A t \in Tasks :
          Calm(edges, t) /\ status[t] # "Gone"
          /\ ((~req[r].tx /\ Owes(r, t)) \/ t \in byHand \ byHand') =>
              Settled(t) \/ (~req'[r].tx /\ Owes(r, t)')
  BY <1>1
<1>. QED  BY <1>2, QuietSettling

LEMMA PutSteps ==
    ASSUME Blocking, Typed', NEW r \in Requests, NEW t \in Tasks,
           NEW want \in Statuses \cup {Same}, Put(r, t, want)
    PROVE  /\ UNCHANGED <<status, edges, byHand, raced>>
           /\ \A q \in Requests \ {r} : req'[q] = req[q]
           /\ Steady(r)' /\ Settling'
<1>0. Typed
  BY DEF Blocking
<1>. DEFINE now == [Idle EXCEPT !.at = "stash",
                       !.op = IF want = "Closed" THEN "close" ELSE "put",
                       !.subject = t, !.task = t, !.seen = status[t], !.by = "member",
                       !.want = want, !.to = IF want = Same THEN status[t] ELSE want]
<1>1. Goes(r, now) /\ Send(r, "put") /\ UNCHANGED <<status, edges, byHand, raced>>
  BY DEF Put, history
<1>2. /\ now.at = "stash" /\ now.task = t /\ now.by = "member" /\ now.seen = status[t]
      /\ now.tx = FALSE
      /\ \A u \in Tasks : now.dirty[u] = Clean
  BY DEF Idle
<1>. HIDE DEF now
<1>3. req'[r] = now /\ \A q \in Requests \ {r} : req'[q] = req[q]
  BY <1>0, <1>1, Went
<1>4. req[r] = Idle
  BY <1>0, <1>1, SendTyped
<1>5. Steady(r)'
  <2>1. Judged(r)'
    BY <1>2, <1>3 DEF Judged, Judges
  <2>2. Saving(r)'
    BY <1>1, <1>2, <1>3 DEF Saving
  <2>3. Written(r)' /\ Kept(r)'
    BY <1>2, <1>3 DEF Written, Kept
  <2>. QED  BY <2>1, <2>2, <2>3 DEF Steady
<1>6. \A u \in Tasks : ~Owes(r, u)
  BY <1>4, IdleTyped, EmptyTodo DEF Owes, Judges, Deciding
<1>7. Settling'
  BY <1>0, <1>1, <1>3, <1>6, QuietSettling DEF Blocking
<1>. QED  BY <1>1, <1>3, <1>5, <1>7

LEMMA AddSteps ==
    ASSUME Blocking, Typed', NEW r \in Requests, NEW e \in Pairs, Add(r, e)
    PROVE  /\ UNCHANGED <<status, edges, byHand, raced>>
           /\ \A q \in Requests \ {r} : req'[q] = req[q]
           /\ Steady(r)' /\ Settling'
<1>0. Typed
  BY DEF Blocking
<1>. DEFINE now == [Idle EXCEPT !.at = "insert", !.op = "add", !.edge = e]
<1>1. Goes(r, now) /\ Send(r, "add") /\ UNCHANGED <<status, edges, byHand, raced>>
  BY DEF Add, history
<1>2. now.at = "insert" /\ now.tx = FALSE
  BY DEF Idle
<1>. HIDE DEF now
<1>3. req'[r] = now /\ \A q \in Requests \ {r} : req'[q] = req[q]
  BY <1>0, <1>1, Went
<1>4. req[r] = Idle
  BY <1>0, <1>1, SendTyped
<1>5. Steady(r)'
  BY <1>2, <1>3, RestSteady
<1>6. \A u \in Tasks : ~Owes(r, u)
  BY <1>4, IdleTyped, EmptyTodo DEF Owes, Judges, Deciding
<1>7. Settling'
  BY <1>0, <1>1, <1>3, <1>6, QuietSettling DEF Blocking
<1>. QED  BY <1>1, <1>3, <1>5, <1>7

\* A transaction that deletes has every task it touches still to sync.
LEMMA DeletesSteps ==
    ASSUME Blocking, NEW r \in Requests, NEW op \in {"drop", "delete"}, NEW E \in SUBSET Pairs,
           NEW gone \in SUBSET Tasks, Send(r, op), Deletes(r, op, E, gone)
    PROVE  /\ UNCHANGED <<status, edges, byHand, raced>>
           /\ \A q \in Requests \ {r} : req'[q] = req[q]
           /\ Steady(r)' /\ Settling'
<1>0. Typed
  BY DEF Blocking
<1>1. /\ Typed' /\ req'[r].at = "next" /\ req'[r].tx = TRUE /\ req'[r].drop = E
      /\ \A u \in Tasks : req'[r].dirty[u] = Clean
      /\ \A e \in E : InTodo(req'[r].todo, e[2])
  BY <1>0, TypedDeletes
<1>2. UNCHANGED <<status, edges, byHand, raced>>
  BY DEF Deletes, history
<1>3. \A q \in Requests \ {r} : req'[q] = req[q]
  BY <1>0, Went DEF Deletes
<1>4. req[r] = Idle
  BY <1>0, SendTyped
<1>5. Steady(r)'
  <2>1. Judged(r)' /\ Saving(r)'
    BY <1>1 DEF Judged, Judges, Saving, Deciding
  <2>2. Written(r)'
    BY <1>1 DEF Written
  <2>3. ASSUME NEW t \in Touched(r)' PROVE Owes(r, t)'
    <3>1. PICK x \in Tasks : <<x, t>> \in E
      BY <1>1 DEF Touched
    <3>2. <<x, t>>[2] = t
      OBVIOUS
    <3>3. InTodo(req'[r].todo, t)
      BY <1>1, <3>1, <3>2
    <3>. QED  BY <3>3 DEF Owes
  <2>4. Kept(r)'
    BY <2>3 DEF Kept
  <2>. QED  BY <2>1, <2>2, <2>4 DEF Steady
<1>6. \A u \in Tasks : ~Owes(r, u)
  BY <1>4, IdleTyped, EmptyTodo DEF Owes, Judges, Deciding
<1>7. Settling'
  BY <1>0, <1>1, <1>2, <1>3, <1>6, QuietSettling DEF Blocking
<1>. QED  BY <1>2, <1>3, <1>5, <1>7

LEMMA LookSteps ==
    ASSUME Blocking, NEW r \in Requests, NEW t \in Tasks, Look(r, t)
    PROVE  /\ UNCHANGED <<status, edges, byHand, raced>>
           /\ \A q \in Requests \ {r} : req'[q] = req[q]
           /\ Steady(r)' /\ Settling'
<1>0. Typed /\ Steady(r) /\ Settling
  BY DEF Blocking, Steady
<1>1. /\ Typed' /\ SameWork(r) /\ UNCHANGED <<status, edges, byHand, raced>>
      /\ req[r].at = "next"
      /\ \A u : InTodo(req[r].todo, u) => u = t \/ InTodo(req'[r].todo, u)
      /\ \/ SeenStatus(r, t) = "Gone" /\ req'[r].at = "next"
         \/ /\ SeenStatus(r, t) # "Gone"
            /\ req'[r].at = "count" /\ req'[r].task = t /\ req'[r].by = "sync"
            /\ req'[r].seen = SeenStatus(r, t)
  BY <1>0, LookShape
<1>2. \A q \in Requests \ {r} : req'[q] = req[q]
  BY <1>0, Went DEF Look
<1>3. Discharges(r)
  <2>1. ASSUME NEW u \in Tasks, SeenStatus(r, u) # "Gone", Owes(r, u) PROVE Owes(r, u)'
    <3>1. InTodo(req[r].todo, u)
      BY <1>1, <2>1 DEF Owes, Judges, Deciding
    <3>2. InTodo(req'[r].todo, u) \/ Judges(r, u)'
      BY <1>1, <2>1, <3>1 DEF Judges, Deciding
    <3>. QED  BY <3>2 DEF Owes
  <2>. QED  BY <2>1 DEF Discharges
<1>4. Written(r)' /\ Kept(r)'
  BY <1>0, <1>1, <1>3, OwnWork DEF Steady
<1>5. Judged(r)'
  <2>1. \A u \in Tasks : SeenStatus(r, u)' = SeenStatus(r, u)
    BY <1>0, <1>1, SameWorkView
  <2>2. ASSUME NEW u \in Tasks, Judges(r, u)'
        PROVE  SeenStatus(r, u)' = req'[r].seen /\ req'[r].at = "count"
    BY <1>1, <2>1, <2>2 DEF Judges, Deciding
  <2>. QED  BY <2>2 DEF Judged
<1>6. Saving(r)'
  BY <1>1 DEF Saving
<1>7. Settling'
  BY <1>0, <1>1, <1>2, <1>3, DischargeSettles
<1>. QED  BY <1>1, <1>2, <1>4, <1>5, <1>6, <1>7 DEF Steady

\* A sync that leaves a task as it is was right to.
LEMMA CountAgrees ==
    ASSUME Typed, NEW r \in Requests, Judged(r), req[r].at = "count", NEW t \in Tasks,
           Judges(r, t), Calm(SeenEdges(r), t), NextStatus(req[r].seen, Sees(r, t)) = None
    PROVE  AgreesTo(r, t)
<1>1. t \notin raced
  BY DEF Calm
<1>2. /\ \/ SeenStatus(r, t) = req[r].seen
         \/ req[r].seen = "Blocked" /\ SeenStatus(r, t) = "Open"
      /\ SeenStatus(r, t) = req[r].seen \/ ~Sees(r, t)
  BY <1>1 DEF Judged
<1>3. req[r].seen \in Statuses
  BY Fields DEF WellFormed, Deciding
<1>4. CASE Sees(r, t)
  <2>1. SeenStatus(r, t) = req[r].seen
    BY <1>2, <1>4
  <2>2. req[r].seen \notin {"Open", "WIP"}
    BY <1>4 DEF NextStatus, None
  <2>. QED  BY <1>3, <1>4, <2>1, <2>2 DEF AgreesTo, Statuses
<1>5. CASE ~Sees(r, t)
  <2>1. req[r].seen # "Blocked"
    BY <1>5 DEF NextStatus, None
  <2>. QED  BY <1>2, <1>5, <2>1 DEF AgreesTo
<1>. QED  BY <1>4, <1>5

LEMMA CountSteps ==
    ASSUME Blocking, NEW r \in Requests, Count(r)
    PROVE  /\ UNCHANGED <<status, edges, raced>>
           /\ \A q \in Requests \ {r} : req'[q] = req[q]
           /\ Steady(r)' /\ Settling'
<1>0. Typed /\ Steady(r) /\ Settling
  BY DEF Blocking, Steady
<1>t. PICK t \in Tasks : t = req[r].task
  BY <1>0, CountShape
<1>. DEFINE to == NextStatus(req[r].seen, Sees(r, t))
<1>1. /\ Typed' /\ SameWork(r) /\ UNCHANGED <<status, edges, raced>>
      /\ req[r].at = "count" /\ req[r].by = "sync" /\ req[r].task = t
      /\ req[r].seen \in Statuses /\ req'[r].todo = req[r].todo
      /\ \/ to = None /\ req'[r].at = "next" /\ Synced(r, t)
         \/ /\ to # None /\ byHand' = byHand
            /\ req'[r].at = "stash" /\ req'[r].to = to /\ req'[r].by = "sync"
            /\ req'[r].task = t /\ req'[r].seen = req[r].seen
  <2>1. HasOpenBlocker(r, t) = Sees(r, t)
    BY <1>0, CountsOpen DEF HasOpenBlocker, Sees
  <2>. QED  BY <1>0, <1>t, <2>1, CountShape
<1>2. \A q \in Requests \ {r} : req'[q] = req[q]
  BY <1>0, Went DEF Count
<1>3. Judges(r, t)
  BY <1>1 DEF Judges, Deciding
<1>4. Discharges(r)
  <2>1. ASSUME NEW u \in Tasks, Calm(SeenEdges(r), u), Owes(r, u)
        PROVE  AgreesTo(r, u) \/ Owes(r, u)'
    <3>1. CASE InTodo(req[r].todo, u)
      BY <1>1, <3>1 DEF Owes
    <3>2. CASE u = t /\ to = None
      BY <1>0, <1>1, <1>3, <2>1, <3>2, CountAgrees DEF Steady
    <3>3. CASE u = t /\ to # None
      BY <1>1, <3>3 DEF Owes, Judges, Deciding
    <3>4. InTodo(req[r].todo, u) \/ u = t
      BY <1>1, <2>1 DEF Owes, Judges
    <3>. QED  BY <3>1, <3>2, <3>3, <3>4
  <2>. QED  BY <2>1 DEF Discharges
<1>5. Written(r)' /\ Kept(r)'
  BY <1>0, <1>1, <1>4, OwnWork DEF Steady
<1>6. /\ SeenEdges(r)' = SeenEdges(r)
      /\ SeenStatus(r, t)' = SeenStatus(r, t)
      /\ Sees(r, t)' <=> Sees(r, t)
      /\ Calm(SeenEdges(r), t)' <=> Calm(SeenEdges(r), t)
  BY <1>0, <1>1, SameWorkView
<1>7. Judged(r)'
  <2>1. CASE to = None
    BY <1>1, <2>1 DEF Judged, Judges, Deciding
  <2>2. CASE to # None
    <3>1. /\ to = "Blocked" => Sees(r, t)
          /\ to = "Open" => ~Sees(r, t)
          /\ to \in {"Blocked", "Open"}
      BY <2>2 DEF NextStatus, None
    <3>2. t \notin raced =>
             /\ \/ SeenStatus(r, t) = req[r].seen
                \/ ~req[r].tx /\ req[r].seen = "Blocked" /\ SeenStatus(r, t) = "Open"
             /\ Calm(SeenEdges(r), t) => SeenStatus(r, t) = req[r].seen \/ ~Sees(r, t)
      BY <1>0, <1>1, <1>3 DEF Judged, Steady
    <3>3. /\ req'[r].at = "stash" /\ req'[r].to = to /\ req'[r].task = t
          /\ req'[r].seen = req[r].seen /\ req'[r].tx = req[r].tx /\ raced' = raced
      BY <1>1, <2>2 DEF SameWork
    <3>. HIDE DEF to
    <3>4. ASSUME NEW u \in Tasks \ raced', Judges(r, u)' PROVE u = t /\ t \notin raced
      BY <3>3, <3>4 DEF Judges
    <3>. QED  BY <1>6, <3>1, <3>2, <3>3, <3>4 DEF Judged
  <2>. QED  BY <2>1, <2>2
<1>8. Saving(r)'
  BY <1>1 DEF Saving
<1>9. \A u \in byHand \ byHand' : ~req[r].tx /\ Owes(r, u)
  BY <1>1, <1>3 DEF Synced, Owes
<1>10. Settling'
  BY <1>0, <1>1, <1>2, <1>4, <1>9, DischargeSettles
<1>. QED  BY <1>1, <1>2, <1>5, <1>7, <1>8, <1>10 DEF Steady

LEMMA StashSteps ==
    ASSUME Blocking, NEW r \in Requests, Stash(r)
    PROVE  /\ UNCHANGED <<status, edges, byHand, raced>>
           /\ \A q \in Requests \ {r} : req'[q] = req[q]
           /\ Steady(r)' /\ Settling'
<1>0. Typed /\ Steady(r) /\ Settling
  BY DEF Blocking, Steady
<1>t. PICK t \in Tasks : t = req[r].task
  BY <1>0, StashShape
<1>1. /\ Typed' /\ SameWork(r) /\ UNCHANGED <<status, edges, byHand, raced>>
      /\ req[r].at = "stash" /\ req'[r].at = "write" /\ req'[r].prev = SeenStatus(r, t)
      /\ req[r].task = t
      /\ req'[r].todo = req[r].todo /\ req'[r].by = req[r].by
      /\ req'[r].task = t /\ req'[r].seen = req[r].seen /\ req'[r].to = req[r].to
  BY <1>0, <1>t, StashShape
<1>2. \A q \in Requests \ {r} : req'[q] = req[q]
  BY <1>0, Went DEF Stash
<1>3. Discharges(r)
  <2>1. ASSUME NEW u \in Tasks, Owes(r, u) PROVE Owes(r, u)'
    BY <1>1, <2>1 DEF Owes, Judges, Deciding
  <2>. QED  BY <2>1 DEF Discharges
<1>4. Written(r)' /\ Kept(r)'
  BY <1>0, <1>1, <1>3, OwnWork DEF Steady
<1>5. /\ SeenEdges(r)' = SeenEdges(r)
      /\ SeenStatus(r, t)' = SeenStatus(r, t)
      /\ Sees(r, t)' <=> Sees(r, t)
      /\ Calm(SeenEdges(r), t)' <=> Calm(SeenEdges(r), t)
  BY <1>0, <1>1, SameWorkView
<1>6. ASSUME req[r].by = "sync", t \notin raced
      PROVE  /\ \/ SeenStatus(r, t) = req[r].seen
                \/ ~req[r].tx /\ req[r].seen = "Blocked" /\ SeenStatus(r, t) = "Open"
             /\ req[r].tx \/ req[r].to = "Blocked" => (Sees(r, t) <=> req[r].to = "Blocked")
             /\ Calm(SeenEdges(r), t) =>
                   /\ SeenStatus(r, t) = req[r].seen \/ ~Sees(r, t)
                   /\ req[r].to = "Open" => ~Sees(r, t)
             /\ IsBlocking(SeenStatus(r, t))
  <2>1. Judges(r, t)
    BY <1>1, <1>6 DEF Judges, Deciding
  <2>2. /\ \/ SeenStatus(r, t) = req[r].seen
           \/ ~req[r].tx /\ req[r].seen = "Blocked" /\ SeenStatus(r, t) = "Open"
        /\ req[r].tx \/ req[r].to = "Blocked" => (Sees(r, t) <=> req[r].to = "Blocked")
        /\ Calm(SeenEdges(r), t) =>
              /\ SeenStatus(r, t) = req[r].seen \/ ~Sees(r, t)
              /\ req[r].to = "Open" => ~Sees(r, t)
    BY <1>0, <1>1, <1>6, <2>1 DEF Judged, Steady
  <2>3. req[r].seen \in {"Open", "WIP", "Blocked"}
    BY <1>0, <1>1, <1>6, Fields DEF WellFormed
  <2>4. IsBlocking(SeenStatus(r, t))
    BY <2>2, <2>3 DEF IsBlocking
  <2>. QED  BY <2>2, <2>4
<1>7. Judged(r)'
  <2>1. ASSUME NEW u \in Tasks \ raced', Judges(r, u)'
        PROVE  u = t /\ t \notin raced /\ req[r].by = "sync"
    BY <1>1, <2>1 DEF Judges
  <2>2. req'[r].tx = req[r].tx
    BY <1>1 DEF SameWork
  <2>. QED  BY <1>1, <1>5, <1>6, <2>1, <2>2 DEF Judged
<1>8. Saving(r)'
  <2>1. ASSUME req[r].by = "member", t \notin raced
        PROVE  status[t] = req[r].seen /\ SeenStatus(r, t) = status[t]
    <3>1. ~req[r].tx
      BY <1>0, <1>1, <2>1, Fields DEF WellFormed
    <3>2. status[t] = req[r].seen
      BY <1>0, <1>1, <2>1 DEF Saving, Steady
    <3>. QED  BY <1>0, <1>1, <3>1, <3>2, SeesAll
  <2>. QED  BY <1>1, <2>1 DEF Saving
<1>9. Settling'
  BY <1>0, <1>1, <1>2, <1>3, DischargeSettles
<1>. QED  BY <1>1, <1>2, <1>4, <1>7, <1>8, <1>9 DEF Steady

LEMMA MissSteps ==
    ASSUME Blocking, NEW r \in Requests, Miss(r)
    PROVE  /\ UNCHANGED <<status, edges, byHand, raced>>
           /\ \A q \in Requests \ {r} : req'[q] = req[q]
           /\ Steady(r)' /\ Settling'
<1>0. Typed /\ Steady(r) /\ Settling
  BY DEF Blocking, Steady
<1>1. /\ Typed' /\ UNCHANGED <<status, edges, byHand, raced>>
      /\ req[r].at = "write" /\ status[req[r].task] = "Gone"
      /\ \/ req[r].tx /\ req'[r] = Idle
         \/ /\ ~req[r].tx /\ SameWork(r)
            /\ req'[r].at = "next" /\ req'[r].todo = req[r].todo
  BY <1>0, MissShape
<1>2. \A q \in Requests \ {r} : req'[q] = req[q]
  BY <1>0, Went DEF Miss
<1>3. ~req'[r].tx /\ req'[r].at \in {"idle", "next"}
  BY <1>1, IdleTyped DEF SameWork
<1>4. Steady(r)'
  BY <1>1, <1>3, RestSteady
<1>5. ASSUME NEW t \in Tasks, status[t] # "Gone", ~req[r].tx, Owes(r, t)
      PROVE  Owes(r, t)'
  BY <1>1, <1>5 DEF Owes, Judges
<1>6. Settling'
  <2>1. \A t \in Tasks :
            Calm(edges, t) /\ status[t] # "Gone"
            /\ ((~req[r].tx /\ Owes(r, t)) \/ t \in byHand \ byHand') =>
                Settled(t) \/ (~req'[r].tx /\ Owes(r, t)')
    BY <1>1, <1>3, <1>5
  <2>. QED  BY <1>0, <1>1, <1>2, <2>1, QuietSettling
<1>. QED  BY <1>1, <1>2, <1>4, <1>6

LEMMA ListSteps ==
    ASSUME Blocking, NEW r \in Requests, List(r)
    PROVE  /\ UNCHANGED <<status, edges, byHand, raced>>
           /\ \A q \in Requests \ {r} : req'[q] = req[q]
           /\ Steady(r)' /\ Settling'
<1>0. Typed /\ Steady(r) /\ Settling
  BY DEF Blocking, Steady
<1>1. /\ Typed' /\ SameWork(r) /\ UNCHANGED <<status, edges, byHand, raced>>
      /\ req[r].at = "list" /\ req'[r].at = "next"
      /\ \A u \in Tasks : InTodo(req[r].todo, u) \/ <<req[r].task, u>> \in SeenEdges(r) =>
             InTodo(req'[r].todo, u)
  BY <1>0, ListShape
<1>2. \A q \in Requests \ {r} : req'[q] = req[q]
  BY <1>0, Went DEF List
<1>3. Discharges(r)
  <2>1. ASSUME NEW u \in Tasks, Owes(r, u) PROVE Owes(r, u)'
    BY <1>1, <2>1 DEF Owes, Judges, Deciding
  <2>. QED  BY <2>1 DEF Discharges
<1>4. Written(r)' /\ Kept(r)'
  BY <1>0, <1>1, <1>3, OwnWork DEF Steady
<1>5. Judged(r)' /\ Saving(r)'
  BY <1>1 DEF Judged, Judges, Saving, Deciding
<1>6. Settling'
  BY <1>0, <1>1, <1>2, <1>3, DischargeSettles
<1>. QED  BY <1>1, <1>2, <1>4, <1>5, <1>6 DEF Steady

-----------------------------------------------------------------------------
(* Steps that change rows *)

\* The invariant, once the requests that look on are steady.
LEMMA BlockingFrom ==
    ASSUME Typed', NEW r \in Requests, \A q \in Requests \ {r} : Steady(q)',
           Steady(r)', EdgesHaveRows', Settling'
    PROVE  Blocking'
<1>1. \A q \in Requests : Steady(q)'
  OBVIOUS
<1>2. \A q \in Requests : (Judged(q) /\ Saving(q) /\ Written(q) /\ Kept(q))'
  BY <1>1 DEF Steady
<1>. QED  BY <1>2 DEF Blocking

LEMMA QuietBlocking ==
    ASSUME Blocking, Typed', NEW r \in Requests, UNCHANGED <<status, edges, raced>>,
           \A q \in Requests \ {r} : req'[q] = req[q], Steady(r)', Settling'
    PROVE  Blocking'
<1>1. \A q \in Requests \ {r} : Steady(q)
  BY DEF Blocking, Steady
<1>2. \A q \in Requests \ {r} : Steady(q)'
  BY <1>1, QuietSteady DEF Blocking
<1>3. EdgesHaveRows'
  BY DEF Blocking, EdgesHaveRows
<1>. QED  BY <1>2, <1>3, BlockingFrom

\* Another request that has a task to sync still has, if the dependencies on the
\* task stay.
LEMMA StillOwes ==
    ASSUME Typed, Typed', NEW q \in Requests, req'[q] = req[q], ~req[q].tx,
           NEW t \in Tasks, Owes(q, t), \A x \in Tasks : <<x, t>> \in edges => <<x, t>> \in edges'
    PROVE  Owes(q, t)'
<1>1. SeenEdges(q) = edges
  BY SeesAll
<1>2. ~req'[q].tx
  OBVIOUS
<1>3. SeenEdges(q)' = edges'
  BY <1>2, SeesAllNext
<1>4. req[q].at = "list" => req[q].task \in Tasks
  BY Fields DEF WellFormed
<1>. QED  BY <1>1, <1>3, <1>4 DEF Owes, Judges

LEMMA InsertBlocking ==
    ASSUME Blocking, NEW r \in Requests, Insert(r)
    PROVE  Blocking'
<1>0. Typed /\ Settling /\ \A q \in Requests : Steady(q)
  BY DEF Blocking, Steady
<1>1. /\ Typed' /\ byHand' = byHand /\ status' = status
      /\ ~req[r].tx /\ req[r].op = "add" /\ req[r].todo = <<>> /\ req[r].at = "insert"
      /\ \/ req'[r] = Idle /\ UNCHANGED <<edges, raced>>
         \/ /\ edges' = edges \cup {req[r].edge} /\ Watch(r)
            /\ req[r].edge \in Pairs
            /\ status[req[r].edge[1]] # "Gone" /\ status[req[r].edge[2]] # "Gone"
            /\ ~req'[r].tx /\ req'[r].at = "next"
            /\ InTodo(req'[r].todo, req[r].edge[2])
  BY <1>0, InsertShape
<1>2. \A q \in Requests \ {r} : req'[q] = req[q]
  <2>1. \E now : Goes(r, now)
    BY DEF Insert
  <2>. QED  BY <1>0, <2>1, Went
<1>3. ~req'[r].tx /\ req'[r].at \in {"idle", "next"}
  BY <1>1, IdleTyped
<1>4. Steady(r)'
  BY <1>1, <1>3, RestSteady
<1>5. \A u \in Tasks : ~Owes(r, u)
  BY <1>1, EmptyTodo DEF Owes, Judges, Deciding
<1>6. CASE UNCHANGED <<edges, raced>>
  <2>1. Settling'
    BY <1>0, <1>1, <1>2, <1>5, <1>6, QuietSettling
  <2>. QED  BY <1>1, <1>2, <1>4, <1>6, <2>1, QuietBlocking
<1>7. ASSUME NEW e \in Pairs, e = req[r].edge, edges' = edges \cup {e}, Watch(r),
             status[e[1]] # "Gone", status[e[2]] # "Gone", InTodo(req'[r].todo, e[2])
      PROVE  Blocking'
  <2>1. Recorded(r)
    BY <1>7, WatchRecords
  <2>2. ASSUME NEW q \in Requests \ {r} PROVE Steady(q)'
    <3>1. \A t : ~Closers(q, r, t)
      BY <1>1 DEF Closers
    <3>. QED  BY <1>0, <1>1, <1>2, <2>1, <3>1, StillSteady
  <2>3. EdgesHaveRows'
    BY <1>1, <1>7 DEF Blocking, EdgesHaveRows
  <2>4. ASSUME NEW t \in Tasks \ byHand', Calm(edges, t)', status'[t] # "Gone", t # e[2]
        PROVE  Settled(t)' \/ \E q \in Requests : ~req'[q].tx /\ Owes(q, t)'
    <3>1. \A x \in Tasks : <<x, t>> \in edges' <=> <<x, t>> \in edges
      <4>1. \A x \in Tasks : <<x, t>>[2] = t
        OBVIOUS
      <4>. QED  BY <1>7, <2>4, <4>1
    <3>2. Calm(edges, t)
      BY <2>1, <2>4, <3>1 DEF Calm, Recorded
    <3>3. CASE Settled(t)
      BY <1>1, <3>1, <3>3 DEF Settled, Opens, IsBlocking
    <3>4. CASE \E q \in Requests : ~req[q].tx /\ Owes(q, t)
      <4>1. PICK q \in Requests : ~req[q].tx /\ Owes(q, t)
        BY <3>4
      <4>2. q # r
        BY <1>5, <4>1
      <4>3. req'[q] = req[q]
        BY <1>2, <4>2
      <4>4. Owes(q, t)'
        BY <1>0, <1>1, <3>1, <4>1, <4>3, StillOwes
      <4>. QED  BY <4>1, <4>3, <4>4
    <3>. QED  BY <1>0, <1>1, <2>4, <3>2, <3>3, <3>4 DEF Settling
  <2>5. Owes(r, e[2])'
    BY <1>7 DEF Owes
  <2>6. Settling'
    BY <1>3, <2>4, <2>5 DEF Settling
  <2>. QED  BY <1>1, <1>4, <2>2, <2>3, <2>6, BlockingFrom
<1>. QED  BY <1>1, <1>6, <1>7

\* What a write does to the request that makes it, t being the task it writes.
LEMMA WriteFacts ==
    ASSUME Typed, NEW r \in Requests, Write(r), NEW t \in Tasks, t = req[r].task
    PROVE  /\ Typed' /\ edges' = edges /\ Recorded(r) /\ Watch(r)
           /\ req[r].at = "write" /\ req[r].to \in Statuses
           /\ \A q \in Requests \ {r} : req'[q] = req[q]
           /\ req'[r].at \in {"list", "next"} /\ req'[r].tx = req[r].tx
           /\ \A u : InTodo(req[r].todo, u) => Owes(r, u)'
           /\ \A u : Owes(r, u) => InTodo(req[r].todo, u) \/ (req[r].by = "sync" /\ u = t)
           /\ SeenEdges(r)' = SeenEdges(r)
           /\ byHand \ {t} \subseteq byHand'
<1>1. /\ Typed' /\ edges' = edges /\ Watch(r)
      /\ req[r].at = "write" /\ req[r].to \in Statuses
      /\ req'[r].at = IF Crosses(r) THEN "list" ELSE "next"
      /\ req'[r].todo = req[r].todo
      /\ req'[r].tx = req[r].tx /\ req'[r].drop = req[r].drop
      /\ IF req[r].by = "sync" THEN Synced(r, t)
         ELSE byHand' = IF req[r].want = Same THEN byHand ELSE byHand \cup {t}
  BY WriteShape
<1>2. Recorded(r)
  BY <1>1, WatchRecords
<1>3. \A q \in Requests \ {r} : req'[q] = req[q]
  BY Went DEF Write
<1>4. \A u : InTodo(req[r].todo, u) => Owes(r, u)'
  BY <1>1 DEF Owes
<1>5. \A u : Owes(r, u) => InTodo(req[r].todo, u) \/ (req[r].by = "sync" /\ u = t)
  BY <1>1 DEF Owes, Judges
<1>6. SeenEdges(r)' = SeenEdges(r)
  BY <1>1 DEF SeenEdges
<1>7. byHand \ {t} \subseteq byHand'
  BY <1>1 DEF Synced
<1>8. req'[r].at \in {"list", "next"}
  BY <1>1
<1>. QED  BY <1>1, <1>2, <1>3, <1>4, <1>5, <1>6, <1>7, <1>8

\* What a sync that is about to write has found out, of a task that nobody changed.
LEMMA SyncFinds ==
    ASSUME Typed, NEW r \in Requests, Judged(r), req[r].at = "write", req[r].by = "sync",
           NEW t \in Tasks \ raced, t = req[r].task
    PROVE  /\ SeenStatus(r, t) \in {"Open", "WIP", "Blocked"}
           /\ req[r].to \in {"Open", "Blocked"}
           /\ req[r].tx \/ SeenStatus(r, t) # "Open" => SeenStatus(r, t) = req[r].seen
           /\ req[r].to = IF req[r].seen = "Blocked" THEN "Open" ELSE "Blocked"
           /\ req[r].tx => (Sees(r, t) <=> req[r].to = "Blocked")
           /\ IsBlocking(req[r].prev)
           /\ Calm(SeenEdges(r), t) => (Sees(r, t) <=> req[r].to = "Blocked")
<1>1. Judges(r, t)
  BY DEF Judges, Deciding
<1>2. \/ req[r].seen \in {"Open", "WIP"} /\ req[r].to = "Blocked"
      \/ req[r].seen = "Blocked" /\ req[r].to = "Open"
  BY Fields DEF WellFormed
<1>3. /\ \/ SeenStatus(r, t) = req[r].seen
         \/ ~req[r].tx /\ req[r].seen = "Blocked" /\ SeenStatus(r, t) = "Open"
      /\ req[r].tx \/ req[r].to = "Blocked" => (Sees(r, t) <=> req[r].to = "Blocked")
      /\ IsBlocking(req[r].prev)
      /\ Calm(SeenEdges(r), t) /\ req[r].to = "Open" => ~Sees(r, t)
  BY <1>1 DEF Judged
<1>. QED  BY <1>2, <1>3

\* A save that commits at once leaves every other task waiting for whom it waited
\* for, or crosses the boundary and has it to sync.
LEMMA SaveSettles ==
    ASSUME Blocking, NEW r \in Requests, Write(r), ~req[r].tx
    PROVE  Settling'
<1>0. Typed /\ Settling /\ EdgesHaveRows /\ Judged(r) /\ Saving(r)
  BY DEF Blocking
<1>t. PICK t \in Tasks : t = req[r].task
  BY <1>0, WriteShape
<1>o. PICK to \in Statuses : to = req[r].to
  BY <1>0, WriteShape
<1>1. /\ Typed' /\ edges' = edges /\ Recorded(r)
      /\ req[r].at = "write"
      /\ \A q \in Requests \ {r} : req'[q] = req[q]
      /\ req'[r].tx = req[r].tx
      /\ \A u : InTodo(req[r].todo, u) => Owes(r, u)'
      /\ \A u : Owes(r, u) => InTodo(req[r].todo, u) \/ (req[r].by = "sync" /\ u = t)
      /\ SeenEdges(r)' = SeenEdges(r)
      /\ byHand \ {t} \subseteq byHand'
  BY <1>0, <1>t, WriteFacts
<1>2. /\ status' = [status EXCEPT ![t] = to] /\ status \in [Tasks -> Statuses \cup {"Gone"}]
      /\ req[r].by \in {"sync", "member"} /\ req'[r].task = t
      /\ req'[r].at = IF Crosses(r) THEN "list" ELSE "next"
      /\ req[r].by = "member" =>
            byHand' = IF req[r].want = Same THEN byHand ELSE byHand \cup {t}
  BY <1>0, <1>t, <1>o, WriteShape, Fields
<1>3. status'[t] = to /\ \A x \in Tasks \ {t} : status'[x] = status[x]
  BY <1>2
<1>4. ~req'[r].tx /\ raced \subseteq raced' /\ edges \subseteq Pairs
  BY <1>0, <1>1, Fields DEF Recorded
<1>5. SeenEdges(r) = edges /\ SeenStatus(r, t) = status[t] /\ (Sees(r, t) <=> Opens(t))
  BY <1>0, SeesAll
<1>6. Opens(t)' <=> Opens(t)
  <2>1. \A x \in Tasks : <<x, t>> \in edges => x # t
    BY <1>4 DEF Pairs
  <2>. QED  BY <1>1, <1>3, <2>1 DEF Opens
<1>7. \A u \in Tasks : Calm(edges, u)' => Calm(edges, u)
  BY <1>1, <1>4 DEF Calm
<1>8. ASSUME NEW u \in Tasks, NEW q \in Requests, ~req[q].tx, Owes(q, u),
             q # r \/ InTodo(req[r].todo, u)
      PROVE  \E p \in Requests : ~req'[p].tx /\ Owes(p, u)'
  <2>1. CASE q = r
    BY <1>1, <1>4, <1>8, <2>1
  <2>2. CASE q # r
    <3>1. req'[q] = req[q]
      BY <1>1, <2>2
    <3>2. Owes(q, u)'
      BY <1>0, <1>1, <1>8, <3>1, StillOwes
    <3>. QED  BY <1>8, <3>1, <3>2
  <2>. QED  BY <2>1, <2>2
<1>9. ASSUME t \notin byHand', Calm(edges, t)', req[r].by = "sync" PROVE Settled(t)'
  <2>1. t \notin raced /\ Calm(edges, t)
    BY <1>7, <1>9 DEF Calm
  <2>2. to \in {"Open", "Blocked"} /\ (Opens(t) <=> to = "Blocked")
    BY <1>0, <1>1, <1>t, <1>o, <1>5, <1>9, <2>1, SyncFinds
  <2>. QED  BY <1>3, <1>6, <2>2 DEF Settled
<1>10. ASSUME t \notin byHand', Calm(edges, t)', req[r].by = "member"
       PROVE  Settled(t)' \/ \E p \in Requests : ~req'[p].tx /\ Owes(p, t)'
  <2>1. t \notin raced /\ Calm(edges, t)
    BY <1>7, <1>10 DEF Calm
  <2>2. req[r].want = Same /\ byHand' = byHand
    BY <1>2, <1>10
  <2>3. to = req[r].seen
    BY <1>0, <1>1, <1>o, <1>10, <2>2, Fields DEF WellFormed
  <2>4. status[t] = req[r].seen
    BY <1>0, <1>1, <1>t, <1>10, <2>1 DEF Saving
  <2>5. status'[t] = status[t] /\ status[t] # "Gone"
    BY <1>3, <2>3, <2>4 DEF Statuses
  <2>6. CASE Settled(t)
    BY <1>6, <2>5, <2>6 DEF Settled
  <2>7. CASE \E q \in Requests : ~req[q].tx /\ Owes(q, t)
    BY <1>1, <1>8, <1>10, <2>7
  <2>. QED  BY <1>0, <1>10, <2>1, <2>2, <2>5, <2>6, <2>7 DEF Settling
<1>11. ASSUME NEW u \in Tasks \ {t}, u \notin byHand', Calm(edges, u)', status'[u] # "Gone"
       PROVE  Settled(u)' \/ \E p \in Requests : ~req'[p].tx /\ Owes(p, u)'
  <2>1. /\ Calm(edges, u) /\ status'[u] = status[u] /\ u \notin byHand
    BY <1>1, <1>3, <1>7, <1>11
  <2>2. CASE \E q \in Requests : ~req[q].tx /\ Owes(q, u)
    BY <1>1, <1>8, <1>11, <2>2
  <2>3. CASE Settled(u) /\ <<t, u>> \in edges /\ IsBlocking(status[t]) # IsBlocking(to)
    <3>1. t \notin raced /\ status[t] # "Gone"
      <4>1. <<t, u>>[1] = t
        OBVIOUS
      <4>. QED  BY <1>0, <2>1, <2>3, <4>1 DEF Calm, EdgesHaveRows
    <3>2. req[r].by = "member"
      <4>1. SUFFICES ASSUME req[r].by = "sync" PROVE FALSE
        BY <1>2
      <4>2. status[t] \in {"Open", "WIP", "Blocked"} /\ to \in {"Open", "Blocked"}
        BY <1>0, <1>1, <1>t, <1>o, <1>5, <3>1, <4>1, SyncFinds
      <4>. QED  BY <2>3, <4>2 DEF IsBlocking
    <3>3. req[r].prev = status[t]
      BY <1>0, <1>1, <1>t, <3>1, <3>2 DEF Saving
    <3>4. Crosses(r)
      BY <1>t, <1>o, <2>3, <3>1, <3>3 DEF Crosses
    <3>5. req'[r].at = "list" /\ <<req'[r].task, u>> \in SeenEdges(r)'
      BY <1>1, <1>2, <1>5, <2>3, <3>4
    <3>6. Owes(r, u)'
      BY <3>5 DEF Owes
    <3>. QED  BY <1>4, <3>6
  <2>4. CASE Settled(u) /\ (<<t, u>> \notin edges \/ IsBlocking(status[t]) = IsBlocking(to))
    <3>1. \A x \in Tasks : <<x, u>> \in edges => (IsBlocking(status'[x]) <=> IsBlocking(status[x]))
      BY <1>3, <2>4 DEF IsBlocking
    <3>2. Opens(u)' <=> Opens(u)
      BY <1>1, <3>1 DEF Opens
    <3>. QED  BY <2>1, <2>4, <3>2 DEF Settled
  <2>. QED  BY <1>0, <2>1, <1>11, <2>2, <2>3, <2>4 DEF Settling
<1>. QED  BY <1>1, <1>2, <1>9, <1>10, <1>11 DEF Settling

\* Within a transaction what it has written is what it sees.
LEMMA UnseenSettles ==
    ASSUME Blocking, NEW r \in Requests, Write(r), req[r].tx
    PROVE  UNCHANGED <<status, edges, raced>> /\ Steady(r)' /\ Settling'
<1>0. Typed /\ Settling /\ Judged(r) /\ Written(r) /\ Kept(r)
  BY DEF Blocking
<1>t. PICK t \in Tasks : t = req[r].task
  BY <1>0, WriteShape
<1>o. PICK to \in Statuses : to = req[r].to
  BY <1>0, WriteShape
<1>1. /\ Typed' /\ edges' = edges /\ Watch(r)
      /\ req[r].at = "write" /\ req'[r].at \in {"list", "next"}
      /\ \A q \in Requests \ {r} : req'[q] = req[q]
      /\ req'[r].tx = req[r].tx
      /\ \A u : InTodo(req[r].todo, u) => Owes(r, u)'
      /\ \A u : Owes(r, u) => InTodo(req[r].todo, u) \/ (req[r].by = "sync" /\ u = t)
      /\ SeenEdges(r)' = SeenEdges(r)
  BY <1>0, <1>t, WriteFacts
<1>2. req[r].by = "sync"
  BY <1>0, <1>1, WriteShape, Fields DEF WellFormed
<1>3. /\ status' = status /\ status[t] # "Gone" /\ req'[r].drop = req[r].drop
      /\ req'[r].dirty = [req[r].dirty EXCEPT ![t] = to]
      /\ req[r].dirty \in [Tasks -> Statuses \cup {Clean}]
      /\ status \in [Tasks -> Statuses \cup {"Gone"}]
      /\ byHand' = byHand
  BY <1>0, <1>2, <1>t, <1>o, WriteShape, Fields DEF Synced
<1>4. raced' = raced
  BY <1>0, <1>1, <1>3, NothingChanged DEF Watch
<1>5. UNCHANGED <<status, edges, raced>>
  BY <1>1, <1>3, <1>4
<1>6. /\ SeenStatus(r, t)' = to /\ req'[r].dirty[t] = to
      /\ \A x \in Tasks \ {t} : /\ SeenStatus(r, x)' = SeenStatus(r, x)
                                /\ req'[r].dirty[x] = req[r].dirty[x]
  <2>1. to # Clean
    BY DEF Statuses, Clean
  <2>. QED  BY <1>3, <2>1 DEF SeenStatus
<1>7. SeenEdges(r) \subseteq Pairs /\ to \in {"Open", "Blocked"}
  BY <1>0, <1>1, <1>2, <1>o, Fields DEF SeenEdges, WellFormed
<1>8. \A u \in Tasks : Sees(r, u) => Sees(r, u)'
  BY <1>1, <1>6, <1>7 DEF Sees, IsBlocking
<1>9. Sees(r, t)' <=> Sees(r, t)
  <2>1. \A x \in Tasks : <<x, t>> \in SeenEdges(r) => x # t
    BY <1>7 DEF Pairs
  <2>. QED  BY <1>1, <1>6, <2>1 DEF Sees
<1>10. ASSUME t \notin raced
       PROVE  /\ SeenStatus(r, t) = req[r].seen
              /\ req[r].seen \in {"Open", "WIP"} => to = "Blocked"
              /\ req[r].seen \in {"Open", "WIP", "Blocked"}
              /\ Sees(r, t) <=> to = "Blocked"
  BY <1>0, <1>1, <1>2, <1>t, <1>o, <1>10, SyncFinds
<1>11. ASSUME NEW u \in Tasks \ {t}, Calm(SeenEdges(r), u) PROVE Sees(r, u)' => Sees(r, u)
  <2>1. ASSUME <<t, u>> \in SeenEdges(r) PROVE IsBlocking(SeenStatus(r, t))
    <3>1. t \notin raced
      BY <1>11, <2>1 DEF Calm
    <3>. QED  BY <1>10, <3>1 DEF IsBlocking
  <2>. QED  BY <1>1, <1>6, <2>1 DEF Sees
<1>12. Judged(r)' /\ Saving(r)'
  BY <1>1 DEF Judged, Judges, Saving, Deciding
<1>13. ASSUME t \notin raced
       PROVE  /\ \/ status[t] \in {"Open", "WIP"} /\ to = "Blocked"
                 \/ status[t] = "Blocked"
              /\ to = "Blocked" => Sees(r, t)'
  <2>1. CASE req[r].dirty[t] = Clean
    BY <1>9, <1>10, <1>13, <2>1 DEF SeenStatus
  <2>2. CASE req[r].dirty[t] # Clean
    <3>1. /\ \/ status[t] \in {"Open", "WIP"} /\ req[r].dirty[t] = "Blocked"
             \/ status[t] = "Blocked"
          /\ req[r].dirty[t] = "Blocked" => Sees(r, t)
      BY <1>0, <1>13, <2>2 DEF Written
    <3>. QED  BY <1>9, <1>10, <1>13, <3>1
  <2>. QED  BY <2>1, <2>2
<1>14. Written(r)'
  <2>1. ASSUME NEW u \in Tasks \ raced, u # t, req'[r].dirty[u] # Clean
        PROVE  /\ \/ status[u] \in {"Open", "WIP"} /\ req'[r].dirty[u] = "Blocked"
                  \/ status[u] = "Blocked"
               /\ req'[r].dirty[u] = "Blocked" => Sees(r, u)'
    BY <1>0, <1>6, <1>8, <2>1 DEF Written
  <2>. QED  BY <1>3, <1>4, <1>6, <1>13, <2>1 DEF Written
<1>15. Kept(r)'
  <2>1. ASSUME NEW u \in Touched(r)', Calm(SeenEdges(r), u)', SeenStatus(r, u)' # "Gone"
        PROVE  AgreesTo(r, u)' \/ Owes(r, u)'
    <3>1. u \in Tasks /\ Calm(SeenEdges(r), u) /\ u \notin raced
      BY <1>1, <1>4, <2>1 DEF Touched, Calm
    <3>2. CASE u = t
      BY <1>6, <1>7, <1>9, <1>10, <3>1, <3>2 DEF AgreesTo
    <3>3. CASE u # t
      <4>1. u \in Touched(r) /\ SeenStatus(r, u)' = SeenStatus(r, u)
        BY <1>3, <1>6, <2>1, <3>1, <3>3 DEF Touched
      <4>2. Sees(r, u)' <=> Sees(r, u)
        BY <1>8, <1>11, <3>1, <3>3
      <4>3. AgreesTo(r, u) \/ Owes(r, u)
        BY <1>0, <2>1, <3>1, <4>1 DEF Kept
      <4>4. AgreesTo(r, u) => AgreesTo(r, u)'
        BY <4>1, <4>2 DEF AgreesTo
      <4>. QED  BY <1>1, <3>3, <4>3, <4>4
    <3>. QED  BY <3>2, <3>3
  <2>. QED  BY <2>1 DEF Kept
<1>16. Settling'
  <2>1. \A u \in Tasks : ~((~req[r].tx /\ Owes(r, u)) \/ u \in byHand \ byHand')
    BY <1>3
  <2>. QED  BY <1>0, <1>1, <1>5, <2>1, QuietSettling
<1>. QED  BY <1>5, <1>12, <1>14, <1>15, <1>16 DEF Steady

LEMMA WriteBlocking ==
    ASSUME Blocking, NEW r \in Requests, Write(r)
    PROVE  Blocking'
<1>0. Typed /\ \A q \in Requests : Steady(q)
  BY DEF Blocking, Steady
<1>1. Typed'
  BY <1>0, WriteShape
<1>2. \A q \in Requests \ {r} : req'[q] = req[q]
  BY <1>0, Went DEF Write
<1>3. CASE req[r].tx
  <2>1. UNCHANGED <<status, edges, raced>> /\ Steady(r)' /\ Settling'
    BY <1>3, UnseenSettles
  <2>. QED  BY <1>1, <1>2, <2>1, QuietBlocking
<1>4. CASE ~req[r].tx
  <2>1. /\ edges' = edges /\ Watch(r) /\ req[r].task \in Tasks /\ req[r].to \in Statuses
        /\ req'[r].tx = req[r].tx
        /\ req'[r].at \in {"list", "next"}
        /\ status' = [status EXCEPT ![req[r].task] = req[r].to]
    BY <1>0, <1>4, WriteShape
  <2>2. ~req'[r].tx
    BY <1>4, <2>1
  <2>3. Steady(r)'
    BY <1>1, <2>1, <2>2, RestSteady
  <2>4. Recorded(r)
    BY <2>1, WatchRecords
  <2>5. ASSUME NEW q \in Requests \ {r} PROVE Steady(q)'
    <3>1. ASSUME NEW t \in Tasks \ raced', Closers(q, r, t) PROVE Opened(t)
      BY <1>0, <1>1, <3>1, CloserWrites DEF Opened, Steady
    <3>. QED  BY <1>0, <1>1, <1>2, <2>1, <2>4, <3>1, StillSteady
  <2>6. EdgesHaveRows'
    <3>1. \A t \in Tasks : status[t] # "Gone" => status'[t] # "Gone"
      BY <1>0, <2>1, Fields DEF Statuses
    <3>2. \A e \in edges : e[1] \in Tasks /\ e[2] \in Tasks
      BY <1>0, Fields, EdgeEnds
    <3>. QED  BY <2>1, <3>1, <3>2 DEF Blocking, EdgesHaveRows
  <2>7. Settling'
    BY <1>4, SaveSettles
  <2>. QED  BY <1>1, <2>3, <2>5, <2>6, <2>7, BlockingFrom
<1>. QED  BY <1>3, <1>4

\* What a commit makes of the rows is what the request saw.
LEMMA CommitSettles ==
    ASSUME Typed, Typed', Settling, NEW r \in Requests, Written(r), Kept(r), req[r].tx,
           req[r].at = "next", req[r].todo = <<>>, raced \subseteq raced',
           \A q \in Requests \ {r} : req'[q] = req[q],
           byHand' = byHand \ {e[2] : e \in req[r].drop}, edges' = SeenEdges(r),
           \A e \in SeenEdges(r) : e[1] \notin req[r].gone /\ e[2] \notin req[r].gone,
           status' = [t \in Tasks |-> IF t \in req[r].gone THEN "Gone" ELSE SeenStatus(r, t)]
    PROVE  Settling'
<1>. SUFFICES ASSUME NEW u \in Tasks \ byHand', Calm(edges, u)', status'[u] # "Gone"
              PROVE  Settled(u)' \/ \E q \in Requests : ~req'[q].tx /\ Owes(q, u)'
  BY DEF Settling
<1>1. Calm(SeenEdges(r), u)
  BY DEF Calm
<1>2. status'[u] = SeenStatus(r, u)
  OBVIOUS
<1>3. \A x \in Tasks : <<x, u>> \in edges' => status'[x] = SeenStatus(r, x)
  <2>1. \A x \in Tasks : <<x, u>>[1] = x
    OBVIOUS
  <2>. QED  BY <2>1
<1>4. Opens(u)' <=> Sees(r, u)
  BY <1>3 DEF Opens, Sees, IsBlocking
<1>5. ~Owes(r, u)
  BY EmptyTodo DEF Owes, Judges, Deciding
<1>6. CASE u \in Touched(r)
  <2>1. AgreesTo(r, u)
    BY <1>1, <1>2, <1>5, <1>6 DEF Kept
  <2>. QED  BY <1>2, <1>4, <2>1 DEF AgreesTo, Settled
<1>7. CASE u \notin Touched(r)
  <2>1. req[r].dirty[u] = Clean /\ \A x \in Tasks : <<x, u>> \notin req[r].drop
    BY <1>7 DEF Touched
  <2>2. status'[u] = status[u]
    BY <1>2, <2>1 DEF SeenStatus
  <2>3. \A x \in Tasks : <<x, u>> \in edges' <=> <<x, u>> \in edges
    BY <2>1 DEF SeenEdges
  <2>4. u \notin byHand
    <3>1. \A e \in req[r].drop : e[2] # u
      BY <2>1, Fields, EdgeEnds
    <3>. QED  BY <3>1
  <2>5. Calm(edges, u)
    BY <2>3 DEF Calm
  <2>6. ASSUME NEW x \in Tasks, <<x, u>> \in edges
        PROVE  IsBlocking(SeenStatus(r, x)) <=> IsBlocking(status[x])
    <3>1. CASE req[r].dirty[x] = Clean
      BY <3>1 DEF SeenStatus
    <3>2. CASE req[r].dirty[x] # Clean
      <4>1. x \notin raced
        BY <2>5, <2>6 DEF Calm
      <4>2. status[x] \in {"Open", "WIP", "Blocked"}
        BY <3>2, <4>1 DEF Written
      <4>3. SeenStatus(r, x) \in {"Open", "Blocked"}
        BY <3>2, Fields DEF WellFormed, SeenStatus
      <4>. QED  BY <4>2, <4>3 DEF IsBlocking
    <3>. QED  BY <3>1, <3>2
  <2>7. Opens(u)' <=> Opens(u)
    BY <1>3, <2>3, <2>6 DEF Opens, IsBlocking
  <2>8. CASE Settled(u)
    BY <2>2, <2>7, <2>8 DEF Settled
  <2>9. CASE \E q \in Requests : ~req[q].tx /\ Owes(q, u)
    <3>1. PICK q \in Requests : ~req[q].tx /\ Owes(q, u)
      BY <2>9
    <3>2. req'[q] = req[q]
      BY <3>1
    <3>3. Owes(q, u)'
      BY <2>3, <3>1, <3>2, StillOwes
    <3>. QED  BY <3>1, <3>2, <3>3
  <2>. QED  BY <2>2, <2>4, <2>5, <2>8, <2>9 DEF Settling
<1>. QED  BY <1>6, <1>7

LEMMA FinishBlocking ==
    ASSUME Blocking, NEW r \in Requests, Finish(r)
    PROVE  Blocking'
<1>0. Typed /\ Settling /\ \A q \in Requests : Steady(q)
  BY DEF Blocking, Steady
<1>1. /\ Typed' /\ Watch(r) /\ req'[r] = Idle
      /\ req[r].at = "next" /\ req[r].todo = <<>>
      /\ \/ UNCHANGED <<status, edges, byHand>> /\ req[r].tx
         \/ /\ byHand' = byHand \ {e[2] : e \in req[r].drop}
            /\ edges' = SeenEdges(r)
            /\ \A e \in SeenEdges(r) : e[1] \notin req[r].gone /\ e[2] \notin req[r].gone
            /\ status' = [t \in Tasks |-> IF t \in req[r].gone THEN "Gone"
                                          ELSE SeenStatus(r, t)]
  BY <1>0, FinishShape
<1>2. \A q \in Requests \ {r} : req'[q] = req[q]
  BY <1>0, Went DEF Finish
<1>3. Steady(r)'
  <2>1. req'[r].tx = FALSE /\ req'[r].at = "idle"
    BY <1>1, IdleTyped
  <2>. QED  BY <1>1, <2>1, RestSteady
<1>4. \A u \in Tasks : ~Owes(r, u)
  BY <1>1, EmptyTodo DEF Owes, Judges, Deciding
<1>5. ASSUME UNCHANGED <<status, edges, byHand>> PROVE Blocking'
  <2>1. raced' = raced
    BY <1>0, <1>1, <1>5, NothingChanged DEF Watch
  <2>2. Settling'
    BY <1>0, <1>1, <1>2, <1>4, <1>5, <2>1, QuietSettling
  <2>. QED  BY <1>1, <1>2, <1>3, <1>5, <2>1, <2>2, QuietBlocking
<1>6. CASE ~req[r].tx
  <2>1. /\ req[r].drop = {} /\ req[r].gone = {}
        /\ \A t \in Tasks : SeenStatus(r, t) = status[t]
        /\ SeenEdges(r) = edges
        /\ status \in [Tasks -> Statuses \cup {"Gone"}]
    BY <1>0, <1>6, Fields, SeesAll DEF WellFormed
  <2>2. UNCHANGED <<status, edges, byHand>>
    BY <1>1, <1>6, <2>1
  <2>. QED  BY <1>5, <2>2
<1>7. ASSUME req[r].tx,
             byHand' = byHand \ {e[2] : e \in req[r].drop}, edges' = SeenEdges(r),
             \A e \in SeenEdges(r) : e[1] \notin req[r].gone /\ e[2] \notin req[r].gone,
             status' = [t \in Tasks |-> IF t \in req[r].gone THEN "Gone" ELSE SeenStatus(r, t)]
      PROVE  Blocking'
  <2>1. Recorded(r) /\ raced \subseteq raced'
    BY <1>1, WatchRecords DEF Recorded
  <2>2. ASSUME NEW q \in Requests \ {r} PROVE Steady(q)'
    <3>1. \A t : ~Closers(q, r, t)
      BY <1>0, <1>7, NoCloser
    <3>. QED  BY <1>0, <1>1, <1>2, <2>1, <3>1, StillSteady
  <2>3. EdgesHaveRows'
    <3>1. ASSUME NEW t \in Tasks, t \notin req[r].gone, status[t] # "Gone"
          PROVE  status'[t] # "Gone"
      BY <1>0, <1>7, <3>1, Fields DEF SeenStatus, Statuses
    <3>2. \A e \in SeenEdges(r) : e \in edges /\ e[1] \in Tasks /\ e[2] \in Tasks
      BY <1>0, Fields, EdgeEnds DEF SeenEdges
    <3>. QED  BY <1>7, <3>1, <3>2 DEF Blocking, EdgesHaveRows
  <2>4. Settling'
    BY <1>0, <1>1, <1>2, <1>7, <2>1, CommitSettles DEF Steady
  <2>. QED  BY <1>1, <1>3, <2>2, <2>3, <2>4, BlockingFrom
<1>. QED  BY <1>1, <1>5, <1>6, <1>7

LEMMA BlockingInit == Init => Blocking
<1>. SUFFICES ASSUME Init PROVE Blocking
  OBVIOUS
<1>1. Typed
  BY TypedInit
<1>2. \A r \in Requests : req[r] = Idle
  BY DEF Init
<1>3. status = [t \in Tasks |-> IF \E e \in edges : e[2] = t THEN "Blocked" ELSE "Open"]
  BY DEF Init
<1>4. ASSUME NEW r \in Requests PROVE Judged(r) /\ Saving(r) /\ Written(r) /\ Kept(r)
  <2>1. Judged(r) /\ Saving(r)
    BY <1>2, IdleTyped DEF Judged, Judges, Saving, Deciding
  <2>2. Written(r) /\ Kept(r)
    BY <1>2, IdleTyped DEF Written, Kept
  <2>. QED  BY <2>1, <2>2
<1>5. \A t \in Tasks : status[t] \in {"Blocked", "Open"}
  BY <1>3, Zenon
<1>6. EdgesHaveRows
  BY <1>1, <1>5, Fields, EdgeEnds DEF EdgesHaveRows, Typed, Rows
<1>7. ASSUME NEW t \in Tasks PROVE Settled(t)
  <2>1. CASE \E e \in edges : e[2] = t
    <3>1. PICK e \in edges : e[2] = t
      BY <2>1
    <3>2. e[1] \in Tasks /\ e = <<e[1], t>>
      BY <1>1, <3>1, EdgeEnds DEF Typed, Rows
    <3>3. IsBlocking(status[e[1]])
      BY <1>5, <3>2 DEF IsBlocking
    <3>. QED  BY <1>3, <2>1, <3>2, <3>3 DEF Settled, Opens
  <2>2. CASE ~\E e \in edges : e[2] = t
    <3>1. \A x \in Tasks : <<x, t>>[2] = t
      OBVIOUS
    <3>2. ~Opens(t)
      BY <2>2, <3>1 DEF Opens
    <3>. QED  BY <1>3, <2>2, <3>2 DEF Settled
  <2>. QED  BY <2>1, <2>2
<1>8. Settling
  BY <1>7 DEF Settling
<1>. QED  BY <1>1, <1>4, <1>6, <1>8 DEF Blocking

LEMMA BlockingStep == Blocking /\ [Next]_vars => Blocking'
<1>. SUFFICES ASSUME Blocking, [Next]_vars PROVE Blocking'
  OBVIOUS
<1>0. Typed /\ Typed'
  BY TypedNext DEF Blocking
<1>1. CASE UNCHANGED vars
  <2>1. UNCHANGED <<status, edges, req, sent, byHand, raced>>
    BY <1>1 DEF vars, history
  <2>2. ASSUME NEW r \in Requests PROVE (Judged(r) /\ Saving(r) /\ Written(r) /\ Kept(r))'
    <3>1. Judged(r) /\ Saving(r) /\ Written(r) /\ Kept(r)
      BY DEF Blocking
    <3>2. Judged(r)'
      BY <2>1, <3>1 DEF Judged, Judges, Sees, SeenStatus, SeenEdges, Calm, IsBlocking
    <3>3. Saving(r)'
      BY <2>1, <3>1 DEF Saving
    <3>4. Written(r)'
      BY <2>1, <3>1 DEF Written, Sees, SeenStatus, SeenEdges, IsBlocking
    <3>5. SameWork(r)
      BY <2>1 DEF SameWork
    <3>6. Kept(r)'
      <4>1. \A t : Owes(r, t) => Owes(r, t)'
        BY <2>1 DEF Owes, Judges, SeenEdges
      <4>2. Discharges(r)
        BY <4>1 DEF Discharges
      <4>. QED  BY <1>0, <2>1, <3>1, <3>5, <4>2, OwnWork
    <3>. QED  BY <3>2, <3>3, <3>4, <3>6
  <2>3. EdgesHaveRows'
    BY <2>1 DEF Blocking, EdgesHaveRows
  <2>4. Settling'
    BY <2>1 DEF Blocking, Settling, Settled, Opens, Calm, Owes, Judges, SeenEdges, IsBlocking
  <2>. QED  BY <1>0, <2>2, <2>3, <2>4 DEF Blocking
<1>2. ASSUME NEW r \in Requests, NEW t \in Tasks, NEW want \in Statuses \cup {Same}, Put(r, t, want)
      PROVE  Blocking'
  BY <1>0, <1>2, PutSteps, QuietBlocking
<1>3. ASSUME NEW r \in Requests, NEW e \in Pairs, Add(r, e) PROVE Blocking'
  BY <1>0, <1>3, AddSteps, QuietBlocking
<1>4. ASSUME NEW r \in Requests, NEW e \in Pairs, Drop(r, e) PROVE Blocking'
  <2>1. Send(r, "drop") /\ Deletes(r, "drop", {e}, {})
    BY <1>4 DEF Drop
  <2>2. {e} \in SUBSET Pairs /\ {} \in SUBSET Tasks /\ "drop" \in {"drop", "delete"}
    OBVIOUS
  <2>3. UNCHANGED <<status, edges, byHand, raced>> /\ (\A q \in Requests \ {r} : req'[q] = req[q])
        /\ Steady(r)' /\ Settling'
    BY <2>1, <2>2, DeletesSteps
  <2>. QED  BY <1>0, <2>3, QuietBlocking
<1>5. ASSUME NEW r \in Requests, NEW t \in Tasks, DeleteTask(r, t) PROVE Blocking'
  <2>. DEFINE E == {e \in edges : t \in {e[1], e[2]}}
  <2>1. Send(r, "delete") /\ Deletes(r, "delete", E, {t})
    BY <1>5 DEF DeleteTask
  <2>2. E \in SUBSET Pairs /\ {t} \in SUBSET Tasks /\ "delete" \in {"drop", "delete"}
    BY <1>0 DEF Typed, Rows
  <2>. HIDE DEF E
  <2>3. UNCHANGED <<status, edges, byHand, raced>> /\ (\A q \in Requests \ {r} : req'[q] = req[q])
        /\ Steady(r)' /\ Settling'
    BY <2>1, <2>2, DeletesSteps
  <2>. QED  BY <1>0, <2>3, QuietBlocking
<1>6. ASSUME NEW r \in Requests, Insert(r) PROVE Blocking'
  BY <1>6, InsertBlocking
<1>7. ASSUME NEW r \in Requests, NEW t \in Tasks, Look(r, t) PROVE Blocking'
  BY <1>0, <1>7, LookSteps, QuietBlocking
<1>8. ASSUME NEW r \in Requests, Count(r) PROVE Blocking'
  BY <1>0, <1>8, CountSteps, QuietBlocking
<1>9. ASSUME NEW r \in Requests, Stash(r) PROVE Blocking'
  BY <1>0, <1>9, StashSteps, QuietBlocking
<1>10. ASSUME NEW r \in Requests, Write(r) PROVE Blocking'
  BY <1>10, WriteBlocking
<1>11. ASSUME NEW r \in Requests, Miss(r) PROVE Blocking'
  BY <1>0, <1>11, MissSteps, QuietBlocking
<1>12. ASSUME NEW r \in Requests, List(r) PROVE Blocking'
  BY <1>0, <1>12, ListSteps, QuietBlocking
<1>13. ASSUME NEW r \in Requests, Finish(r) PROVE Blocking'
  BY <1>13, FinishBlocking
<1>. QED
  BY <1>1, <1>2, <1>3, <1>4, <1>5, <1>6, <1>7, <1>8, <1>9, <1>10, <1>11, <1>12, <1>13, Cases

LEMMA BlockingHolds == Spec => []Blocking
<1>1. Init => Blocking
  BY BlockingInit
<1>2. Blocking /\ [Next]_vars => Blocking'
  BY BlockingStep
<1>. QED  BY <1>1, <1>2, PTL DEF Spec

-----------------------------------------------------------------------------
(* What the automation promises *)

LEMMA BlockingAgrees == Blocking => StatusAgrees
<1>. SUFFICES ASSUME Blocking, Quiet, NEW t \in Tasks \ byHand, t \notin raced,
                     \A x \in raced : t \notin Dependents(x, edges), status[t] # "Gone"
              PROVE  Agrees(t)
  BY DEF StatusAgrees
<1>1. Typed /\ edges \subseteq Pairs
  BY DEF Blocking, Typed, Rows
<1>2. Calm(edges, t)
  <2>1. ASSUME NEW x \in Tasks, <<x, t>> \in edges PROVE t \in Dependents(x, edges)
    BY <1>1, <2>1, DependentsAre
  <2>. QED  BY <2>1 DEF Calm
<1>3. ASSUME NEW r \in Requests PROVE ~Owes(r, t)
  <2>1. req[r] = Idle
    BY <1>1, Fields DEF WellFormed, Quiet
  <2>. QED  BY <2>1, IdleTyped, EmptyTodo DEF Owes, Judges, Deciding
<1>4. Settled(t)
  BY <1>2, <1>3 DEF Blocking, Settling
<1>5. OpenBlockers(t) # {} <=> Opens(t)
  <2>1. ASSUME NEW x \in Tasks, <<x, t>> \in edges, IsBlocking(status[x])
        PROVE  OpenBlockers(t) # {}
    <3>1. <<x, t>>[1] = x /\ <<x, t>>[2] = t
      OBVIOUS
    <3>. QED  BY <2>1, <3>1 DEF OpenBlockers
  <2>2. ASSUME OpenBlockers(t) # {} PROVE Opens(t)
    <3>1. PICK e \in edges : e[2] = t /\ IsBlocking(status[e[1]])
      BY <2>2 DEF OpenBlockers
    <3>2. e[1] \in Tasks /\ e = <<e[1], t>>
      BY <1>1, <3>1, EdgeEnds
    <3>. QED  BY <3>1, <3>2 DEF Opens
  <2>. QED  BY <2>1, <2>2 DEF Opens
<1>. QED  BY <1>4, <1>5 DEF Settled, Agrees

\* sync_blocked_status and blocker_state_changed, however requests interleave:
\* when nothing is under way a task is blocked exactly when it has an open
\* blocker, but for tasks set by hand or changed under a request.
THEOREM BlockedWhileBlocked == Spec => []StatusAgrees
BY BlockingHolds, BlockingAgrees, PTL

\* The steps by which a status changes.
LEMMA StatusMoves ==
    ASSUME [Next]_vars, status' # status
    PROVE  \E r \in Requests : Write(r) \/ Finish(r)
<1>1. ~UNCHANGED vars
  BY DEF vars
<1>. QED
  BY <1>1, Cases DEF Put, Add, Drop, DeleteTask, Deletes, Insert, Look, Count, Stash, Miss, List

LEMMA SaveRespects ==
    ASSUME Blocking, NEW r \in Requests, Write(r), NEW t \in Tasks \ raced,
           status'[t] # status[t], ~MemberWrites(t)
    PROVE  \/ status[t] \in {"Open", "WIP"} /\ status'[t] = "Blocked"
           \/ status[t] = "Blocked" /\ status'[t] = "Open"
<1>0. Typed /\ Judged(r) /\ status \in [Tasks -> Statuses \cup {"Gone"}]
  BY DEF Blocking, Typed, Rows
<1>1. /\ req[r].at = "write" /\ req[r].to \in Statuses /\ req[r].by \in {"sync", "member"}
      /\ status' = IF req[r].tx THEN status ELSE [status EXCEPT ![req[r].task] = req[r].to]
      /\ req'[r].at # "write"
  BY <1>0, WriteShape
<1>2. ~req[r].tx /\ t = req[r].task /\ status'[t] = req[r].to
  BY <1>0, <1>1
<1>3. req[r].by = "sync"
  BY <1>1, <1>2 DEF MemberWrites
<1>4. SeenStatus(r, t) = status[t]
  BY <1>0, <1>2, SeesAll
<1>. QED  BY <1>0, <1>1, <1>2, <1>3, <1>4, SyncFinds

LEMMA CommitRespects ==
    ASSUME Blocking, NEW r \in Requests, Finish(r), NEW t \in Tasks \ raced,
           status'[t] \notin {status[t], "Gone"}
    PROVE  \/ status[t] \in {"Open", "WIP"} /\ status'[t] = "Blocked"
           \/ status[t] = "Blocked" /\ status'[t] = "Open"
<1>0. Typed /\ Written(r)
  BY DEF Blocking
<1>1. status' = [x \in Tasks |-> IF x \in req[r].gone THEN "Gone" ELSE SeenStatus(r, x)]
  BY <1>0, FinishShape
<1>2. status'[t] = SeenStatus(r, t)
  BY <1>1
<1>3. req[r].dirty[t] # Clean /\ status'[t] = req[r].dirty[t]
  BY <1>2 DEF SeenStatus
<1>4. req[r].dirty[t] \in {"Open", "Blocked"}
  BY <1>0, <1>3, Fields DEF WellFormed
<1>5. \/ status[t] \in {"Open", "WIP"} /\ req[r].dirty[t] = "Blocked"
      \/ status[t] = "Blocked"
  BY <1>0, <1>3 DEF Written
<1>. QED  BY <1>3, <1>4, <1>5

\* "It never reopens a Closed/Deleted task", "it never stomps a manual WIP/Pending
\* override": of a task not changed under a request, the automation takes "Blocked"
\* to "Open" and an open status to "Blocked" and does nothing else.
THEOREM MembersRespected == Spec => AutomationRespectsMembers
<1>1. ASSUME Blocking, [Next]_vars, NEW t \in Tasks \ raced,
             status'[t] \notin {status[t], "Gone"}, ~MemberWrites(t)
      PROVE  \/ status[t] \in {"Open", "WIP"} /\ status'[t] = "Blocked"
             \/ status[t] = "Blocked" /\ status'[t] = "Open"
  <2>1. PICK r \in Requests : Write(r) \/ Finish(r)
    BY <1>1, StatusMoves
  <2>. QED  BY <1>1, <2>1, SaveRespects, CommitRespects
<1>2. Blocking /\ [Next]_vars =>
          [\A t \in Tasks \ raced :
              status'[t] \notin {status[t], "Gone"} /\ ~MemberWrites(t)
              => \/ status[t] \in {"Open", "WIP"} /\ status'[t] = "Blocked"
                 \/ status[t] = "Blocked" /\ status'[t] = "Open"]_vars
  BY <1>1
<1>. QED  BY <1>2, BlockingHolds, PTL DEF Spec, AutomationRespectsMembers

\* Only a save and its failure take a request from its UPDATE.
LEMMA WriteEnds ==
    ASSUME Typed, [Next]_vars, NEW r \in Requests, req[r].at = "write", req'[r].at # "write"
    PROVE  Write(r) \/ Miss(r)
<1>1. req'[r] # req[r]
  OBVIOUS
<1>2. ~UNCHANGED vars
  BY <1>1 DEF vars
<1>3. PICK q \in Requests :
          \/ \E t \in Tasks, want \in Statuses \cup {Same} : Put(q, t, want)
          \/ \E e \in Pairs : Add(q, e)
          \/ \E e \in Pairs : Drop(q, e)
          \/ \E t \in Tasks : DeleteTask(q, t)
          \/ Insert(q)
          \/ \E t \in Tasks : Look(q, t)
          \/ Count(q) \/ Stash(q) \/ Write(q) \/ Miss(q) \/ List(q) \/ Finish(q)
  BY <1>2, Cases
<1>4. \E now : Goes(q, now)
  BY <1>3 DEF Put, Add, Drop, DeleteTask, Deletes, Insert, Look, Count, Stash, Write, Miss,
              List, Finish
<1>5. q = r
  BY <1>1, <1>4, Went
<1>. QED
  BY <1>3, <1>5 DEF Put, Add, Drop, DeleteTask, Send, Insert, Look, Count, Stash, List, Finish

-----------------------------------------------------------------------------
(* A sync lists dependents of a task that was closed meanwhile *)

\* What a request sees closed, or found closed before its UPDATE, was closed when
\* it began or by a member since.
FoundShut(r) ==
    /\ req[r].at # "idle" => \A t \in Tasks : SeenStatus(r, t) = "Closed" => t \in shut[r]
    /\ req[r].at = "write" /\ req[r].prev = "Closed" => req[r].task \in shut[r]

Shutting == shut \in [Requests -> SUBSET Tasks] /\ \A r \in Requests : FoundShut(r)

\* A step of r: nothing is closed but what joins `shut`.
LEMMA ShuttingFrom ==
    ASSUME Shutting, NEW r \in Requests, \A q \in Requests \ {r} : req'[q] = req[q],
           shut' \in [Requests -> SUBSET Tasks],
           \A q \in Requests \ {r} : shut[q] \subseteq shut'[q],
           \A q \in Requests \ {r}, t \in Tasks :
               req[q].at # "idle" /\ status'[t] = "Closed" => status[t] = "Closed" \/ t \in shut'[q],
           FoundShut(r)'
    PROVE  Shutting'
<1>1. ASSUME NEW q \in Requests \ {r} PROVE FoundShut(q)'
  <2>1. FoundShut(q) /\ req'[q] = req[q]
    BY DEF Shutting
  <2>2. ASSUME NEW t \in Tasks, req'[q].at # "idle", SeenStatus(q, t)' = "Closed"
        PROVE  t \in shut'[q]
    <3>1. CASE req[q].dirty[t] # Clean
      BY <2>1, <2>2, <3>1 DEF FoundShut, SeenStatus
    <3>2. CASE req[q].dirty[t] = Clean
      <4>1. status'[t] = "Closed" /\ req[q].at # "idle"
        BY <2>1, <2>2, <3>2 DEF SeenStatus
      <4>2. CASE status[t] = "Closed"
        BY <2>1, <3>2, <4>1, <4>2 DEF FoundShut, SeenStatus
      <4>. QED  BY <4>1, <4>2
    <3>. QED  BY <3>1, <3>2
  <2>. QED  BY <2>1, <2>2 DEF FoundShut
<1>. QED  BY <1>1 DEF Shutting

\* A step of r that changes no status.
LEMMA ShuttingQuiet ==
    ASSUME Shutting, NEW r \in Requests, \A q \in Requests \ {r} : req'[q] = req[q],
           status' = status, \E S \in SUBSET Tasks : shut' = [shut EXCEPT ![r] = S],
           FoundShut(r)'
    PROVE  Shutting'
<1>1. shut' \in [Requests -> SUBSET Tasks] /\ \A q \in Requests \ {r} : shut'[q] = shut[q]
  BY DEF Shutting
<1>. QED  BY <1>1, ShuttingFrom

\* A step of r that leaves `shut` alone, and what r sees.
LEMMA ShuttingSame ==
    ASSUME Shutting, NEW r \in Requests, \A q \in Requests \ {r} : req'[q] = req[q],
           UNCHANGED <<status, shut>>, req'[r].dirty = req[r].dirty, req[r].at # "idle",
           req'[r].at = "write" => req'[r].prev = SeenStatus(r, req'[r].task) /\ req'[r].task \in Tasks
    PROVE  Shutting'
<1>1. FoundShut(r) /\ shut \in [Requests -> SUBSET Tasks]
  BY DEF Shutting
<1>2. \A t \in Tasks : SeenStatus(r, t)' = SeenStatus(r, t)
  BY DEF SeenStatus
<1>3. FoundShut(r)'
  BY <1>1, <1>2 DEF FoundShut
<1>4. shut' = [shut EXCEPT ![r] = shut[r]] /\ shut[r] \in SUBSET Tasks
  BY <1>1
<1>. QED  BY <1>3, <1>4, ShuttingQuiet

\* A request is sent.
LEMMA ShuttingSend ==
    ASSUME Shutting, Typed', NEW r \in Requests, \A q \in Requests \ {r} : req'[q] = req[q],
           NEW kind, Send(r, kind), status' = status, req'[r].at # "write",
           \A t \in Tasks : req'[r].dirty[t] = Clean
    PROVE  Shutting'
<1>. DEFINE S == {t \in Tasks : status[t] = "Closed"}
<1>1. shut' = [shut EXCEPT ![r] = S] /\ S \in SUBSET Tasks
  BY DEF Send
<1>2. shut'[r] = S
  BY <1>1 DEF Shutting
<1>3. FoundShut(r)'
  BY <1>2 DEF FoundShut, SeenStatus
<1>. QED  BY <1>1, <1>3, ShuttingQuiet

\* A request ends.
LEMMA ShuttingLeaves ==
    ASSUME Shutting, NEW r \in Requests, \A q \in Requests \ {r} : req'[q] = req[q],
           \A t \in Tasks : status'[t] = "Closed" => status[t] = "Closed",
           req'[r] = Idle, Leaves(r)
    PROVE  Shutting'
<1>1. FoundShut(r)'
  BY IdleTyped DEF FoundShut
<1>2. shut' \in [Requests -> SUBSET Tasks] /\ \A q \in Requests \ {r} : shut'[q] = shut[q]
  BY DEF Shutting, Leaves
<1>. QED  BY <1>1, <1>2, ShuttingFrom

LEMMA ShuttingWrite ==
    ASSUME Typed, Shutting, NEW r \in Requests, Write(r)
    PROVE  Shutting'
<1>t. PICK t \in Tasks : t = req[r].task
  BY WriteShape
<1>1. /\ req[r].at = "write" /\ t \in Tasks /\ req[r].to \in Statuses
      /\ req[r].by \in {"sync", "member"} /\ req'[r].at \in {"list", "next"}
      /\ status' = IF req[r].tx THEN status ELSE [status EXCEPT ![t] = req[r].to]
      /\ req'[r].dirty = IF req[r].tx THEN [req[r].dirty EXCEPT ![t] = req[r].to]
                         ELSE req[r].dirty
      /\ req'[r].tx = req[r].tx
  BY <1>t, WriteShape
<1>2. Shut(r, t) /\ \A q \in Requests \ {r} : req'[q] = req[q]
  BY <1>t, Went DEF Write
<1>3. /\ status \in [Tasks -> Statuses \cup {"Gone"}]
      /\ req[r].dirty \in [Tasks -> Statuses \cup {Clean}] /\ WellFormed(r)
      /\ Clean \notin Statuses
  BY Fields DEF Statuses, Clean
<1>4. shut \in [Requests -> SUBSET Tasks] /\ FoundShut(r)
  BY DEF Shutting
<1>5. SeenStatus(r, t)' = req[r].to
  <2>1. CASE req[r].tx
    <3>1. req'[r].dirty[t] = req[r].to /\ req[r].to # Clean
      BY <1>1, <1>3, <2>1
    <3>. QED  BY <3>1 DEF SeenStatus
  <2>2. CASE ~req[r].tx
    <3>1. req'[r].dirty[t] = Clean /\ status'[t] = req[r].to
      BY <1>1, <1>3, <2>2 DEF WellFormed
    <3>. QED  BY <3>1 DEF SeenStatus
  <2>. QED  BY <2>1, <2>2
<1>6. \A u \in Tasks \ {t} : SeenStatus(r, u)' = SeenStatus(r, u) /\ status'[u] = status[u]
  BY <1>1, <1>3 DEF SeenStatus
<1>7. CASE req[r].by = "sync"
  <2>1. req[r].to \in {"Open", "Blocked"}
    BY <1>1, <1>3, <1>7 DEF WellFormed
  <2>2. shut' = [shut EXCEPT ![r] = @ \ {t}]
    BY <1>2, <1>7 DEF Shut
  <2>3. /\ shut' \in [Requests -> SUBSET Tasks] /\ shut'[r] = shut[r] \ {t}
        /\ \A q \in Requests \ {r} : shut'[q] = shut[q]
    BY <1>4, <2>2
  <2>4. FoundShut(r)'
    BY <1>1, <1>4, <1>5, <1>6, <2>1, <2>3 DEF FoundShut
  <2>5. \A u \in Tasks : status'[u] = "Closed" => status[u] = "Closed"
    BY <1>1, <1>3, <2>1
  <2>. QED  BY <1>2, <2>3, <2>4, <2>5, ShuttingFrom
<1>8. CASE req[r].by = "member" /\ req[r].to # "Closed"
  <2>1. shut' = shut
    BY <1>2, <1>8 DEF Shut
  <2>2. FoundShut(r)'
    BY <1>1, <1>4, <1>5, <1>6, <1>8, <2>1 DEF FoundShut
  <2>3. \A u \in Tasks : status'[u] = "Closed" => status[u] = "Closed"
    BY <1>1, <1>3, <1>8
  <2>. QED  BY <1>2, <1>4, <2>1, <2>2, <2>3, ShuttingFrom
<1>9. CASE req[r].by = "member" /\ req[r].to = "Closed"
  <2>1. shut' = [q \in Requests |-> IF req[q].at = "idle" THEN shut[q] ELSE shut[q] \cup {t}]
    BY <1>2, <1>9 DEF Shut
  <2>2. /\ shut' \in [Requests -> SUBSET Tasks] /\ shut'[r] = shut[r] \cup {t}
        /\ \A q \in Requests : shut[q] \subseteq shut'[q]
        /\ \A q \in Requests : req[q].at # "idle" => t \in shut'[q]
    BY <1>1, <1>4, <2>1
  <2>3. FoundShut(r)'
    BY <1>1, <1>4, <1>6, <2>2 DEF FoundShut
  <2>4. \A q \in Requests, u \in Tasks :
            req[q].at # "idle" /\ status'[u] = "Closed" => status[u] = "Closed" \/ u \in shut'[q]
    BY <1>6, <2>2
  <2>. QED  BY <1>2, <2>2, <2>3, <2>4, ShuttingFrom
<1>. QED  BY <1>1, <1>7, <1>8, <1>9

LEMMA ShuttingFinish ==
    ASSUME Typed, Shutting, NEW r \in Requests, Finish(r)
    PROVE  Shutting'
<1>1. req'[r] = Idle /\ Leaves(r) /\ \A q \in Requests \ {r} : req'[q] = req[q]
  BY FinishShape, Went DEF Finish
<1>2. ASSUME NEW t \in Tasks, status'[t] = "Closed" PROVE status[t] = "Closed"
  <2>1. CASE status' = status
    BY <1>2, <2>1
  <2>2. CASE status' = [x \in Tasks |-> IF x \in req[r].gone THEN "Gone" ELSE SeenStatus(r, x)]
    <3>1. SeenStatus(r, t) = "Closed"
      BY <1>2, <2>2
    <3>2. req[r].dirty[t] \in {Clean, "Open", "Blocked"}
      BY Fields DEF WellFormed
    <3>. QED  BY <3>1, <3>2 DEF SeenStatus
  <2>. QED  BY <2>1, <2>2, FinishShape
<1>. QED  BY <1>1, <1>2, ShuttingLeaves

LEMMA ShuttingInsert ==
    ASSUME Typed, Shutting, NEW r \in Requests, Insert(r)
    PROVE  Shutting'
<1>1. /\ Typed' /\ status' = status /\ ~req[r].tx /\ req[r].at = "insert"
      /\ \A q \in Requests \ {r} : req'[q] = req[q]
  BY InsertShape, Went DEF Insert
<1>2. CASE req'[r] = Idle /\ Leaves(r)
  BY <1>1, <1>2, ShuttingLeaves
<1>3. CASE ~req'[r].tx /\ req'[r].at = "next" /\ shut' = shut
  <2>1. \A t \in Tasks : SeenStatus(r, t) = status[t] /\ SeenStatus(r, t)' = status'[t]
    BY <1>1, <1>3, Fields, SeesAll DEF SeenStatus, Typed, WellFormed
  <2>2. FoundShut(r)'
    BY <1>1, <1>3, <2>1 DEF FoundShut, Shutting
  <2>3. shut' = [shut EXCEPT ![r] = shut[r]] /\ shut[r] \in SUBSET Tasks
    BY <1>3 DEF Shutting
  <2>. QED  BY <1>1, <2>2, <2>3, ShuttingQuiet
<1>. QED
  <2>. DEFINE e == req[r].edge
              refused == e \in edges \/ status[e[1]] = "Gone" \/ status[e[2]] = "Gone"
  <2>1. CASE refused
    <3>1. Leaves(r) /\ Goes(r, Idle)
      BY <2>1 DEF Insert
    <3>. QED  BY <1>2, <3>1, Went
  <2>2. CASE ~refused
    <3>1. shut' = shut /\ edges' = edges \cup {e} /\ e \notin edges
      BY <2>2 DEF Insert
    <3>2. ~req'[r].tx /\ req'[r].at = "next"
      BY <3>1, InsertShape
    <3>. QED  BY <1>3, <3>1, <3>2
  <2>. QED  BY <2>1, <2>2

LEMMA ShuttingStep == Typed /\ Shutting /\ [Next]_vars => Shutting'
<1>. SUFFICES ASSUME Typed, Shutting, [Next]_vars PROVE Shutting'
  OBVIOUS
<1>0. Typed'
  BY TypedNext
<1>1. CASE UNCHANGED vars
  BY <1>1 DEF vars, history, Shutting, FoundShut, SeenStatus
<1>2. ASSUME NEW r \in Requests, NEW t \in Tasks, NEW want \in Statuses \cup {Same}, Put(r, t, want)
      PROVE  Shutting'
  <2>1. Send(r, "put") /\ status' = status /\ req'[r].at = "stash"
        /\ (\A u \in Tasks : req'[r].dirty[u] = Clean) /\ \A q \in Requests \ {r} : req'[q] = req[q]
    <3>. DEFINE op == IF want = "Closed" THEN "close" ELSE "put"
                to == IF want = Same THEN status[t] ELSE want
                now == [Idle EXCEPT !.at = "stash", !.op = op, !.subject = t, !.task = t,
                           !.seen = status[t], !.by = "member", !.want = want, !.to = to]
    <3>1. Goes(r, now) /\ Send(r, "put") /\ status' = status
      BY <1>2 DEF Put
    <3>2. now.at = "stash" /\ \A u \in Tasks : now.dirty[u] = Clean
      BY DEF Idle
    <3>. HIDE DEF now
    <3>. QED  BY <3>1, <3>2, Went
  <2>. QED  BY <1>0, <2>1, ShuttingSend
<1>3. ASSUME NEW r \in Requests, NEW e \in Pairs, Add(r, e) PROVE Shutting'
  <2>1. Send(r, "add") /\ status' = status /\ req'[r].at = "insert"
        /\ (\A u \in Tasks : req'[r].dirty[u] = Clean) /\ \A q \in Requests \ {r} : req'[q] = req[q]
    <3>. DEFINE now == [Idle EXCEPT !.at = "insert", !.op = "add", !.edge = e]
    <3>1. Goes(r, now) /\ Send(r, "add") /\ status' = status
      BY <1>3 DEF Add
    <3>2. now.at = "insert" /\ \A u \in Tasks : now.dirty[u] = Clean
      BY DEF Idle
    <3>. HIDE DEF now
    <3>. QED  BY <3>1, <3>2, Went
  <2>. QED  BY <1>0, <2>1, ShuttingSend
<1>4. ASSUME NEW r \in Requests,
             (\E e \in Pairs : Drop(r, e)) \/ (\E t \in Tasks : DeleteTask(r, t))
      PROVE  Shutting'
  <2>1. PICK op \in {"drop", "delete"}, E \in SUBSET Pairs, gone \in SUBSET Tasks :
            Send(r, op) /\ Deletes(r, op, E, gone)
    BY <1>4, DropDeletes
  <2>2. req'[r].at = "next" /\ \A u \in Tasks : req'[r].dirty[u] = Clean
    BY <2>1, TypedDeletes
  <2>3. status' = status /\ \A q \in Requests \ {r} : req'[q] = req[q]
    BY <2>1, Went DEF Deletes
  <2>. QED  BY <1>0, <2>1, <2>2, <2>3, ShuttingSend
<1>5. ASSUME NEW r \in Requests, NEW t \in Tasks, Look(r, t) PROVE Shutting'
  <2>1. /\ UNCHANGED <<status, shut>> /\ req[r].at = "next"
        /\ \A q \in Requests \ {r} : req'[q] = req[q]
    BY <1>5, Went DEF Look, history
  <2>2. req'[r].dirty = req[r].dirty /\ req'[r].at # "write"
    BY <1>5, LookShape DEF SameWork
  <2>. QED  BY <2>1, <2>2, ShuttingSame
<1>6. ASSUME NEW r \in Requests, Count(r) PROVE Shutting'
  <2>1. /\ UNCHANGED <<status, shut>> /\ req[r].at = "count"
        /\ \A q \in Requests \ {r} : req'[q] = req[q]
    BY <1>6, Went DEF Count
  <2>2. req'[r].dirty = req[r].dirty /\ req'[r].at # "write"
    BY <1>6, CountShape DEF SameWork
  <2>. QED  BY <2>1, <2>2, ShuttingSame
<1>7. ASSUME NEW r \in Requests, Stash(r) PROVE Shutting'
  <2>1. /\ UNCHANGED <<status, shut>> /\ req[r].at = "stash"
        /\ \A q \in Requests \ {r} : req'[q] = req[q]
    BY <1>7, Went DEF Stash, history
  <2>2. /\ req'[r].dirty = req[r].dirty /\ req'[r].prev = SeenStatus(r, req'[r].task)
        /\ req'[r].task \in Tasks
    BY <1>7, StashShape DEF SameWork
  <2>. QED  BY <2>1, <2>2, ShuttingSame
<1>8. ASSUME NEW r \in Requests, Miss(r) PROVE Shutting'
  <2>1. /\ status' = status /\ req[r].at = "write" /\ \A q \in Requests \ {r} : req'[q] = req[q]
        /\ IF req[r].tx THEN Leaves(r) ELSE shut' = shut
    BY <1>8, Went DEF Miss
  <2>2. \/ req[r].tx /\ req'[r] = Idle
        \/ ~req[r].tx /\ SameWork(r) /\ req'[r].at = "next"
    BY <1>8, MissShape
  <2>3. CASE req[r].tx
    BY <2>1, <2>2, <2>3, ShuttingLeaves
  <2>4. CASE ~req[r].tx
    <3>1. req'[r].dirty = req[r].dirty /\ req'[r].at # "write"
      BY <2>2, <2>4 DEF SameWork
    <3>. QED  BY <2>1, <2>4, <3>1, ShuttingSame
  <2>. QED  BY <2>3, <2>4
<1>9. ASSUME NEW r \in Requests, List(r) PROVE Shutting'
  <2>1. /\ UNCHANGED <<status, shut>> /\ req[r].at = "list"
        /\ \A q \in Requests \ {r} : req'[q] = req[q]
    BY <1>9, Went DEF List, history
  <2>2. req'[r].dirty = req[r].dirty /\ req'[r].at # "write"
    BY <1>9, ListShape DEF SameWork
  <2>. QED  BY <2>1, <2>2, ShuttingSame
<1>. QED
  BY <1>1, <1>2, <1>3, <1>4, <1>5, <1>6, <1>7, <1>8, <1>9, Cases,
     ShuttingInsert, ShuttingWrite, ShuttingFinish

LEMMA ShuttingInit == Init => Shutting
<1>. SUFFICES ASSUME Init PROVE Shutting
  OBVIOUS
<1>1. shut = [r \in Requests |-> {}] /\ \A r \in Requests : req[r].at = "idle"
  BY IdleTyped DEF Init
<1>. QED  BY <1>1 DEF Shutting, FoundShut

LEMMA ShuttingHolds == Spec => [](Typed /\ Shutting)
<1>1. Init => Typed /\ Shutting
  BY TypedInit, ShuttingInit
<1>2. Typed /\ Shutting /\ [Next]_vars => (Typed /\ Shutting)'
  BY TypedNext, ShuttingStep
<1>. QED  BY <1>1, <1>2, PTL DEF Spec

\* Every variable has its type, and a row is written by one open transaction at
\* a time.
THEOREM TypeCorrect == Spec => []TypeOK
<1>1. Typed /\ Shutting => TypeOK
  BY DEF Typed, Rows, Shutting, TypeOK
<1>. QED  BY <1>1, ShuttingHolds, PTL

\* "A synced task never re-triggers a sync of ITS dependents": whenever the save of
\* a sync does list the dependents of its task, that task was closed when the request
\* began, or by a member since, after the request's last save of it.  The recursion
\* of blocker_state_changed takes no more turns than tasks are closed, round a cycle
\* of dependencies too.
THEOREM TurnsCostCloses == Spec => EachCascadeTakesAClose
<1>1. ASSUME Typed, Shutting, [Next]_vars, NEW r \in Requests, NEW t \in Tasks,
             SyncWrites(r, t), req'[r].at = "list"
      PROVE  t \in shut[r]
  <2>1. req[r].at = "write" /\ req'[r].at # "write" /\ req[r].by = "sync" /\ req[r].task = t
    BY <1>1 DEF SyncWrites
  <2>2. CASE Write(r)
    <3>1. Crosses(r)
      BY <1>1, <2>2, WriteShape
    <3>2. req[r].to \in {"Open", "Blocked"}
      BY <1>1, <2>1, Fields DEF WellFormed
    <3>3. req[r].prev = "Closed"
      BY <3>1, <3>2 DEF Crosses, IsBlocking
    <3>. QED  BY <1>1, <2>1, <3>3 DEF Shutting, FoundShut
  <2>3. CASE Miss(r)
    <3>1. req'[r] = Idle \/ req'[r].at = "next"
      BY <1>1, <2>3, MissShape
    <3>. QED  BY <1>1, <3>1, IdleTyped
  <2>. QED  BY <1>1, <2>1, <2>2, <2>3, WriteEnds
<1>2. Typed /\ Shutting /\ [Next]_vars =>
          [\A r \in Requests, t \in Tasks :
              SyncWrites(r, t) /\ req'[r].at = "list" => t \in shut[r]]_vars
  BY <1>1
<1>. QED  BY <1>2, ShuttingHolds, PTL DEF Spec, EachCascadeTakesAClose
=============================================================================
