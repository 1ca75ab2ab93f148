--------------------------- MODULE WebhookEnqueue ---------------------------
(***************************************************************************)
(* From task saves to rows of the webhook outbox, on one database          *)
(* connection.  A save schedules an event: an entry in a registry that     *)
(* lives on the connection, and an on_commit callback that hands the entry *)
(* to the outbox.  The registry knows nothing of rollbacks; Django's list  *)
(* of callbacks does.                                                      *)
(*                                                                         *)
(* The connection belongs to one thread, so its steps are sequential; what *)
(* varies is which calls arrive in which transactions.  Saves may run in   *)
(* no transaction at all (ATOMIC_REQUESTS is off): post_save then runs     *)
(* after the save has committed, and on_commit calls back immediately.     *)
(* The save's other receivers register callbacks as well: always the       *)
(* change feed's, sometimes the calendar's.                                *)
(*                                                                         *)
(* Every save gets a version of its own, which stands for the payload.  An *)
(* endpoint is subscribed throughout; enqueue_event's swallowed errors are *)
(* left out.                                                               *)
(***************************************************************************)
EXTENDS Integers, SequencesExt

CONSTANTS
    Tasks,
    Ways,       \* what else happens here: {"autocommit", "calendar",
                \* "draft", "other"}
    MaxDepth,   \* bound: nested atomic blocks
    MaxSaves    \* bound: saves of tasks

ASSUME EnqueueAssumption ==
    /\ Ways \subseteq {"autocommit", "calendar", "draft", "other"}
    /\ MaxDepth \in Nat \ {0}
    /\ MaxSaves \in Nat

VARIABLES
    task,       \* task -> its row as this connection sees it
    taken,      \* primary keys that were given out; none is given out again
    saves,      \* saves so far
    stack,      \* the open atomic blocks: what to restore on their rollback
    pending,    \* _genos_webhook_pending
    hooks,      \* run_on_commit
    running,    \* the callbacks of the committed transaction still to run
    sent,       \* the WebhookDelivery rows created
    posted,     \* task -> rows created since the last save or transaction (history)
    committed,  \* <<task, version>> that have been committed (history)
    owed,       \* task -> event the open transaction owes, 0 if none (history)
    due,        \* task -> event the last transaction owed (history)
    undone,     \* versions that a savepoint's rollback took back (history)
    plain       \* the last transaction registered no callback before its first
                \* save and none of the calendar, made no draft real and undid
                \* no savepoint (history)

vars == <<task, taken, saves, stack, pending, hooks, running, sent, posted,
          committed, owed, due, undone, plain>>

\* _EVENT_PRECEDENCE: an event is its rank.
Updated   == 1
Completed == 2
Created   == 3
NoEvent   == 0
Events    == {Updated, Completed, Created}

NoEntry == [event |-> NoEvent, version |-> 0]
Nobody  == [t \in Tasks |-> NoEvent]
Empty   == [t \in Tasks |-> NoEntry]

Higher(a, b) == IF a >= b THEN a ELSE b

TypeOK ==
    /\ task \in [Tasks -> [stage : {"none", "draft", "real"}, version : 0..MaxSaves]]
    /\ taken \subseteq Tasks
    /\ saves \in 0..MaxSaves
    /\ Len(stack) <= MaxDepth
    /\ pending \in [Tasks -> [event : {NoEvent} \cup Events, version : 0..MaxSaves]]
    /\ stack # <<>> => running = <<>>
    /\ posted \in [Tasks -> Nat]
    /\ owed \in [Tasks -> {NoEvent} \cup Events]
    /\ due \in [Tasks -> {NoEvent} \cup Events]
    /\ undone \subseteq 0..MaxSaves
    /\ plain \in BOOLEAN

Init ==
    /\ task = [t \in Tasks |-> [stage |-> "none", version |-> 0]]
    /\ taken = {}
    /\ saves = 0
    /\ stack = <<>>
    /\ pending = Empty
    /\ hooks = <<>>
    /\ running = <<>>
    /\ sent = {}
    /\ posted = [t \in Tasks |-> 0]
    /\ committed = {}
    /\ owed = Nobody
    /\ due = Nobody
    /\ undone = {}
    /\ plain = TRUE

Atomic == stack # <<>>

Hook(kind, t) == [kind |-> kind, task |-> t, depth |-> Len(stack)]

-----------------------------------------------------------------------------
(* schedule_task_event *)

\* Slip: entries of a transaction that rolled back stay.
KeepRegistry == pending

\* _pending_for_transaction: without callbacks, what is there is stale.
Registry == IF hooks = <<>> THEN Empty ELSE pending

\* The callback is registered before the entry is made: outside a transaction
\* it runs at once and finds nothing.
Schedule(t, event, version) ==
    pending' = [Registry EXCEPT ![t] = [event   |-> Higher(Registry[t].event, event),
                                        version |-> version]]

Scheduled(t) ==
    IF Registry[t].event = NoEvent THEN Append(hooks, Hook("flush", t)) ELSE hooks

\* task_invalidate_project_cache_on_save, the last receiver of the save: every
\* bump of the change feed registers a flush of its own.
Bump(q, t) == hooks' = IF Atomic THEN Append(q, Hook("feed", t)) ELSE hooks

-----------------------------------------------------------------------------
(* Saves *)

\* A save of t that leaves it in `stage` and means `event` to a subscriber.
Write(t, stage, event) ==
    /\ running = <<>>
    /\ Atomic \/ "autocommit" \in Ways
    /\ saves < MaxSaves
    /\ saves' = saves + 1
    /\ task[t].stage = "none" => t \notin taken
    /\ taken' = taken \cup {t}
    /\ task' = [task EXCEPT ![t] = [stage |-> stage, version |-> saves + 1]]
    /\ IF Atomic
       THEN /\ owed' = [owed EXCEPT ![t] = Higher(@, event)]
            /\ UNCHANGED <<posted, committed, due>>
       ELSE /\ due' = [Nobody EXCEPT ![t] = event]
            /\ committed' = committed \cup {<<t, saves + 1>>}
            /\ posted' = [u \in Tasks |-> 0]
            /\ UNCHANGED owed
    /\ plain' = (plain /\ Atomic /\ (task[t].stage = "draft" => stage = "draft"))
    /\ UNCHANGED <<stack, running, sent, undone>>

Insert(t) ==
    /\ task[t].stage = "none"
    /\ Write(t, "real", Created)
    /\ Schedule(t, Created, saves + 1)
    /\ Bump(Scheduled(t), t)

Edit(t, event) ==
    /\ task[t].stage = "real"
    /\ Write(t, "real", event)
    /\ Schedule(t, event, saves + 1)
    /\ Bump(Scheduled(t), t)

\* The empty create form: skipped by task_record_changes, and no change to
\* announce for the feed.
SaveDraft(t) ==
    /\ "draft" \in Ways
    /\ task[t].stage \in {"none", "draft"}
    /\ Write(t, "draft", NoEvent)
    /\ UNCHANGED <<pending, hooks>>

\* The form is submitted: task_record_changes records the creation, returns,
\* and suppresses the trailing saves of the same instance.
Finalize(t) ==
    /\ task[t].stage = "draft"
    /\ Write(t, "real", Created)
    /\ Bump(hooks, t)
    /\ UNCHANGED pending

\* task_auto_sync_to_calendar of a task just saved, or another part of the
\* program, waits for the commit too.
OtherHook(kind, t) ==
    /\ Atomic
    /\ kind \in Ways \cap {"calendar", "other"}
    /\ kind = "calendar" => task[t].stage = "real" /\ owed[t] # NoEvent
    /\ ~\E i \in DOMAIN hooks : hooks[i].kind = kind /\ hooks[i].task = t
    /\ hooks' = Append(hooks, Hook(kind, t))
    /\ plain' = (plain /\ kind = "other" /\ hooks # <<>>)
    /\ UNCHANGED <<task, taken, saves, stack, pending, running, sent, posted,
                   committed, owed, due, undone>>

-----------------------------------------------------------------------------
(* Transactions *)

Begin ==
    /\ running = <<>>
    /\ Len(stack) < MaxDepth
    /\ stack' = Append(stack, [task |-> task, owed |-> owed])
    /\ posted' = IF Atomic THEN posted ELSE [t \in Tasks |-> 0]
    /\ due' = IF Atomic THEN due ELSE Nobody
    /\ plain' = IF Atomic THEN plain ELSE TRUE
    /\ UNCHANGED <<task, taken, saves, pending, hooks, running, sent, committed,
                   owed, undone>>

\* A savepoint is released: its callbacks are the enclosing block's.
Release ==
    /\ Len(stack) > 1
    /\ stack' = Front(stack)
    /\ hooks' = [i \in DOMAIN hooks |->
                    [hooks[i] EXCEPT !.depth =
                        IF @ < Len(stack) THEN @ ELSE Len(stack) - 1]]
    /\ UNCHANGED <<task, taken, saves, pending, running, sent, posted, committed,
                   owed, due, undone, plain>>

Commit ==
    /\ Len(stack) = 1
    /\ stack' = <<>>
    /\ running' = hooks
    /\ hooks' = <<>>
    /\ committed' = committed \cup {<<t, task[t].version>> : t \in Tasks}
    /\ due' = owed
    /\ owed' = Nobody
    /\ UNCHANGED <<task, taken, saves, pending, sent, posted, undone, plain>>

\* The callbacks of the enclosing blocks.  Those of the innermost block are
\* the last of the list.
Outer ==
    LET first == SelectInSeq(hooks, LAMBDA h : h.depth = Len(stack))
    IN  IF first = 0 THEN hooks ELSE SubSeq(hooks, 1, first - 1)

\* The rows and the callbacks of the block go; the registry stays.
Rollback ==
    /\ Atomic
    /\ task' = Last(stack).task
    /\ owed' = Last(stack).owed
    /\ stack' = Front(stack)
    /\ hooks' = Outer
    /\ undone' = IF Len(stack) = 1 THEN undone
                 ELSE undone \cup {task[t].version :
                          t \in {u \in Tasks : task[u] # Last(stack).task[u]}}
    /\ plain' = (plain /\ Len(stack) = 1)
    /\ UNCHANGED <<taken, saves, pending, running, sent, posted, committed, due>>

-----------------------------------------------------------------------------
(* Callbacks, in autocommit mode again *)

\* Slip: a callback drains the registry.
FlushAll(t) ==
    LET entries == {u \in Tasks : pending[u] # NoEntry}
    IN  /\ pending' = Empty
        /\ sent' = sent \cup {[task |-> u, event |-> pending[u].event,
                               version |-> pending[u].version] : u \in entries}
        /\ posted' = [u \in Tasks |-> posted[u] + (IF u \in entries THEN 1 ELSE 0)]

\* _flush_one
Flush(t) ==
    /\ pending' = [pending EXCEPT ![t] = NoEntry]
    /\ IF pending[t] = NoEntry THEN UNCHANGED <<sent, posted>>
       ELSE /\ sent' = sent \cup {[task |-> t, event |-> pending[t].event,
                                   version |-> pending[t].version]}
            /\ posted' = [posted EXCEPT ![t] = @ + 1]

RunHook ==
    /\ running # <<>>
    /\ running' = Tail(running)
    /\ LET t == Head(running).task
           kind == Head(running).kind
       IN  \/ kind = "flush" /\ Flush(t) /\ UNCHANGED hooks
           \* _run_upsert: the link columns may have changed and are saved.
           \/ /\ kind = "calendar" /\ task[t].stage = "real"
              /\ Schedule(t, Updated, task[t].version)
              /\ UNCHANGED <<hooks, sent, posted>>
           \/ /\ kind \in {"calendar", "feed", "other"}
              /\ UNCHANGED <<pending, hooks, sent, posted>>
    /\ UNCHANGED <<task, taken, saves, stack, committed, owed, due, undone, plain>>

Next ==
    \/ \E t \in Tasks :
           \/ Insert(t)
           \/ \E e \in {Updated, Completed} : Edit(t, e)
           \/ SaveDraft(t)
           \/ Finalize(t)
           \/ \E kind \in {"calendar", "other"} : OtherHook(kind, t)
    \/ Begin
    \/ Release
    \/ Commit
    \/ Rollback
    \/ RunHook

Spec == Init /\ [][Next]_vars

-----------------------------------------------------------------------------
(* Properties *)

\* webhook_enqueue.py: "One event per task per transaction".  However often a
\* task is saved, and whatever rolled back blocks left in the registry, a
\* transaction queues at most one event for a task, and none for a task it
\* did not change.
OneEventPerChange ==
    \A t \in Tasks : posted[t] <= IF due[t] = NoEvent THEN 0 ELSE 1

\* webhook_enqueue.py: firing early "could deliver a state that then rolls
\* back".  A delivery carries a state of the task that was committed, whatever
\* rolled back transactions left in the registry.  The exception: an entry
\* keeps the payload of a save that its savepoint took back.
OnlyCommittedStates ==
    \A d \in sent : <<d.task, d.version>> \in committed \/ d.version \in undone

Quiet == stack = <<>> /\ running = <<>>

\* schedule_task_event: "Queue the right task event AFTER the transaction
\* commits."  When its callbacks are through, every task the last transaction
\* changed has been announced, as it is and under the most specific event.
EveryChangeIsAnnounced ==
    Quiet => \A t \in Tasks :
        due[t] # NoEvent =>
            [task |-> t, event |-> due[t], version |-> task[t].version] \in sent

\* The same for a plain transaction, whatever happened before it on the
\* connection (rolled back transactions, autocommit saves) and whatever other
\* callbacks its own saves and later calls register.  The exceptions are real:
\* a callback registered before the first save hides what is stale from
\* _pending_for_transaction, and a calendar callback's save clears the entries
\* of the callbacks behind it.
PlainChangeIsAnnounced == plain => EveryChangeIsAnnounced
=============================================================================
