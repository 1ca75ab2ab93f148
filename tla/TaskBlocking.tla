----------------------------- MODULE TaskBlocking -----------------------------
(***************************************************************************)
(* The status "Blocked" that dependencies put on tasks and take off.       *)
(* Saving a task, adding and removing a dependency and deleting a task are *)
(* requests; the signal receivers run inside them.  A sync reads a task,   *)
(* counts its open blockers and saves the status, with no lock; a save is  *)
(* a read of the previous row (pre_save), the UPDATE, and a look at        *)
(* whether it crossed the blocking boundary (post_save).                   *)
(*                                                                         *)
(* Statements of other requests commit at once and may fall between any    *)
(* two of these.  A delete runs in a transaction (READ COMMITTED): what it *)
(* wrote is seen by others, and its row locks are freed, when it commits.  *)
(***************************************************************************)
EXTENDS Integers, Sequences

CONSTANTS
    Tasks,
    Requests,     \* requests under way at one time
    Kinds,        \* which of "put", "add", "drop", "delete" are sent
    MaxRequests   \* bound: requests sent

ASSUME BlockingAssumption == MaxRequests \in Nat

VARIABLES
    status,   \* "Open", "WIP" (or Pending), "Blocked", "Closed" (or Deleted); "Gone": no row
    edges,    \* TaskDependency rows <<blocker, blocked>>
    req,      \* request -> its program point and what it has read
    sent,
    byHand,   \* tasks a member set the status of since they were last synced (history)
    raced,    \* tasks changed while another request was at work on them (history)
    shut      \* request -> tasks closed when it began, or by a member since, that it
              \* has not saved itself (history)

history == <<byHand, raced, shut>>

vars == <<status, edges, req, sent, history>>

Statuses == {"Open", "WIP", "Blocked", "Closed"}

Same == "same"    \* a save that names no status

Pairs == {e \in Tasks \X Tasks : e[1] # e[2]}

-----------------------------------------------------------------------------
(* What a request sees *)

None == "none"

Clean == "clean"  \* a row the request has not written

\* A request: its program point, the task at hand and what was read of it, the
\* rows its transaction deletes and writes, the tasks it has still to sync.
Idle == [at |-> "idle", op |-> None, edge |-> <<>>, subject |-> None,
         task |-> None, seen |-> None, by |-> None, want |-> None, to |-> None, prev |-> None,
         tx |-> FALSE, drop |-> {}, gone |-> {}, dirty |-> [t \in Tasks |-> Clean],
         todo |-> <<>>]

SeenStatus(r, t) == IF req[r].dirty[t] # Clean THEN req[r].dirty[t] ELSE status[t]

SeenEdges(r) == edges \ req[r].drop

\* Slip: a blocked task no longer blocks.
BlockedIsOff(s) == s \in {"Open", "WIP"}

\* _is_blocking, and the condition of _has_open_blocker.
IsBlocking(s) == s \notin {"Closed", "Gone"}

HasOpenBlocker(r, t) ==
    \E e \in SeenEdges(r) : e[2] = t /\ IsBlocking(SeenStatus(r, e[1]))

Dependents(t, E) == {e[2] : e \in {d \in E : d[1] = t}}

\* Slip: whatever has no open blocker goes back to open.
AlwaysOpens(current, blocked) ==
    IF blocked /\ current \in {"Open", "WIP"} THEN "Blocked"
    ELSE IF ~blocked /\ current # "Open" THEN "Open" ELSE None

\* _next_status
NextStatus(current, blocked) ==
    IF blocked /\ current \in {"Open", "WIP"} THEN "Blocked"
    ELSE IF ~blocked /\ current = "Blocked" THEN "Open" ELSE None

-----------------------------------------------------------------------------
Request ==
    [at : {"idle", "insert", "next", "count", "stash", "write", "list"},
     op : {None, "put", "close", "add", "drop", "delete"}, edge : Pairs \cup {<<>>},
     subject : Tasks \cup {None}, task : Tasks \cup {None},
     seen : Statuses \cup {"Gone", None}, by : {None, "member", "sync"},
     want : Statuses \cup {Same, None}, to : Statuses \cup {None},
     prev : Statuses \cup {"Gone", None}, tx : BOOLEAN,
     drop : SUBSET Pairs, gone : SUBSET Tasks, dirty : [Tasks -> Statuses \cup {Clean}],
     todo : Seq((SUBSET Tasks) \ {{}})]

TypeOK ==
    /\ status \in [Tasks -> Statuses \cup {"Gone"}]
    /\ edges \subseteq Pairs
    /\ req \in [Requests -> Request]
    /\ sent \in 0..MaxRequests
    /\ byHand \subseteq Tasks /\ raced \subseteq Tasks
    /\ shut \in [Requests -> SUBSET Tasks]
    \* a row is written by one open transaction at a time
    /\ \A q, r \in Requests : q # r =>
          \A t \in Tasks : Clean \in {req[q].dirty[t], req[r].dirty[t]}

\* Dependencies added one at a time to open tasks; the endpoint refuses a
\* reverse edge and nothing longer.
Init ==
    /\ edges \in {E \in SUBSET Pairs : \A e \in E : <<e[2], e[1]>> \notin E}
    /\ status = [t \in Tasks |-> IF \E e \in edges : e[2] = t THEN "Blocked" ELSE "Open"]
    /\ req = [r \in Requests |-> Idle]
    /\ sent = 0
    /\ byHand = {}
    /\ raced = {}
    /\ shut = [r \in Requests |-> {}]

-----------------------------------------------------------------------------
(* History: what happened while another request was at work *)

\* The tasks whose status request q is deciding on what it has read.
Hands(q) ==
    LET own == IF req[q].at \in {"count", "stash", "write"} THEN {req[q].task} ELSE {}
        kept == {e[2] : e \in req[q].drop} \cup {t \in Tasks : req[q].dirty[t] # Clean}
    IN own \cup kept

\* Tasks whose status, edges or open blockers a step changes.
Changed ==
    LET crossed == {t \in Tasks : IsBlocking(status[t]) # IsBlocking(status'[t])}
    IN {t \in Tasks : status[t] # status'[t]}
       \cup {e[2] : e \in (edges \ edges') \cup (edges' \ edges)}
       \cup UNION {Dependents(t, edges) : t \in crossed}

\* Two requests that close blockers of t, t being "Blocked" to both.
Closers(q, r, t) ==
    \A p \in {q, r} :
        /\ req[p].op = "close"
        /\ req[p].subject # t
        /\ req[p].at \in {"count", "stash", "write"} /\ req[p].task = t => req[p].seen = "Blocked"

Watch(r) ==
    raced' = raced \cup
        {t \in Changed : \E q \in Requests \ {r} : t \in Hands(q) /\ ~Closers(q, r, t)}

\* What a transaction does counts when it commits.
Synced(r, t) == byHand' = IF req[r].tx THEN byHand ELSE byHand \ {t}

\* Request r has saved task t.
Shut(r, t) ==
    shut' = IF req[r].by = "sync" THEN [shut EXCEPT ![r] = @ \ {t}]
            ELSE IF req[r].to # "Closed" THEN shut
            ELSE [q \in Requests |-> IF req[q].at = "idle" THEN shut[q] ELSE shut[q] \cup {t}]

Leaves(r) == shut' = [shut EXCEPT ![r] = {}]

-----------------------------------------------------------------------------
(* Requests *)

Goes(r, now) == req' = [req EXCEPT ![r] = now]

Send(r, kind) ==
    /\ kind \in Kinds
    /\ req[r].at = "idle"
    /\ sent < MaxRequests
    /\ sent' = sent + 1
    /\ shut' = [shut EXCEPT ![r] = {t \in Tasks : status[t] = "Closed"}]

\* TaskMasterView.put reads the whole row; its save writes it all back.
Put(r, t, want) ==
    /\ Send(r, "put")
    /\ status[t] # "Gone"
    /\ Goes(r, [Idle EXCEPT !.at = "stash", !.op = IF want = "Closed" THEN "close" ELSE "put",
                !.subject = t, !.task = t, !.seen = status[t], !.by = "member", !.want = want,
                !.to = IF want = Same THEN status[t] ELSE want])
    /\ UNCHANGED <<status, edges, byHand, raced>>

\* TaskDependencyView.post: its checks; an edge that is there is refused too.
Add(r, e) ==
    /\ Send(r, "add")
    /\ status[e[1]] # "Gone" /\ status[e[2]] # "Gone"
    /\ e \notin edges /\ <<e[2], e[1]>> \notin edges
    /\ Goes(r, [Idle EXCEPT !.at = "insert", !.op = "add", !.edge = e])
    /\ UNCHANGED <<status, edges, byHand, raced>>

\* The insert, which the unique constraint or a foreign key may refuse.
Insert(r) ==
    /\ req[r].at = "insert"
    /\ LET e == req[r].edge IN
       IF e \in edges \/ status[e[1]] = "Gone" \/ status[e[2]] = "Gone"
       THEN Goes(r, Idle) /\ Leaves(r) /\ UNCHANGED <<status, edges, raced>>
       ELSE /\ edges' = edges \cup {e}
            /\ UNCHANGED <<status, shut>>
            /\ Goes(r, [Idle EXCEPT !.at = "next", !.op = "add", !.todo = <<{e[2]}>>])
            /\ Watch(r)
    /\ UNCHANGED <<sent, byHand>>

\* The rows a transaction deletes, and the tasks their receivers sync.
Deletes(r, op, E, gone) ==
    /\ \A q \in Requests : req[q].drop \cap E = {}
    /\ Goes(r, [Idle EXCEPT !.at = "next", !.op = op, !.tx = TRUE, !.drop = E, !.gone = gone,
                !.todo = IF E = {} THEN <<>> ELSE <<{e[2] : e \in E}>>])
    /\ UNCHANGED <<status, edges, byHand, raced>>

\* TaskDependencyView.delete
Drop(r, e) ==
    /\ Send(r, "drop")
    /\ e \in edges
    /\ Deletes(r, "drop", {e}, {})

\* TaskMasterView.delete: the row goes, and its dependencies before it.
DeleteTask(r, t) ==
    /\ Send(r, "delete")
    /\ status[t] # "Gone"
    /\ \A q \in Requests : t \notin req[q].gone
    /\ Deletes(r, "delete", {e \in edges : t \in {e[1], e[2]}}, {t})

-----------------------------------------------------------------------------
(* The steps of a sync and of a save *)

\* sync_blocked_status reads the next task; a nested call goes first.
Look(r, t) ==
    /\ req[r].at = "next"
    /\ req[r].todo # <<>>
    /\ t \in Head(req[r].todo)
    /\ LET rest == Head(req[r].todo) \ {t}
           todo == IF rest = {} THEN Tail(req[r].todo) ELSE <<rest>> \o Tail(req[r].todo)
       IN Goes(r, IF SeenStatus(r, t) = "Gone"
                  THEN [req[r] EXCEPT !.todo = todo]
                  ELSE [req[r] EXCEPT !.at = "count", !.task = t, !.seen = SeenStatus(r, t),
                        !.by = "sync", !.todo = todo])
    /\ UNCHANGED <<status, edges, sent, history>>

\* _has_open_blocker and _next_status
Count(r) ==
    /\ req[r].at = "count"
    /\ LET to == NextStatus(req[r].seen, HasOpenBlocker(r, req[r].task))
       IN IF to = None
          THEN /\ Goes(r, [req[r] EXCEPT !.at = "next"])
               /\ Synced(r, req[r].task)
          ELSE /\ Goes(r, [req[r] EXCEPT !.at = "stash", !.to = to])
               /\ UNCHANGED byHand
    /\ UNCHANGED <<status, edges, sent, raced, shut>>

\* blocking_capture_previous
Stash(r) ==
    /\ req[r].at = "stash"
    /\ Goes(r, [req[r] EXCEPT !.at = "write", !.prev = SeenStatus(r, req[r].task)])
    /\ UNCHANGED <<status, edges, sent, history>>

\* A row that an open transaction of another request has written.
Locked(r, t) == \E q \in Requests \ {r} : req[q].dirty[t] # Clean

\* Slip: the receiver never sees a crossing.
NeverCrosses(r) == FALSE

\* blocker_state_changed; an insert crosses nothing.
Crosses(r) ==
    /\ "Gone" \notin {req[r].prev, status[req[r].task]}
    /\ IsBlocking(req[r].prev) # IsBlocking(req[r].to)

\* The request after its UPDATE.
Saved(r) ==
    [req[r] EXCEPT !.at = IF Crosses(r) THEN "list" ELSE "next",
                   !.dirty = IF req[r].tx THEN [@ EXCEPT ![req[r].task] = req[r].to] ELSE @]

\* A member's save of a row that is gone inserts it again.
Write(r) ==
    LET t == req[r].task
    IN /\ req[r].at = "write"
       /\ ~Locked(r, t)
       /\ status[t] = "Gone" => req[r].by = "member"
       /\ Goes(r, Saved(r))
       /\ status' = IF req[r].tx THEN status ELSE [status EXCEPT ![t] = req[r].to]
       /\ UNCHANGED edges
       /\ Watch(r) /\ Shut(r, t)
       /\ IF req[r].by = "sync" THEN Synced(r, t)
          ELSE byHand' = IF req[r].want = Same THEN byHand ELSE byHand \cup {t}
       /\ UNCHANGED sent

\* A sync saves named fields: of a row that is gone it raises, and the error is
\* logged.  A transaction is rolled back for it: the delete of a dependency says
\* that all went well, that of a task fails at its next statement.
Miss(r) ==
    /\ req[r].at = "write"
    /\ req[r].by = "sync" /\ status[req[r].task] = "Gone"
    /\ IF req[r].tx THEN Goes(r, Idle) /\ Leaves(r)
       ELSE Goes(r, [req[r] EXCEPT !.at = "next"]) /\ UNCHANGED shut
    /\ UNCHANGED <<status, edges, sent, byHand, raced>>

\* The dependents of a task that crossed the boundary.
List(r) ==
    /\ req[r].at = "list"
    /\ LET found == Dependents(req[r].task, SeenEdges(r))
       IN Goes(r, [req[r] EXCEPT !.at = "next",
                                 !.todo = IF found = {} THEN @ ELSE <<found>> \o @])
    /\ UNCHANGED <<status, edges, sent, history>>

\* The request ends; its transaction commits.  A dependency added meanwhile to a
\* task it deletes makes that fail.
Finish(r) ==
    /\ req[r].at = "next"
    /\ req[r].todo = <<>>
    /\ \A t \in req[r].gone : ~Locked(r, t)
    /\ Goes(r, Idle)
    /\ IF \E e \in SeenEdges(r) : e[1] \in req[r].gone \/ e[2] \in req[r].gone
       THEN UNCHANGED <<status, edges, byHand>>
       ELSE /\ byHand' = byHand \ {e[2] : e \in req[r].drop}
            /\ status' = [t \in Tasks |-> IF t \in req[r].gone THEN "Gone" ELSE SeenStatus(r, t)]
            /\ edges' = SeenEdges(r)
    /\ Watch(r) /\ Leaves(r)
    /\ UNCHANGED sent

-----------------------------------------------------------------------------
Proceed(r) ==
    \/ Insert(r) \/ Count(r) \/ Stash(r) \/ Write(r) \/ Miss(r) \/ List(r)
    \/ Finish(r)
    \/ \E t \in Tasks : Look(r, t)

Next ==
    \E r \in Requests :
        \/ \E t \in Tasks : DeleteTask(r, t) \/ \E want \in Statuses \cup {Same} : Put(r, t, want)
        \/ \E e \in Pairs : Add(r, e) \/ Drop(r, e)
        \/ Proceed(r)

Spec == Init /\ [][Next]_vars

-----------------------------------------------------------------------------
(* Properties *)

OpenBlockers(t) == {e[1] : e \in {d \in edges : d[2] = t /\ IsBlocking(status[d[1]])}}

Agrees(t) ==
    /\ status[t] = "Blocked" => OpenBlockers(t) # {}
    /\ OpenBlockers(t) # {} => status[t] \in {"Blocked", "Closed"}

Quiet == \A r \in Requests : req[r].at = "idle"

\* When nothing is under way, a task is blocked exactly when it has an open
\* blocker, whichever of its blockers were closed at the same time: unless it is
\* closed, a member set it by hand since, or it or a blocker of it was changed
\* under a request that was deciding on it.
StatusAgrees ==
    LET disturbed == raced \cup UNION {Dependents(t, edges) : t \in raced}
    IN Quiet => \A t \in Tasks \ (byHand \cup disturbed) : status[t] # "Gone" => Agrees(t)

MemberWrites(t) ==
    \E r \in Requests :
        req[r].at = "write" /\ req'[r].at # "write" /\ req[r].by = "member" /\ req[r].task = t

\* "It never reopens a Closed/Deleted task", "it never stomps a manual
\* WIP/Pending override": what else than a member's save changes, the task not
\* having been changed under it.
AutomationRespectsMembers ==
    [][\A t \in Tasks \ raced :
          status'[t] \notin {status[t], "Gone"} /\ ~MemberWrites(t)
          => \/ status[t] \in {"Open", "WIP"} /\ status'[t] = "Blocked"
             \/ status[t] = "Blocked" /\ status'[t] = "Open"]_vars

\* A sync's save of task t.
SyncWrites(r, t) ==
    req[r].at = "write" /\ req'[r].at # "write" /\ req[r].by = "sync" /\ req[r].task = t

\* "A synced task never re-triggers a sync of ITS dependents": it does, when a member
\* closes it between the sync's read and its pre_save, and the sync puts it back.  But
\* each time costs a close: a request's sync lists the dependents of a task only if
\* the task was closed as the request began or a member closed it since, after the
\* request's last save of it.  So the recursion ends, round a cycle of dependencies too.
EachCascadeTakesAClose ==
    [][\A r \in Requests, t \in Tasks :
          SyncWrites(r, t) /\ req'[r].at = "list" => t \in shut[r]]_vars

\* "When the LAST open blocker clears (blocker closed / deleted / dependency
\* removed), a task whose status is exactly Blocked automatically returns to Open."
LastBlockerUnblocks ==
    Quiet => \A t \in Tasks \ byHand : status[t] = "Blocked" => OpenBlockers(t) # {}

=============================================================================
