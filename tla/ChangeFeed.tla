----------------------------- MODULE ChangeFeed -----------------------------
(***************************************************************************)
(* How a client learns that the tasks of a project changed.  A write       *)
(* queues a bump on its thread; after the commit, flush deletes the cached *)
(* answer and then moves the version.  A client that sees the version move *)
(* fetches again, through that cache.                                      *)
(*                                                                         *)
(* The database and the cache know nothing of each other: what readers and *)
(* writers do to them interleaves freely.  The content of the project is   *)
(* the number of commits that changed it.  The client is the web client as *)
(* the docstrings of change_feed.py and changes_views.py describe it.      *)
(* Names it would share with IncrementalSync, the same client's other way  *)
(* to keep up, are prefixed: ClientProofs extends both.                    *)
(***************************************************************************)
EXTENDS Integers, Sequences

CONSTANTS
    Threads,    \* server threads that write, each with its connection
    Readers,    \* clients
    MaxWrites,  \* bound: committed or attempted writes
    MaxFaults   \* bound: deaths, failed clears and failed bumps

ASSUME FeedAssumption == {MaxWrites, MaxFaults} \subseteq Nat

VARIABLES
    db,         \* content of the project, committed
    version,    \* its row of ChangeVersion
    cache,      \* the cached answer, or NoAnswer
    thread,     \* thread -> its program point and pending set
    reader,     \* client -> what it holds and how far its request is
    writes,
    faults,
    announced,  \* newest commit whose own flush moved the version (history)
    cleared     \* db when a flush last deleted the answer (history)

feedVars == <<db, version, cache, thread, reader, writes, faults, announced, cleared>>

NoAnswer == [held |-> FALSE, content |-> 0, late |-> FALSE]

\* `late`: queried before a commit and cached after its flush (history).
Answer(content, late) == [held |-> TRUE, content |-> content, late |-> late]

\* Slip: the version moves before the cache is cleared.
BumpThenClear == <<"bump", "clear">>

\* flush: caches first (rule 3).
FlushOrder == <<"clear", "bump">>

\* A thread: in no transaction, in one, or after a commit.  `queued` is the
\* pending set, `hook` a flush in run_on_commit, `made` its last commit
\* (history).
IdleThread == [at |-> "idle", dirty |-> FALSE, queued |-> FALSE, hook |-> FALSE,
            todo |-> <<>>, auto |-> FALSE, made |-> 0]

Fresh == [at |-> "idle", token |-> 0, seen |-> 0, content |-> 0, late |-> FALSE,
          found |-> 0]

FeedTypeOK ==
    /\ db \in 0..MaxWrites
    /\ version \in 0..MaxWrites
    /\ cache \in [held : BOOLEAN, content : 0..db, late : BOOLEAN]
    /\ \A t \in Threads :
           /\ thread[t].at \in {"idle", "open", "flush", "trail"}
           /\ {thread[t].dirty, thread[t].queued, thread[t].hook,
               thread[t].auto} \subseteq BOOLEAN
           /\ thread[t].hook => thread[t].queued
           /\ thread[t].made \in 0..db
           /\ (thread[t].at = "flush") = (thread[t].todo # <<>>)
    /\ reader \in [Readers ->
           [at : {"idle", "lookup", "query", "store"}, token : 0..version,
            seen : 0..version, content : 0..db, late : BOOLEAN, found : 0..db]]
    /\ writes \in 0..MaxWrites
    /\ faults \in 0..MaxFaults
    /\ {announced, cleared} \subseteq 0..db

FeedInit ==
    /\ db = 0
    /\ version = 0
    /\ cache = NoAnswer
    /\ thread = [t \in Threads |-> IdleThread]
    /\ reader = [c \in Readers |-> Fresh]
    /\ writes = 0
    /\ faults = 0
    /\ announced = 0
    /\ cleared = 0

-----------------------------------------------------------------------------
(* Writers *)

\* Slip: a flush is registered only when the set was empty.
QueuedWhenEmpty(t) ==
    [thread[t] EXCEPT !.queued = TRUE, !.hook = @ \/ ~thread[t].queued]

\* _queue: every bump registers its own flush (rule 2).
Queued(t) == [thread[t] EXCEPT !.queued = TRUE, !.hook = TRUE]

Begin(t) ==
    /\ thread[t].at = "idle"
    /\ thread' = [thread EXCEPT ![t].at = "open"]
    /\ UNCHANGED <<db, version, cache, reader, writes, faults, announced, cleared>>

\* A save in a transaction; its receiver queues the bump and deletes the
\* cached answer (invalidate_project_tasks_cache).
Write(t) ==
    /\ thread[t].at = "open"
    /\ writes < MaxWrites
    /\ writes' = writes + 1
    /\ thread' = [thread EXCEPT ![t] = [Queued(t) EXCEPT !.dirty = TRUE]]
    /\ cache' = NoAnswer
    /\ UNCHANGED <<db, version, reader, faults, announced, cleared>>

\* The rows and the callbacks go, the pending set stays.
RollbackWrites(t) ==
    /\ thread[t].at = "open"
    /\ thread' = [thread EXCEPT ![t] = [IdleThread EXCEPT !.queued = thread[t].queued]]
    /\ UNCHANGED <<db, version, cache, reader, writes, faults, announced, cleared>>

\* What t does after a commit: flush, if one is registered.
AfterCommit(t, now) ==
    [now EXCEPT !.dirty = FALSE,
                !.made = db',
                !.todo = IF now.hook THEN FlushOrder ELSE <<>>,
                !.at = IF now.hook THEN "flush"
                       ELSE IF now.auto THEN "trail" ELSE "idle"]

CommitWrites(t) ==
    /\ thread[t].at = "open"
    /\ db' = IF thread[t].dirty THEN db + 1 ELSE db
    /\ thread' = [thread EXCEPT ![t] = AfterCommit(t, thread[t])]
    /\ UNCHANGED <<version, cache, reader, writes, faults, announced, cleared>>

\* A save outside a transaction is committed when its receiver runs, and
\* on_commit calls flush at once.
AutoWrite(t) ==
    /\ thread[t].at = "idle"
    /\ writes < MaxWrites
    /\ writes' = writes + 1
    /\ db' = db + 1
    /\ thread' = [thread EXCEPT ![t] =
                     AfterCommit(t, [Queued(t) EXCEPT !.auto = TRUE])]
    /\ UNCHANGED <<version, cache, reader, faults, announced, cleared>>

-----------------------------------------------------------------------------
(* flush *)

\* The next statement of t's flush is `step`.
Does(t, step) == thread[t].todo # <<>> /\ Head(thread[t].todo) = step

\* The pending set is drained before anything else.
Advance(t) ==
    LET rest == Tail(thread[t].todo)
    IN  thread' = [thread EXCEPT
            ![t].queued = FALSE,
            ![t].hook = FALSE,
            ![t].todo = rest,
            ![t].at = IF rest # <<>> THEN "flush"
                      ELSE IF thread[t].auto THEN "trail" ELSE "idle"]

Later(a, b) == IF a > b THEN a ELSE b

Fault == faults < MaxFaults /\ faults' = faults + 1

\* clear_project_tasks_cache; a failure is logged and the bump goes on.
ClearCaches(t) ==
    /\ Does(t, "clear")
    /\ Advance(t)
    /\ \/ cache' = NoAnswer /\ cleared' = db /\ UNCHANGED faults
       \/ Fault /\ UNCHANGED <<cache, cleared>>
    /\ UNCHANGED <<db, version, reader, writes, announced>>

\* _upsert; a failure is logged.
Upsert(t) ==
    /\ Does(t, "bump")
    /\ Advance(t)
    /\ \/ /\ version' = version + 1
          /\ announced' = Later(announced, thread[t].made)
          /\ UNCHANGED faults
       \/ Fault /\ UNCHANGED <<version, announced>>
    /\ UNCHANGED <<db, cache, reader, writes, cleared>>

\* Outside a transaction, the receiver's own delete comes last.
TrailingClear(t) ==
    /\ thread[t].at = "trail"
    /\ thread' = [thread EXCEPT ![t] = [IdleThread EXCEPT !.queued = thread[t].queued]]
    /\ cache' = NoAnswer
    /\ cleared' = db
    /\ UNCHANGED <<db, version, reader, writes, faults, announced>>

\* The process is killed.
Die(t) ==
    /\ thread[t].at # "idle"
    /\ Fault
    /\ thread' = [thread EXCEPT ![t] = IdleThread]
    /\ UNCHANGED <<db, version, cache, reader, writes, announced, cleared>>

\* A callback registered before flush raises, and Django runs no other.
SkipFlush(t) ==
    /\ thread[t].todo = FlushOrder /\ ~thread[t].auto
    /\ Fault
    /\ thread' = [thread EXCEPT ![t] = [IdleThread EXCEPT !.queued = TRUE]]
    /\ UNCHANGED <<db, version, cache, reader, writes, announced, cleared>>

-----------------------------------------------------------------------------
(* Readers *)

\* GET changes/: the token moved.
Poll(c) ==
    /\ reader[c].at = "idle"
    /\ version # reader[c].token
    /\ reader' = [reader EXCEPT ![c].at = "lookup", ![c].seen = version]
    /\ UNCHANGED <<db, version, cache, thread, writes, faults, announced, cleared>>

\* A project hop, or the full refresh every ten minutes.
Refresh(c) ==
    /\ reader[c].at = "idle"
    /\ reader' = [reader EXCEPT ![c].at = "lookup", ![c].seen = reader[c].token]
    /\ UNCHANGED <<db, version, cache, thread, writes, faults, announced, cleared>>

\* The response arrives.
Takes(c, content, late) ==
    reader' = [reader EXCEPT ![c] = [Fresh EXCEPT !.token = reader[c].seen,
                                                  !.seen = reader[c].seen,
                                                  !.content = content,
                                                  !.late = late]]

\* GetProjectTasksView: a cached answer is served ...
Lookup(c) ==
    /\ reader[c].at = "lookup"
    /\ IF cache.held THEN Takes(c, cache.content, cache.late)
       ELSE reader' = [reader EXCEPT ![c].at = "query"]
    /\ UNCHANGED <<db, version, cache, thread, writes, faults, announced, cleared>>

\* ... or else the rows are read ...
QueryTasks(c) ==
    /\ reader[c].at = "query"
    /\ reader' = [reader EXCEPT ![c].at = "store", ![c].found = db]
    /\ UNCHANGED <<db, version, cache, thread, writes, faults, announced, cleared>>

\* ... and cached, whatever happened meanwhile.
Store(c) ==
    /\ reader[c].at = "store"
    /\ cache' = Answer(reader[c].found, reader[c].found < cleared)
    /\ Takes(c, reader[c].found, FALSE)
    /\ UNCHANGED <<db, version, thread, writes, faults, announced, cleared>>

\* Slip: the answer is cached without a timeout.
ExpireNever == FALSE /\ UNCHANGED feedVars

\* PROJECT_TASKS_CACHE_TTL
Expire ==
    /\ cache.held
    /\ cache' = NoAnswer
    /\ UNCHANGED <<db, version, thread, reader, writes, faults, announced, cleared>>

-----------------------------------------------------------------------------
ThreadStep(t) ==
    \/ RollbackWrites(t) \/ CommitWrites(t)
    \/ ClearCaches(t) \/ Upsert(t) \/ TrailingClear(t)

ReaderStep(c) == Poll(c) \/ Refresh(c) \/ Lookup(c) \/ QueryTasks(c) \/ Store(c)

FeedNext ==
    \/ \E t \in Threads :
           \/ Begin(t) \/ Write(t) \/ AutoWrite(t) \/ ThreadStep(t)
           \/ Die(t) \/ SkipFlush(t)
    \/ \E c \in Readers : ReaderStep(c)
    \/ Expire

FeedSpec == FeedInit /\ [][FeedNext]_feedVars

\* Clients keep refreshing and their requests are served; entries expire.
FeedFairness ==
    /\ \A c \in Readers : WF_feedVars(ReaderStep(c))
    /\ WF_feedVars(Expire)

FeedFairSpec == FeedSpec /\ FeedFairness

-----------------------------------------------------------------------------
(* Properties *)

\* change_feed.py, rule 2: no bump is "swallowed".  Whatever rolled back
\* transactions left behind, a commit moves the version once its callbacks
\* are through.
EveryCommitIsAnnounced ==
    (faults = 0 /\ \A t \in Threads : thread[t].at \in {"idle", "open"}) =>
        announced = db

\* change_feed.py, rules 1 and 3, and clear_project_tasks_cache: an old
\* payload does not stay "behind a new token".  A client that is up to date
\* by its token holds what that token announced.  The exception is an answer
\* that was queried before the commit and cached after the flush.
FreshBehindToken ==
    faults = 0 => \A c \in Readers :
        reader[c].at = "idle" /\ reader[c].token = version =>
            reader[c].content >= announced \/ reader[c].late

\* change_feed.py: "The client's 10-minute full refresh is the backstop for
\* anything that slips through": deaths, failed clears and bumps, and late
\* answers.  When the writes stop, every client ends up with the content.
EveryClientCatchesUp == <>[](\A c \in Readers : reader[c].content = db)
=============================================================================
