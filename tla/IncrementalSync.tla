--------------------------- MODULE IncrementalSync ---------------------------
(***************************************************************************)
(* How a client keeps its copy of a list by asking for what changed since  *)
(* its last sync.  A row is stamped when it is saved and seen when its     *)
(* transaction commits; an answer is two queries, with commits between     *)
(* them; the time it carries was taken before both.                        *)
(*                                                                         *)
(* With look-back, sums and a cached full answer this is the task list of  *)
(* a project; without, the messages of a channel.  Time moves with every   *)
(* timestamp taken, so no two are equal.  A save clears the cached answer  *)
(* in its transaction, and the flush that the commit calls back clears it  *)
(* again; the threads and the versions behind that flush are the subject   *)
(* of ChangeFeed.                                                          *)
(* The client is the web client as task_views.py and incremental.py        *)
(* describe it.                                                            *)
(***************************************************************************)
EXTENDS Integers, FiniteSetsExt

CONSTANTS
    Ids,        \* task_ids, which idSum adds up
    Clients,
    LookBack,   \* DELTA_LOOKBACK
    MaxAge,     \* MAX_DELTA_AGE_DAYS
    HasSums,    \* a delta carries totalCount and idSum
    HasCache,   \* the full answer is cached
    Longest,    \* how long a transaction stays open
    MaxTime,    \* bound: timestamps taken
    MaxLost     \* bound: answers and flushes lost

ASSUME SyncAssumption ==
    /\ Ids \subseteq Nat
    /\ {LookBack, MaxAge, Longest, MaxTime, MaxLost} \subseteq Nat
    /\ HasSums \in BOOLEAN
    /\ HasCache \in BOOLEAN

VARIABLES
    clock,
    row,        \* id -> the committed row: life and ts_updated_at
    open,       \* id -> what an open transaction has written to it
    client,     \* client -> its checkpoint and how far its request is
    store,      \* client -> id -> stamp of the version it holds
    cached,     \* the full answer in the cache, or Nothing
    flushing,   \* <<id, stamp>> of the commits whose flush is still to come
    lost,
    belated     \* rows whose present version is late: committed or flushed later
                \* than LookBack after its stamp, its flush lost, or cached
                \* without it after its flush (history)

vars == <<clock, row, open, client, store, cached, flushing, lost, belated>>

Absent == 0     \* no copy; also: no checkpoint
Skip == -1      \* not in an answer

Nothing == [i \in Ids |-> Skip]

NoWrite == [life |-> "none", stamp |-> 0]

Resting == [at |-> "idle", checkpoint |-> 0, time |-> 0, full |-> FALSE,
            found |-> Nothing, held |-> {}]

TypeOK ==
    /\ clock \in 0..MaxTime
    /\ row \in [Ids -> [life : {"none", "live", "deleted", "gone"}, stamp : 0..clock]]
    /\ open \in [Ids -> [life : {"none", "live", "deleted", "gone"}, stamp : 0..clock]]
    /\ client \in [Clients -> [at : {"idle", "asked", "found", "complete"},
                               checkpoint : 0..clock, time : 0..clock, full : BOOLEAN,
                               found : [Ids -> 0..clock \cup {Skip}], held : SUBSET Ids]]
    /\ store \in [Clients -> [Ids -> 0..clock]]
    /\ cached \in [Ids -> 0..clock \cup {Skip}]
    /\ flushing \subseteq Ids \X (0..clock)
    /\ lost \in 0..MaxLost
    /\ belated \subseteq Ids

Init ==
    /\ clock = 0
    /\ row = [i \in Ids |-> NoWrite]
    /\ open = [i \in Ids |-> NoWrite]
    /\ client = [c \in Clients |-> Resting]
    /\ store = [c \in Clients |-> [i \in Ids |-> Absent]]
    /\ cached = Nothing
    /\ flushing = {}
    /\ lost = 0
    /\ belated = {}

-----------------------------------------------------------------------------
(* Writers *)

\* A transaction that has been open for long commits before time goes on.
Tick ==
    /\ \A i \in Ids : open[i].life # "none" => clock - open[i].stamp < Longest
    /\ clock' = IF clock < MaxTime THEN clock + 1 ELSE MaxTime

\* What may become of a row: created, edited, deleted with a tombstone, or gone
\* without one (a hard delete, a move to another project).
Follows(life) ==
    CASE life = "none" -> {"live"}
      [] life = "live" -> {"live", "deleted", "gone"}
      [] OTHER -> {}

\* A save stamps the row and clears the cached answer.  Its row lock keeps
\* other transactions out.
Save(i, life) ==
    /\ clock + 1 < MaxTime
    /\ open[i].life = "none"
    /\ life \in Follows(row[i].life)
    /\ Tick
    /\ open' = [open EXCEPT ![i] = [life |-> life, stamp |-> clock']]
    /\ cached' = Nothing
    /\ UNCHANGED <<row, client, store, flushing, lost, belated>>

InTime(stamp) == clock - stamp < LookBack

Commit(i) ==
    /\ open[i].life # "none"
    /\ row' = [row EXCEPT ![i] = open[i]]
    /\ open' = [open EXCEPT ![i] = NoWrite]
    /\ flushing' = IF HasCache THEN flushing \cup {<<i, open[i].stamp>>} ELSE flushing
    /\ belated' = IF InTime(open[i].stamp) THEN belated \ {i} ELSE belated \cup {i}
    /\ UNCHANGED <<clock, client, store, cached, lost>>

Rollback(i) ==
    /\ open[i].life # "none"
    /\ open' = [open EXCEPT ![i] = NoWrite]
    /\ UNCHANGED <<clock, row, client, store, cached, flushing, lost, belated>>

\* The commit's callback.
Flush(i, stamp) ==
    /\ <<i, stamp>> \in flushing
    /\ flushing' = flushing \ {<<i, stamp>>}
    /\ cached' = Nothing
    /\ belated' = IF stamp # row[i].stamp \/ InTime(stamp) THEN belated
                  ELSE belated \cup {i}
    /\ UNCHANGED <<clock, row, open, client, store, lost>>

\* The worker dies before the callback, or the cache cannot be reached.
LoseFlush(i, stamp) ==
    /\ <<i, stamp>> \in flushing
    /\ lost < MaxLost
    /\ lost' = lost + 1
    /\ flushing' = flushing \ {<<i, stamp>>}
    /\ belated' = IF stamp # row[i].stamp THEN belated ELSE belated \cup {i}
    /\ UNCHANGED <<clock, row, open, client, store, cached>>

\* PROJECT_TASKS_CACHE_TTL
CacheExpires ==
    /\ cached # Nothing
    /\ cached' = Nothing
    /\ UNCHANGED <<clock, row, open, client, store, flushing, lost, belated>>

-----------------------------------------------------------------------------
(* The answer *)

Live == {i \in Ids : row[i].life = "live"}

\* The version of a row a client should hold.
Current(i) == IF row[i].life = "live" THEN row[i].stamp ELSE Absent

\* capture_server_time and check_since
Ask(c) ==
    /\ client[c].at = "idle"
    /\ Tick
    /\ client' = [client EXCEPT
           ![c].at = "asked",
           ![c].time = clock',
           ![c].full = \/ client[c].checkpoint = 0
                       \/ clock' - client[c].checkpoint > MaxAge]
    /\ UNCHANGED <<row, open, store, cached, flushing, lost, belated>>

\* Slip: no look-back.
SinceAlone(i, since) == row[i].life \in {"live", "deleted"} /\ row[i].stamp > since

\* The filter of a delta: tombstones included, rows that are gone are not there.
ChangedSince(i, since) ==
    row[i].life \in {"live", "deleted"} /\ row[i].stamp > since - LookBack

\* The Redis short-circuit: the cached answer goes out with the time of now.
Hit(c) ==
    /\ client[c].at = "asked"
    /\ client[c].full
    /\ cached # Nothing
    /\ client' = [client EXCEPT ![c].at = "complete", ![c].found = cached]
    /\ UNCHANGED <<clock, row, open, store, cached, flushing, lost, belated>>

\* A full answer replaces the client's store (force_full_reload).
Query(c) ==
    /\ client[c].at = "asked"
    /\ client[c].full => cached = Nothing
    /\ client' = [client EXCEPT
           ![c].at = "found",
           ![c].found = [i \in Ids |->
               IF client[c].full \/ ChangedSince(i, client[c].checkpoint)
               THEN Current(i) ELSE Skip]]
    /\ UNCHANGED <<clock, row, open, store, cached, flushing, lost, belated>>

\* set_cached_project_tasks: what was found goes into the cache, whatever has
\* been committed and flushed since.
Fill(c) ==
    /\ client[c].at = "found"
    /\ client[c].full
    /\ client' = [client EXCEPT ![c].at = "complete"]
    /\ IF HasCache
       THEN /\ cached' = client[c].found
            /\ belated' = belated \cup
                   {i \in Ids : /\ client[c].found[i] # Current(i)
                               /\ <<i, row[i].stamp>> \notin flushing}
       ELSE UNCHANGED <<cached, belated>>
    /\ UNCHANGED <<clock, row, open, store, flushing, lost>>

\* totalCount and idSum of a delta, by a second query.
Count(c) ==
    /\ client[c].at = "found"
    /\ ~client[c].full
    /\ client' = [client EXCEPT ![c].at = "complete", ![c].held = Live]
    /\ UNCHANGED <<clock, row, open, store, cached, flushing, lost, belated>>

-----------------------------------------------------------------------------
(* The client *)

Applied(c) ==
    [i \in Ids |-> IF client[c].found[i] = Skip THEN store[c][i] ELSE client[c].found[i]]

Sum(S) == FoldSet(LAMBDA x, y : x + y, 0, S)

\* Slip: the count alone.
CountsAgree(mine, theirs) == Cardinality(mine) = Cardinality(theirs)

SumsAgree(mine, theirs) ==
    Cardinality(mine) = Cardinality(theirs) /\ Sum(mine) = Sum(theirs)

\* The server_time the client stores.
NextCheckpoint(c) == client[c].time

\* The client applies an answer and keeps its time; if it then holds other rows
\* than were counted, it will ask for everything again.
Receive(c) ==
    /\ client[c].at = "complete"
    /\ store' = [store EXCEPT ![c] = Applied(c)]
    /\ LET mine == {i \in Ids : Applied(c)[i] # Absent}
           short == HasSums /\ ~client[c].full /\ ~SumsAgree(mine, client[c].held)
       IN client' = [client EXCEPT ![c] = [Resting EXCEPT
                         !.checkpoint = IF short THEN 0 ELSE NextCheckpoint(c)]]
    /\ UNCHANGED <<clock, row, open, cached, flushing, lost, belated>>

Lose(c) ==
    /\ client[c].at # "idle"
    /\ lost < MaxLost
    /\ lost' = lost + 1
    /\ client' = [client EXCEPT ![c] = [Resting EXCEPT !.checkpoint = client[c].checkpoint]]
    /\ UNCHANGED <<clock, row, open, store, cached, flushing, belated>>

-----------------------------------------------------------------------------
Sync(c) == Ask(c) \/ Hit(c) \/ Query(c) \/ Fill(c) \/ Count(c) \/ Receive(c)

Next ==
    \/ \E i \in Ids :
           Commit(i) \/ Rollback(i) \/ \E life \in {"live", "deleted", "gone"} : Save(i, life)
    \/ \E i \in Ids, stamp \in 0..clock : Flush(i, stamp) \/ LoseFlush(i, stamp)
    \/ CacheExpires
    \/ \E c \in Clients : Sync(c) \/ Lose(c)

Spec == Init /\ [][Next]_vars

\* Transactions end, callbacks run or are lost, a cached answer expires, and
\* clients keep syncing.
Fairness ==
    /\ \A i \in Ids : WF_vars(Commit(i) \/ Rollback(i))
    /\ WF_vars(\E i \in Ids, stamp \in 0..clock : Flush(i, stamp) \/ LoseFlush(i, stamp))
    /\ WF_vars(CacheExpires)
    /\ \A c \in Clients : WF_vars(Sync(c))

FairSpec == Spec /\ Fairness

-----------------------------------------------------------------------------
(* Properties *)

\* "A checkpoint is a promise that everything older is already held": what the
\* next delta will not send again, a client has as it is.  The exceptions are
\* the late rows: the look-back covers a transaction, with the callback of its
\* commit, that is shorter, and no cached answer that outlives the callback
\* without the row.
CheckpointIsAPromise ==
    \A c \in Clients, i \in Ids \ belated :
        /\ client[c].checkpoint # 0
        /\ row[i].life \in {"live", "deleted"}
        /\ <<i, row[i].stamp>> \notin flushing
        /\ row[i].stamp <= client[c].checkpoint - LookBack
        => store[c][i] = Current(i)

\* When the writes stop, a client ends with the rows there are: totalCount and
\* idSum make one that is short, or holds what is gone, ask for everything, again
\* and again while a cached answer is wrong.  It has their content too, save for
\* late rows.
ClientCatchesUp ==
    <>[](\A c \in Clients, i \in Ids :
            IF i \in belated THEN store[c][i] # Absent <=> i \in Live
            ELSE store[c][i] = Current(i))

\* "Any write that commits during the query window has commit_time > server_time,
\* so the next sync will include it."
NextSyncIncludesIt ==
    \A c \in Clients, i \in Ids :
        client[c].checkpoint # 0 /\ row[i].life \in {"live", "deleted"} =>
            store[c][i] = Current(i) \/ row[i].stamp > client[c].checkpoint - LookBack

=============================================================================
