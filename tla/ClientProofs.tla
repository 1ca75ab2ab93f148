----------------------------- MODULE ClientProofs -----------------------------
(***************************************************************************)
(* What the copies clients hold are worth: the promise of a checkpoint of  *)
(* the incremental sync, for any rows and clients, any look-back and age,  *)
(* transactions of any length and any number of lost answers, and the      *)
(* rules of the change feed, for any number of threads, clients and        *)
(* writes: no commit is swallowed (rule 2), and a client that is up to     *)
(* date by its token holds what the token announced (rules 1 and 3).       *)
(***************************************************************************)
EXTENDS IncrementalSync, ChangeFeed, TLAPS

-----------------------------------------------------------------------------
(* The checkpoint of the incremental sync *)

Lives == {"none", "live", "deleted", "gone"}

\* A row, as it is or as a transaction has written it.
Version == [life : Lives, stamp : 0..clock]

Session ==
    [at : {"idle", "asked", "found", "complete"}, checkpoint : 0..clock, time : 0..clock,
     full : BOOLEAN, found : [Ids -> 0..clock \cup {Skip}], held : SUBSET Ids]

\* Rows the list has, that no delta since t sends again.
Settled(t) ==
    {i \in Ids \ belated :
        /\ row[i].life \in {"live", "deleted"}
        /\ <<i, row[i].stamp>> \notin flushing
        /\ row[i].stamp <= t - LookBack}

\* A delta is asked for since some checkpoint.
DeltaHasCheckpoint ==
    \A c \in Clients : client[c].at # "idle" /\ ~client[c].full => client[c].checkpoint # 0

\* An answer, once found, brings everything settled at the time it carries.
AnswerBrings ==
    \A c \in Clients :
        client[c].at \in {"found", "complete"} =>
            \A i \in Settled(client[c].time) : Applied(c)[i] = Current(i)

\* The cached answer has every row, but for the late ones and those whose flush
\* will clear it.
CacheBrings ==
    cached # Nothing =>
        /\ HasCache
        /\ \A i \in Ids \ belated :
               <<i, row[i].stamp>> \notin flushing => cached[i] = Current(i)

\* The inductive invariant: the promise, what an answer under way brings, and
\* what the cached answer would bring.
Promise ==
    TypeOK /\ DeltaHasCheckpoint /\ AnswerBrings /\ CacheBrings /\ CheckpointIsAPromise

-----------------------------------------------------------------------------
LEMMA Bounds ==
    /\ Ids \subseteq Nat
    /\ LookBack \in Nat /\ MaxAge \in Nat /\ Longest \in Nat
    /\ MaxTime \in Nat /\ MaxLost \in Nat
BY SyncAssumption

\* What is known of each row and client.
LEMMA Typed ==
    ASSUME TypeOK
    PROVE  /\ clock \in 0..MaxTime /\ clock \in Nat
           /\ \A i \in Ids : row[i] \in Version /\ open[i] \in Version
           /\ \A i \in Ids : row[i].stamp \in 0..clock /\ open[i].stamp \in 0..clock
           /\ \A i \in Ids : row[i].life \in Lives /\ Current(i) \in 0..clock
           /\ \A c \in Clients :
                /\ client[c] \in Session
                /\ client[c].checkpoint \in 0..clock /\ client[c].time \in 0..clock
                /\ client[c].full \in BOOLEAN
                /\ client[c].found \in [Ids -> 0..clock \cup {Skip}]
                /\ store[c] \in [Ids -> 0..clock]
<1>1. clock \in 0..MaxTime /\ clock \in Nat
  BY Bounds DEF TypeOK
<1>2. \A i \in Ids : row[i] \in Version /\ open[i] \in Version
  BY DEF TypeOK, Version, Lives
<1>3. \A i \in Ids : /\ row[i].stamp \in 0..clock /\ open[i].stamp \in 0..clock
                     /\ row[i].life \in Lives
  BY <1>2 DEF Version
<1>4. \A i \in Ids : Current(i) \in 0..clock
  BY <1>1, <1>3 DEF Current, Absent
<1>5. \A c \in Clients : client[c] \in Session /\ store[c] \in [Ids -> 0..clock]
  BY DEF TypeOK, Session
<1>6. \A c \in Clients :
         /\ client[c].checkpoint \in 0..clock /\ client[c].time \in 0..clock
         /\ client[c].full \in BOOLEAN /\ client[c].found \in [Ids -> 0..clock \cup {Skip}]
  BY <1>5 DEF Session
<1>. QED  BY <1>1, <1>2, <1>3, <1>4, <1>5, <1>6

\* Time does not go back, and what was typed stays so.
LEMMA TickKeepsTypes ==
    ASSUME TypeOK, Tick
    PROVE  /\ clock' \in 0..MaxTime /\ clock' \in Nat /\ clock <= clock'
           /\ Version \subseteq Version' /\ Session \subseteq Session'
           /\ 0..clock \subseteq 0..clock'
           /\ [Ids -> 0..clock \cup {Skip}] \subseteq [Ids -> 0..clock' \cup {Skip}]
           /\ Ids \X (0..clock) \subseteq Ids \X (0..clock')
<1>1. clock' \in 0..MaxTime /\ clock' \in Nat /\ clock <= clock'
  BY Typed, Bounds DEF Tick
<1>2. 0..clock \subseteq 0..clock'
  BY <1>1, Typed
<1>3. Version \subseteq Version'
  BY <1>2 DEF Version
<1>4. [Ids -> 0..clock \cup {Skip}] \subseteq [Ids -> 0..clock' \cup {Skip}]
  BY <1>2
<1>5. Session \subseteq Session'
  BY <1>2, <1>4 DEF Session
<1>6. Ids \X (0..clock) \subseteq Ids \X (0..clock')
  BY <1>2
<1>. QED  BY <1>1, <1>2, <1>3, <1>4, <1>5, <1>6

\* Types from those of the parts.
LEMMA TypesFromParts ==
    ASSUME clock \in 0..MaxTime, row \in [Ids -> Version], open \in [Ids -> Version],
           client \in [Clients -> Session], store \in [Clients -> [Ids -> 0..clock]],
           cached \in [Ids -> 0..clock \cup {Skip}], flushing \subseteq Ids \X (0..clock),
           lost \in 0..MaxLost, belated \subseteq Ids
    PROVE  TypeOK
BY DEF TypeOK, Version, Session, Lives

LEMMA NextTypesFromParts ==
    ASSUME clock' \in 0..MaxTime, row' \in [Ids -> Version'], open' \in [Ids -> Version'],
           client' \in [Clients -> Session'], store' \in [Clients -> [Ids -> 0..clock']],
           cached' \in [Ids -> 0..clock' \cup {Skip}], flushing' \subseteq Ids \X (0..clock'),
           lost' \in 0..MaxLost, belated' \subseteq Ids
    PROVE  TypeOK'
BY DEF TypeOK, Version, Session, Lives

LEMMA PartsFromTypes ==
    ASSUME TypeOK
    PROVE  /\ clock \in 0..MaxTime /\ row \in [Ids -> Version] /\ open \in [Ids -> Version]
           /\ client \in [Clients -> Session] /\ store \in [Clients -> [Ids -> 0..clock]]
           /\ cached \in [Ids -> 0..clock \cup {Skip}] /\ flushing \subseteq Ids \X (0..clock)
           /\ lost \in 0..MaxLost /\ belated \subseteq Ids
BY DEF TypeOK, Version, Session, Lives

LEMMA SameTypes ==
    ASSUME UNCHANGED clock
    PROVE  Version' = Version /\ Session' = Session
BY DEF Version, Session

LEMMA NoWriteTyped == ASSUME clock \in Nat PROVE NoWrite \in Version
BY DEF NoWrite, Version, Lives

LEMMA RestingTyped ==
    ASSUME clock \in Nat
    PROVE  Resting \in Session /\ Resting.at = "idle" /\ Resting.checkpoint = 0
BY DEF Resting, Session, Skip, Nothing

LEMMA NothingTyped == ASSUME clock \in Nat PROVE Nothing \in [Ids -> 0..clock \cup {Skip}]
BY DEF Nothing

LEMMA PromiseInit == Init => Promise
<1>. SUFFICES ASSUME Init PROVE Promise
  OBVIOUS
<1>1. clock = 0 /\ clock \in 0..MaxTime /\ clock \in Nat
  BY Bounds DEF Init
<1>2. \A c \in Clients : client[c] = Resting
  BY DEF Init
<1>3. TypeOK
  BY <1>1, NothingTyped, NoWriteTyped, RestingTyped, TypesFromParts, Bounds DEF Init, Absent
<1>4. CacheBrings
  BY DEF Init, CacheBrings
<1>. QED
  BY <1>1, <1>2, <1>3, <1>4, RestingTyped
  DEF Promise, DeltaHasCheckpoint, AnswerBrings, CheckpointIsAPromise

-----------------------------------------------------------------------------
(* Writers *)

LEMMA PromiseSave ==
    ASSUME Promise, NEW i \in Ids, NEW life \in Lives, Save(i, life)
    PROVE  Promise'
<1>1. TypeOK /\ Tick /\ UNCHANGED <<row, client, store, flushing, lost, belated>>
  BY DEF Promise, Save
<1>2. [life |-> life, stamp |-> clock'] \in Version'
  BY <1>1, TickKeepsTypes DEF Version
<1>3. open' \in [Ids -> Version']
  BY <1>1, <1>2, TickKeepsTypes, PartsFromTypes DEF Save
<1>4. TypeOK'
  <2>1. /\ row' \in [Ids -> Version'] /\ client' \in [Clients -> Session']
        /\ store' \in [Clients -> [Ids -> 0..clock']]
    <3>1. [Ids -> 0..clock] \subseteq [Ids -> 0..clock']
      BY <1>1, TickKeepsTypes
    <3>. QED  BY <1>1, <3>1, TickKeepsTypes, PartsFromTypes
  <2>2. cached' \in [Ids -> 0..clock' \cup {Skip}] /\ flushing' \subseteq Ids \X (0..clock')
    <3>1. cached' = Nothing
      BY DEF Save
    <3>2. Nothing \in [Ids -> 0..clock \cup {Skip}]
      BY <1>1, Typed, NothingTyped
    <3>. QED  BY <1>1, <3>1, <3>2, TickKeepsTypes, PartsFromTypes
  <2>. QED  BY <1>1, <1>3, <2>1, <2>2, TickKeepsTypes, PartsFromTypes, NextTypesFromParts
<1>5. CacheBrings'
  BY DEF Save, CacheBrings, Nothing
<1>. QED
  BY <1>1, <1>4, <1>5
  DEF Promise, DeltaHasCheckpoint, AnswerBrings, CheckpointIsAPromise, Settled, Applied,
      Current

LEMMA PromiseCommit == ASSUME Promise, NEW i \in Ids, Commit(i) PROVE Promise'
<1>1. TypeOK /\ UNCHANGED <<clock, client, store, cached, lost>>
  BY DEF Promise, Commit
<1>2. /\ open' \in [Ids -> Version] /\ row' \in [Ids -> Version] /\ belated' \subseteq Ids
      /\ flushing' \subseteq Ids \X (0..clock)
  BY <1>1, PartsFromTypes, NoWriteTyped, Typed DEF Commit
<1>3. TypeOK'
  BY <1>1, <1>2, PartsFromTypes, NextTypesFromParts, SameTypes
\* What is committed now is too recent to be settled at any time there was.
<1>4. ASSUME NEW t \in 0..clock
      PROVE  /\ Settled(t)' \subseteq Settled(t)
             /\ \A j \in Settled(t)' : Current(j)' = Current(j)
  <2>1. i \notin Settled(t)'
    <3>1. row'[i] = open[i] /\ open[i].stamp \in 0..clock /\ clock \in Nat
      BY <1>1, Typed, PartsFromTypes DEF Commit
    <3>2. i \notin belated' => clock - open[i].stamp < LookBack
      BY <1>1, PartsFromTypes DEF Commit, InTime
    <3>. QED  BY <1>1, <3>1, <3>2, <1>4, Bounds DEF Settled
  <2>2. \A j \in Ids \ {i} : row'[j] = row[j]
    BY <1>1, PartsFromTypes DEF Commit
  <2>3. belated \subseteq belated' \cup {i} /\ flushing \subseteq flushing'
    BY DEF Commit
  <2>. QED  BY <1>1, <2>1, <2>2, <2>3 DEF Settled, Current
<1>5. CheckpointIsAPromise'
  <2>. SUFFICES ASSUME NEW c \in Clients, client[c].checkpoint # 0,
                       NEW j \in Settled(client[c].checkpoint)'
                PROVE  store[c][j] = Current(j)'
    BY <1>1 DEF CheckpointIsAPromise, Settled
  <2>1. j \in Settled(client[c].checkpoint) /\ Current(j)' = Current(j)
    BY <1>1, <1>4, Typed
  <2>. QED  BY <2>1 DEF Promise, CheckpointIsAPromise, Settled
<1>6. AnswerBrings'
  <2>. SUFFICES ASSUME NEW c \in Clients, client[c].at \in {"found", "complete"},
                       NEW j \in Settled(client[c].time)'
                PROVE  Applied(c)[j] = Current(j)'
    BY <1>1 DEF AnswerBrings, Applied, Settled
  <2>1. j \in Settled(client[c].time) /\ Current(j)' = Current(j)
    BY <1>1, <1>4, Typed
  <2>. QED  BY <2>1 DEF Promise, AnswerBrings
\* What is committed has its flush still to come.
<1>7. CacheBrings'
  <2>. SUFFICES ASSUME cached # Nothing,
                       NEW j \in Ids \ belated', <<j, row'[j].stamp>> \notin flushing'
                PROVE  cached[j] = Current(j)'
    BY <1>1 DEF Promise, CacheBrings, Commit, Nothing
  <2>1. HasCache
    BY DEF Promise, CacheBrings
  <2>2. j # i
    <3>1. row'[i].stamp = open[i].stamp /\ <<i, open[i].stamp>> \in flushing'
      BY <1>1, <2>1, PartsFromTypes DEF Commit
    <3>. QED  BY <3>1
  <2>3. /\ row'[j] = row[j] /\ j \notin belated
        /\ <<j, row[j].stamp>> \notin flushing
    BY <1>1, <2>2, PartsFromTypes DEF Commit
  <2>. QED  BY <2>1, <2>3 DEF Promise, CacheBrings, Current
<1>. QED  BY <1>1, <1>3, <1>5, <1>6, <1>7 DEF Promise, DeltaHasCheckpoint

LEMMA PromiseRollback == ASSUME Promise, NEW i \in Ids, Rollback(i) PROVE Promise'
<1>1. TypeOK /\ UNCHANGED <<clock, row, client, store, cached, flushing, lost, belated>>
  BY DEF Promise, Rollback
<1>2. open' \in [Ids -> Version]
  BY <1>1, PartsFromTypes, NoWriteTyped, Typed DEF Rollback
<1>3. TypeOK'
  BY <1>1, <1>2, PartsFromTypes, NextTypesFromParts, SameTypes
<1>. QED
  BY <1>1, <1>3
  DEF Promise, DeltaHasCheckpoint, AnswerBrings, CacheBrings, CheckpointIsAPromise,
      Settled, Applied, Current, Nothing

-----------------------------------------------------------------------------
(* The cached answer *)

\* A step of the cache: what is settled afterwards was so before.
LEMMA CacheKeeps ==
    ASSUME Promise, UNCHANGED <<clock, row, open, client, store>>, lost' \in 0..MaxLost,
           cached' \in [Ids -> 0..clock \cup {Skip}], flushing' \subseteq Ids \X (0..clock),
           belated' \subseteq Ids, CacheBrings',
           \A t \in 0..clock : Settled(t)' \subseteq Settled(t)
    PROVE  Promise'
<1>1. TypeOK'
  BY PartsFromTypes, NextTypesFromParts, SameTypes DEF Promise
<1>2. \A j \in Ids : Current(j)' = Current(j)
  BY DEF Current
<1>3. CheckpointIsAPromise'
  <2>. SUFFICES ASSUME NEW c \in Clients, client[c].checkpoint # 0,
                       NEW j \in Settled(client[c].checkpoint)'
                PROVE  store[c][j] = Current(j)
    BY <1>2 DEF CheckpointIsAPromise, Settled
  <2>1. j \in Settled(client[c].checkpoint)
    BY Typed DEF Promise
  <2>. QED  BY <2>1 DEF Promise, CheckpointIsAPromise, Settled
<1>4. AnswerBrings'
  <2>. SUFFICES ASSUME NEW c \in Clients, client[c].at \in {"found", "complete"},
                       NEW j \in Settled(client[c].time)'
                PROVE  Applied(c)[j] = Current(j)
    <3>1. \A d \in Clients : Applied(d)' = Applied(d)
      BY DEF Applied
    <3>. QED  BY <1>2, <3>1 DEF AnswerBrings, Settled
  <2>1. j \in Settled(client[c].time)
    BY Typed DEF Promise
  <2>. QED  BY <2>1 DEF Promise, AnswerBrings
<1>. QED  BY <1>1, <1>3, <1>4 DEF Promise, DeltaHasCheckpoint

\* A row whose flush is over is settled only if it is not late.
LEMMA Unsettled ==
    ASSUME Promise, NEW i \in Ids, NEW stamp \in 0..clock,
           flushing' = flushing \ {<<i, stamp>>}, belated \subseteq belated',
           UNCHANGED <<clock, row>>,
           stamp = row[i].stamp => i \in belated' \/ InTime(stamp)
    PROVE  \A t \in 0..clock : Settled(t)' \subseteq Settled(t)
<1>. SUFFICES ASSUME NEW t \in 0..clock, NEW j \in Settled(t)' PROVE j \in Settled(t)
  OBVIOUS
<1>1. /\ j \in Ids \ belated' /\ row[j].life \in {"live", "deleted"}
      /\ <<j, row[j].stamp>> \notin flushing' /\ row[j].stamp <= t - LookBack
  BY DEF Settled
<1>2. j = i => stamp # row[i].stamp
  BY <1>1, Typed, Bounds DEF InTime, Promise
<1>3. <<j, row[j].stamp>> \notin flushing
  BY <1>1, <1>2
<1>. QED  BY <1>1, <1>3 DEF Settled

LEMMA PromiseFlush ==
    ASSUME Promise, NEW i \in Ids, NEW stamp \in 0..clock, Flush(i, stamp)
    PROVE  Promise'
<1>1. TypeOK /\ UNCHANGED <<clock, row, open, client, store, lost>> /\ clock \in Nat
  BY Typed DEF Promise, Flush
<1>2. /\ flushing' = flushing \ {<<i, stamp>>} /\ cached' = Nothing
      /\ belated \subseteq belated' /\ belated' \subseteq belated \cup {i}
      /\ stamp = row[i].stamp => i \in belated' \/ InTime(stamp)
  BY DEF Flush
<1>3. CacheBrings'
  BY <1>2 DEF CacheBrings, Nothing
<1>4. \A t \in 0..clock : Settled(t)' \subseteq Settled(t)
  BY <1>1, <1>2, Unsettled
<1>5. /\ cached' \in [Ids -> 0..clock \cup {Skip}] /\ flushing' \subseteq Ids \X (0..clock)
      /\ belated' \subseteq Ids /\ lost' \in 0..MaxLost
  BY <1>1, <1>2, PartsFromTypes, NothingTyped
<1>. QED  BY <1>1, <1>3, <1>4, <1>5, CacheKeeps

LEMMA PromiseLoseFlush ==
    ASSUME Promise, NEW i \in Ids, NEW stamp \in 0..clock, LoseFlush(i, stamp)
    PROVE  Promise'
<1>1. TypeOK /\ UNCHANGED <<clock, row, open, client, store, cached>>
  BY DEF Promise, LoseFlush
<1>2. /\ flushing' = flushing \ {<<i, stamp>>}
      /\ belated \subseteq belated' /\ belated' \subseteq belated \cup {i}
      /\ stamp = row[i].stamp => i \in belated'
  BY DEF LoseFlush
<1>3. CacheBrings'
  <2>. SUFFICES ASSUME cached # Nothing,
                       NEW j \in Ids \ belated', <<j, row[j].stamp>> \notin flushing'
                PROVE  HasCache /\ cached[j] = Current(j)
    BY <1>1 DEF Promise, CacheBrings, Current, Nothing
  <2>1. <<j, row[j].stamp>> \notin flushing
    BY <1>2
  <2>. QED  BY <1>2, <2>1 DEF Promise, CacheBrings
<1>4. \A t \in 0..clock : Settled(t)' \subseteq Settled(t)
  BY <1>1, <1>2, Unsettled
<1>5. /\ cached' \in [Ids -> 0..clock \cup {Skip}] /\ flushing' \subseteq Ids \X (0..clock)
      /\ belated' \subseteq Ids /\ lost' \in 0..MaxLost
  BY <1>1, <1>2, PartsFromTypes, Bounds DEF LoseFlush
<1>. QED  BY <1>1, <1>3, <1>4, <1>5, CacheKeeps

LEMMA PromiseExpires == ASSUME Promise, CacheExpires PROVE Promise'
<1>1. /\ TypeOK /\ UNCHANGED <<clock, row, open, client, store, flushing, lost, belated>>
      /\ cached' = Nothing /\ clock \in Nat
  BY Typed DEF Promise, CacheExpires
<1>2. CacheBrings'
  BY <1>1 DEF CacheBrings, Nothing
<1>3. \A t \in 0..clock : Settled(t)' \subseteq Settled(t)
  BY <1>1 DEF Settled
<1>4. /\ cached' \in [Ids -> 0..clock \cup {Skip}] /\ flushing' \subseteq Ids \X (0..clock)
      /\ belated' \subseteq Ids /\ lost' \in 0..MaxLost
  BY <1>1, PartsFromTypes, NothingTyped
<1>. QED  BY <1>1, <1>2, <1>3, <1>4, CacheKeeps

-----------------------------------------------------------------------------
(* Answers *)

\* A step of client c alone, to session s and copy copy.
LEMMA SessionKeeps ==
    ASSUME Promise, NEW c \in Clients, NEW s \in Session, NEW copy \in [Ids -> 0..clock],
           client' = [client EXCEPT ![c] = s], store' = [store EXCEPT ![c] = copy],
           lost' \in 0..MaxLost, UNCHANGED <<clock, row, open, cached, flushing, belated>>,
           s.at # "idle" /\ ~s.full => s.checkpoint # 0,
           s.at \in {"found", "complete"} =>
               \A i \in Settled(s.time) : Applied(c)'[i] = Current(i),
           s.checkpoint # 0 => \A i \in Settled(s.checkpoint) : copy[i] = Current(i)
    PROVE  Promise'
<1>1. /\ client' \in [Clients -> Session] /\ client'[c] = s
      /\ store' \in [Clients -> [Ids -> 0..clock]] /\ store'[c] = copy
      /\ \A d \in Clients \ {c} : client'[d] = client[d] /\ store'[d] = store[d]
  BY PartsFromTypes DEF Promise
<1>2. TypeOK'
  BY <1>1, PartsFromTypes, NextTypesFromParts, SameTypes DEF Promise
<1>3. DeltaHasCheckpoint'
  BY <1>1 DEF Promise, DeltaHasCheckpoint
<1>4. AnswerBrings'
  <2>. SUFFICES ASSUME NEW d \in Clients, client'[d].at \in {"found", "complete"},
                       NEW i \in Settled(client'[d].time)
                PROVE  Applied(d)'[i] = Current(i)
    BY DEF AnswerBrings, Settled, Current
  <2>1. CASE d = c
    BY <1>1, <2>1
  <2>2. CASE d # c
    <3>1. client'[d] = client[d] /\ Applied(d)' = Applied(d)
      BY <1>1, <2>2 DEF Applied
    <3>. QED  BY <3>1 DEF Promise, AnswerBrings
  <2>. QED  BY <2>1, <2>2
<1>5. CheckpointIsAPromise'
  <2>. SUFFICES ASSUME NEW d \in Clients, client'[d].checkpoint # 0,
                       NEW i \in Settled(client'[d].checkpoint)
                PROVE  store'[d][i] = Current(i)
    BY DEF CheckpointIsAPromise, Settled, Current
  <2>1. CASE d = c
    BY <1>1, <2>1
  <2>2. CASE d # c
    BY <1>1, <2>2 DEF Promise, CheckpointIsAPromise, Settled
  <2>. QED  BY <2>1, <2>2
<1>6. CacheBrings'
  BY DEF Promise, CacheBrings, Nothing, Current
<1>. QED  BY <1>2, <1>3, <1>4, <1>5, <1>6 DEF Promise

\* What is settled at its checkpoint, a client has.
LEMMA StoreHasSettled ==
    ASSUME Promise, NEW c \in Clients, client[c].checkpoint # 0,
           NEW i \in Settled(client[c].checkpoint)
    PROVE  store[c][i] = Current(i)
BY DEF Promise, CheckpointIsAPromise, Settled

LEMMA StoreUnchanged ==
    ASSUME TypeOK, NEW c \in Clients, UNCHANGED store
    PROVE  store[c] \in [Ids -> 0..clock] /\ store' = [store EXCEPT ![c] = store[c]]
BY PartsFromTypes

\* A delta is asked for since a checkpoint; the rest of the promise is not
\* disturbed by time.
LEMMA PromiseAsk == ASSUME Promise, NEW c \in Clients, Ask(c) PROVE Promise'
<1>. DEFINE full == \/ client[c].checkpoint = 0
                    \/ clock' - client[c].checkpoint > MaxAge
            s == [client[c] EXCEPT !.at = "asked", !.time = clock', !.full = full]
<1>1. TypeOK /\ Tick /\ UNCHANGED <<row, open, store, cached, flushing, lost, belated>>
  BY DEF Promise, Ask
<1>2. client' = [client EXCEPT ![c] = s]
  BY <1>1, PartsFromTypes DEF Ask
<1>3. /\ s \in Session' /\ s.at = "asked" /\ s.full = full
      /\ s.checkpoint = client[c].checkpoint
  <2>1. full \in BOOLEAN /\ clock' \in 0..clock' /\ client[c] \in Session'
    BY <1>1, Typed, TickKeepsTypes
  <2>. HIDE DEF full
  <2>. QED  BY <2>1 DEF Session
<1>. HIDE DEF s
<1>4. /\ client' \in [Clients -> Session'] /\ client'[c] = s
      /\ \A d \in Clients \ {c} : client'[d] = client[d]
  BY <1>1, <1>2, <1>3, PartsFromTypes, TickKeepsTypes
<1>5. TypeOK'
  <2>1. /\ row' \in [Ids -> Version'] /\ open' \in [Ids -> Version']
        /\ store' \in [Clients -> [Ids -> 0..clock']]
    <3>1. [Ids -> 0..clock] \subseteq [Ids -> 0..clock']
      BY <1>1, TickKeepsTypes
    <3>. QED  BY <1>1, <3>1, TickKeepsTypes, PartsFromTypes
  <2>. QED  BY <1>1, <1>4, <2>1, TickKeepsTypes, PartsFromTypes, NextTypesFromParts
<1>6. DeltaHasCheckpoint'
  BY <1>3, <1>4 DEF Promise, DeltaHasCheckpoint
<1>7. AnswerBrings'
  <2>. SUFFICES ASSUME NEW d \in Clients, client'[d].at \in {"found", "complete"},
                       NEW i \in Settled(client'[d].time)
                PROVE  Applied(d)'[i] = Current(i)
    BY <1>1 DEF AnswerBrings, Settled, Current
  <2>1. d # c /\ client'[d] = client[d]
    BY <1>3, <1>4
  <2>. QED  BY <1>1, <2>1 DEF Promise, AnswerBrings, Applied
<1>8. CheckpointIsAPromise'
  <2>. SUFFICES ASSUME NEW d \in Clients, client'[d].checkpoint # 0,
                       NEW i \in Settled(client'[d].checkpoint)
                PROVE  store[d][i] = Current(i)
    BY <1>1 DEF CheckpointIsAPromise, Settled, Current
  <2>1. client'[d].checkpoint = client[d].checkpoint
    BY <1>3, <1>4
  <2>. QED  BY <2>1, StoreHasSettled
<1>9. CacheBrings'
  BY <1>1 DEF Promise, CacheBrings, Nothing, Current
<1>. QED  BY <1>5, <1>6, <1>7, <1>8, <1>9 DEF Promise

\* A cached answer brings what is settled at any time.
LEMMA PromiseHit == ASSUME Promise, NEW c \in Clients, Hit(c) PROVE Promise'
<1>. DEFINE s == [client[c] EXCEPT !.at = "complete", !.found = cached]
<1>1. /\ TypeOK /\ client[c].at = "asked" /\ cached # Nothing
      /\ UNCHANGED <<clock, row, open, store, cached, flushing, lost, belated>>
  BY DEF Promise, Hit
<1>2. client' = [client EXCEPT ![c] = s]
  BY <1>1, PartsFromTypes DEF Hit
<1>3. /\ s \in Session /\ s.at = "complete" /\ s.found = cached
      /\ s.full = client[c].full /\ s.checkpoint = client[c].checkpoint
      /\ s.time = client[c].time
  BY <1>1, Typed, PartsFromTypes DEF Session
<1>. HIDE DEF s
<1>4. client'[c].found = cached
  BY <1>1, <1>2, <1>3, PartsFromTypes
<1>5. ASSUME NEW i \in Settled(s.time) PROVE Applied(c)'[i] = Current(i)
  <2>1. i \in Ids /\ cached[i] = Current(i)
    BY <1>1 DEF Promise, CacheBrings, Settled
  <2>2. Current(i) # Skip
    BY <1>1, <2>1, Typed DEF Skip
  <2>. QED  BY <1>4, <2>1, <2>2 DEF Applied
<1>6. s.checkpoint # 0 => \A i \in Settled(s.checkpoint) : store[c][i] = Current(i)
  BY <1>3, StoreHasSettled
<1>7. s.at # "idle" /\ ~s.full => s.checkpoint # 0
  BY <1>1, <1>3 DEF Promise, DeltaHasCheckpoint
<1>8. lost' \in 0..MaxLost
  BY <1>1, PartsFromTypes
<1>. QED  BY <1>1, <1>2, <1>3, <1>5, <1>6, <1>7, <1>8, StoreUnchanged, SessionKeeps

LEMMA PromiseQuery == ASSUME Promise, NEW c \in Clients, Query(c) PROVE Promise'
<1>. DEFINE answer == [i \in Ids |->
                 IF client[c].full \/ ChangedSince(i, client[c].checkpoint)
                 THEN Current(i) ELSE Skip]
            s == [client[c] EXCEPT !.at = "found", !.found = answer]
<1>1. /\ TypeOK /\ client[c].at = "asked"
      /\ UNCHANGED <<clock, row, open, store, cached, flushing, lost, belated>>
  BY DEF Promise, Query
<1>2. answer \in [Ids -> 0..clock \cup {Skip}]
  BY <1>1, Typed
<1>3. client' = [client EXCEPT ![c] = s]
  BY <1>1, PartsFromTypes DEF Query
<1>4. /\ s \in Session /\ s.at = "found" /\ s.found = answer
      /\ s.full = client[c].full /\ s.checkpoint = client[c].checkpoint
      /\ s.time = client[c].time
  <2>. HIDE DEF answer
  <2>. QED  BY <1>1, <1>2, Typed DEF Session
<1>5. client'[c].found = answer
  BY <1>1, <1>3, <1>4, PartsFromTypes
<1>. HIDE DEF s
\* A row the delta leaves out was settled at the checkpoint.
<1>6. ASSUME NEW i \in Settled(client[c].time) PROVE Applied(c)'[i] = Current(i)
  <2>1. i \in Ids /\ row[i].life \in {"live", "deleted"} /\ Current(i) # Skip
    BY <1>1, Typed DEF Settled, Skip
  <2>2. CASE client[c].full \/ ChangedSince(i, client[c].checkpoint)
    BY <1>1, <1>5, <2>1, <2>2 DEF Applied
  <2>3. CASE ~(client[c].full \/ ChangedSince(i, client[c].checkpoint))
    <3>1. client[c].checkpoint # 0
      BY <1>1, <2>3 DEF Promise, DeltaHasCheckpoint
    <3>2. i \in Settled(client[c].checkpoint)
      BY <1>1, <2>1, <2>3, Typed, Bounds DEF Settled, ChangedSince
    <3>3. store[c][i] = Current(i)
      BY <3>1, <3>2, StoreHasSettled
    <3>. QED  BY <1>1, <1>5, <2>1, <2>3, <3>3 DEF Applied
  <2>. QED  BY <2>2, <2>3
<1>7. \A i \in Settled(s.time) : Applied(c)'[i] = Current(i)
  BY <1>4, <1>6
<1>8. s.checkpoint # 0 => \A i \in Settled(s.checkpoint) : store[c][i] = Current(i)
  BY <1>4, StoreHasSettled
<1>9. s.at # "idle" /\ ~s.full => s.checkpoint # 0
  BY <1>1, <1>4 DEF Promise, DeltaHasCheckpoint
<1>10. lost' \in 0..MaxLost
  BY <1>1, PartsFromTypes
<1>. QED  BY <1>1, <1>3, <1>4, <1>7, <1>8, <1>9, <1>10, StoreUnchanged, SessionKeeps

\* What an answer puts into the cache lacks only what is late or has its flush
\* still to come.
LEMMA PromiseFill == ASSUME Promise, NEW c \in Clients, Fill(c) PROVE Promise'
<1>. DEFINE s == [client[c] EXCEPT !.at = "complete"]
<1>1. /\ TypeOK /\ client[c].at = "found" /\ client[c].found \in [Ids -> 0..clock \cup {Skip}]
      /\ UNCHANGED <<clock, row, open, store, flushing, lost>>
  BY Typed DEF Promise, Fill
<1>2. client' = [client EXCEPT ![c] = s]
  BY <1>1, PartsFromTypes DEF Fill
<1>3. /\ s \in Session /\ s.at = "complete" /\ s.found = client[c].found
      /\ s.full = client[c].full /\ s.checkpoint = client[c].checkpoint
      /\ s.time = client[c].time
  BY <1>1, Typed DEF Session
<1>. HIDE DEF s
<1>4. /\ client' \in [Clients -> Session] /\ client'[c] = s
      /\ \A d \in Clients \ {c} : client'[d] = client[d]
  BY <1>1, <1>2, <1>3, PartsFromTypes
<1>5. /\ belated \subseteq belated' /\ belated' \subseteq Ids
      /\ cached' \in [Ids -> 0..clock \cup {Skip}]
  BY <1>1, PartsFromTypes DEF Fill
<1>6. TypeOK'
  BY <1>1, <1>4, <1>5, PartsFromTypes, NextTypesFromParts, SameTypes
<1>7. \A d \in Clients : /\ Applied(d)' = Applied(d)
                        /\ client'[d].time = client[d].time
                        /\ client'[d].checkpoint = client[d].checkpoint
                        /\ client'[d].full = client[d].full
  <2>. TAKE d \in Clients
  <2>1. client'[d].found = client[d].found
    BY <1>3, <1>4
  <2>. QED  BY <1>1, <1>3, <1>4, <2>1 DEF Applied
<1>8. DeltaHasCheckpoint'
  <2>1. \A d \in Clients : client'[d].at # "idle" => client[d].at # "idle"
    BY <1>1, <1>4
  <2>. QED  BY <1>7, <2>1 DEF Promise, DeltaHasCheckpoint
<1>9. AnswerBrings'
  <2>. SUFFICES ASSUME NEW d \in Clients, client'[d].at \in {"found", "complete"},
                       NEW j \in Settled(client[d].time)
                PROVE  Applied(d)'[j] = Current(j)
    BY <1>1, <1>5, <1>7 DEF AnswerBrings, Settled, Current
  <2>1. client[d].at \in {"found", "complete"}
    BY <1>1, <1>4
  <2>. QED  BY <1>7, <2>1 DEF Promise, AnswerBrings
<1>10. CheckpointIsAPromise'
  <2>. SUFFICES ASSUME NEW d \in Clients, client'[d].checkpoint # 0,
                       NEW j \in Settled(client[d].checkpoint)
                PROVE  store[d][j] = Current(j)
    BY <1>1, <1>5, <1>7 DEF CheckpointIsAPromise, Settled, Current
  <2>. QED  BY <1>7, StoreHasSettled
<1>11. CacheBrings'
  <2>1. CASE HasCache
    <3>1. /\ cached' = client[c].found
          /\ belated' = belated \cup {i \in Ids : /\ client[c].found[i] # Current(i)
                                                /\ <<i, row[i].stamp>> \notin flushing}
      BY <2>1 DEF Fill
    <3>. QED  BY <1>1, <2>1, <3>1 DEF CacheBrings, Current
  <2>2. CASE ~HasCache
    <3>1. UNCHANGED <<cached, belated>>
      BY <2>2 DEF Fill
    <3>. QED  BY <1>1, <3>1 DEF Promise, CacheBrings, Current, Nothing
  <2>. QED  BY <2>1, <2>2
<1>. QED  BY <1>6, <1>8, <1>9, <1>10, <1>11 DEF Promise

LEMMA PromiseCount == ASSUME Promise, NEW c \in Clients, Count(c) PROVE Promise'
<1>. DEFINE s == [client[c] EXCEPT !.at = "complete", !.held = Live]
<1>1. /\ TypeOK /\ client[c].at = "found"
      /\ UNCHANGED <<clock, row, open, store, cached, flushing, lost, belated>>
  BY DEF Promise, Count
<1>2. client' = [client EXCEPT ![c] = s]
  BY <1>1, PartsFromTypes DEF Count
<1>3. /\ s \in Session /\ s.at = "complete" /\ s.found = client[c].found
      /\ s.full = client[c].full /\ s.checkpoint = client[c].checkpoint
      /\ s.time = client[c].time
  <2>1. Live \in SUBSET Ids
    BY DEF Live
  <2>. QED  BY <1>1, <2>1, Typed DEF Session
<1>4. client'[c].found = client[c].found
  BY <1>1, <1>2, <1>3, PartsFromTypes
<1>. HIDE DEF s
<1>5. \A i \in Settled(s.time) : Applied(c)'[i] = Current(i)
  BY <1>1, <1>3, <1>4 DEF Applied, Promise, AnswerBrings, Settled
<1>6. s.checkpoint # 0 => \A i \in Settled(s.checkpoint) : store[c][i] = Current(i)
  BY <1>3, StoreHasSettled
<1>7. s.at # "idle" /\ ~s.full => s.checkpoint # 0
  BY <1>1, <1>3 DEF Promise, DeltaHasCheckpoint
<1>8. lost' \in 0..MaxLost
  BY <1>1, PartsFromTypes
<1>. QED  BY <1>1, <1>2, <1>3, <1>5, <1>6, <1>7, <1>8, StoreUnchanged, SessionKeeps

LEMMA PromiseReceive == ASSUME Promise, NEW c \in Clients, Receive(c) PROVE Promise'
<1>. DEFINE mine == {i \in Ids : Applied(c)[i] # Absent}
            short == HasSums /\ ~client[c].full /\ ~SumsAgree(mine, client[c].held)
            next == IF short THEN 0 ELSE client[c].time
            s == [Resting EXCEPT !.checkpoint = next]
<1>1. /\ TypeOK /\ client[c].at = "complete"
      /\ store' = [store EXCEPT ![c] = Applied(c)]
      /\ UNCHANGED <<clock, row, open, cached, flushing, lost, belated>>
  BY DEF Promise, Receive
<1>2. client' = [client EXCEPT ![c] = s]
  BY DEF Receive, NextCheckpoint
<1>. HIDE DEF mine, short
<1>3. next \in 0..clock
  BY <1>1, Typed
<1>4. s \in Session /\ s.at = "idle" /\ s.checkpoint = next
  <2>. HIDE DEF next
  <2>. QED  BY <1>1, <1>3, Typed, RestingTyped DEF Session
<1>. HIDE DEF s
<1>5. Applied(c) \in [Ids -> 0..clock]
  BY <1>1, Typed DEF Applied
<1>6. s.checkpoint # 0 => \A i \in Settled(s.checkpoint) : Applied(c)[i] = Current(i)
  BY <1>1, <1>4 DEF Promise, AnswerBrings
<1>7. lost' \in 0..MaxLost
  BY <1>1, PartsFromTypes
<1>. QED  BY <1>1, <1>2, <1>4, <1>5, <1>6, <1>7, SessionKeeps

LEMMA PromiseLose == ASSUME Promise, NEW c \in Clients, Lose(c) PROVE Promise'
<1>. DEFINE s == [Resting EXCEPT !.checkpoint = client[c].checkpoint]
<1>1. /\ TypeOK /\ UNCHANGED <<clock, row, open, store, cached, flushing, belated>>
      /\ client' = [client EXCEPT ![c] = s]
  BY DEF Promise, Lose
<1>2. lost' \in 0..MaxLost
  BY <1>1, PartsFromTypes, Bounds DEF Lose
<1>3. s \in Session /\ s.at = "idle" /\ s.checkpoint = client[c].checkpoint
  BY <1>1, Typed, RestingTyped DEF Session
<1>. HIDE DEF s
<1>4. s.checkpoint # 0 => \A i \in Settled(s.checkpoint) : store[c][i] = Current(i)
  BY <1>3, StoreHasSettled
<1>. QED  BY <1>1, <1>2, <1>3, <1>4, StoreUnchanged, SessionKeeps

-----------------------------------------------------------------------------
LEMMA PromiseStep == Promise /\ [Next]_vars => Promise'
<1>. SUFFICES ASSUME Promise, [Next]_vars PROVE Promise'
  OBVIOUS
<1>1. CASE UNCHANGED vars
  <2>1. TypeOK'
    BY <1>1, PartsFromTypes, NextTypesFromParts, SameTypes DEF Promise, vars
  <2>. QED
    BY <1>1, <2>1
       DEF Promise, vars, DeltaHasCheckpoint, AnswerBrings, CacheBrings,
           CheckpointIsAPromise, Settled, Applied, Current, Nothing
<1>2. ASSUME NEW i \in Ids, Commit(i) \/ Rollback(i) PROVE Promise'
  BY <1>2, PromiseCommit, PromiseRollback
<1>3. ASSUME NEW i \in Ids, NEW life \in {"live", "deleted", "gone"}, Save(i, life)
      PROVE  Promise'
  BY <1>3, PromiseSave DEF Lives
<1>4. ASSUME NEW i \in Ids, NEW stamp \in 0..clock, Flush(i, stamp) \/ LoseFlush(i, stamp)
      PROVE  Promise'
  BY <1>4, PromiseFlush, PromiseLoseFlush
<1>5. ASSUME NEW c \in Clients, Sync(c) \/ Lose(c) PROVE Promise'
  BY <1>5, PromiseAsk, PromiseHit, PromiseQuery, PromiseFill, PromiseCount, PromiseReceive,
     PromiseLose DEF Sync
<1>. QED  BY <1>1, <1>2, <1>3, <1>4, <1>5, PromiseExpires DEF Next

LEMMA PromiseInvariant == Spec => []Promise
BY PromiseInit, PromiseStep, PTL DEF Spec

\* The types of the rows, the clients and what an answer carries.
THEOREM TypeCorrect == Spec => []TypeOK
<1>1. Promise => TypeOK
  BY DEF Promise
<1>. QED  BY <1>1, PromiseInvariant, PTL

\* A client has, as it is, whatever its next delta will not send again: the
\* query of the answer that set the checkpoint saw it, or it was there before.
\* What commits later than the look-back after its stamp is the one exception.
THEOREM PromiseIsKept == Spec => []CheckpointIsAPromise
<1>1. Promise => CheckpointIsAPromise
  BY DEF Promise
<1>. QED  BY <1>1, PromiseInvariant, PTL

-----------------------------------------------------------------------------
(* The change feed *)

\* What is left of a flush.
Todos == {<<>>, <<"bump">>, <<"clear", "bump">>}

ThreadType ==
    [at : {"idle", "open", "flush", "trail"}, dirty : BOOLEAN,
     queued : BOOLEAN, hook : BOOLEAN, todo : Todos, auto : BOOLEAN, made : Nat]

\* The newest commit is announced, or its thread still has its bump to do.
Promised ==
    \/ announced = db
    \/ \E t \in Threads : thread[t].todo # <<>> /\ thread[t].made = db

\* The inductive invariant: a thread that changed rows has a flush registered,
\* whatever rolled back transactions left in its pending set.
Announcing ==
    /\ db \in Nat
    /\ faults \in Nat
    /\ announced \in 0..db
    /\ thread \in [Threads -> ThreadType]
    /\ \A t \in Threads :
           /\ thread[t].dirty => thread[t].hook /\ thread[t].at = "open"
           /\ thread[t].todo # <<>> => thread[t].at = "flush"
           /\ thread[t].made \in 0..db
    /\ faults = 0 => Promised

-----------------------------------------------------------------------------
LEMMA TodoFacts ==
    /\ <<>> \in Todos
    /\ FlushOrder \in Todos
    /\ FlushOrder # <<>>
    /\ \A s \in Todos : s # <<>> =>
           /\ Tail(s) \in Todos
           /\ Head(s) = "clear" => Tail(s) # <<>>
BY DEF FlushOrder, Todos

LEMMA AnnouncingInit == FeedInit => Announcing
BY DEF FeedInit, Announcing, IdleThread, ThreadType, Todos, Promised

\* A step of t that leaves the counters and t's last commit alone keeps the
\* promise, unless t drops what it had to do.
LEMMA OtherThreads ==
    ASSUME Announcing, NEW t \in Threads, NEW now \in ThreadType,
           thread' = [thread EXCEPT ![t] = now],
           UNCHANGED <<db, announced>>, faults' \in Nat,
           faults' = 0 => faults = 0,
           now.dirty => now.hook /\ now.at = "open",
           now.todo # <<>> => now.at = "flush",
           now.made \in 0..db,
           (faults' = 0 /\ thread[t].todo # <<>>) =>
               now.todo # <<>> /\ now.made = thread[t].made
    PROVE  Announcing'
<1>1. /\ thread' \in [Threads -> ThreadType]
      /\ thread'[t] = now
      /\ \A u \in Threads \ {t} : thread'[u] = thread[u]
  BY DEF Announcing
<1>2. \A u \in Threads :
          /\ thread'[u].dirty => thread'[u].hook /\ thread'[u].at = "open"
          /\ thread'[u].todo # <<>> => thread'[u].at = "flush"
          /\ thread'[u].made \in 0..db'
  BY <1>1 DEF Announcing
<1>3. faults' = 0 => Promised'
  <2>. SUFFICES ASSUME faults' = 0, announced # db PROVE Promised'
    BY DEF Promised
  <2>1. PICK u \in Threads : thread[u].todo # <<>> /\ thread[u].made = db
    BY DEF Announcing, Promised
  <2>2. thread'[u].todo # <<>> /\ thread'[u].made = db'
    BY <1>1, <2>1
  <2>. QED  BY <2>2 DEF Promised
<1>. QED  BY <1>1, <1>2, <1>3 DEF Announcing

\* Opening, writing and rolling back.
LEMMA AnnouncingOpen ==
    ASSUME Announcing, NEW t \in Threads, Begin(t) \/ Write(t) \/ RollbackWrites(t)
    PROVE  Announcing'
<1>t. thread[t] \in ThreadType /\ faults \in Nat
  BY DEF Announcing
<1>s. thread[t].todo = <<>> /\ thread[t].made \in 0..db
  BY DEF Announcing, Begin, Write, RollbackWrites
<1>1. CASE Begin(t)
  <2>. DEFINE now == [thread[t] EXCEPT !.at = "open"]
  <2>1. ~thread[t].dirty
    BY <1>1 DEF Announcing, Begin
  <2>2. /\ now \in ThreadType
        /\ now.todo = <<>> /\ now.made = thread[t].made /\ ~now.dirty
    BY <1>t, <1>s, <2>1 DEF ThreadType
  <2>3. thread' = [thread EXCEPT ![t] = now]
    BY <1>1 DEF Begin, Announcing
  <2>. QED  BY <1>1, <1>t, <1>s, <2>2, <2>3, OtherThreads DEF Begin
<1>2. CASE Write(t)
  <2>. DEFINE now == [Queued(t) EXCEPT !.dirty = TRUE]
  <2>1. /\ now \in ThreadType
        /\ now.todo = <<>> /\ now.made = thread[t].made
        /\ now.hook /\ now.at = "open"
    BY <1>2, <1>t, <1>s DEF ThreadType, Queued, Write
  <2>2. thread' = [thread EXCEPT ![t] = now]
    BY <1>2 DEF Write
  <2>. QED  BY <1>2, <1>t, <1>s, <2>1, <2>2, OtherThreads DEF Write
<1>3. CASE RollbackWrites(t)
  <2>. DEFINE now == [IdleThread EXCEPT !.queued = thread[t].queued]
  <2>1. /\ now \in ThreadType
        /\ now.todo = <<>> /\ now.made = 0 /\ ~now.dirty
    BY <1>t DEF ThreadType, IdleThread, Todos
  <2>2. thread' = [thread EXCEPT ![t] = now]
    BY <1>3 DEF RollbackWrites
  <2>3. 0 \in 0..db
    BY DEF Announcing
  <2>. HIDE DEF now
  <2>. QED  BY <1>3, <1>t, <1>s, <2>1, <2>2, <2>3, OtherThreads DEF RollbackWrites
<1>. QED  BY <1>1, <1>2, <1>3

\* A commit that changed rows goes on to its flush.
LEMMA AnnouncingCommit ==
    ASSUME Announcing, NEW t \in Threads, CommitWrites(t) \/ AutoWrite(t)
    PROVE  Announcing'
<1>t. thread[t] \in ThreadType /\ db \in Nat /\ faults \in Nat
  BY DEF Announcing
<1>s. thread[t].todo = <<>>
  BY DEF Announcing, CommitWrites, AutoWrite
<1>1. PICK now \in ThreadType :
         /\ thread' = [thread EXCEPT ![t] = AfterCommit(t, now)]
         /\ UNCHANGED <<faults, announced>>
         /\ \/ db' = db
            \/ db' = db + 1 /\ now.hook
  <2>1. CASE CommitWrites(t)
    BY <2>1, <1>t DEF CommitWrites, Announcing
  <2>2. CASE AutoWrite(t)
    <3>1. [Queued(t) EXCEPT !.auto = TRUE] \in ThreadType
      BY <1>t DEF ThreadType, Queued
    <3>2. [Queued(t) EXCEPT !.auto = TRUE].hook
      BY <1>t DEF ThreadType, Queued
    <3>. QED  BY <2>2, <3>1, <3>2 DEF AutoWrite
  <2>. QED  BY <2>1, <2>2
<1>. DEFINE after == AfterCommit(t, now)
<1>2. /\ after \in ThreadType
      /\ ~after.dirty
      /\ after.made = db'
      /\ after.todo # <<>> => after.at = "flush"
      /\ now.hook => after.todo # <<>>
  <2>1. db' \in Nat
    BY <1>1, <1>t
  <2>2. now \in ThreadType
    BY <1>1
  <2>. QED  BY <2>1, <2>2, TodoFacts DEF AfterCommit, ThreadType
<1>. HIDE DEF after
<1>3. /\ thread' \in [Threads -> ThreadType]
      /\ thread'[t] = after
      /\ \A u \in Threads \ {t} : thread'[u] = thread[u]
  BY <1>1, <1>2 DEF Announcing, after
<1>4. \A u \in Threads :
          /\ thread'[u].dirty => thread'[u].hook /\ thread'[u].at = "open"
          /\ thread'[u].todo # <<>> => thread'[u].at = "flush"
          /\ thread'[u].made \in 0..db'
  BY <1>1, <1>2, <1>3, <1>t DEF Announcing
<1>5. faults' = 0 => Promised'
  <2>. SUFFICES ASSUME faults' = 0, announced' # db' PROVE Promised'
    BY DEF Promised
  <2>1. CASE db' = db
    <3>1. PICK u \in Threads : thread[u].todo # <<>> /\ thread[u].made = db
      BY <1>1, <2>1 DEF Announcing, Promised
    <3>2. thread'[u].todo # <<>> /\ thread'[u].made = db'
      BY <1>3, <1>s, <2>1, <3>1
    <3>. QED  BY <3>2 DEF Promised
  <2>2. CASE now.hook
    BY <1>2, <1>3, <2>2 DEF Promised
  <2>. QED  BY <1>1, <2>1, <2>2
<1>6. db' \in Nat /\ faults' \in Nat /\ announced' \in 0..db'
  BY <1>1, <1>t DEF Announcing
<1>. QED  BY <1>3, <1>4, <1>5, <1>6 DEF Announcing

\* The two steps of a flush.
LEMMA AnnouncingFlush ==
    ASSUME Announcing, NEW t \in Threads, ClearCaches(t) \/ Upsert(t)
    PROVE  Announcing'
<1>t. /\ thread[t] \in ThreadType /\ thread[t].made \in 0..db
      /\ db \in Nat /\ faults \in Nat /\ announced \in 0..db
      /\ thread[t].todo # <<>> /\ ~thread[t].dirty
  BY DEF Announcing, ClearCaches, Upsert, Does
<1>1. PICK now \in ThreadType :
         /\ thread' = [thread EXCEPT ![t] = now]
         /\ ~now.dirty
         /\ now.todo = Tail(thread[t].todo)
         /\ now.todo # <<>> => now.at = "flush"
         /\ now.made = thread[t].made
  <2>. DEFINE rest == Tail(thread[t].todo)
              next == [thread[t] EXCEPT !.queued = FALSE, !.hook = FALSE,
                           !.todo = rest,
                           !.at = IF rest # <<>> THEN "flush"
                                  ELSE IF thread[t].auto THEN "trail" ELSE "idle"]
  <2>1. rest \in Todos
    BY <1>t, TodoFacts DEF ThreadType
  <2>2. thread' = [thread EXCEPT ![t] = next]
    BY <1>t DEF ClearCaches, Upsert, Advance, Announcing
  <2>. HIDE DEF rest
  <2>3. /\ next \in ThreadType /\ ~next.dirty /\ next.todo = rest
        /\ rest # <<>> => next.at = "flush"
        /\ next.made = thread[t].made
    BY <1>t, <2>1 DEF ThreadType
  <2>. HIDE DEF next
  <2>. QED  BY <2>2, <2>3 DEF rest
<1>2. CASE ClearCaches(t)
  <2>1. now.todo # <<>>
    BY <1>t, <1>1, <1>2, TodoFacts DEF ClearCaches, Does, ThreadType
  <2>2. faults' \in Nat /\ (faults' = 0 => faults = 0)
    BY <1>t, <1>2 DEF ClearCaches, Fault
  <2>3. UNCHANGED <<db, announced>>
    BY <1>2 DEF ClearCaches
  <2>. QED  BY <1>t, <1>1, <2>1, <2>2, <2>3, OtherThreads
<1>3. CASE Upsert(t) /\ faults' = faults
  <2>1. UNCHANGED <<db, faults>>
    BY <1>3 DEF Upsert
  <2>2. \/ announced' = Later(announced, thread[t].made)
        \/ faults' = faults + 1 /\ announced' = announced
    BY <1>3 DEF Upsert, Fault
  <2>3. announced' = Later(announced, thread[t].made)
    BY <1>t, <2>1, <2>2
  <2>4. /\ announced' \in 0..db'
        /\ announced = db => announced' = db
        /\ thread[t].made = db => announced' = db
    BY <1>t, <2>1, <2>3 DEF Later
  <2>5. /\ thread' \in [Threads -> ThreadType]
        /\ thread'[t] = now
        /\ \A u \in Threads \ {t} : thread'[u] = thread[u]
    BY <1>1 DEF Announcing
  <2>6. \A u \in Threads :
            /\ thread'[u].dirty => thread'[u].hook /\ thread'[u].at = "open"
            /\ thread'[u].todo # <<>> => thread'[u].at = "flush"
            /\ thread'[u].made \in 0..db'
    BY <1>t, <1>1, <2>1, <2>5 DEF Announcing
  <2>7. faults' = 0 => Promised'
    <3>. SUFFICES ASSUME faults' = 0, announced' # db' PROVE Promised'
      BY DEF Promised
    <3>1. PICK u \in Threads : thread[u].todo # <<>> /\ thread[u].made = db
      BY <2>1, <2>4 DEF Announcing, Promised
    <3>2. u # t
      BY <2>1, <2>4, <3>1
    <3>. QED  BY <2>1, <2>5, <3>1, <3>2 DEF Promised
  <2>. QED  BY <1>t, <2>1, <2>4, <2>5, <2>6, <2>7 DEF Announcing
<1>4. CASE Upsert(t) /\ faults' # faults
  <2>1. faults' = faults + 1 /\ UNCHANGED <<db, announced>>
    BY <1>4 DEF Upsert, Fault
  <2>2. faults' \in Nat /\ faults' # 0
    BY <1>t, <2>1
  <2>. QED  BY <1>t, <1>1, <2>1, <2>2, OtherThreads
<1>. QED  BY <1>2, <1>3, <1>4

\* The other steps of a thread.
LEMMA AnnouncingLeave ==
    ASSUME Announcing, NEW t \in Threads,
           TrailingClear(t) \/ Die(t) \/ SkipFlush(t)
    PROVE  Announcing'
<1>t. /\ thread[t] \in ThreadType /\ db \in Nat /\ faults \in Nat
      /\ 0 \in 0..db
  BY DEF Announcing
<1>1. PICK now \in ThreadType :
         /\ thread' = [thread EXCEPT ![t] = now]
         /\ ~now.dirty /\ now.todo = <<>> /\ now.made = 0
  <2>1. \A q \in BOOLEAN : LET r == [IdleThread EXCEPT !.queued = q]
                          IN  r \in ThreadType /\ ~r.dirty /\ r.todo = <<>> /\ r.made = 0
    BY DEF ThreadType, IdleThread, Todos
  <2>2. IdleThread \in ThreadType /\ ~IdleThread.dirty /\ IdleThread.todo = <<>> /\ IdleThread.made = 0
    BY DEF ThreadType, IdleThread, Todos
  <2>3. CASE TrailingClear(t)
    <3>1. thread[t].queued \in BOOLEAN
      BY <1>t DEF ThreadType
    <3>. QED  BY <2>1, <2>3, <3>1 DEF TrailingClear
  <2>4. CASE Die(t)
    BY <2>2, <2>4 DEF Die
  <2>5. CASE SkipFlush(t)
    BY <2>1, <2>5 DEF SkipFlush
  <2>. QED  BY <2>3, <2>4, <2>5
<1>2. UNCHANGED <<db, announced>> /\ faults' \in Nat /\ (faults' = 0 => faults = 0)
  BY <1>t DEF TrailingClear, Die, SkipFlush, Fault
<1>3. (faults' = 0 /\ thread[t].todo # <<>>) => FALSE
  <2>1. CASE TrailingClear(t)
    BY <2>1 DEF TrailingClear, Announcing
  <2>2. CASE Die(t) \/ SkipFlush(t)
    BY <2>2, <1>t DEF Die, SkipFlush, Fault
  <2>. QED  BY <2>1, <2>2
<1>. QED  BY <1>t, <1>1, <1>2, <1>3, OtherThreads

LEMMA AnnouncingStep == Announcing /\ [FeedNext]_feedVars => Announcing'
<1>. SUFFICES ASSUME Announcing, [FeedNext]_feedVars PROVE Announcing'
  OBVIOUS
<1>1. ASSUME NEW t \in Threads,
             \/ Begin(t) \/ Write(t) \/ AutoWrite(t) \/ ThreadStep(t)
             \/ Die(t) \/ SkipFlush(t)
      PROVE  Announcing'
  BY <1>1, AnnouncingOpen, AnnouncingCommit, AnnouncingFlush, AnnouncingLeave
     DEF ThreadStep
<1>2. CASE (\E c \in Readers : ReaderStep(c)) \/ Expire \/ UNCHANGED feedVars
  <2>1. UNCHANGED <<db, thread, faults, announced>>
    BY <1>2
       DEF ReaderStep, Poll, Refresh, Lookup, QueryTasks,
           Store, Expire, feedVars
  <2>. QED  BY <2>1 DEF Announcing, Promised
<1>. QED  BY <1>1, <1>2 DEF FeedNext

\* Without faults, every commit has moved the version once its callbacks are
\* through, however many transactions rolled back before on any thread.
THEOREM NoCommitIsSwallowed == FeedSpec => []EveryCommitIsAnnounced
<1>1. Announcing => EveryCommitIsAnnounced
  <2>. SUFFICES ASSUME Announcing, faults = 0,
                       \A t \in Threads : thread[t].at \in {"idle", "open"}
                PROVE  announced = db
    BY DEF EveryCommitIsAnnounced
  <2>1. \A t \in Threads : thread[t].todo = <<>>
    BY DEF Announcing
  <2>. QED  BY <2>1 DEF Announcing, Promised
<1>. QED  BY <1>1, AnnouncingInit, AnnouncingStep, PTL DEF FeedSpec

-----------------------------------------------------------------------------
(* What stands behind a token.                                              *)

ClientType ==
    [at : {"idle", "lookup", "query", "store"}, token : Nat, seen : Nat,
     content : Nat, late : BOOLEAN, found : Nat]

\* A commit's answer is deleted before its bump, and a bump outdates every
\* token that a client has taken.
Behind ==
    /\ version \in Nat
    /\ cleared \in 0..db
    /\ cache \in [held : BOOLEAN, content : Nat, late : BOOLEAN]
    /\ reader \in [Readers -> ClientType]
    /\ \A c \in Readers : reader[c].token <= version /\ reader[c].seen <= version
    /\ faults = 0 =>
          /\ announced <= cleared
          /\ \A t \in Threads : thread[t].todo = <<"bump">> => thread[t].made <= cleared
          /\ cache.held /\ ~cache.late => cache.content >= cleared
          /\ \A c \in Readers :
                /\ reader[c].at = "idle" /\ reader[c].token = version =>
                      reader[c].content >= announced \/ reader[c].late
                /\ reader[c].at = "store" /\ reader[c].seen = version =>
                      reader[c].found >= announced

LEMMA BehindInit == FeedInit => Behind
BY DEF FeedInit, Behind, NoAnswer, Fresh, ClientType, IdleThread

\* Steps that neither announce nor finish a clear.
LEMMA BehindQuiet ==
    ASSUME Announcing, Behind, Announcing',
           UNCHANGED <<version, reader, announced, cleared>>,
           db' >= db, faults' = 0 => faults = 0,
           cache' \in {cache, NoAnswer},
           faults' = 0 => \A t \in Threads : thread'[t].todo # <<"bump">> \/ thread'[t] = thread[t]
    PROVE  Behind'
<1>1. cleared' \in 0..db' /\ db' \in Nat /\ db \in Nat
  BY DEF Announcing, Behind
<1>2. cache' \in [held : BOOLEAN, content : Nat, late : BOOLEAN]
  <2>1. NoAnswer \in [held : BOOLEAN, content : Nat, late : BOOLEAN]
    BY DEF NoAnswer
  <2>. QED  BY <2>1 DEF Behind
<1>3. faults' = 0 /\ cache'.held /\ ~cache'.late => cache'.content >= cleared'
  <2>1. ~NoAnswer.held
    BY DEF NoAnswer
  <2>2. cache' = NoAnswer \/ (cache' = cache /\ cleared' = cleared)
    OBVIOUS
  <2>. QED  BY <2>1, <2>2 DEF Behind
<1>. QED  BY <1>1, <1>2, <1>3 DEF Behind

LEMMA BehindThread ==
    ASSUME Announcing, Behind, Announcing', NEW t \in Threads,
           \/ Begin(t) \/ Write(t) \/ RollbackWrites(t) \/ CommitWrites(t) \/ AutoWrite(t)
           \/ Die(t) \/ SkipFlush(t)
    PROVE  Behind'
<1>t. /\ thread \in [Threads -> ThreadType] /\ thread[t] \in ThreadType
      /\ db \in Nat /\ faults \in Nat
  BY DEF Announcing
<1>1. /\ UNCHANGED <<version, reader, announced, cleared>>
      /\ cache' \in {cache, NoAnswer} /\ db' >= db /\ (faults' = 0 => faults = 0)
  BY <1>t
     DEF Begin, Write, RollbackWrites, CommitWrites, AutoWrite, Die,
         SkipFlush, Fault
<1>2. \A u \in Threads \ {t} : thread'[u] = thread[u]
  BY <1>t
     DEF Begin, Write, RollbackWrites, CommitWrites, AutoWrite, Die,
         SkipFlush
<1>3. faults' = 0 => thread'[t].todo # <<"bump">>
  <2>1. CASE Begin(t) \/ Write(t)
    <3>1. thread[t].todo = <<>>
      BY <2>1 DEF Announcing, Begin, Write
    <3>2. thread'[t].todo = thread[t].todo
      BY <1>t, <2>1 DEF Begin, Write, Queued, ThreadType
    <3>. QED  BY <3>1, <3>2
  <2>2. CASE RollbackWrites(t)
    BY <1>t, <2>2 DEF RollbackWrites, IdleThread
  <2>3. CASE CommitWrites(t) \/ AutoWrite(t)
    <3>1. PICK now \in ThreadType : thread'[t] = AfterCommit(t, now)
      <4>1. [Queued(t) EXCEPT !.auto = TRUE] \in ThreadType
        BY <1>t DEF ThreadType, Queued
      <4>. QED  BY <1>t, <2>3, <4>1 DEF CommitWrites, AutoWrite
    <3>2. thread'[t].todo \in {<<>>, FlushOrder}
      BY <3>1 DEF AfterCommit, ThreadType
    <3>. QED  BY <3>2 DEF FlushOrder
  <2>4. CASE Die(t) \/ SkipFlush(t)
    BY <1>t, <2>4 DEF Die, SkipFlush, Fault
  <2>. QED  BY <2>1, <2>2, <2>3, <2>4
<1>. QED  BY <1>1, <1>2, <1>3, BehindQuiet

\* The two steps of a flush, and the delete that trails a save on its own.
LEMMA BehindFlush ==
    ASSUME Announcing, Behind, Announcing', NEW t \in Threads,
           ClearCaches(t) \/ Upsert(t) \/ TrailingClear(t)
    PROVE  Behind'
<1>t. /\ thread \in [Threads -> ThreadType] /\ thread[t] \in ThreadType
      /\ db \in Nat /\ faults \in Nat /\ version \in Nat
      /\ announced \in 0..db /\ cleared \in 0..db
      /\ \A u \in Threads : thread[u].made \in 0..db
  BY DEF Announcing, Behind
<1>0. /\ \A u \in Threads \ {t} : thread'[u] = thread[u]
      /\ UNCHANGED <<db, reader>>
  BY <1>t DEF ClearCaches, Upsert, TrailingClear, Advance
<1>1. CASE ClearCaches(t) \/ TrailingClear(t)
  <2>1. CASE cache' = NoAnswer /\ cleared' = db /\ UNCHANGED faults
    <3>1. \A u \in Threads : thread'[u].made \in 0..db
      BY <1>0 DEF Announcing
    <3>2. UNCHANGED <<version, announced>>
      BY <1>1 DEF ClearCaches, TrailingClear
    <3>3. cache' \in [held : BOOLEAN, content : Nat, late : BOOLEAN] /\ ~cache'.held
      BY <2>1 DEF NoAnswer
    <3>. QED  BY <1>t, <1>0, <2>1, <3>1, <3>2, <3>3 DEF Behind
  <2>2. CASE faults' = faults + 1 /\ UNCHANGED <<cache, cleared>>
    <3>1. UNCHANGED <<version, announced>> /\ faults' # 0
      BY <1>t, <1>1, <2>2 DEF ClearCaches, TrailingClear
    <3>. QED  BY <1>0, <2>2, <3>1 DEF Behind
  <2>. QED  BY <1>1, <2>1, <2>2 DEF ClearCaches, TrailingClear, Fault
<1>2. CASE Upsert(t)
  <2>1. UNCHANGED <<cache, cleared>>
    BY <1>2 DEF Upsert
  <2>2. thread[t].todo = <<"bump">>
    BY <1>t, <1>2 DEF Upsert, Does, ThreadType, Todos
  <2>3. thread'[t].todo # <<"bump">>
    <3>1. thread'[t].todo = Tail(thread[t].todo)
      BY <1>t, <1>2 DEF Upsert, Advance, ThreadType
    <3>. QED  BY <2>2, <3>1
  <2>4. CASE version' = version + 1 /\ announced' = Later(announced, thread[t].made)
             /\ UNCHANGED faults
    <3>1. \A c \in Readers : /\ reader[c] \in ClientType
                             /\ reader'[c].token < version' /\ reader'[c].seen < version'
      BY <1>t, <1>0, <2>4 DEF Behind, ClientType
    <3>2. faults = 0 => announced' <= cleared
      BY <1>t, <2>2, <2>4 DEF Behind, Later
    <3>3. \A c \in Readers : /\ reader'[c].token # version' /\ reader'[c].seen # version'
                             /\ reader'[c].token <= version' /\ reader'[c].seen <= version'
      <4>. TAKE c \in Readers
      <4>1. reader'[c].token \in Nat /\ reader'[c].seen \in Nat /\ version' \in Nat
        BY <1>t, <1>0, <2>4, <3>1 DEF ClientType
      <4>. QED  BY <3>1, <4>1
    <3>4. faults' = 0 => \A u \in Threads :
              thread'[u].todo = <<"bump">> => thread'[u].made <= cleared'
      BY <1>0, <2>1, <2>3, <2>4 DEF Behind
    <3>. QED  BY <1>t, <1>0, <2>1, <2>4, <3>2, <3>3, <3>4 DEF Behind
  <2>5. CASE faults' = faults + 1 /\ UNCHANGED <<version, announced>>
    <3>1. faults' # 0
      BY <1>t, <2>5
    <3>. QED  BY <1>0, <2>1, <2>5, <3>1 DEF Behind
  <2>. QED  BY <1>2, <2>4, <2>5 DEF Upsert, Fault
<1>. QED  BY <1>1, <1>2

\* A request whose token was not outdated on the way read the rows, or a cached
\* answer that is not late, after the last announced commit.
LEMMA BehindClient ==
    ASSUME Announcing, Behind, NEW c \in Readers, ReaderStep(c)
    PROVE  Behind'
<1>t. /\ reader[c] \in ClientType /\ version \in Nat /\ db \in Nat
      /\ announced \in 0..db /\ cleared \in 0..db
      /\ cache \in [held : BOOLEAN, content : Nat, late : BOOLEAN]
      /\ reader[c].token <= version /\ reader[c].seen <= version
  BY DEF Announcing, Behind
<1>0. UNCHANGED <<db, version, thread, faults, announced, cleared>>
  BY DEF ReaderStep, Poll, Refresh, Lookup, QueryTasks, Store
<1>1. ASSUME NEW now \in ClientType, reader' = [reader EXCEPT ![c] = now],
             cache' \in [held : BOOLEAN, content : Nat, late : BOOLEAN],
             now.token <= version, now.seen <= version,
             faults = 0 =>
                /\ cache'.held /\ ~cache'.late => cache'.content >= cleared
                /\ now.at = "idle" /\ now.token = version =>
                      now.content >= announced \/ now.late
                /\ now.at = "store" /\ now.seen = version => now.found >= announced
      PROVE  Behind'
  <2>1. /\ reader'[c] = now /\ reader' \in [Readers -> ClientType]
        /\ \A d \in Readers \ {c} : reader'[d] = reader[d]
    BY <1>1 DEF Behind
  <2>. QED  BY <1>0, <1>1, <2>1 DEF Behind
<1>2. CASE Poll(c) \/ Refresh(c)
  <2>1. PICK seen \in {version, reader[c].token} :
           reader' = [reader EXCEPT ![c].at = "lookup", ![c].seen = seen]
    BY <1>2 DEF Poll, Refresh
  <2>. DEFINE now == [reader[c] EXCEPT !.at = "lookup", !.seen = seen]
  <2>2. /\ now \in ClientType /\ now.at = "lookup" /\ now.token <= version
        /\ now.seen <= version
    <3>1. seen \in Nat /\ seen <= version
      BY <1>t DEF ClientType
    <3>. QED  BY <1>t, <3>1 DEF ClientType
  <2>3. reader' = [reader EXCEPT ![c] = now] /\ cache' = cache
    BY <1>2, <2>1 DEF Behind, Poll, Refresh
  <2>. HIDE DEF now
  <2>. QED  BY <1>t, <1>1, <2>2, <2>3 DEF Behind
<1>3. ASSUME NEW content \in Nat, NEW late \in BOOLEAN, Takes(c, content, late),
             cache' \in [held : BOOLEAN, content : Nat, late : BOOLEAN],
             faults = 0 =>
                /\ cache'.held /\ ~cache'.late => cache'.content >= cleared
                /\ reader[c].seen = version => content >= announced \/ late
      PROVE  Behind'
  <2>. DEFINE now == [Fresh EXCEPT !.token = reader[c].seen, !.seen = reader[c].seen,
                                   !.content = content, !.late = late]
  <2>1. /\ now \in ClientType /\ now.at = "idle" /\ now.token = reader[c].seen
        /\ now.seen = reader[c].seen /\ now.content = content /\ now.late = late
    BY <1>t, <1>3 DEF Fresh, ClientType
  <2>2. reader' = [reader EXCEPT ![c] = now]
    BY <1>3 DEF Takes
  <2>. HIDE DEF now
  <2>. QED  BY <1>t, <1>1, <1>3, <2>1, <2>2
<1>4. CASE Lookup(c)
  <2>1. CASE cache.held
    <3>1. Takes(c, cache.content, cache.late) /\ cache' = cache
      BY <1>4, <2>1 DEF Lookup
    <3>2. faults = 0 => cache.content >= announced \/ cache.late
      BY <1>t, <2>1 DEF Behind
    <3>3. faults = 0 /\ cache.held /\ ~cache.late => cache.content >= cleared
      BY DEF Behind
    <3>. QED  BY <1>t, <1>3, <3>1, <3>2, <3>3
  <2>2. CASE ~cache.held
    <3>. DEFINE now == [reader[c] EXCEPT !.at = "query"]
    <3>1. reader' = [reader EXCEPT ![c] = now] /\ cache' = cache
      BY <1>4, <2>2 DEF Lookup
    <3>2. /\ now \in ClientType /\ now.at = "query" /\ now.token <= version
          /\ now.seen <= version
      BY <1>t DEF ClientType
    <3>. HIDE DEF now
    <3>. QED  BY <1>t, <1>1, <2>2, <3>1, <3>2
  <2>. QED  BY <2>1, <2>2
<1>5. CASE QueryTasks(c)
  <2>. DEFINE now == [reader[c] EXCEPT !.at = "store", !.found = db]
  <2>1. reader' = [reader EXCEPT ![c] = now] /\ cache' = cache
    BY <1>5 DEF QueryTasks, Behind
  <2>2. /\ now \in ClientType /\ now.at = "store" /\ now.token <= version
        /\ now.seen <= version /\ now.found = db
    BY <1>t DEF ClientType
  <2>. HIDE DEF now
  <2>3. faults = 0 /\ cache.held /\ ~cache.late => cache.content >= cleared
    BY DEF Behind
  <2>4. db >= announced
    BY <1>t
  <2>. QED  BY <1>t, <1>1, <2>1, <2>2, <2>3, <2>4
<1>6. CASE Store(c)
  <2>1. /\ Takes(c, reader[c].found, FALSE) /\ reader[c].at = "store"
        /\ cache' = Answer(reader[c].found, reader[c].found < cleared)
    BY <1>6 DEF Store
  <2>2. reader[c].found \in Nat
    BY <1>t DEF ClientType
  <2>3. /\ cache' \in [held : BOOLEAN, content : Nat, late : BOOLEAN]
        /\ cache'.content = reader[c].found /\ cache'.late = (reader[c].found < cleared)
    BY <2>1, <2>2 DEF Answer
  <2>4. cache'.held /\ ~cache'.late => cache'.content >= cleared
    BY <1>t, <2>2, <2>3
  <2>5. faults = 0 => (reader[c].seen = version => reader[c].found >= announced)
    BY <2>1 DEF Behind
  <2>. QED  BY <1>3, <2>1, <2>2, <2>3, <2>4, <2>5
<1>. QED  BY <1>2, <1>4, <1>5, <1>6 DEF ReaderStep

LEMMA BehindStep == Announcing /\ Behind /\ [FeedNext]_feedVars => Behind'
<1>. SUFFICES ASSUME Announcing, Behind, [FeedNext]_feedVars PROVE Behind'
  OBVIOUS
<1>a. Announcing'
  BY AnnouncingStep
<1>1. ASSUME NEW t \in Threads,
             \/ Begin(t) \/ Write(t) \/ AutoWrite(t) \/ ThreadStep(t)
             \/ Die(t) \/ SkipFlush(t)
      PROVE  Behind'
  BY <1>1, <1>a, BehindThread, BehindFlush DEF ThreadStep
<1>2. CASE Expire \/ UNCHANGED feedVars
  <2>1. /\ UNCHANGED <<db, version, reader, announced, cleared, faults, thread>>
        /\ cache' \in {cache, NoAnswer} /\ db \in Nat
    BY <1>2 DEF Expire, feedVars, Announcing
  <2>2. db' >= db
    BY <2>1
  <2>. QED  BY <1>a, <2>1, <2>2, BehindQuiet
<1>. QED  BY <1>1, <1>2, BehindClient DEF FeedNext

\* Whoever is up to date by its token holds what the token announced, however
\* reads, commits and flushes interleave, but for an answer cached late.
THEOREM TokenMeansFresh == FeedSpec => []FreshBehindToken
<1>1. Behind => FreshBehindToken
  BY DEF Behind, FreshBehindToken
<1>. QED  BY <1>1, AnnouncingInit, AnnouncingStep, BehindInit, BehindStep, PTL DEF FeedSpec

=============================================================================
