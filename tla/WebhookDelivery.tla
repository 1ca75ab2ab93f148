-------------------------- MODULE WebhookDelivery --------------------------
(***************************************************************************)
(* The outbound webhook outbox and the passes of `webhook_deliver_tick`    *)
(* that drain it.                                                          *)
(*                                                                         *)
(* A pass sweeps stale claims, selects the due rows, claims them with a    *)
(* guarded UPDATE, reads the claimed rows and their endpoints into memory, *)
(* and then posts one after the other.  Everything after that read works   *)
(* on the copies in memory: `batch` keeps, for each row not yet handled,   *)
(* the values the pass read.  A pass may die at any point: the process is  *)
(* killed, or the row it saves went away with its endpoint.                *)
(*                                                                         *)
(* Time is abstract: a claim becomes stale and a retry becomes due some    *)
(* time after they were written.                                           *)
(***************************************************************************)
EXTENDS Integers, Sequences, FiniteSets

CONSTANTS
    Endpoints,
    EndpointOf,             \* deliveries, oldest first, and their endpoints
    Passes,                 \* processes running the command
    Limit,                  \* --limit: most rows of one pass
    MaxAttempts,            \* MAX_ATTEMPTS
    MaxConsecutiveFailures, \* MAX_CONSECUTIVE_FAILURES
    MaxFaults               \* bound: passes killed and secrets the key ring
                            \* stops opening

ASSUME WebhookAssumption ==
    /\ EndpointOf \in Seq(Endpoints)
    /\ Limit \in Nat \ {0}
    /\ MaxAttempts \in Nat \ {0}
    /\ MaxConsecutiveFailures \in Nat \ {0}
    /\ MaxFaults \in Nat

Deliveries == 1..Len(EndpointOf)

VARIABLES
    endpoint,   \* the WebhookEndpoint rows
    delivery,   \* the WebhookDelivery rows
    sealed,     \* endpoints whose secret no key of the ring opens
    at,         \* pass -> its program point
    due,        \* pass -> ids it selected
    batch,      \* pass -> rows in memory and not handled yet
    posts,      \* delivery -> HTTP posts made (history)
    received,   \* delivery -> posts answered with 2xx (history)
    streak,     \* endpoint -> its posts that failed in a row, up to the
                \* threshold (history)
    shared,     \* a batch held two rows of one endpoint (history)
    crashes,
    keyLosses

tables  == <<endpoint, delivery>>
passes  == <<at, due, batch>>
history == <<posts, received, streak, shared>>
vars    == <<tables, sealed, passes, history, crashes, keyLosses>>

Statuses == {"absent", "pending", "sending", "sent", "failed", "gone"}
Points   == {"off", "swept", "picked", "claimed", "rows",
             "delivered", "refused", "saveSent", "saveFailed"}
Copies   == [attempts : 0..(MaxAttempts - 1), active : BOOLEAN,
             fails : 0..MaxConsecutiveFailures, sealed : BOOLEAN]

TypeOK ==
    /\ endpoint \in [Endpoints -> [exists : BOOLEAN, active : BOOLEAN,
                                   fails : 0..MaxConsecutiveFailures]]
    /\ delivery \in [Deliveries ->
           [status : Statuses, attempts : 0..MaxAttempts,
            waits : BOOLEAN, claim : {"none", "fresh", "stale"}]]
    /\ sealed \subseteq Endpoints
    /\ at \in [Passes -> Points]
    /\ due \in [Passes -> SUBSET Deliveries]
    /\ \A p \in Passes : \E S \in SUBSET Deliveries : batch[p] \in [S -> Copies]
    /\ posts \in [Deliveries -> Nat]
    /\ received \in [Deliveries -> Nat]
    /\ streak \in [Endpoints -> 0..MaxConsecutiveFailures]
    /\ shared \in BOOLEAN
    /\ crashes \in Nat /\ keyLosses \in Nat
    /\ crashes + keyLosses <= MaxFaults

Nothing == [d \in {} |-> [attempts |-> 0, active |-> TRUE,
                          fails |-> 0, sealed |-> FALSE]]

\* A row whose columns have their defaults.
NewRow(status) == [status |-> status, attempts |-> 0,
                   waits |-> FALSE, claim |-> "none"]

Deleted == [exists |-> FALSE, active |-> FALSE, fails |-> 0]

Init ==
    /\ endpoint = [e \in Endpoints |->
                      [exists |-> TRUE, active |-> TRUE, fails |-> 0]]
    /\ delivery = [d \in Deliveries |-> NewRow("absent")]
    /\ sealed = {}
    /\ at = [p \in Passes |-> "off"]
    /\ due = [p \in Passes |-> {}]
    /\ batch = [p \in Passes |-> Nothing]
    /\ posts = [d \in Deliveries |-> 0]
    /\ received = [d \in Deliveries |-> 0]
    /\ streak = [e \in Endpoints |-> 0]
    /\ shared = FALSE
    /\ crashes = 0
    /\ keyLosses = 0

-----------------------------------------------------------------------------
(* The rest of the system *)

\* enqueue_event: one row for each active endpoint that wants the event.
Enqueue(d) ==
    /\ delivery[d].status = "absent"
    /\ endpoint[EndpointOf[d]].exists
    /\ endpoint[EndpointOf[d]].active
    /\ delivery' = [delivery EXCEPT ![d] = NewRow("pending")]
    /\ UNCHANGED <<endpoint, sealed, passes, history, crashes, keyLosses>>

\* A manager deletes the endpoint; its deliveries go with it (CASCADE).
DeleteEndpoint(e) ==
    /\ endpoint[e].exists
    /\ endpoint' = [endpoint EXCEPT ![e] = Deleted]
    /\ delivery' = [d \in Deliveries |->
                       IF EndpointOf[d] = e /\ delivery[d].status # "absent"
                       THEN NewRow("gone") ELSE delivery[d]]
    /\ sealed' = sealed \ {e}
    /\ UNCHANGED <<passes, history, crashes, keyLosses>>

\* A key is dropped from the ring before the secrets were rotated ...
LoseKey(e) ==
    /\ crashes + keyLosses < MaxFaults
    /\ endpoint[e].exists
    /\ e \notin sealed
    /\ sealed' = sealed \cup {e}
    /\ keyLosses' = keyLosses + 1
    /\ UNCHANGED <<tables, passes, history, crashes>>

\* ... and somebody who saw the red cron run puts it back.
RestoreKeys ==
    /\ sealed # {}
    /\ sealed' = {}
    /\ UNCHANGED <<tables, passes, history, crashes, keyLosses>>

\* STALE_CLAIM_MINUTES pass, whether or not the claiming process still lives.
ClaimAges(d) ==
    /\ delivery[d].status = "sending"
    /\ delivery[d].claim = "fresh"
    /\ delivery' = [delivery EXCEPT ![d].claim = "stale"]
    /\ UNCHANGED <<endpoint, sealed, passes, history, crashes, keyLosses>>

\* next_attempt_at is reached.
BecomesDue(d) ==
    /\ delivery[d].status = "pending"
    /\ delivery[d].waits
    /\ delivery' = [delivery EXCEPT ![d].waits = FALSE]
    /\ UNCHANGED <<endpoint, sealed, passes, history, crashes, keyLosses>>

-----------------------------------------------------------------------------
(* One pass of the command *)

\* The process ends: with its work done, by an exception, or killed.
End(p) ==
    /\ at' = [at EXCEPT ![p] = "off"]
    /\ due' = [due EXCEPT ![p] = {}]
    /\ batch' = [batch EXCEPT ![p] = Nothing]

\* Slip: the sweep goes by the stamp and forgets the status; a dropped row
\* keeps its stamp.
SweepByStamp(p) ==
    /\ at[p] = "off"
    /\ delivery' = [d \in Deliveries |->
                       IF delivery[d].claim = "stale"
                       THEN [delivery[d] EXCEPT !.status = "pending",
                                                !.claim = "none"]
                       ELSE delivery[d]]
    /\ at' = [at EXCEPT ![p] = "swept"]
    /\ UNCHANGED <<endpoint, sealed, due, batch, history, crashes, keyLosses>>

Sweep(p) ==
    /\ at[p] = "off"
    /\ delivery' = [d \in Deliveries |->
                       IF delivery[d].status = "sending"
                          /\ delivery[d].claim = "stale"
                       THEN [delivery[d] EXCEPT !.status = "pending",
                                                !.claim = "none"]
                       ELSE delivery[d]]
    /\ at' = [at EXCEPT ![p] = "swept"]
    /\ UNCHANGED <<endpoint, sealed, due, batch, history, crashes, keyLosses>>

IsDue(d) ==
    /\ delivery[d].status = "pending"
    /\ delivery[d].attempts < MaxAttempts
    /\ ~delivery[d].waits

\* Ids of the oldest due rows; the pass is over if there are none.
SelectDue(p) ==
    LET older(d) == {c \in Deliveries : c < d /\ IsDue(c)}
        picked   == {d \in Deliveries : IsDue(d) /\ Cardinality(older(d)) < Limit}
    IN  /\ at[p] = "swept"
        /\ IF picked = {}
           THEN End(p)
           ELSE /\ at' = [at EXCEPT ![p] = "picked"]
                /\ due' = [due EXCEPT ![p] = picked]
                /\ UNCHANGED batch
        /\ UNCHANGED <<tables, sealed, history, crashes, keyLosses>>

\* Slip: the claim forgets its stamp, so the sweep never sees a dead one.
ClaimUnstamped(p) ==
    LET open == {d \in due[p] : delivery[d].status = "pending"}
    IN  /\ at[p] = "picked"
        /\ delivery' = [d \in Deliveries |->
                           IF d \in open
                           THEN [delivery[d] EXCEPT !.status = "sending"]
                           ELSE delivery[d]]
        /\ IF open = {}
           THEN End(p)
           ELSE at' = [at EXCEPT ![p] = "claimed"] /\ UNCHANGED <<due, batch>>
        /\ UNCHANGED <<endpoint, sealed, history, crashes, keyLosses>>

\* filter(id__in=due_ids, status=PENDING).update(status=SENDING)
Claim(p) ==
    LET open == {d \in due[p] : delivery[d].status = "pending"}
    IN  /\ at[p] = "picked"
        /\ delivery' = [d \in Deliveries |->
                           IF d \in open
                           THEN [delivery[d] EXCEPT !.status = "sending",
                                                    !.claim = "fresh"]
                           ELSE delivery[d]]
        /\ IF open = {}
           THEN End(p)
           ELSE at' = [at EXCEPT ![p] = "claimed"] /\ UNCHANGED <<due, batch>>
        /\ UNCHANGED <<endpoint, sealed, history, crashes, keyLosses>>

Copy(d) ==
    LET e == EndpointOf[d]
    IN  [attempts |-> delivery[d].attempts,
         active   |-> endpoint[e].active,
         fails    |-> endpoint[e].fails,
         sealed   |-> e \in sealed]

\* filter(id__in=due_ids, status=SENDING).select_related("endpoint"): the
\* rows this pass claimed, and any of its due rows another pass has claimed.
LoadBatch(p) ==
    LET mine == {d \in due[p] : delivery[d].status = "sending"}
    IN  /\ at[p] = "claimed"
        /\ IF mine = {}
           THEN End(p)
           ELSE /\ at' = [at EXCEPT ![p] = "rows"]
                /\ batch' = [batch EXCEPT ![p] = [d \in mine |-> Copy(d)]]
                /\ due' = [due EXCEPT ![p] = {}]
        /\ shared' = (\/ shared
                      \/ \E c, d \in mine : c # d /\ EndpointOf[c] = EndpointOf[d])
        /\ UNCHANGED <<tables, sealed, posts, received, streak, crashes, keyLosses>>

\* The row the loop is at.
Current(p, d) ==
    /\ d \in DOMAIN batch[p]
    /\ \A c \in DOMAIN batch[p] : d <= c

\* row.save(update_fields=...) and on to the next row.  Saving a row that is
\* not there any more raises, and nothing in the command catches it.
SaveAndContinue(p, d, row) ==
    LET rest == DOMAIN batch[p] \ {d}
    IN  IF delivery[d].status = "gone"
        THEN End(p) /\ UNCHANGED delivery
        ELSE /\ delivery' = [delivery EXCEPT ![d] = row]
             /\ IF rest = {}
                THEN End(p)
                ELSE /\ at' = [at EXCEPT ![p] = "rows"]
                     /\ batch' = [batch EXCEPT ![p] = [c \in rest |-> @[c]]]
                     /\ UNCHANGED due

\* The endpoint was disabled by the time the pass read it.
Drop(p, d) ==
    /\ at[p] = "rows"
    /\ Current(p, d)
    /\ ~batch[p][d].active
    /\ SaveAndContinue(p, d, [delivery[d] EXCEPT !.status = "failed"])
    /\ UNCHANGED <<endpoint, sealed, history, crashes, keyLosses>>

\* _hold_unreadable: no attempt is spent, the row waits.
Hold(p, d) ==
    /\ at[p] = "rows"
    /\ Current(p, d)
    /\ batch[p][d].active
    /\ batch[p][d].sealed
    /\ SaveAndContinue(p, d, [delivery[d] EXCEPT !.status = "pending",
                                                 !.claim = "none",
                                                 !.waits = TRUE])
    /\ UNCHANGED <<endpoint, sealed, history, crashes, keyLosses>>

\* post_delivery: 2xx, or anything else it reports as an error.
Post(p, d) ==
    /\ at[p] = "rows"
    /\ Current(p, d)
    /\ batch[p][d].active
    /\ ~batch[p][d].sealed
    /\ posts' = [posts EXCEPT ![d] = @ + 1]
    /\ \/ /\ at' = [at EXCEPT ![p] = "delivered"]
          /\ received' = [received EXCEPT ![d] = @ + 1]
          /\ streak' = [streak EXCEPT ![EndpointOf[d]] = 0]
       \/ /\ at' = [at EXCEPT ![p] = "refused"]
          /\ streak' = [streak EXCEPT ![EndpointOf[d]] =
                             IF @ < MaxConsecutiveFailures THEN @ + 1 ELSE @]
          /\ UNCHANGED received
    /\ UNCHANGED <<tables, sealed, due, batch, shared, crashes, keyLosses>>

\* Slip: a delivery does not end the streak.
ResetNothing(p, d) ==
    /\ at[p] = "delivered"
    /\ Current(p, d)
    /\ at' = [at EXCEPT ![p] = "saveSent"]
    /\ UNCHANGED <<endpoint, delivery, sealed, due, batch, history, crashes,
                   keyLosses>>

\* consecutive_failures goes back to 0, if the copy says it was not.
ResetEndpoint(p, d) ==
    LET e == EndpointOf[d]
    IN  /\ at[p] = "delivered"
        /\ Current(p, d)
        /\ endpoint' = IF batch[p][d].fails > 0 /\ endpoint[e].exists
                       THEN [endpoint EXCEPT ![e].fails = 0] ELSE endpoint
        /\ at' = [at EXCEPT ![p] = "saveSent"]
        /\ UNCHANGED <<delivery, sealed, due, batch, history, crashes, keyLosses>>

\* _record_endpoint_failure: the count is the copy's plus one.
ChargeEndpoint(p, d) ==
    LET e     == EndpointOf[d]
        count == batch[p][d].fails + 1
    IN  /\ at[p] = "refused"
        /\ Current(p, d)
        /\ endpoint' = IF ~endpoint[e].exists THEN endpoint
                       ELSE [endpoint EXCEPT
                                ![e].fails = count,
                                ![e].active = @ /\ count < MaxConsecutiveFailures]
        /\ at' = [at EXCEPT ![p] = "saveFailed"]
        /\ UNCHANGED <<delivery, sealed, due, batch, history, crashes, keyLosses>>

SaveSent(p, d) ==
    /\ at[p] = "saveSent"
    /\ Current(p, d)
    /\ SaveAndContinue(p, d, [delivery[d] EXCEPT
                                 !.status = "sent",
                                 !.attempts = batch[p][d].attempts + 1,
                                 !.claim = "none"])
    /\ UNCHANGED <<endpoint, sealed, history, crashes, keyLosses>>

\* Slip: a row that used its last attempt is scheduled once more.
SaveFailedOffByOne(p, d) ==
    LET attempts == batch[p][d].attempts + 1
        retry    == attempts <= MaxAttempts
    IN  /\ at[p] = "saveFailed"
        /\ Current(p, d)
        /\ SaveAndContinue(p, d, [delivery[d] EXCEPT
                                     !.status = IF retry THEN "pending" ELSE "failed",
                                     !.attempts = attempts,
                                     !.waits = retry \/ @,
                                     !.claim = "none"])
        /\ UNCHANGED <<endpoint, sealed, history, crashes, keyLosses>>

\* Slip: the retry is scheduled without spending the attempt.
SaveFailedUncounted(p, d) ==
    LET attempts == batch[p][d].attempts + 1
        retry    == attempts < MaxAttempts
    IN  /\ at[p] = "saveFailed"
        /\ Current(p, d)
        /\ SaveAndContinue(p, d, [delivery[d] EXCEPT
                                     !.status = IF retry THEN "pending" ELSE "failed",
                                     !.waits = retry \/ @,
                                     !.claim = "none"])
        /\ UNCHANGED <<endpoint, sealed, history, crashes, keyLosses>>

SaveFailed(p, d) ==
    LET attempts == batch[p][d].attempts + 1
        retry    == attempts < MaxAttempts
    IN  /\ at[p] = "saveFailed"
        /\ Current(p, d)
        /\ SaveAndContinue(p, d, [delivery[d] EXCEPT
                                     !.status = IF retry THEN "pending" ELSE "failed",
                                     !.attempts = attempts,
                                     !.waits = retry \/ @,
                                     !.claim = "none"])
        /\ UNCHANGED <<endpoint, sealed, history, crashes, keyLosses>>

\* The process is killed: a deploy, an out-of-memory kill.
Crash(p) ==
    /\ at[p] # "off"
    /\ crashes + keyLosses < MaxFaults
    /\ crashes' = crashes + 1
    /\ End(p)
    /\ UNCHANGED <<tables, sealed, history, keyLosses>>

HandleRow(p, d) ==
    \/ Drop(p, d) \/ Hold(p, d) \/ Post(p, d)
    \/ ResetEndpoint(p, d) \/ ChargeEndpoint(p, d)
    \/ SaveSent(p, d) \/ SaveFailed(p, d)

PassStep(p) ==
    \/ Sweep(p) \/ SelectDue(p) \/ Claim(p) \/ LoadBatch(p)
    \/ \E d \in Deliveries : HandleRow(p, d)

Next ==
    \/ \E d \in Deliveries : Enqueue(d) \/ ClaimAges(d) \/ BecomesDue(d)
    \/ \E e \in Endpoints : DeleteEndpoint(e) \/ LoseKey(e)
    \/ RestoreKeys
    \/ \E p \in Passes : PassStep(p) \/ Crash(p)

Spec == Init /\ [][Next]_vars

\* The cron keeps firing and a pass that lives makes progress; time passes;
\* the key ring is repaired.
Fairness ==
    /\ \A p \in Passes : WF_vars(PassStep(p))
    /\ \A d \in Deliveries : WF_vars(ClaimAges(d)) /\ WF_vars(BecomesDue(d))
    /\ WF_vars(RestoreKeys)

FairSpec == Spec /\ Fairness

-----------------------------------------------------------------------------
(* Properties *)

\* A row that is not settled can always be taken up again: a waiting row has
\* attempts left, or the due filter would never select it, and a claimed row
\* has a claim stamp, or the stale sweep would never revive it.
NothingIsStranded ==
    \A d \in Deliveries :
        /\ delivery[d].status \in {"pending", "sending"}
               => delivery[d].attempts < MaxAttempts
        /\ delivery[d].status = "sending" => delivery[d].claim # "none"

\* Every post is on the books: one that is not in `attempts` is being
\* handled, or was made by a pass that died before it could save the row.
PostsAreCounted ==
    \A d \in Deliveries :
        LET inFlight == \E p \in Passes :
                /\ Current(p, d)
                /\ at[p] \in {"delivered", "refused", "saveSent", "saveFailed"}
        IN  delivery[d].status # "gone" =>
                posts[d] <= delivery[d].attempts + crashes
                                + (IF inFlight THEN 1 ELSE 0)

\* _record_endpoint_failure: an endpoint is disabled because its URL "has
\* failed this many times in a row".  Between two rows the counter is the
\* length of the current streak of failures, as long as no pass dies and no
\* batch holds two rows of the endpoint: each row of a batch brings its own
\* copy of the counter, so a success between two failures of a batch is
\* overwritten, and the failures of one batch count as one.
CounterIsStreak ==
    (crashes = 0 /\ ~shared) =>
        \A e \in Endpoints :
            \/ ~endpoint[e].exists
            \/ \E p \in Passes, d \in Deliveries :
                  /\ EndpointOf[d] = e
                  /\ Current(p, d)
                  /\ at[p] \in {"delivered", "refused"}
            \/ endpoint[e].fails = streak[e]

\* What the outbox promises, see Outbox.
State(d) == IF delivery[d].status \in {"pending", "sending"}
            THEN "queued" ELSE delivery[d].status

O == INSTANCE Outbox WITH
        Events    <- Deliveries,
        state     <- [d \in Deliveries |-> State(d)],
        attempted <- posts,
        received  <- received

ImplementsOutbox == O!Spec

\* Every queued event is settled in the end: no crash, deleted neighbour,
\* stale claim or lost key leaves it behind.
EventIsSettled ==
    \A d \in Deliveries :
        delivery[d].status = "pending"
            ~> delivery[d].status \in {"sent", "failed", "gone"}

\* models/common/webhook_models.py: "overlapping cron passes cannot
\* double-send".
NoDoubleSend ==
    crashes = 0 => \A d \in Deliveries : received[d] <= 1
=============================================================================
