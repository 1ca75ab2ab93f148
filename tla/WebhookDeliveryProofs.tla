------------------------ MODULE WebhookDeliveryProofs ------------------------
(***************************************************************************)
(* The outbox, for any endpoints and deliveries, any limits, and any       *)
(* number of crashes and lost keys.  With one pass at a time: a row is     *)
(* never stranded, and what a pass holds in memory is what the table says. *)
(* With any number of passes: OverlapStrandsNone.                          *)
(***************************************************************************)
EXTENDS WebhookDelivery, TLAPS

\* Passes do not overlap; with two, Hold may put a finished row back.
OnePass == \A p, q \in Passes : p = q

EndpointRow == [exists : BOOLEAN, active : BOOLEAN, fails : 0..MaxConsecutiveFailures]

DeliveryRow ==
    [status : Statuses, attempts : 0..MaxAttempts, waits : BOOLEAN,
     claim : {"none", "fresh", "stale"}]

Batches == UNION {[S -> Copies] : S \in SUBSET Deliveries}

\* An endpoint that is enabled may fail once more.
EndpointOK(r) == r \in EndpointRow /\ (r.active => r.fails < MaxConsecutiveFailures)

\* A row that is waiting or claimed is not stranded.
RowOK(r) ==
    /\ r \in DeliveryRow
    /\ r.status \in {"pending", "sending"} => r.attempts < MaxAttempts
    /\ r.status = "sending" => r.claim # "none"

CopyOK(c) == c \in Copies /\ (c.active => c.fails < MaxConsecutiveFailures)

\* Copy c is what row r says, unless the row is gone.
Matches(r, c) == r.status = "gone" \/ (r.status = "sending" /\ r.attempts = c.attempts)

\* What a pass has in memory: nothing before it loads, and a post was made for
\* an endpoint that was enabled when it was read.
BatchOK(p) ==
    /\ \A d \in DOMAIN batch[p] : CopyOK(batch[p][d]) /\ Matches(delivery[d], batch[p][d])
    /\ at[p] \in {"off", "swept", "picked", "claimed"} => batch[p] = Nothing
    /\ at[p] \notin {"off", "swept", "picked", "claimed", "rows"} =>
          \A d \in Deliveries : Current(p, d) => batch[p][d].active

TablesOK ==
    /\ endpoint \in [Endpoints -> EndpointRow]
    /\ \A e \in Endpoints : EndpointOK(endpoint[e])
    /\ delivery \in [Deliveries -> DeliveryRow]
    /\ \A d \in Deliveries : RowOK(delivery[d])
    /\ sealed \subseteq Endpoints

PassesOK ==
    /\ at \in [Passes -> Points]
    /\ due \in [Passes -> SUBSET Deliveries]
    /\ batch \in [Passes -> Batches]
    /\ \A p \in Passes : BatchOK(p)

HistoryOK ==
    /\ posts \in [Deliveries -> Nat]
    /\ received \in [Deliveries -> Nat]
    /\ streak \in [Endpoints -> 0..MaxConsecutiveFailures]
    /\ shared \in BOOLEAN
    /\ crashes \in Nat /\ keyLosses \in Nat
    /\ crashes + keyLosses <= MaxFaults

\* The inductive invariant.
Delivering == TablesOK /\ PassesOK /\ HistoryOK

-----------------------------------------------------------------------------
LEMMA Bounds ==
    /\ \A d \in Deliveries : EndpointOf[d] \in Endpoints
    /\ Deliveries \subseteq Nat
    /\ MaxAttempts \in Nat /\ MaxAttempts > 0
    /\ MaxConsecutiveFailures \in Nat /\ MaxConsecutiveFailures > 0
    /\ MaxFaults \in Nat
BY WebhookAssumption DEF Deliveries

LEMMA NothingTyped == Nothing \in Batches /\ DOMAIN Nothing = {}
<1>1. Nothing \in [{} -> Copies]
  BY DEF Nothing
<1>. QED  BY <1>1 DEF Batches, Nothing

LEMMA BatchDomain ==
    ASSUME NEW b \in Batches
    PROVE  /\ DOMAIN b \subseteq Deliveries /\ b \in [DOMAIN b -> Copies]
           /\ \A S \in SUBSET DOMAIN b : [c \in S |-> b[c]] \in Batches
BY DEF Batches

LEMMA NewRowOK ==
    ASSUME NEW status \in Statuses, status # "sending"
    PROVE  RowOK(NewRow(status)) /\ NewRow(status).status = status
BY Bounds DEF RowOK, NewRow, DeliveryRow

LEMMA RowFields ==
    ASSUME NEW r \in DeliveryRow
    PROVE  /\ r.status \in Statuses /\ r.attempts \in 0..MaxAttempts
           /\ r.waits \in BOOLEAN /\ r.claim \in {"none", "fresh", "stale"}
BY DEF DeliveryRow

LEMMA CopyFields ==
    ASSUME NEW c, CopyOK(c)
    PROVE  /\ c.attempts \in 0..(MaxAttempts - 1) /\ c.active \in BOOLEAN
           /\ c.fails \in 0..MaxConsecutiveFailures /\ c.sealed \in BOOLEAN
           /\ c.active => c.fails < MaxConsecutiveFailures
BY DEF CopyOK, Copies

LEMMA DeliveringInit == Init => Delivering
<1>. SUFFICES ASSUME Init PROVE Delivering
  OBVIOUS
<1>1. TablesOK
  BY Bounds, NewRowOK DEF Init, TablesOK, EndpointOK, EndpointRow, RowOK, Statuses
<1>2. PassesOK
  BY NothingTyped DEF Init, PassesOK, BatchOK, Points
<1>3. HistoryOK
  <2>1. /\ 0 \in 0..MaxConsecutiveFailures /\ 0 \in Nat /\ 0 + 0 <= MaxFaults
        /\ FALSE \in BOOLEAN
    BY Bounds
  <2>. QED  BY <2>1 DEF Init, HistoryOK
<1>. QED  BY <1>1, <1>2, <1>3 DEF Delivering

-----------------------------------------------------------------------------
(* The rest of the system *)

\* A step that leaves the passes alone keeps what they hold true, if a row that
\* is claimed stays so, with its attempts, or goes away.
LEMMA PassesKeep ==
    ASSUME PassesOK, UNCHANGED passes,
           \A d \in Deliveries :
              /\ delivery[d].status = "gone" => delivery'[d].status = "gone"
              /\ delivery[d].status = "sending" =>
                    \/ delivery'[d].status = "gone"
                    \/ /\ delivery'[d].status = "sending"
                       /\ delivery'[d].attempts = delivery[d].attempts
    PROVE  PassesOK'
<1>1. UNCHANGED <<at, due, batch>>
  BY DEF passes
<1>2. ASSUME NEW p \in Passes PROVE BatchOK(p)'
  <2>1. BatchOK(p) /\ batch[p] \in Batches /\ DOMAIN batch[p] \subseteq Deliveries
    BY BatchDomain DEF PassesOK
  <2>2. \A d \in Deliveries : Current(p, d)' <=> Current(p, d)
    BY <1>1 DEF Current
  <2>3. \A d \in DOMAIN batch[p] : Matches(delivery'[d], batch[p][d])
    BY <2>1 DEF BatchOK, Matches
  <2>. QED  BY <1>1, <2>1, <2>2, <2>3 DEF BatchOK
<1>. QED  BY <1>1, <1>2 DEF PassesOK

LEMMA DeliveringEnqueue ==
    ASSUME Delivering, NEW d \in Deliveries, Enqueue(d) PROVE Delivering'
<1>1. /\ delivery[d].status = "absent"
      /\ delivery' = [delivery EXCEPT ![d] = NewRow("pending")]
      /\ UNCHANGED <<endpoint, sealed, passes, history, crashes, keyLosses>>
  BY DEF Enqueue
<1>2. TablesOK'
  BY <1>1, NewRowOK DEF Delivering, TablesOK, Statuses, RowOK
<1>3. PassesOK'
  BY <1>1, PassesKeep DEF Delivering, TablesOK
<1>. QED  BY <1>1, <1>2, <1>3 DEF Delivering, HistoryOK, history

LEMMA DeliveringDelete ==
    ASSUME Delivering, NEW e \in Endpoints, DeleteEndpoint(e) PROVE Delivering'
<1>1. /\ endpoint' = [endpoint EXCEPT ![e] = Deleted]
      /\ delivery' = [d \in Deliveries |->
                        IF EndpointOf[d] = e /\ delivery[d].status # "absent"
                        THEN NewRow("gone") ELSE delivery[d]]
      /\ sealed' = sealed \ {e}
      /\ UNCHANGED <<passes, history, crashes, keyLosses>>
  BY DEF DeleteEndpoint
<1>2. EndpointOK(Deleted)
  BY Bounds DEF EndpointOK, EndpointRow, Deleted
<1>3. RowOK(NewRow("gone")) /\ NewRow("gone").status = "gone"
  BY NewRowOK DEF Statuses
<1>4. TablesOK'
  BY <1>1, <1>2, <1>3 DEF Delivering, TablesOK, RowOK, EndpointOK
<1>5. PassesOK'
  BY <1>1, <1>3, PassesKeep DEF Delivering
<1>. QED  BY <1>1, <1>4, <1>5 DEF Delivering, HistoryOK, history

LEMMA DeliveringKeys ==
    ASSUME Delivering, RestoreKeys \/ \E e \in Endpoints : LoseKey(e) PROVE Delivering'
<1>1. UNCHANGED <<tables, passes, history, crashes>> /\ sealed' \subseteq Endpoints
  BY DEF RestoreKeys, LoseKey, Delivering, TablesOK
<1>2. keyLosses' \in Nat /\ crashes + keyLosses' <= MaxFaults
  BY Bounds DEF RestoreKeys, LoseKey, Delivering, HistoryOK
<1>3. PassesOK'
  BY <1>1, PassesKeep DEF Delivering, tables
<1>. QED  BY <1>1, <1>2, <1>3 DEF Delivering, TablesOK, HistoryOK, history, tables

LEMMA DeliveringTime ==
    ASSUME Delivering, NEW d \in Deliveries, ClaimAges(d) \/ BecomesDue(d) PROVE Delivering'
<1>1. UNCHANGED <<endpoint, sealed, passes, history, crashes, keyLosses>>
  BY DEF ClaimAges, BecomesDue
<1>2. delivery[d] \in DeliveryRow /\ RowOK(delivery[d])
  BY DEF Delivering, TablesOK
<1>3. PICK r : /\ delivery' = [delivery EXCEPT ![d] = r] /\ RowOK(r)
               /\ r.status = delivery[d].status /\ r.attempts = delivery[d].attempts
  <2>1. CASE ClaimAges(d)
    <3>. DEFINE r == [delivery[d] EXCEPT !.claim = "stale"]
    <3>1. delivery' = [delivery EXCEPT ![d] = r]
      BY <2>1 DEF ClaimAges
    <3>2. /\ r \in DeliveryRow /\ r.status = delivery[d].status
          /\ r.attempts = delivery[d].attempts /\ r.claim = "stale"
      BY <1>2 DEF DeliveryRow
    <3>. HIDE DEF r
    <3>. QED  BY <1>2, <3>1, <3>2 DEF RowOK
  <2>2. CASE BecomesDue(d)
    <3>. DEFINE r == [delivery[d] EXCEPT !.waits = FALSE]
    <3>1. delivery' = [delivery EXCEPT ![d] = r]
      BY <2>2 DEF BecomesDue
    <3>2. /\ r \in DeliveryRow /\ r.status = delivery[d].status
          /\ r.attempts = delivery[d].attempts /\ r.claim = delivery[d].claim
      BY <1>2 DEF DeliveryRow
    <3>. HIDE DEF r
    <3>. QED  BY <1>2, <3>1, <3>2 DEF RowOK
  <2>. QED  BY <2>1, <2>2
<1>4. TablesOK'
  BY <1>1, <1>3 DEF Delivering, TablesOK, RowOK
<1>5. PassesOK'
  BY <1>1, <1>3, PassesKeep DEF Delivering, TablesOK
<1>. QED  BY <1>1, <1>4, <1>5 DEF Delivering, HistoryOK, history

-----------------------------------------------------------------------------
(* One pass *)

\* The other passes, if passes do not overlap.
LEMMA PassAlone ==
    ASSUME OnePass, PassesOK, NEW p \in Passes, at' \in [Passes -> Points],
           due' \in [Passes -> SUBSET Deliveries], batch' \in [Passes -> Batches],
           BatchOK(p)'
    PROVE  PassesOK'
BY DEF OnePass, PassesOK

\* A pass that ends holds nothing.
LEMMA EndKeeps ==
    ASSUME OnePass, PassesOK, NEW p \in Passes, End(p) PROVE PassesOK'
<1>1. /\ at' \in [Passes -> Points] /\ at'[p] = "off"
      /\ due' \in [Passes -> SUBSET Deliveries]
      /\ batch' \in [Passes -> Batches] /\ batch'[p] = Nothing
  BY NothingTyped DEF End, PassesOK, Points
<1>2. BatchOK(p)'
  BY <1>1, NothingTyped DEF BatchOK
<1>. QED  BY <1>1, <1>2, PassAlone

\* A step before the rows are in memory.
LEMMA EarlyKeeps ==
    ASSUME OnePass, PassesOK, NEW p \in Passes, at[p] \in {"off", "swept", "picked"},
           NEW point \in {"swept", "picked", "claimed"}, at' = [at EXCEPT ![p] = point],
           due' \in [Passes -> SUBSET Deliveries], UNCHANGED batch
    PROVE  PassesOK'
<1>1. /\ at' \in [Passes -> Points] /\ at'[p] = point
      /\ batch' \in [Passes -> Batches] /\ batch'[p] = Nothing
  BY DEF PassesOK, Points, BatchOK
<1>2. BatchOK(p)'
  BY <1>1, NothingTyped DEF BatchOK
<1>. QED  BY <1>1, <1>2, PassAlone

LEMMA HistoryKeeps ==
    ASSUME HistoryOK, UNCHANGED <<history, crashes, keyLosses>> PROVE HistoryOK'
BY DEF HistoryOK, history

\* What a sweep and a claim make of a row.
LEMMA SweptRow ==
    ASSUME NEW r \in DeliveryRow, RowOK(r)
    PROVE  /\ r.status = "sending" =>
                  RowOK([r EXCEPT !.status = "pending", !.claim = "none"])
           /\ r.status = "pending" =>
                  RowOK([r EXCEPT !.status = "sending", !.claim = "fresh"])
<1>1. [r EXCEPT !.status = "pending", !.claim = "none"] \in DeliveryRow
  BY DEF DeliveryRow, Statuses
<1>2. [r EXCEPT !.status = "sending", !.claim = "fresh"] \in DeliveryRow
  BY DEF DeliveryRow, Statuses
<1>3. /\ [r EXCEPT !.status = "pending", !.claim = "none"].status = "pending"
      /\ [r EXCEPT !.status = "pending", !.claim = "none"].attempts = r.attempts
      /\ [r EXCEPT !.status = "sending", !.claim = "fresh"].claim = "fresh"
      /\ [r EXCEPT !.status = "sending", !.claim = "fresh"].attempts = r.attempts
  BY DEF DeliveryRow
<1>. QED  BY <1>1, <1>2, <1>3 DEF RowOK

LEMMA DeliveringSweep ==
    ASSUME OnePass, Delivering, NEW p \in Passes, Sweep(p) PROVE Delivering'
<1>1. /\ at[p] = "off" /\ at' = [at EXCEPT ![p] = "swept"]
      /\ UNCHANGED <<endpoint, sealed, due, batch, history, crashes, keyLosses>>
      /\ delivery' = [d \in Deliveries |->
                        IF delivery[d].status = "sending" /\ delivery[d].claim = "stale"
                        THEN [delivery[d] EXCEPT !.status = "pending", !.claim = "none"]
                        ELSE delivery[d]]
  BY DEF Sweep
<1>2. \A d \in Deliveries : delivery[d] \in DeliveryRow /\ RowOK(delivery[d])
  BY DEF Delivering, TablesOK
<1>3. \A d \in Deliveries : RowOK(delivery'[d])
  BY <1>1, <1>2, SweptRow
<1>4. delivery' \in [Deliveries -> DeliveryRow]
  BY <1>1, <1>3 DEF RowOK
<1>5. TablesOK'
  BY <1>1, <1>3, <1>4 DEF Delivering, TablesOK
<1>6. PassesOK'
  <2>1. due' \in [Passes -> SUBSET Deliveries]
    BY <1>1 DEF Delivering, PassesOK
  <2>. QED  BY <1>1, <2>1, EarlyKeeps DEF Delivering
<1>. QED  BY <1>1, <1>5, <1>6, HistoryKeeps DEF Delivering

LEMMA DeliveringSelect ==
    ASSUME OnePass, Delivering, NEW p \in Passes, SelectDue(p) PROVE Delivering'
<1>1. /\ at[p] = "swept" /\ UNCHANGED <<tables, sealed, history, crashes, keyLosses>>
  BY DEF SelectDue
<1>2. \/ End(p)
      \/ \E picked \in SUBSET Deliveries :
            /\ at' = [at EXCEPT ![p] = "picked"]
            /\ due' = [due EXCEPT ![p] = picked]
            /\ UNCHANGED batch
  BY DEF SelectDue
<1>3. PassesOK'
  <2>1. CASE End(p)
    BY <2>1, EndKeeps DEF Delivering
  <2>2. ASSUME NEW picked \in SUBSET Deliveries, at' = [at EXCEPT ![p] = "picked"],
               due' = [due EXCEPT ![p] = picked], UNCHANGED batch
        PROVE  PassesOK'
    <3>1. due' \in [Passes -> SUBSET Deliveries]
      BY <2>2 DEF Delivering, PassesOK
    <3>. QED  BY <1>1, <2>2, <3>1, EarlyKeeps DEF Delivering
  <2>. QED  BY <1>2, <2>1, <2>2
<1>4. TablesOK'
  BY <1>1 DEF Delivering, TablesOK, tables
<1>. QED  BY <1>1, <1>3, <1>4, HistoryKeeps DEF Delivering

LEMMA DeliveringClaim ==
    ASSUME OnePass, Delivering, NEW p \in Passes, Claim(p) PROVE Delivering'
<1>. DEFINE open == {d \in due[p] : delivery[d].status = "pending"}
<1>1. /\ at[p] = "picked"
      /\ UNCHANGED <<endpoint, sealed, history, crashes, keyLosses>>
      /\ delivery' = [d \in Deliveries |->
                        IF d \in open
                        THEN [delivery[d] EXCEPT !.status = "sending", !.claim = "fresh"]
                        ELSE delivery[d]]
      /\ End(p) \/ (at' = [at EXCEPT ![p] = "claimed"] /\ UNCHANGED <<due, batch>>)
  BY DEF Claim
<1>2. \A d \in Deliveries : delivery[d] \in DeliveryRow /\ RowOK(delivery[d])
  BY DEF Delivering, TablesOK
<1>3. \A d \in Deliveries : RowOK(delivery'[d])
  BY <1>1, <1>2, SweptRow
<1>4. delivery' \in [Deliveries -> DeliveryRow]
  BY <1>1, <1>3 DEF RowOK
<1>5. TablesOK'
  BY <1>1, <1>3, <1>4 DEF Delivering, TablesOK
<1>6. PassesOK'
  <2>1. CASE End(p)
    BY <2>1, EndKeeps DEF Delivering
  <2>2. CASE at' = [at EXCEPT ![p] = "claimed"] /\ UNCHANGED <<due, batch>>
    <3>1. due' \in [Passes -> SUBSET Deliveries]
      BY <2>2 DEF Delivering, PassesOK
    <3>. QED  BY <1>1, <2>2, <3>1, EarlyKeeps DEF Delivering
  <2>. QED  BY <1>1, <2>1, <2>2
<1>. QED  BY <1>1, <1>5, <1>6, HistoryKeeps DEF Delivering

\* A copy of a claimed row.
LEMMA CopiedRow ==
    ASSUME Delivering, NEW d \in Deliveries, delivery[d].status = "sending"
    PROVE  CopyOK(Copy(d)) /\ Matches(delivery[d], Copy(d))
<1>. DEFINE e == EndpointOf[d]
<1>1. /\ e \in Endpoints /\ endpoint[e] \in EndpointRow
      /\ endpoint[e].active => endpoint[e].fails < MaxConsecutiveFailures
  BY Bounds DEF Delivering, TablesOK, EndpointOK
<1>2. endpoint[e].active \in BOOLEAN /\ endpoint[e].fails \in 0..MaxConsecutiveFailures
  BY <1>1 DEF EndpointRow
<1>3. delivery[d].attempts \in 0..(MaxAttempts - 1)
  BY Bounds, RowFields DEF Delivering, TablesOK, RowOK
<1>4. Copy(d) = [attempts |-> delivery[d].attempts, active |-> endpoint[e].active,
                 fails |-> endpoint[e].fails, sealed |-> e \in sealed]
  BY DEF Copy
<1>. HIDE DEF e
<1>5. (e \in sealed) \in BOOLEAN
  OBVIOUS
<1>6. /\ Copy(d) \in Copies /\ Copy(d).active = endpoint[e].active
      /\ Copy(d).fails = endpoint[e].fails /\ Copy(d).attempts = delivery[d].attempts
  BY <1>2, <1>3, <1>4, <1>5 DEF Copies
<1>. QED  BY <1>1, <1>6 DEF CopyOK, Matches

LEMMA DeliveringLoad ==
    ASSUME OnePass, Delivering, NEW p \in Passes, LoadBatch(p) PROVE Delivering'
<1>. DEFINE mine == {d \in due[p] : delivery[d].status = "sending"}
            copies == [d \in mine |-> Copy(d)]
<1>1. UNCHANGED <<tables, sealed, posts, received, streak, crashes, keyLosses>>
  BY DEF LoadBatch
<1>2. \/ End(p)
      \/ /\ at' = [at EXCEPT ![p] = "rows"]
         /\ batch' = [batch EXCEPT ![p] = copies]
         /\ due' = [due EXCEPT ![p] = {}]
  BY DEF LoadBatch
<1>3. shared' \in BOOLEAN
  BY DEF LoadBatch, Delivering, HistoryOK
<1>4. mine \subseteq Deliveries
  BY DEF Delivering, PassesOK
<1>5. \A d \in mine : CopyOK(Copy(d)) /\ Matches(delivery[d], Copy(d))
  BY <1>4, CopiedRow
<1>6. PassesOK'
  <2>1. CASE End(p)
    BY <2>1, EndKeeps DEF Delivering
  <2>2. CASE /\ at' = [at EXCEPT ![p] = "rows"]
             /\ batch' = [batch EXCEPT ![p] = copies]
             /\ due' = [due EXCEPT ![p] = {}]
    <3>1. copies \in Batches /\ DOMAIN copies = mine /\ \A d \in mine : copies[d] = Copy(d)
      <4>1. copies \in [mine -> Copies]
        BY <1>5 DEF CopyOK
      <4>. HIDE DEF mine
      <4>2. mine \in SUBSET Deliveries
        BY <1>4
      <4>. QED  BY <4>1, <4>2 DEF Batches
    <3>. HIDE DEF copies
    <3>2. /\ at' \in [Passes -> Points] /\ at'[p] = "rows"
          /\ due' \in [Passes -> SUBSET Deliveries]
          /\ batch' \in [Passes -> Batches] /\ batch'[p] = copies
      BY <2>2, <3>1 DEF Delivering, PassesOK, Points
    <3>3. BatchOK(p)'
      BY <1>1, <1>5, <3>1, <3>2 DEF BatchOK, tables
    <3>. QED  BY <3>2, <3>3, PassAlone DEF Delivering
  <2>. QED  BY <1>2, <2>1, <2>2
<1>7. TablesOK'
  BY <1>1 DEF Delivering, TablesOK, tables
<1>. QED  BY <1>1, <1>3, <1>6, <1>7 DEF Delivering, HistoryOK

-----------------------------------------------------------------------------
(* One row of a batch *)

\* What is known of the row the loop is at.
LEMMA CurrentRow ==
    ASSUME Delivering, NEW p \in Passes, NEW d \in Deliveries, Current(p, d)
    PROVE  /\ \A c \in Deliveries : Current(p, c) => c = d
           /\ batch[p] \in Batches /\ d \in DOMAIN batch[p]
           /\ CopyOK(batch[p][d]) /\ Matches(delivery[d], batch[p][d])
           /\ delivery[d] \in DeliveryRow /\ RowOK(delivery[d])
           /\ at[p] \notin {"off", "swept", "picked", "claimed", "rows"} => batch[p][d].active
<1>1. BatchOK(p) /\ batch[p] \in Batches /\ d \in DOMAIN batch[p]
  BY DEF Delivering, PassesOK, Current
<1>2. \A c \in Deliveries : Current(p, c) => c = d
  BY Bounds DEF Current
<1>. QED  BY <1>1, <1>2 DEF BatchOK, Delivering, TablesOK

\* A row that is saved leaves the batch; the others are as they were.
LEMMA SaveKeeps ==
    ASSUME OnePass, Delivering, NEW p \in Passes, NEW d \in Deliveries, Current(p, d),
           NEW row, delivery[d].status # "gone" => RowOK(row),
           SaveAndContinue(p, d, row),
           UNCHANGED <<endpoint, sealed, history, crashes, keyLosses>>
    PROVE  Delivering'
<1>. DEFINE rest == DOMAIN batch[p] \ {d}
            kept == [c \in rest |-> batch[p][c]]
<1>1. CASE delivery[d].status = "gone"
  <2>1. End(p) /\ UNCHANGED delivery
    BY <1>1 DEF SaveAndContinue
  <2>. QED  BY <2>1, EndKeeps, HistoryKeeps DEF Delivering, TablesOK
<1>2. CASE delivery[d].status # "gone"
  <2>1. /\ delivery' = [delivery EXCEPT ![d] = row] /\ RowOK(row)
        /\ \/ End(p)
           \/ /\ at' = [at EXCEPT ![p] = "rows"]
              /\ batch' = [batch EXCEPT ![p] = kept]
              /\ UNCHANGED due
    BY <1>2 DEF SaveAndContinue
  <2>2. TablesOK'
    BY <2>1 DEF Delivering, TablesOK, RowOK
  <2>3. PassesOK'
    <3>1. CASE End(p)
      BY <3>1, EndKeeps DEF Delivering
    <3>2. CASE at' = [at EXCEPT ![p] = "rows"] /\ batch' = [batch EXCEPT ![p] = kept]
               /\ UNCHANGED due
      <4>1. kept \in Batches /\ DOMAIN kept = rest /\ \A c \in rest : kept[c] = batch[p][c]
        BY CurrentRow, BatchDomain
      <4>2. rest \subseteq Deliveries /\ rest \subseteq DOMAIN batch[p] \ {d}
        BY CurrentRow, BatchDomain
      <4>. HIDE DEF kept, rest
      <4>3. /\ at' \in [Passes -> Points] /\ at'[p] = "rows"
            /\ due' \in [Passes -> SUBSET Deliveries]
            /\ batch' \in [Passes -> Batches] /\ batch'[p] = kept
        BY <3>2, <4>1 DEF Delivering, PassesOK, Points
      <4>4. \A c \in rest : CopyOK(batch[p][c]) /\ Matches(delivery[c], batch[p][c])
        BY <4>2 DEF Delivering, PassesOK, BatchOK
      <4>5. \A c \in rest : delivery'[c] = delivery[c]
        BY <2>1, <4>2 DEF Delivering, TablesOK
      <4>6. BatchOK(p)'
        BY <4>1, <4>3, <4>4, <4>5 DEF BatchOK
      <4>. QED  BY <4>3, <4>6, PassAlone DEF Delivering
    <3>. QED  BY <2>1, <3>1, <3>2
  <2>. QED  BY <2>2, <2>3, HistoryKeeps DEF Delivering
<1>. QED  BY <1>1, <1>2

\* A step inside the handling of one row.
LEMMA RowKeeps ==
    ASSUME OnePass, Delivering, NEW p \in Passes, NEW d \in Deliveries, Current(p, d),
           batch[p][d].active,
           NEW point \in {"delivered", "refused", "saveSent", "saveFailed"},
           at' = [at EXCEPT ![p] = point], UNCHANGED <<delivery, due, batch>>
    PROVE  PassesOK'
<1>1. /\ at' \in [Passes -> Points] /\ at'[p] = point
      /\ due' \in [Passes -> SUBSET Deliveries] /\ batch' \in [Passes -> Batches]
  BY DEF Delivering, PassesOK, Points
<1>2. \A c \in Deliveries : Current(p, c)' => c = d
  BY CurrentRow DEF Current
<1>3. BatchOK(p)'
  BY <1>1, <1>2 DEF BatchOK, Delivering, PassesOK
<1>. QED  BY <1>1, <1>3, PassAlone DEF Delivering

LEMMA DeliveringDropHold ==
    ASSUME OnePass, Delivering, NEW p \in Passes, NEW d \in Deliveries,
           Drop(p, d) \/ Hold(p, d)
    PROVE  Delivering'
<1>1. Current(p, d) /\ UNCHANGED <<endpoint, sealed, history, crashes, keyLosses>>
  BY DEF Drop, Hold
<1>2. delivery[d] \in DeliveryRow /\ RowOK(delivery[d]) /\ Matches(delivery[d], batch[p][d])
  BY <1>1, CurrentRow
<1>3. CASE Drop(p, d)
  <2>. DEFINE row == [delivery[d] EXCEPT !.status = "failed"]
  <2>1. row \in DeliveryRow /\ row.status = "failed"
    BY <1>2 DEF DeliveryRow, Statuses
  <2>2. SaveAndContinue(p, d, row)
    BY <1>3 DEF Drop
  <2>. HIDE DEF row
  <2>3. RowOK(row)
    BY <2>1 DEF RowOK
  <2>. QED  BY <1>1, <2>2, <2>3, SaveKeeps
<1>4. CASE Hold(p, d)
  <2>. DEFINE row == [delivery[d] EXCEPT !.status = "pending", !.claim = "none",
                                         !.waits = TRUE]
  <2>1. row \in DeliveryRow /\ row.status = "pending" /\ row.attempts = delivery[d].attempts
    BY <1>2 DEF DeliveryRow, Statuses
  <2>2. SaveAndContinue(p, d, row)
    BY <1>4 DEF Hold
  <2>. HIDE DEF row
  <2>3. delivery[d].status # "gone" => RowOK(row)
    BY <1>2, <2>1 DEF RowOK, Matches
  <2>. QED  BY <1>1, <2>2, <2>3, SaveKeeps
<1>. QED  BY <1>3, <1>4

LEMMA DeliveringPost ==
    ASSUME OnePass, Delivering, NEW p \in Passes, NEW d \in Deliveries, Post(p, d)
    PROVE  Delivering'
<1>1. /\ Current(p, d) /\ batch[p][d].active
      /\ UNCHANGED <<tables, sealed, due, batch, shared, crashes, keyLosses>>
      /\ posts' = [posts EXCEPT ![d] = @ + 1]
      /\ \E point \in {"delivered", "refused"} : at' = [at EXCEPT ![p] = point]
  BY DEF Post
<1>2. PassesOK'
  BY <1>1, RowKeeps DEF tables
<1>3. posts' \in [Deliveries -> Nat] /\ received' \in [Deliveries -> Nat]
  BY <1>1 DEF Post, Delivering, HistoryOK
<1>4. streak' \in [Endpoints -> 0..MaxConsecutiveFailures]
  <2>1. streak \in [Endpoints -> 0..MaxConsecutiveFailures] /\ EndpointOf[d] \in Endpoints
    BY Bounds DEF Delivering, HistoryOK
  <2>2. CASE streak' = [streak EXCEPT ![EndpointOf[d]] = 0]
    BY <2>1, <2>2, Bounds
  <2>3. CASE streak' = [streak EXCEPT ![EndpointOf[d]] =
                              IF @ < MaxConsecutiveFailures THEN @ + 1 ELSE @]
    BY <2>1, <2>3, Bounds
  <2>. QED  BY <2>2, <2>3 DEF Post
<1>5. TablesOK'
  BY <1>1 DEF Delivering, TablesOK, tables
<1>. QED  BY <1>1, <1>2, <1>3, <1>4, <1>5 DEF Delivering, HistoryOK

\* The counter of an endpoint stays below the threshold while it is enabled.
LEMMA DeliveringEndpoint ==
    ASSUME OnePass, Delivering, NEW p \in Passes, NEW d \in Deliveries,
           ResetEndpoint(p, d) \/ ChargeEndpoint(p, d)
    PROVE  Delivering'
<1>. DEFINE e == EndpointOf[d]
            count == batch[p][d].fails + 1
<1>1. /\ Current(p, d) /\ at[p] \in {"delivered", "refused"}
      /\ UNCHANGED <<delivery, sealed, due, batch, history, crashes, keyLosses>>
      /\ \E point \in {"saveSent", "saveFailed"} : at' = [at EXCEPT ![p] = point]
  BY DEF ResetEndpoint, ChargeEndpoint
<1>2. batch[p][d].active /\ CopyOK(batch[p][d])
  BY <1>1, CurrentRow
<1>3. PassesOK'
  BY <1>1, <1>2, RowKeeps
<1>4. e \in Endpoints /\ endpoint[e] \in EndpointRow /\ EndpointOK(endpoint[e])
      /\ endpoint \in [Endpoints -> EndpointRow]
  BY Bounds DEF Delivering, TablesOK
<1>5. count \in 0..MaxConsecutiveFailures
  BY <1>2, CopyFields, Bounds
<1>. HIDE DEF e, count
<1>6. \/ UNCHANGED endpoint
      \/ endpoint' = [endpoint EXCEPT ![e].fails = 0]
      \/ endpoint' = [endpoint EXCEPT ![e].fails = count,
                                      ![e].active = @ /\ count < MaxConsecutiveFailures]
  BY DEF ResetEndpoint, ChargeEndpoint, e, count
<1>7. endpoint' \in [Endpoints -> EndpointRow] /\ \A f \in Endpoints : EndpointOK(endpoint'[f])
  <2>. DEFINE reset == [endpoint[e] EXCEPT !.fails = 0]
              charged == [endpoint[e] EXCEPT !.fails = count,
                                             !.active = @ /\ count < MaxConsecutiveFailures]
  <2>1. EndpointOK(reset)
    <3>1. reset \in EndpointRow /\ reset.fails = 0
      BY <1>4, Bounds DEF EndpointRow
    <3>. QED  BY <3>1, Bounds DEF EndpointOK
  <2>2. EndpointOK(charged)
    <3>1. charged \in EndpointRow /\ charged.fails = count
      BY <1>4, <1>5 DEF EndpointRow
    <3>2. charged.active => count < MaxConsecutiveFailures
      BY <1>4 DEF EndpointRow
    <3>. QED  BY <3>1, <3>2 DEF EndpointOK
  <2>3. \/ UNCHANGED endpoint
        \/ endpoint' = [endpoint EXCEPT ![e] = reset]
        \/ endpoint' = [endpoint EXCEPT ![e] = charged]
    BY <1>6
  <2>. HIDE DEF reset, charged
  <2>. QED  BY <1>4, <2>1, <2>2, <2>3 DEF Delivering, TablesOK, EndpointOK
<1>8. TablesOK'
  BY <1>1, <1>7 DEF Delivering, TablesOK
<1>. QED  BY <1>1, <1>3, <1>8, HistoryKeeps DEF Delivering

LEMMA DeliveringSave ==
    ASSUME OnePass, Delivering, NEW p \in Passes, NEW d \in Deliveries,
           SaveSent(p, d) \/ SaveFailed(p, d)
    PROVE  Delivering'
<1>. DEFINE attempts == batch[p][d].attempts + 1
            retry == attempts < MaxAttempts
<1>1. Current(p, d) /\ UNCHANGED <<endpoint, sealed, history, crashes, keyLosses>>
  BY DEF SaveSent, SaveFailed
<1>2. delivery[d] \in DeliveryRow /\ CopyOK(batch[p][d])
  BY <1>1, CurrentRow
<1>3. attempts \in 0..MaxAttempts
  BY <1>2, CopyFields, Bounds
<1>4. CASE SaveSent(p, d)
  <2>. DEFINE row == [delivery[d] EXCEPT !.status = "sent", !.attempts = attempts,
                                         !.claim = "none"]
  <2>1. SaveAndContinue(p, d, row)
    BY <1>4 DEF SaveSent
  <2>. HIDE DEF attempts
  <2>2. row \in DeliveryRow /\ row.status = "sent"
    BY <1>2, <1>3 DEF DeliveryRow, Statuses
  <2>. HIDE DEF row
  <2>3. RowOK(row)
    BY <2>2 DEF RowOK
  <2>. QED  BY <1>1, <2>1, <2>3, SaveKeeps
<1>5. CASE SaveFailed(p, d)
  <2>. DEFINE row == [delivery[d] EXCEPT !.status = IF retry THEN "pending" ELSE "failed",
                                         !.attempts = attempts,
                                         !.waits = retry \/ @,
                                         !.claim = "none"]
  <2>1. SaveAndContinue(p, d, row)
    BY <1>5 DEF SaveFailed
  <2>. HIDE DEF attempts
  <2>2. row \in DeliveryRow
    <3>1. retry \/ delivery[d].waits \in BOOLEAN
      BY <1>2, RowFields
    <3>. QED  BY <1>2, <1>3, <3>1 DEF DeliveryRow, Statuses
  <2>3. row.status = (IF retry THEN "pending" ELSE "failed") /\ row.attempts = attempts
    BY <1>2 DEF DeliveryRow
  <2>. HIDE DEF row
  <2>4. RowOK(row)
    BY <2>2, <2>3 DEF RowOK
  <2>. QED  BY <1>1, <2>1, <2>4, SaveKeeps
<1>. QED  BY <1>4, <1>5

LEMMA DeliveringCrash ==
    ASSUME OnePass, Delivering, NEW p \in Passes, Crash(p) PROVE Delivering'
<1>1. /\ crashes + keyLosses < MaxFaults /\ crashes' = crashes + 1
      /\ End(p) /\ UNCHANGED <<tables, sealed, history, keyLosses>>
  BY DEF Crash
<1>2. HistoryOK'
  BY <1>1, Bounds DEF Delivering, HistoryOK, history
<1>. QED  BY <1>1, <1>2, EndKeeps DEF Delivering, TablesOK, tables

-----------------------------------------------------------------------------
LEMMA DeliveringStep == OnePass /\ Delivering /\ [Next]_vars => Delivering'
<1>. SUFFICES ASSUME OnePass, Delivering, [Next]_vars PROVE Delivering'
  OBVIOUS
<1>1. CASE UNCHANGED vars
  <2>1. PassesOK'
    BY <1>1, PassesKeep DEF vars, tables, Delivering
  <2>. QED  BY <1>1, <2>1, HistoryKeeps DEF vars, tables, Delivering, TablesOK
<1>2. ASSUME NEW p \in Passes, PassStep(p) PROVE Delivering'
  BY <1>2, DeliveringSweep, DeliveringSelect, DeliveringClaim, DeliveringLoad,
     DeliveringDropHold, DeliveringPost, DeliveringEndpoint, DeliveringSave
  DEF PassStep, HandleRow
<1>. QED
  BY <1>1, <1>2, DeliveringEnqueue, DeliveringDelete, DeliveringKeys, DeliveringTime,
     DeliveringCrash DEF Next

LEMMA DeliveringInvariant == ASSUME OnePass PROVE Spec => []Delivering
<1>1. Delivering /\ [Next]_vars => Delivering'
  BY DeliveringStep
<1>. QED  BY <1>1, DeliveringInit, PTL DEF Spec

\* The types of the two tables and of what a pass holds.
THEOREM TypeCorrect == ASSUME OnePass PROVE Spec => []TypeOK
<1>1. Delivering => TypeOK
  <2>. SUFFICES ASSUME Delivering PROVE TypeOK
    OBVIOUS
  <2>1. \A p \in Passes : \E S \in SUBSET Deliveries : batch[p] \in [S -> Copies]
    BY BatchDomain DEF Delivering, PassesOK
  <2>. QED
    BY <2>1 DEF TypeOK, Delivering, TablesOK, PassesOK, HistoryOK, EndpointRow, DeliveryRow
<1>. QED  BY <1>1, DeliveringInvariant, PTL

\* Wherever a pass dies, a row that waits has attempts left and a row that is
\* claimed has the stamp the sweep looks for.
THEOREM NoneStranded == ASSUME OnePass PROVE Spec => []NothingIsStranded
<1>1. Delivering => NothingIsStranded
  BY DEF Delivering, TablesOK, RowOK, NothingIsStranded
<1>. QED  BY <1>1, DeliveringInvariant, PTL

-----------------------------------------------------------------------------
(* Any number of passes, and claims revived under a living one *)

\* What holds of the rows, and of the copies in memory, while no key is lost.
RowsHold ==
    /\ delivery \in [Deliveries -> DeliveryRow]
    /\ \A d \in Deliveries : RowOK(delivery[d])
    /\ sealed = {}
    /\ due \in [Passes -> SUBSET Deliveries] /\ DOMAIN batch = Passes
    /\ \A p \in Passes : \A d \in DOMAIN batch[p] :
          batch[p][d].attempts \in 0..(MaxAttempts - 1) /\ ~batch[p][d].sealed

Overlapping == keyLosses \in Nat /\ (keyLosses = 0 => RowsHold)

\* A step that puts nothing new in memory.
LEMMA RowsHoldFrom ==
    ASSUME RowsHold, delivery' \in [Deliveries -> DeliveryRow],
           \A d \in Deliveries : RowOK(delivery'[d]), sealed' \subseteq sealed, UNCHANGED batch,
           due' \in [Passes -> SUBSET Deliveries]
    PROVE  RowsHold'
BY DEF RowsHold

LEMMA RowsHoldEnd ==
    ASSUME RowsHold, NEW p \in Passes, End(p), UNCHANGED sealed,
           delivery' \in [Deliveries -> DeliveryRow], \A d \in Deliveries : RowOK(delivery'[d])
    PROVE  RowsHold'
<1>1. DOMAIN batch' = Passes /\ batch'[p] = Nothing
      /\ \A q \in Passes \ {p} : batch'[q] = batch[q]
  BY DEF End, RowsHold
<1>2. due' \in [Passes -> SUBSET Deliveries]
  BY DEF End, RowsHold
<1>. QED  BY <1>1, <1>2, NothingTyped DEF RowsHold

LEMMA RowsHoldSave ==
    ASSUME RowsHold, NEW p \in Passes, NEW d \in Deliveries, NEW row,
           Current(p, d), SaveAndContinue(p, d, row), UNCHANGED sealed,
           delivery[d].status # "gone" => RowOK(row)
    PROVE  RowsHold'
<1>. DEFINE rest == DOMAIN batch[p] \ {d}
            kept == [c \in rest |-> batch[p][c]]
<1>1. /\ delivery' \in [Deliveries -> DeliveryRow]
      /\ \A c \in Deliveries : RowOK(delivery'[c])
  BY DEF SaveAndContinue, RowsHold, RowOK
<1>2. CASE End(p)
  BY <1>1, <1>2, RowsHoldEnd
<1>3. CASE batch' = [batch EXCEPT ![p] = kept] /\ UNCHANGED due
  <2>1. DOMAIN kept = rest /\ \A c \in rest : kept[c] = batch[p][c]
    OBVIOUS
  <2>2. DOMAIN batch' = Passes /\ batch'[p] = kept
        /\ \A q \in Passes \ {p} : batch'[q] = batch[q]
    BY <1>3 DEF RowsHold
  <2>. HIDE DEF kept
  <2>. QED  BY <1>1, <1>3, <2>1, <2>2 DEF RowsHold
<1>. QED  BY <1>1, <1>2, <1>3 DEF SaveAndContinue

\* The steps of the rest of the system.
LEMMA RowsHoldOutside ==
    ASSUME RowsHold, keyLosses = 0, keyLosses' = 0, [Next]_vars,
           ~\E p \in Passes : PassStep(p) \/ Crash(p)
    PROVE  RowsHold'
<1>1. CASE UNCHANGED vars
  BY <1>1, RowsHoldFrom DEF vars, tables, passes, RowsHold
<1>2. ASSUME NEW d \in Deliveries, Enqueue(d) PROVE RowsHold'
  <2>1. delivery' = [delivery EXCEPT ![d] = NewRow("pending")] /\ UNCHANGED <<sealed, due, batch>>
        /\ RowOK(NewRow("pending"))
    BY <1>2, NewRowOK DEF Enqueue, passes, Statuses
  <2>. QED  BY <2>1, RowsHoldFrom DEF RowsHold, RowOK
<1>3. ASSUME NEW d \in Deliveries, ClaimAges(d) \/ BecomesDue(d) PROVE RowsHold'
  <2>. DEFINE row == IF ClaimAges(d) THEN [delivery[d] EXCEPT !.claim = "stale"]
                     ELSE [delivery[d] EXCEPT !.waits = FALSE]
  <2>1. delivery' = [delivery EXCEPT ![d] = row] /\ UNCHANGED <<sealed, due, batch>>
    BY <1>3 DEF ClaimAges, BecomesDue, passes
  <2>2. delivery[d] \in DeliveryRow /\ RowOK(delivery[d])
    BY DEF RowsHold
  <2>3. row \in DeliveryRow /\ row.status = delivery[d].status
        /\ row.attempts = delivery[d].attempts /\ row.claim \in {delivery[d].claim, "stale"}
    BY <2>2 DEF DeliveryRow
  <2>. HIDE DEF row
  <2>4. RowOK(row)
    BY <2>2, <2>3 DEF RowOK
  <2>. QED  BY <2>1, <2>4, RowsHoldFrom DEF RowsHold, RowOK
<1>4. ASSUME NEW e \in Endpoints, DeleteEndpoint(e) PROVE RowsHold'
  <2>1. /\ delivery' = [d \in Deliveries |->
                          IF EndpointOf[d] = e /\ delivery[d].status # "absent"
                          THEN NewRow("gone") ELSE delivery[d]]
        /\ sealed' \subseteq sealed /\ UNCHANGED <<due, batch>> /\ RowOK(NewRow("gone"))
    BY <1>4, NewRowOK DEF DeleteEndpoint, passes, Statuses
  <2>2. \A d \in Deliveries : RowOK(delivery'[d])
    BY <2>1 DEF RowsHold
  <2>3. delivery' \in [Deliveries -> DeliveryRow]
    BY <2>1, <2>2 DEF RowOK
  <2>. QED  BY <2>1, <2>2, <2>3, RowsHoldFrom DEF RowsHold
<1>5. ASSUME NEW e \in Endpoints, LoseKey(e) PROVE RowsHold'
  BY <1>5 DEF LoseKey
<1>6. CASE RestoreKeys
  BY <1>6, RowsHoldFrom DEF RestoreKeys, tables, passes, RowsHold
<1>. QED  BY <1>1, <1>2, <1>3, <1>4, <1>5, <1>6 DEF Next

LEMMA RowsHoldClaims ==
    ASSUME RowsHold, NEW p \in Passes,
           Sweep(p) \/ SelectDue(p) \/ Claim(p) \/ LoadBatch(p)
    PROVE  RowsHold'
<1>0. \A d \in Deliveries : delivery[d] \in DeliveryRow /\ RowOK(delivery[d])
  BY DEF RowsHold
<1>1. CASE Sweep(p)
  <2>1. /\ delivery' = [d \in Deliveries |->
                          IF delivery[d].status = "sending" /\ delivery[d].claim = "stale"
                          THEN [delivery[d] EXCEPT !.status = "pending", !.claim = "none"]
                          ELSE delivery[d]]
        /\ UNCHANGED <<sealed, due, batch>>
    BY <1>1 DEF Sweep
  <2>2. \A d \in Deliveries : RowOK(delivery'[d])
    BY <1>0, <2>1, SweptRow
  <2>3. delivery' \in [Deliveries -> DeliveryRow]
    BY <2>1, <2>2 DEF RowOK
  <2>. QED  BY <2>1, <2>2, <2>3, RowsHoldFrom DEF RowsHold
<1>2. CASE SelectDue(p)
  <2>1. UNCHANGED <<delivery, sealed>> /\ (End(p) \/ UNCHANGED batch)
    BY <1>2 DEF SelectDue, tables
  <2>d. due' \in [Passes -> SUBSET Deliveries]
    BY <1>2 DEF SelectDue, End, RowsHold
  <2>. QED  BY <2>1, <2>d, RowsHoldEnd, RowsHoldFrom DEF RowsHold
<1>3. CASE Claim(p)
  <2>. DEFINE open == {d \in due[p] : delivery[d].status = "pending"}
  <2>1. /\ delivery' = [d \in Deliveries |->
                          IF d \in open
                          THEN [delivery[d] EXCEPT !.status = "sending", !.claim = "fresh"]
                          ELSE delivery[d]]
        /\ UNCHANGED sealed /\ (End(p) \/ UNCHANGED batch)
    BY <1>3 DEF Claim
  <2>d. due' \in [Passes -> SUBSET Deliveries]
    BY <1>3 DEF Claim, End, RowsHold
  <2>2. \A d \in Deliveries : RowOK(delivery'[d])
    BY <1>0, <2>1, SweptRow
  <2>3. delivery' \in [Deliveries -> DeliveryRow]
    BY <2>1, <2>2 DEF RowOK
  <2>. QED  BY <2>1, <2>d, <2>2, <2>3, RowsHoldEnd, RowsHoldFrom
<1>4. CASE LoadBatch(p)
  <2>. DEFINE mine == {d \in due[p] : delivery[d].status = "sending"}
              copies == [d \in mine |-> Copy(d)]
  <2>1. UNCHANGED <<delivery, sealed>> /\ (End(p) \/ batch' = [batch EXCEPT ![p] = copies])
    BY <1>4 DEF LoadBatch, tables
  <2>d. due' \in [Passes -> SUBSET Deliveries]
    BY <1>4 DEF LoadBatch, End, RowsHold
  <2>2. CASE End(p)
    BY <2>1, <2>2, RowsHoldEnd DEF RowsHold
  <2>3. CASE batch' = [batch EXCEPT ![p] = copies]
    <3>1. DOMAIN batch' = Passes /\ batch'[p] = copies
          /\ \A q \in Passes \ {p} : batch'[q] = batch[q]
      BY <2>3 DEF RowsHold
    <3>2. ASSUME NEW d \in mine, d \in Deliveries
          PROVE  copies[d].attempts \in 0..(MaxAttempts - 1) /\ ~copies[d].sealed
      <4>1. copies[d].attempts = delivery[d].attempts /\ ~copies[d].sealed
        BY DEF Copy, RowsHold
      <4>2. delivery[d].attempts \in 0..MaxAttempts /\ delivery[d].attempts < MaxAttempts
        BY <1>0, <3>2, RowFields DEF RowOK
      <4>. QED  BY <4>1, <4>2, Bounds
    <3>3. mine \subseteq Deliveries
      BY DEF RowsHold
    <3>. QED  BY <2>1, <2>d, <3>1, <3>2, <3>3 DEF RowsHold
  <2>. QED  BY <2>1, <2>2, <2>3
<1>. QED  BY <1>1, <1>2, <1>3, <1>4

LEMMA RowsHoldRow ==
    ASSUME RowsHold, NEW p \in Passes, NEW d \in Deliveries, HandleRow(p, d)
    PROVE  RowsHold'
<1>0. delivery[d] \in DeliveryRow /\ RowOK(delivery[d])
  BY DEF RowsHold
<1>c. Current(p, d) => batch[p][d].attempts \in 0..(MaxAttempts - 1) /\ ~batch[p][d].sealed
  BY DEF RowsHold, Current
<1>1. CASE Drop(p, d)
  <2>. DEFINE row == [delivery[d] EXCEPT !.status = "failed"]
  <2>1. row \in DeliveryRow /\ row.status = "failed"
    BY <1>0 DEF DeliveryRow, Statuses
  <2>2. SaveAndContinue(p, d, row) /\ Current(p, d) /\ UNCHANGED sealed
    BY <1>1 DEF Drop
  <2>. HIDE DEF row
  <2>3. RowOK(row)
    BY <2>1 DEF RowOK
  <2>. QED  BY <2>2, <2>3, RowsHoldSave
<1>2. CASE Hold(p, d)
  BY <1>2, <1>c DEF Hold
<1>3. CASE Post(p, d)
  BY <1>3, RowsHoldFrom DEF Post, tables, RowsHold
<1>4. CASE ResetEndpoint(p, d)
  BY <1>4, RowsHoldFrom DEF ResetEndpoint, RowsHold
<1>5. CASE ChargeEndpoint(p, d)
  BY <1>5, RowsHoldFrom DEF ChargeEndpoint, RowsHold
<1>6. CASE SaveSent(p, d)
  <2>. DEFINE row == [delivery[d] EXCEPT !.status = "sent", !.attempts = batch[p][d].attempts + 1,
                                         !.claim = "none"]
  <2>1. SaveAndContinue(p, d, row) /\ Current(p, d) /\ UNCHANGED sealed
    BY <1>6 DEF SaveSent
  <2>2. batch[p][d].attempts + 1 \in 0..MaxAttempts
    BY <1>c, <2>1, Bounds
  <2>3. row \in DeliveryRow /\ row.status = "sent"
    BY <1>0, <2>2 DEF DeliveryRow, Statuses
  <2>. HIDE DEF row
  <2>4. RowOK(row)
    BY <2>3 DEF RowOK
  <2>. QED  BY <2>1, <2>4, RowsHoldSave
<1>7. CASE SaveFailed(p, d)
  <2>. DEFINE attempts == batch[p][d].attempts + 1
              retry == attempts < MaxAttempts
              row == [delivery[d] EXCEPT !.status = IF retry THEN "pending" ELSE "failed",
                                         !.attempts = attempts, !.waits = retry \/ @,
                                         !.claim = "none"]
  <2>1. SaveAndContinue(p, d, row) /\ Current(p, d) /\ UNCHANGED sealed
    BY <1>7 DEF SaveFailed
  <2>2. attempts \in 0..MaxAttempts
    BY <1>c, <2>1, Bounds
  <2>. HIDE DEF attempts
  <2>3. row \in DeliveryRow /\ row.attempts = attempts
        /\ row.status = IF retry THEN "pending" ELSE "failed"
    BY <1>0, <2>2 DEF DeliveryRow, Statuses
  <2>. HIDE DEF row
  <2>4. RowOK(row)
    BY <2>3 DEF RowOK
  <2>. QED  BY <2>1, <2>4, RowsHoldSave
<1>. QED  BY <1>1, <1>2, <1>3, <1>4, <1>5, <1>6, <1>7 DEF HandleRow

LEMMA OverlappingStep == Overlapping /\ [Next]_vars => Overlapping'
<1>. SUFFICES ASSUME Overlapping, [Next]_vars PROVE Overlapping'
  OBVIOUS
<1>1. keyLosses' = keyLosses \/ keyLosses' = keyLosses + 1
  <2>1. ASSUME NEW d \in Deliveries, Enqueue(d) \/ ClaimAges(d) \/ BecomesDue(d)
        PROVE  keyLosses' = keyLosses
    BY <2>1 DEF Enqueue, ClaimAges, BecomesDue
  <2>2. ASSUME NEW e \in Endpoints, DeleteEndpoint(e) PROVE keyLosses' = keyLosses
    BY <2>2 DEF DeleteEndpoint
  <2>3. ASSUME NEW p \in Passes, Sweep(p) \/ SelectDue(p) \/ Claim(p) \/ LoadBatch(p) \/ Crash(p)
        PROVE  keyLosses' = keyLosses
    BY <2>3 DEF Sweep, SelectDue, Claim, LoadBatch, Crash
  <2>4. ASSUME NEW p \in Passes, NEW d \in Deliveries, HandleRow(p, d)
        PROVE  keyLosses' = keyLosses
    BY <2>4 DEF HandleRow, Drop, Hold, Post, ResetEndpoint, ChargeEndpoint, SaveSent, SaveFailed
  <2>5. ASSUME NEW e \in Endpoints, LoseKey(e) PROVE keyLosses' = keyLosses + 1
    BY <2>5 DEF LoseKey
  <2>6. RestoreKeys => keyLosses' = keyLosses
    BY DEF RestoreKeys
  <2>. QED  BY <2>1, <2>2, <2>3, <2>4, <2>5, <2>6 DEF Next, PassStep, vars
<1>2. keyLosses' \in Nat /\ (keyLosses' = 0 => keyLosses = 0)
  BY <1>1 DEF Overlapping
<1>3. ASSUME keyLosses' = 0 PROVE RowsHold'
  <2>1. keyLosses = 0 /\ RowsHold
    BY <1>2, <1>3 DEF Overlapping
  <2>2. ASSUME NEW p \in Passes, PassStep(p) PROVE RowsHold'
    BY <2>1, <2>2, RowsHoldClaims, RowsHoldRow DEF PassStep
  <2>3. ASSUME NEW p \in Passes, Crash(p) PROVE RowsHold'
    BY <2>1, <2>3, RowsHoldEnd DEF Crash, tables, RowsHold
  <2>. QED  BY <1>3, <2>1, <2>2, <2>3, RowsHoldOutside
<1>. QED  BY <1>2, <1>3 DEF Overlapping

\* With any number of passes, and claims that _one_pass revives while the pass that
\* holds them is still posting: whatever the slower pass then saves over the row, it
\* leaves no row that neither the due filter nor the sweep would find.  A lost key
\* is the exception: _hold_unreadable puts back a row that another pass finished.
THEOREM OverlapStrandsNone == Spec => [](keyLosses = 0 => NothingIsStranded)
<1>1. Init => Overlapping
  BY NothingTyped, NewRowOK DEF Init, Overlapping, RowsHold, RowOK, Statuses
<1>2. Overlapping => (keyLosses = 0 => NothingIsStranded)
  BY DEF Overlapping, RowsHold, RowOK, NothingIsStranded
<1>. QED  BY <1>1, <1>2, OverlappingStep, PTL DEF Spec

-----------------------------------------------------------------------------
(* The outbox *)

\* A row about to be saved as sent was taken by its receiver.
Taken ==
    \A p \in Passes : \A d \in Deliveries :
        at[p] \in {"delivered", "saveSent"} /\ Current(p, d) => received[d] > 0

\* A step of pass p after which it is past no successful post.
LEMMA TakenElsewhere ==
    ASSUME Delivering, Taken, NEW p \in Passes, NEW point \in Points,
           point \notin {"delivered", "saveSent"}, at' = [at EXCEPT ![p] = point],
           NEW b, batch' = [batch EXCEPT ![p] = b] \/ UNCHANGED batch, UNCHANGED received
    PROVE  Taken'
<1>1. \A q \in Passes : at'[q] \in {"delivered", "saveSent"} =>
          q # p /\ at'[q] = at[q] /\ batch'[q] = batch[q]
  BY DEF Delivering, PassesOK
<1>. QED  BY <1>1 DEF Taken, Current

LEMMA TakenStep == Delivering /\ Taken /\ [Next]_vars => Taken'
<1>. SUFFICES ASSUME Delivering, Taken, [Next]_vars PROVE Taken'
  OBVIOUS
<1>p. "off" \in Points /\ "swept" \in Points /\ "picked" \in Points /\ "claimed" \in Points
      /\ "rows" \in Points /\ "refused" \in Points /\ "saveFailed" \in Points
  BY DEF Points
<1>1. ASSUME UNCHANGED <<at, batch, received>> PROVE Taken'
  BY <1>1 DEF Taken, Current
<1>2. ASSUME NEW p \in Passes, End(p), UNCHANGED received PROVE Taken'
  BY <1>2, <1>p, TakenElsewhere DEF End
<1>3. ASSUME NEW p \in Passes, Sweep(p) \/ SelectDue(p) \/ Claim(p) \/ LoadBatch(p)
      PROVE  Taken'
  <2>1. UNCHANGED received
    BY <1>3 DEF Sweep, SelectDue, Claim, LoadBatch, history
  <2>2. \/ End(p)
        \/ /\ \E point \in {"swept", "picked", "claimed", "rows"} :
                 at' = [at EXCEPT ![p] = point]
           /\ UNCHANGED batch \/ \E b : batch' = [batch EXCEPT ![p] = b]
    BY <1>3 DEF Sweep, SelectDue, Claim, LoadBatch
  <2>. QED  BY <1>2, <1>p, <2>1, <2>2, TakenElsewhere
<1>4. ASSUME NEW p \in Passes, NEW d \in Deliveries, NEW row, SaveAndContinue(p, d, row),
             UNCHANGED received
      PROVE  Taken'
  <2>1. \/ End(p)
        \/ at' = [at EXCEPT ![p] = "rows"] /\ \E b : batch' = [batch EXCEPT ![p] = b]
    BY <1>4 DEF SaveAndContinue
  <2>. QED  BY <1>2, <1>4, <1>p, <2>1, TakenElsewhere
<1>5. ASSUME NEW p \in Passes, NEW d \in Deliveries,
             Drop(p, d) \/ Hold(p, d) \/ SaveSent(p, d) \/ SaveFailed(p, d)
      PROVE  Taken'
  <2>1. UNCHANGED received /\ \E row : SaveAndContinue(p, d, row)
    BY <1>5 DEF Drop, Hold, SaveSent, SaveFailed, history
  <2>. QED  BY <1>4, <2>1
<1>6. ASSUME NEW p \in Passes, NEW d \in Deliveries, Post(p, d) PROVE Taken'
  <2>1. /\ Current(p, d) /\ UNCHANGED batch
        /\ \/ at' = [at EXCEPT ![p] = "delivered"] /\ received' = [received EXCEPT ![d] = @ + 1]
           \/ at' = [at EXCEPT ![p] = "refused"] /\ UNCHANGED received
    BY <1>6 DEF Post
  <2>2. CASE at' = [at EXCEPT ![p] = "refused"] /\ UNCHANGED received
    BY <1>p, <2>1, <2>2, TakenElsewhere
  <2>3. CASE at' = [at EXCEPT ![p] = "delivered"] /\ received' = [received EXCEPT ![d] = @ + 1]
    <3>1. received \in [Deliveries -> Nat] /\ at \in [Passes -> Points]
      BY DEF Delivering, HistoryOK, PassesOK
    <3>2. received'[d] > 0 /\ \A c \in Deliveries : received[c] > 0 => received'[c] > 0
      BY <2>3, <3>1
    <3>3. \A c \in Deliveries : Current(p, c) => c = d
      BY <2>1, CurrentRow
    <3>4. \A q \in Passes : q # p => at'[q] = at[q]
      BY <2>3, <3>1
    <3>. QED  BY <2>1, <3>2, <3>3, <3>4 DEF Taken, Current
  <2>. QED  BY <2>1, <2>2, <2>3
<1>7. ASSUME NEW p \in Passes, NEW d \in Deliveries,
             ResetEndpoint(p, d) \/ ChargeEndpoint(p, d)
      PROVE  Taken'
  <2>1. UNCHANGED <<batch, received>> /\ at \in [Passes -> Points]
    BY <1>7 DEF ResetEndpoint, ChargeEndpoint, history, Delivering, PassesOK
  <2>2. CASE ChargeEndpoint(p, d)
    BY <1>p, <2>1, <2>2, TakenElsewhere DEF ChargeEndpoint
  <2>3. CASE ResetEndpoint(p, d)
    <3>1. at[p] = "delivered" /\ at' = [at EXCEPT ![p] = "saveSent"]
      BY <2>3 DEF ResetEndpoint
    <3>. QED  BY <2>1, <3>1 DEF Taken, Current
  <2>. QED  BY <1>7, <2>2, <2>3
<1>8. ASSUME NEW p \in Passes, Crash(p) PROVE Taken'
  BY <1>2, <1>8 DEF Crash, history
<1>9. CASE \/ UNCHANGED vars
           \/ \E d \in Deliveries : Enqueue(d) \/ ClaimAges(d) \/ BecomesDue(d)
           \/ \E e \in Endpoints : DeleteEndpoint(e) \/ LoseKey(e)
           \/ RestoreKeys
  BY <1>1, <1>9 DEF vars, passes, history, Enqueue, ClaimAges, BecomesDue,
     DeleteEndpoint, LoseKey, RestoreKeys
<1>. QED  BY <1>3, <1>5, <1>6, <1>7, <1>8, <1>9 DEF Next, PassStep, HandleRow

-----------------------------------------------------------------------------
(* The refinement *)

\* The status of a row as the outbox sees it, and of all rows.
Seen(r) == IF r.status \in {"pending", "sending"} THEN "queued" ELSE r.status
States == [d \in Deliveries |-> State(d)]

LEMMA SeenState == \A d \in Deliveries : State(d) = Seen(delivery[d])
BY DEF State, Seen

LEMMA SeenNext == \A d \in Deliveries : State(d)' = Seen(delivery'[d])
BY DEF State, Seen

\* Rows that look as before are a stutter.
LEMMA SameStates ==
    ASSUME \A d \in Deliveries : Seen(delivery'[d]) = Seen(delivery[d])
    PROVE  States' = States
BY SeenState, SeenNext DEF States

\* One row changes.
LEMMA OneState ==
    ASSUME Delivering, NEW d \in Deliveries, NEW row, delivery' = [delivery EXCEPT ![d] = row]
    PROVE  States' = [States EXCEPT ![d] = Seen(row)]
<1>1. delivery'[d] = row /\ \A c \in Deliveries : c # d => delivery'[c] = delivery[c]
  BY DEF Delivering, TablesOK
<1>2. \A c \in Deliveries :
          State(c)' = IF c = d THEN Seen(row) ELSE State(c)
  BY <1>1, SeenState, SeenNext
<1>3. States' = [c \in Deliveries |-> IF c = d THEN Seen(row) ELSE State(c)]
  BY <1>2 DEF States
<1>. QED  BY <1>3 DEF States

\* Saving a row settles its event, or leaves it queued.
LEMMA SaveSettles ==
    ASSUME Delivering, NEW p \in Passes, NEW d \in Deliveries, Current(p, d),
           NEW row, SaveAndContinue(p, d, row), UNCHANGED <<posts, received>>,
           \/ Seen(row) \in {"queued", "failed"}
           \/ Seen(row) = "sent" /\ received[d] > 0
    PROVE  O!Settle(d) \/ UNCHANGED O!outboxVars
<1>1. CASE delivery[d].status = "gone"
  <2>1. UNCHANGED delivery
    BY <1>1 DEF SaveAndContinue
  <2>2. States' = States
    BY <2>1, SameStates
  <2>. QED  BY <2>2 DEF O!outboxVars, States
<1>2. CASE delivery[d].status # "gone"
  <2>1. delivery' = [delivery EXCEPT ![d] = row]
    BY <1>2 DEF SaveAndContinue
  <2>2. delivery[d].status = "sending"
    BY <1>2, CurrentRow DEF Matches
  <2>3. States[d] = "queued" /\ States \in [Deliveries -> {States[c] : c \in Deliveries}]
    BY <2>2, SeenState DEF States, Seen
  <2>4. States' = [States EXCEPT ![d] = Seen(row)]
    BY <2>1, OneState
  <2>5. CASE Seen(row) = "queued"
    <3>1. States' = States
      BY <2>3, <2>4, <2>5
    <3>. QED  BY <3>1 DEF O!outboxVars, States
  <2>6. CASE Seen(row) = "failed" \/ (Seen(row) = "sent" /\ received[d] > 0)
    BY <2>3, <2>4, <2>6 DEF O!Settle, States
  <2>. QED  BY <2>5, <2>6
<1>. QED  BY <1>1, <1>2

LEMMA OutboxRow ==
    ASSUME Delivering, Taken, NEW p \in Passes, NEW d \in Deliveries, HandleRow(p, d)
    PROVE  O!Attempt(d) \/ O!Settle(d) \/ UNCHANGED O!outboxVars
<1>1. Current(p, d) /\ delivery[d] \in DeliveryRow
  BY CurrentRow DEF HandleRow, Drop, Hold, Post, ResetEndpoint, ChargeEndpoint, SaveSent,
     SaveFailed
<1>2. CASE Post(p, d)
  <2>1. /\ UNCHANGED delivery
        /\ posts' = [posts EXCEPT ![d] = @ + 1]
        /\ received' \in {received, [received EXCEPT ![d] = @ + 1]}
    BY <1>2 DEF Post, tables
  <2>2. States' = States
    BY <2>1, SameStates
  <2>3. States[d] \in {"queued", "gone"}
    BY <1>1, CurrentRow, SeenState DEF Matches, Seen, States
  <2>. QED  BY <2>1, <2>2, <2>3 DEF O!Attempt, States
<1>3. CASE ResetEndpoint(p, d) \/ ChargeEndpoint(p, d)
  <2>1. UNCHANGED <<delivery, posts, received>>
    BY <1>3 DEF ResetEndpoint, ChargeEndpoint, history
  <2>2. States' = States
    BY <2>1, SameStates
  <2>. QED  BY <2>1, <2>2 DEF O!outboxVars, States
<1>4. CASE Drop(p, d) \/ Hold(p, d) \/ SaveFailed(p, d)
  <2>1. /\ UNCHANGED <<posts, received>>
        /\ \E row : SaveAndContinue(p, d, row) /\ row.status \in {"failed", "pending"}
    <3>1. ASSUME NEW status PROVE [delivery[d] EXCEPT !.status = status].status = status
      BY <1>1 DEF DeliveryRow
    <3>2. CASE Drop(p, d)
      BY <3>1, <3>2 DEF Drop, history
    <3>3. CASE Hold(p, d)
      <4>. DEFINE row == [delivery[d] EXCEPT !.status = "pending", !.claim = "none",
                                             !.waits = TRUE]
      <4>1. row.status = "pending"
        BY <1>1 DEF DeliveryRow
      <4>2. SaveAndContinue(p, d, row)
        BY <3>3 DEF Hold
      <4>. HIDE DEF row
      <4>. QED  BY <3>3, <4>1, <4>2 DEF Hold, history
    <3>4. CASE SaveFailed(p, d)
      <4>. DEFINE retry == batch[p][d].attempts + 1 < MaxAttempts
                  row == [delivery[d] EXCEPT
                             !.status = IF retry THEN "pending" ELSE "failed",
                             !.attempts = batch[p][d].attempts + 1,
                             !.waits = retry \/ @, !.claim = "none"]
      <4>1. row.status \in {"failed", "pending"}
        BY <1>1 DEF DeliveryRow
      <4>2. SaveAndContinue(p, d, row)
        BY <3>4 DEF SaveFailed
      <4>. HIDE DEF row
      <4>. QED  BY <3>4, <4>1, <4>2 DEF SaveFailed, history
    <3>. QED  BY <1>4, <3>2, <3>3, <3>4
  <2>2. \A r : r.status \in {"failed", "pending"} => Seen(r) \in {"queued", "failed"}
    BY DEF Seen
  <2>. QED  BY <1>1, <2>1, <2>2, SaveSettles
<1>5. CASE SaveSent(p, d)
  <2>. DEFINE row == [delivery[d] EXCEPT !.status = "sent",
                                         !.attempts = batch[p][d].attempts + 1,
                                         !.claim = "none"]
  <2>1. row.status = "sent"
    BY <1>1 DEF DeliveryRow
  <2>2. SaveAndContinue(p, d, row) /\ at[p] = "saveSent" /\ UNCHANGED <<posts, received>>
    BY <1>5 DEF SaveSent, history
  <2>. HIDE DEF row
  <2>3. received[d] > 0
    BY <1>1, <2>2 DEF Taken
  <2>4. Seen(row) = "sent"
    BY <2>1 DEF Seen
  <2>. QED  BY <1>1, <2>2, <2>3, <2>4, SaveSettles
<1>. QED  BY <1>2, <1>3, <1>4, <1>5 DEF HandleRow

LEMMA OutboxStep ==
    ASSUME Delivering, Taken, [Next]_vars
    PROVE  [O!Next]_(O!outboxVars)
<1>1. ASSUME UNCHANGED <<posts, received>>,
             \A d \in Deliveries : Seen(delivery'[d]) = Seen(delivery[d])
      PROVE  UNCHANGED O!outboxVars
  BY <1>1, SameStates DEF O!outboxVars, States
<1>t. delivery \in [Deliveries -> DeliveryRow] /\ \A d \in Deliveries : delivery[d] \in DeliveryRow
  BY DEF Delivering, TablesOK
<1>2. ASSUME NEW d \in Deliveries, Enqueue(d) PROVE O!Queue(d)
  <2>1. /\ delivery[d].status = "absent" /\ UNCHANGED <<posts, received>>
        /\ delivery' = [delivery EXCEPT ![d] = NewRow("pending")]
    BY <1>2 DEF Enqueue, history
  <2>2. States[d] = "absent" /\ Seen(NewRow("pending")) = "queued"
    BY <2>1, SeenState DEF States, Seen, NewRow
  <2>3. States' = [States EXCEPT ![d] = "queued"]
    BY <2>1, <2>2, OneState
  <2>. QED  BY <2>1, <2>2, <2>3 DEF O!Queue, States
<1>3. ASSUME NEW e \in Endpoints, DeleteEndpoint(e)
      PROVE  \E S \in SUBSET Deliveries : O!Forget(S)
  <2>. DEFINE S == {d \in Deliveries : EndpointOf[d] = e}
  <2>1. /\ UNCHANGED <<posts, received>>
        /\ delivery' = [d \in Deliveries |->
                          IF EndpointOf[d] = e /\ delivery[d].status # "absent"
                          THEN NewRow("gone") ELSE delivery[d]]
    BY <1>3 DEF DeleteEndpoint, history
  <2>2. \A d \in Deliveries : (Seen(delivery[d]) # "absent" <=> delivery[d].status # "absent")
                              /\ Seen(NewRow("gone")) = "gone"
    BY DEF Seen, NewRow
  <2>3. \A d \in Deliveries :
           State(d)' = IF d \in S /\ States[d] # "absent" THEN "gone" ELSE States[d]
    BY <2>1, <2>2, SeenState, SeenNext DEF States
  <2>4. States' = [d \in Deliveries |-> IF d \in S /\ States[d] # "absent" THEN "gone" ELSE States[d]]
    BY <2>3 DEF States
  <2>. HIDE DEF S
  <2>5. O!Forget(S)
    BY <2>1, <2>4 DEF O!Forget, States
  <2>. QED  BY <2>5 DEF S
<1>4. ASSUME NEW d \in Deliveries, ClaimAges(d) \/ BecomesDue(d) PROVE UNCHANGED O!outboxVars
  <2>1. /\ UNCHANGED <<posts, received>>
        /\ delivery' = [delivery EXCEPT ![d].claim = "stale"]
           \/ delivery' = [delivery EXCEPT ![d].waits = FALSE]
    BY <1>4 DEF ClaimAges, BecomesDue, history
  <2>2. \A c \in Deliveries : delivery'[c].status = delivery[c].status
    BY <1>t, <2>1 DEF DeliveryRow
  <2>. QED  BY <1>1, <2>1, <2>2 DEF Seen
<1>5. ASSUME NEW p \in Passes, Sweep(p) \/ SelectDue(p) \/ Claim(p) \/ LoadBatch(p)
      PROVE  UNCHANGED O!outboxVars
  <2>1. UNCHANGED <<posts, received>>
    BY <1>5 DEF Sweep, SelectDue, Claim, LoadBatch, history
  <2>2. \A d \in Deliveries : \/ delivery'[d] = delivery[d]
                              \/ /\ delivery[d].status \in {"pending", "sending"}
                                 /\ delivery'[d].status \in {"pending", "sending"}
    <3>1. ASSUME NEW d \in Deliveries
          PROVE  /\ [delivery[d] EXCEPT !.status = "pending", !.claim = "none"].status = "pending"
                 /\ [delivery[d] EXCEPT !.status = "sending", !.claim = "fresh"].status = "sending"
      BY <1>t DEF DeliveryRow
    <3>2. CASE Sweep(p)
      BY <3>1, <3>2 DEF Sweep
    <3>3. CASE Claim(p)
      BY <3>1, <3>3 DEF Claim
    <3>4. CASE SelectDue(p) \/ LoadBatch(p)
      BY <3>4 DEF SelectDue, LoadBatch, tables
    <3>. QED  BY <1>5, <3>2, <3>3, <3>4
  <2>. QED  BY <1>1, <2>1, <2>2 DEF Seen
<1>6. CASE \/ UNCHANGED vars \/ RestoreKeys \/ (\E e \in Endpoints : LoseKey(e))
           \/ \E p \in Passes : Crash(p)
  <2>1. UNCHANGED <<delivery, posts, received>>
    BY <1>6 DEF vars, tables, history, RestoreKeys, LoseKey, Crash
  <2>. QED  BY <1>1, <2>1
<1>7. ASSUME NEW p \in Passes, PassStep(p) PROVE [O!Next]_(O!outboxVars)
  BY <1>5, <1>7, OutboxRow DEF PassStep, O!Next
<1>. QED  BY <1>2, <1>3, <1>4, <1>6, <1>7 DEF Next, O!Next

\* The passes over the table do what the outbox promises: an event is settled
\* once, `sent` only if its receiver took it, and never posted afterwards.
THEOREM OutboxKept == ASSUME OnePass PROVE Spec => ImplementsOutbox
<1>1. Init => O!Init
  BY DEF Init, O!Init, State, NewRow
<1>2. Init => Taken
  BY DEF Init, Taken
<1>3. Spec => []Taken
  BY <1>2, TakenStep, DeliveringInvariant, PTL DEF Spec
<1>. QED  BY <1>1, <1>3, OutboxStep, DeliveringInvariant, PTL
          DEF Spec, ImplementsOutbox, O!Spec
-----------------------------------------------------------------------------
(* What is on the books *)

Handling == {"delivered", "refused", "saveSent", "saveFailed"}

\* The row a pass has posted and not saved yet.
InFlight(p, d) == Current(p, d) /\ at[p] \in Handling

Booked(d) ==
    /\ delivery[d].status = "absent" => posts[d] = 0
    /\ delivery[d].status # "gone" =>
          \/ posts[d] <= delivery[d].attempts + crashes
          \/ /\ \E p \in Passes : InFlight(p, d)
             /\ posts[d] <= delivery[d].attempts + crashes + 1

Books == \A d \in Deliveries : Booked(d)

LEMMA BooksStep == OnePass /\ Delivering /\ Books /\ [Next]_vars => Books'
<1>. SUFFICES ASSUME OnePass, Delivering, Books, [Next]_vars PROVE Books'
  OBVIOUS
<1>i. Delivering'
  BY DeliveringStep
<1>t. /\ \A d \in Deliveries : /\ delivery[d] \in DeliveryRow /\ posts[d] \in Nat
                               /\ delivery[d].attempts \in Nat
      /\ posts \in [Deliveries -> Nat] /\ delivery \in [Deliveries -> DeliveryRow]
      /\ at \in [Passes -> Points] /\ crashes \in Nat
  BY Bounds, RowFields DEF Delivering, TablesOK, HistoryOK, PassesOK
<1>1. ASSUME UNCHANGED <<delivery, posts, crashes>>,
             \A p \in Passes, d \in Deliveries : InFlight(p, d) => InFlight(p, d)'
      PROVE  Books'
  BY <1>1 DEF Books, Booked
<1>2. ASSUME UNCHANGED <<delivery, passes, posts, crashes>> PROVE Books'
  BY <1>1, <1>2 DEF passes, InFlight, Current
<1>3. ASSUME NEW d \in Deliveries, Enqueue(d) PROVE Books'
  <2>1. /\ delivery[d].status = "absent" /\ UNCHANGED <<passes, posts, crashes>>
        /\ delivery' = [delivery EXCEPT ![d] = NewRow("pending")]
    BY <1>3 DEF Enqueue, history
  <2>2. /\ delivery'[d].status = "pending" /\ delivery'[d].attempts = 0
        /\ \A c \in Deliveries : c # d => delivery'[c] = delivery[c]
    BY <1>t, <2>1 DEF NewRow
  <2>3. \A p \in Passes, c \in Deliveries : InFlight(p, c)' <=> InFlight(p, c)
    BY <2>1 DEF InFlight, Current, passes
  <2>4. Booked(d)'
    BY <1>t, <2>1, <2>2 DEF Books, Booked
  <2>5. \A c \in Deliveries : c # d => Booked(c)'
    BY <2>1, <2>2, <2>3 DEF Books, Booked
  <2>. QED  BY <2>4, <2>5 DEF Books
<1>4. ASSUME NEW e \in Endpoints, DeleteEndpoint(e) PROVE Books'
  <2>1. /\ UNCHANGED <<passes, posts, crashes>>
        /\ \A d \in Deliveries : delivery'[d] = delivery[d] \/ delivery'[d] = NewRow("gone")
    BY <1>4 DEF DeleteEndpoint, history
  <2>2. NewRow("gone").status = "gone"
    BY DEF NewRow
  <2>3. \A p \in Passes, c \in Deliveries : InFlight(p, c)' <=> InFlight(p, c)
    BY <2>1 DEF InFlight, Current, passes
  <2>. QED  BY <2>1, <2>2, <2>3 DEF Books, Booked
<1>5. ASSUME NEW d \in Deliveries, ClaimAges(d) \/ BecomesDue(d) PROVE Books'
  <2>1. /\ UNCHANGED <<passes, posts, crashes>>
        /\ delivery' = [delivery EXCEPT ![d].claim = "stale"]
           \/ delivery' = [delivery EXCEPT ![d].waits = FALSE]
    BY <1>5 DEF ClaimAges, BecomesDue, history
  <2>2. \A c \in Deliveries : /\ delivery'[c].status = delivery[c].status
                              /\ delivery'[c].attempts = delivery[c].attempts
    BY <1>t, <2>1 DEF DeliveryRow
  <2>3. \A p \in Passes, c \in Deliveries : InFlight(p, c)' <=> InFlight(p, c)
    BY <2>1 DEF InFlight, Current, passes
  <2>. QED  BY <2>1, <2>2, <2>3 DEF Books, Booked
<1>6. ASSUME NEW p \in Passes, Sweep(p) \/ SelectDue(p) \/ Claim(p) \/ LoadBatch(p)
      PROVE  Books'
  <2>1. at[p] \in {"off", "swept", "picked", "claimed"} /\ UNCHANGED <<posts, crashes>>
    BY <1>6 DEF Sweep, SelectDue, Claim, LoadBatch, history
  <2>2. \A d \in Deliveries, q \in Passes : ~InFlight(q, d)
    BY <2>1 DEF InFlight, Handling, OnePass
  <2>3. \A d \in Deliveries : \/ delivery'[d] = delivery[d]
                              \/ /\ delivery[d].status \in {"pending", "sending"}
                                 /\ delivery'[d].status \in {"pending", "sending"}
                                 /\ delivery'[d].attempts = delivery[d].attempts
    <3>. DEFINE swept(d) == [delivery[d] EXCEPT !.status = "pending", !.claim = "none"]
                claimed(d) == [delivery[d] EXCEPT !.status = "sending", !.claim = "fresh"]
    <3>1. \A d \in Deliveries :
             /\ swept(d).status = "pending" /\ swept(d).attempts = delivery[d].attempts
             /\ claimed(d).status = "sending" /\ claimed(d).attempts = delivery[d].attempts
      BY <1>t DEF DeliveryRow
    <3>2. CASE Sweep(p)
      <4>1. \A d \in Deliveries : delivery'[d] = delivery[d]
                \/ (delivery[d].status = "sending" /\ delivery'[d] = swept(d))
        BY <3>2 DEF Sweep
      <4>. HIDE DEF swept
      <4>. QED  BY <3>1, <4>1
    <3>3. CASE Claim(p)
      <4>1. \A d \in Deliveries : delivery'[d] = delivery[d]
                \/ (delivery[d].status = "pending" /\ delivery'[d] = claimed(d))
        BY <3>3 DEF Claim
      <4>. HIDE DEF claimed
      <4>. QED  BY <3>1, <4>1
    <3>4. CASE SelectDue(p) \/ LoadBatch(p)
      BY <3>4 DEF SelectDue, LoadBatch, tables
    <3>. QED  BY <1>6, <3>2, <3>3, <3>4
  <2>. QED  BY <2>1, <2>2, <2>3 DEF Books, Booked
<1>7. ASSUME NEW p \in Passes, NEW d \in Deliveries, HandleRow(p, d) PROVE Books'
  <2>1. Current(p, d) /\ UNCHANGED crashes
    BY <1>7 DEF HandleRow, Drop, Hold, Post, ResetEndpoint, ChargeEndpoint, SaveSent, SaveFailed
  <2>2. \A q \in Passes, c \in Deliveries : Current(q, c) => q = p /\ c = d
    BY <2>1, CurrentRow DEF OnePass
  <2>3. /\ Matches(delivery[d], batch[p][d]) /\ batch[p][d].attempts \in Nat
    BY <2>1, CurrentRow, CopyFields
  <2>4. CASE Post(p, d)
    <3>1. /\ at[p] = "rows" /\ UNCHANGED <<delivery, batch>>
          /\ posts' = [posts EXCEPT ![d] = @ + 1] /\ at'[p] \in {"delivered", "refused"}
      BY <1>t, <2>4 DEF Post, tables
    <3>2. \A q \in Passes, c \in Deliveries : ~InFlight(q, c)
      BY <2>2, <3>1 DEF InFlight, Handling
    <3>3. InFlight(p, d)'
      BY <2>1, <3>1 DEF InFlight, Current, Handling
    <3>4. delivery[d].status # "absent"
      BY <2>3 DEF Matches
    <3>5. posts'[d] = posts[d] + 1 /\ \A c \in Deliveries : c # d => posts'[c] = posts[c]
      BY <1>t, <3>1
    <3>6. Booked(d)'
      BY <1>t, <2>1, <3>1, <3>2, <3>3, <3>4, <3>5 DEF Books, Booked
    <3>7. \A c \in Deliveries : c # d => Booked(c)'
      BY <2>1, <3>1, <3>2, <3>5 DEF Books, Booked
    <3>. QED  BY <3>6, <3>7 DEF Books
  <2>5. CASE ResetEndpoint(p, d) \/ ChargeEndpoint(p, d)
    <3>1. UNCHANGED <<delivery, batch, posts, crashes>> /\ at'[p] \in Handling
      BY <1>t, <2>5 DEF ResetEndpoint, ChargeEndpoint, Handling, history
    <3>2. InFlight(p, d)'
      BY <2>1, <3>1 DEF InFlight, Current
    <3>. QED  BY <1>1, <2>2, <3>1, <3>2 DEF InFlight
  <2>6. ASSUME NEW row, SaveAndContinue(p, d, row), UNCHANGED posts,
               row.status # "absent", row.attempts \in Nat,
               row.attempts >= delivery[d].attempts,
               at[p] \in Handling /\ delivery[d].status # "gone" =>
                   row.attempts = delivery[d].attempts + 1
        PROVE  Books'
    <3>1. CASE delivery[d].status = "gone"
      <4>1. UNCHANGED delivery
        BY <2>6, <3>1 DEF SaveAndContinue
      <4>. QED  BY <2>1, <2>2, <2>6, <3>1, <4>1 DEF Books, Booked, InFlight
    <3>2. CASE delivery[d].status # "gone"
      <4>1. /\ delivery'[d] = row
            /\ \A c \in Deliveries : c # d => delivery'[c] = delivery[c]
        BY <1>t, <2>6, <3>2 DEF SaveAndContinue
      <4>2. posts[d] <= row.attempts + crashes
        BY <1>t, <2>1, <2>2, <2>6, <3>2 DEF Books, Booked, InFlight
      <4>3. Booked(d)'
        BY <2>1, <2>6, <4>1, <4>2 DEF Booked
      <4>4. \A c \in Deliveries : c # d => Booked(c)'
        BY <2>1, <2>2, <2>6, <4>1 DEF Books, Booked, InFlight
      <4>. QED  BY <4>3, <4>4 DEF Books
    <3>. QED  BY <3>1, <3>2
  <2>7. CASE Drop(p, d) \/ Hold(p, d)
    <3>. DEFINE dropped == [delivery[d] EXCEPT !.status = "failed"]
                held == [delivery[d] EXCEPT !.status = "pending", !.claim = "none",
                                            !.waits = TRUE]
    <3>1. /\ dropped.status = "failed" /\ dropped.attempts = delivery[d].attempts
          /\ held.status = "pending" /\ held.attempts = delivery[d].attempts
      BY <1>t DEF DeliveryRow
    <3>2. /\ at[p] = "rows" /\ UNCHANGED posts
          /\ SaveAndContinue(p, d, dropped) \/ SaveAndContinue(p, d, held)
      BY <2>7 DEF Drop, Hold, history
    <3>. HIDE DEF dropped, held
    <3>. QED  BY <1>t, <2>6, <3>1, <3>2 DEF Handling
  <2>8. CASE SaveSent(p, d) \/ SaveFailed(p, d)
    <3>. DEFINE n == batch[p][d].attempts + 1
                retry == n < MaxAttempts
                sentRow == [delivery[d] EXCEPT !.status = "sent", !.attempts = n,
                                               !.claim = "none"]
                failedRow == [delivery[d] EXCEPT
                                 !.status = IF retry THEN "pending" ELSE "failed",
                                 !.attempts = n, !.waits = retry \/ @, !.claim = "none"]
    <3>1. /\ sentRow.status = "sent" /\ sentRow.attempts = n
          /\ failedRow.status \in {"pending", "failed"} /\ failedRow.attempts = n
      BY <1>t DEF DeliveryRow
    <3>2. /\ UNCHANGED posts
          /\ SaveAndContinue(p, d, sentRow) \/ SaveAndContinue(p, d, failedRow)
      BY <2>8 DEF SaveSent, SaveFailed, history
    <3>3. n \in Nat /\ (delivery[d].status # "gone" => n = delivery[d].attempts + 1)
      BY <2>3 DEF Matches
    <3>. HIDE DEF n, sentRow, failedRow
    <3>4. CASE delivery[d].status = "gone"
      <4>1. UNCHANGED delivery
        BY <3>2, <3>4 DEF SaveAndContinue
      <4>. QED  BY <2>1, <2>2, <3>2, <3>4, <4>1 DEF Books, Booked, InFlight
    <3>5. CASE delivery[d].status # "gone"
      BY <1>t, <2>6, <3>1, <3>2, <3>3, <3>5
    <3>. QED  BY <3>4, <3>5
  <2>. QED  BY <1>7, <2>4, <2>5, <2>7, <2>8 DEF HandleRow
<1>8. ASSUME NEW p \in Passes, Crash(p) PROVE Books'
  <2>1. UNCHANGED <<delivery, posts>> /\ crashes' = crashes + 1
    BY <1>8 DEF Crash, tables, history
  <2>. QED  BY <1>t, <2>1 DEF Books, Booked
<1>9. CASE UNCHANGED vars \/ RestoreKeys \/ \E e \in Endpoints : LoseKey(e)
  BY <1>2, <1>9 DEF vars, tables, history, RestoreKeys, LoseKey
<1>. QED  BY <1>3, <1>4, <1>5, <1>6, <1>7, <1>8, <1>9 DEF Next, PassStep

\* Every post is counted in `attempts`, is being handled, or was made by a pass
\* that died: no retry is free, however often an event is tried.
THEOREM PostsCounted == ASSUME OnePass PROVE Spec => []PostsAreCounted
<1>1. Init => Books
  BY DEF Init, Books, Booked, NewRow
<1>2. Delivering /\ Books /\ [Next]_vars => Books'
  BY BooksStep
<1>3. Delivering /\ Books => PostsAreCounted
  <2>. SUFFICES ASSUME Delivering, Books, NEW d \in Deliveries, delivery[d].status # "gone"
                PROVE  posts[d] <= delivery[d].attempts + crashes +
                          (IF \E p \in Passes :
                                 /\ Current(p, d)
                                 /\ at[p] \in {"delivered", "refused", "saveSent", "saveFailed"}
                           THEN 1 ELSE 0)
    BY DEF PostsAreCounted
  <2>1. posts[d] \in Nat /\ delivery[d].attempts \in Nat /\ crashes \in Nat
    BY Bounds, RowFields DEF Delivering, TablesOK, HistoryOK
  <2>. QED  BY <2>1 DEF Books, Booked, InFlight, Handling
<1>. QED  BY <1>1, <1>2, <1>3, DeliveringInvariant, PTL DEF Spec
-----------------------------------------------------------------------------
(* The counter of an endpoint *)

Calm == crashes = 0 /\ ~shared

\* Pass p has posted row d and not settled the endpoint, or has settled it.
Struck(p, d) == Current(p, d) /\ at[p] \in {"delivered", "refused"}
Settled(p, d) == Current(p, d) /\ at[p] \in {"saveSent", "saveFailed"}

\* The copies of a pass: of different endpoints, and their counters are the
\* endpoints' until the pass settles them.
CopiesOK(p) ==
    /\ \A c, d \in DOMAIN batch[p] : EndpointOf[c] = EndpointOf[d] => c = d
    /\ \A d \in DOMAIN batch[p] :
          endpoint[EndpointOf[d]].exists /\ ~Settled(p, d) =>
             batch[p][d].fails = endpoint[EndpointOf[d]].fails
    /\ \A d \in Deliveries :
          Current(p, d) /\ endpoint[EndpointOf[d]].exists =>
             /\ at[p] = "delivered" => streak[EndpointOf[d]] = 0
             /\ at[p] = "refused" => streak[EndpointOf[d]] = batch[p][d].fails + 1

CounterOK(e) ==
    endpoint[e].exists =>
        \/ \E p \in Passes, d \in Deliveries : EndpointOf[d] = e /\ Struck(p, d)
        \/ endpoint[e].fails = streak[e]

Counters == Calm => /\ \A p \in Passes : CopiesOK(p)
                    /\ \A e \in Endpoints : CounterOK(e)

\* A pass that is at no row leaves only the counters to look at.
LEMMA NoCopies ==
    ASSUME Counters, NEW p \in Passes, OnePass,
           \A d \in Deliveries : ~Struck(p, d),
           batch'[p] = Nothing,
           Calm' => Calm, UNCHANGED <<endpoint, streak>>
    PROVE  Counters'
<1>1. \A e \in Endpoints : Calm' /\ endpoint[e].exists => endpoint[e].fails = streak[e]
  BY DEF Counters, CounterOK, OnePass
<1>2. CopiesOK(p)'
  BY NothingTyped DEF CopiesOK, Current
<1>3. Calm' => \A e \in Endpoints : CounterOK(e)'
  BY <1>1 DEF CounterOK
<1>. QED  BY <1>2, <1>3 DEF Counters, OnePass

LEMMA CountersStep == OnePass /\ Delivering /\ Counters /\ [Next]_vars => Counters'
<1>. SUFFICES ASSUME OnePass, Delivering, Counters, [Next]_vars PROVE Counters'
  OBVIOUS
<1>t. /\ at \in [Passes -> Points] /\ batch \in [Passes -> Batches]
      /\ endpoint \in [Endpoints -> EndpointRow] /\ \A e \in Endpoints : endpoint[e] \in EndpointRow
      /\ streak \in [Endpoints -> 0..MaxConsecutiveFailures]
      /\ \A d \in Deliveries : EndpointOf[d] \in Endpoints
      /\ crashes \in Nat
      /\ \A p \in Passes : DOMAIN batch[p] \subseteq Deliveries
  BY Bounds, BatchDomain DEF Delivering, TablesOK, PassesOK, HistoryOK
<1>1. ASSUME UNCHANGED <<endpoint, at, batch, streak, shared, crashes>> PROVE Counters'
  BY <1>1 DEF Counters, Calm, CopiesOK, CounterOK, Struck, Settled, Current
<1>2. ASSUME \/ UNCHANGED vars
             \/ \E d \in Deliveries : Enqueue(d) \/ ClaimAges(d) \/ BecomesDue(d)
             \/ RestoreKeys \/ \E e \in Endpoints : LoseKey(e)
      PROVE  Counters'
  BY <1>1, <1>2 DEF vars, tables, passes, history, Enqueue, ClaimAges, BecomesDue,
     RestoreKeys, LoseKey
<1>3. ASSUME NEW e \in Endpoints, DeleteEndpoint(e) PROVE Counters'
  <2>1. /\ UNCHANGED <<at, batch, streak, shared, crashes>>
        /\ endpoint' = [endpoint EXCEPT ![e] = Deleted]
    BY <1>3 DEF DeleteEndpoint, passes, history
  <2>2. \A f \in Endpoints : endpoint'[f].exists => endpoint[f].exists /\ endpoint'[f] = endpoint[f]
    BY <1>t, <2>1 DEF Deleted
  <2>3. \A p \in Passes, d \in Deliveries : /\ Current(p, d)' <=> Current(p, d)
                                            /\ Struck(p, d)' <=> Struck(p, d)
                                            /\ Settled(p, d)' <=> Settled(p, d)
    BY <2>1 DEF Current, Struck, Settled
  <2>4. Calm' <=> Calm
    BY <2>1 DEF Calm
  <2>5. ASSUME NEW p \in Passes, CopiesOK(p) PROVE CopiesOK(p)'
    BY <1>t, <2>1, <2>2, <2>3, <2>5 DEF CopiesOK
  <2>6. ASSUME NEW f \in Endpoints, CounterOK(f) PROVE CounterOK(f)'
    BY <2>1, <2>2, <2>3, <2>6 DEF CounterOK
  <2>. QED  BY <2>4, <2>5, <2>6 DEF Counters
<1>4. ASSUME NEW p \in Passes, Sweep(p) \/ SelectDue(p) \/ Claim(p) PROVE Counters'
  <2>1. /\ at[p] \in {"off", "swept", "picked"}
        /\ UNCHANGED <<endpoint, streak, shared, crashes>>
        /\ End(p) \/ UNCHANGED batch
    BY <1>4 DEF Sweep, SelectDue, Claim, history, tables
  <2>2. batch[p] = Nothing
    BY <2>1 DEF Delivering, PassesOK, BatchOK
  <2>3. batch'[p] = Nothing
    BY <1>t, <2>1, <2>2 DEF End
  <2>. QED  BY <2>1, <2>3, NoCopies DEF Struck, Calm
<1>5. ASSUME NEW p \in Passes, LoadBatch(p) PROVE Counters'
  <2>. DEFINE mine == {d \in due[p] : delivery[d].status = "sending"}
              copies == [d \in mine |-> Copy(d)]
  <2>1. /\ at[p] = "claimed" /\ UNCHANGED <<endpoint, streak, crashes>>
        /\ shared' = (\/ shared
                      \/ \E c, d \in mine : c # d /\ EndpointOf[c] = EndpointOf[d])
    BY <1>5 DEF LoadBatch, tables
  <2>2. Calm' => Calm
    BY <2>1 DEF Calm
  <2>3. \A d \in Deliveries : ~Struck(p, d)
    BY <2>1 DEF Struck
  <2>4. CASE End(p)
    <3>1. batch'[p] = Nothing
      BY <1>t, <2>4 DEF End
    <3>. QED  BY <2>1, <2>2, <2>3, <3>1, NoCopies
  <2>5. CASE /\ at' = [at EXCEPT ![p] = "rows"] /\ batch' = [batch EXCEPT ![p] = copies]
    <3>1. at'[p] = "rows" /\ batch'[p] = copies
      BY <1>t, <2>5
    <3>2. /\ DOMAIN copies = mine /\ mine \subseteq Deliveries
          /\ \A d \in mine : copies[d].fails = endpoint[EndpointOf[d]].fails
      BY DEF Copy, Delivering, PassesOK
    <3>3. Calm' => \A c, d \in mine : EndpointOf[c] = EndpointOf[d] => c = d
      BY <2>1 DEF Calm
    <3>. HIDE DEF mine, copies
    <3>4. Calm' => CopiesOK(p)'
      BY <2>1, <3>1, <3>2, <3>3 DEF CopiesOK
    <3>5. Calm' => \A e \in Endpoints : endpoint[e].exists => endpoint[e].fails = streak[e]
      BY <2>2, <2>3 DEF Counters, CounterOK, OnePass
    <3>6. Calm' => \A e \in Endpoints : CounterOK(e)'
      BY <2>1, <3>5 DEF CounterOK
    <3>. QED  BY <3>4, <3>6 DEF Counters, OnePass
  <2>. QED  BY <1>5, <2>4, <2>5 DEF LoadBatch
<1>6. ASSUME NEW p \in Passes, NEW d \in Deliveries, HandleRow(p, d) PROVE Counters'
  <2>. DEFINE e == EndpointOf[d]
  <2>1. /\ Current(p, d) /\ UNCHANGED <<shared, crashes>> /\ (Calm' <=> Calm)
    BY <1>6 DEF HandleRow, Drop, Hold, Post, ResetEndpoint, ChargeEndpoint, SaveSent, SaveFailed,
       history, Calm
  <2>2. /\ \A c \in Deliveries : Current(p, c) => c = d
        /\ \A q \in Passes : q = p
        /\ d \in DOMAIN batch[p] /\ CopyOK(batch[p][d])
    BY <2>1, CurrentRow DEF OnePass
  <2>3. Calm => /\ \A c \in DOMAIN batch[p] : EndpointOf[c] = e => c = d
                /\ CopiesOK(p)
    BY <2>2 DEF Counters, CopiesOK
  <2>4. CASE Drop(p, d) \/ Hold(p, d) \/ SaveSent(p, d) \/ SaveFailed(p, d)
    <3>1. /\ at[p] \in {"rows", "saveSent", "saveFailed"} /\ UNCHANGED <<endpoint, streak>>
          /\ \E row : SaveAndContinue(p, d, row)
      BY <2>4 DEF Drop, Hold, SaveSent, SaveFailed, history
    <3>2. \A c \in Deliveries : ~Struck(p, c)
      BY <3>1 DEF Struck
    <3>3. CASE End(p)
      <4>1. batch'[p] = Nothing
        BY <1>t, <3>3 DEF End
      <4>. QED  BY <2>1, <3>1, <3>2, <4>1, NoCopies
    <3>4. CASE ~End(p)
      <4>. DEFINE rest == DOMAIN batch[p] \ {d}
                  kept == [c \in rest |-> batch[p][c]]
      <4>1. at' = [at EXCEPT ![p] = "rows"] /\ batch' = [batch EXCEPT ![p] = kept]
        BY <3>1, <3>4 DEF SaveAndContinue
      <4>2. at'[p] = "rows" /\ batch'[p] = kept
        BY <1>t, <4>1
      <4>3. /\ DOMAIN kept = rest /\ rest \subseteq DOMAIN batch[p] /\ d \notin rest
            /\ \A c \in rest : kept[c] = batch[p][c]
        OBVIOUS
      <4>. HIDE DEF kept, rest
      <4>4. \A c \in rest : ~Settled(p, c)
        BY <1>t, <2>2, <4>3 DEF Settled
      <4>5. Calm' => CopiesOK(p)'
        BY <1>t, <2>1, <2>3, <3>1, <4>2, <4>3, <4>4 DEF CopiesOK
      <4>6. Calm' => \A f \in Endpoints : CounterOK(f)'
        BY <2>1, <2>2, <3>1, <3>2 DEF Counters, CounterOK
      <4>. QED  BY <2>2, <4>5, <4>6 DEF Counters
    <3>. QED  BY <3>3, <3>4
  <2>5. CASE Post(p, d)
    <3>1. /\ at[p] = "rows" /\ UNCHANGED <<endpoint, batch>> /\ batch[p][d].active
          /\ \/ /\ at' = [at EXCEPT ![p] = "delivered"]
                /\ streak' = [streak EXCEPT ![e] = 0]
             \/ /\ at' = [at EXCEPT ![p] = "refused"]
                /\ streak' = [streak EXCEPT ![e] = IF @ < MaxConsecutiveFailures
                                                   THEN @ + 1 ELSE @]
      BY <2>5 DEF Post, tables
    <3>. HIDE DEF e
    <3>2. e \in Endpoints /\ \A c \in Deliveries : EndpointOf[c] \in Endpoints
      BY <1>t DEF e
    <3>3. /\ at'[p] \in {"delivered", "refused"}
          /\ \A f \in Endpoints : f # e => streak'[f] = streak[f]
          /\ \A c \in Deliveries : Current(p, c)' <=> Current(p, c)
      BY <1>t, <3>1, <3>2 DEF Current
    <3>4. \A c \in Deliveries : ~Struck(p, c) /\ ~Settled(p, c)
      BY <3>1 DEF Struck, Settled
    <3>5. Calm /\ endpoint[e].exists =>
             batch[p][d].fails = endpoint[e].fails /\ streak[e] = endpoint[e].fails
      <4>1. Calm /\ endpoint[e].exists => endpoint[e].fails = streak[e]
        BY <2>2, <3>2, <3>4 DEF Counters, CounterOK
      <4>2. Calm /\ endpoint[e].exists => batch[p][d].fails = endpoint[e].fails
        BY <1>t, <2>2, <2>3, <3>4 DEF CopiesOK, e
      <4>. QED  BY <4>1, <4>2
    <3>6. batch[p][d].fails < MaxConsecutiveFailures
      BY <2>2, <3>1 DEF CopyOK
    <3>7. Calm /\ endpoint[e].exists =>
             /\ at'[p] = "delivered" => streak'[e] = 0
             /\ at'[p] = "refused" => streak'[e] = batch[p][d].fails + 1
      BY <1>t, <3>1, <3>2, <3>5, <3>6
    <3>8. Calm' => CopiesOK(p)'
      <4>1. ASSUME NEW c \in DOMAIN batch[p] PROVE ~Settled(p, c)'
        BY <3>3 DEF Settled
      <4>2. Calm => \A c \in DOMAIN batch[p] :
               endpoint[EndpointOf[c]].exists => batch[p][c].fails = endpoint[EndpointOf[c]].fails
        BY <1>t, <2>3, <3>4 DEF CopiesOK
      <4>3. \A c \in Deliveries : Current(p, c)' => c = d
        BY <2>2, <3>3
      <4>. QED  BY <2>1, <2>3, <3>1, <3>7, <4>1, <4>2, <4>3 DEF CopiesOK, e
    <3>9. Calm' => \A f \in Endpoints : CounterOK(f)'
      <4>1. Struck(p, d)'
        BY <2>1, <3>3 DEF Struck, Current
      <4>2. CounterOK(e)'
        BY <4>1 DEF CounterOK, e
      <4>3. ASSUME NEW f \in Endpoints, f # e, Calm' PROVE CounterOK(f)'
        BY <2>1, <2>2, <3>1, <3>3, <3>4, <4>3 DEF Counters, CounterOK
      <4>. QED  BY <4>2, <4>3
    <3>. QED  BY <2>2, <3>8, <3>9 DEF Counters
  <2>6. CASE ResetEndpoint(p, d) \/ ChargeEndpoint(p, d)
    <3>. DEFINE count == batch[p][d].fails + 1
    <3>1. UNCHANGED <<batch, streak>> /\ at[p] \in {"delivered", "refused"}
      BY <2>6 DEF ResetEndpoint, ChargeEndpoint, history
    <3>2. /\ at'[p] \in {"saveSent", "saveFailed"}
          /\ \A c \in Deliveries : Current(p, c)' <=> Current(p, c)
      BY <1>t, <2>6, <3>1 DEF ResetEndpoint, ChargeEndpoint, Current
    <3>3. e \in Endpoints /\ endpoint[e] \in EndpointRow
          /\ batch[p][d].fails \in 0..MaxConsecutiveFailures
      BY <1>t, <2>2, CopyFields
    <3>4. Calm /\ endpoint[e].exists => batch[p][d].fails = endpoint[e].fails
      <4>1. ~Settled(p, d)
        BY <3>1 DEF Settled
      <4>. QED  BY <2>2, <2>3, <4>1 DEF CopiesOK
    <3>5. /\ \A f \in Endpoints : f # e => endpoint'[f] = endpoint[f]
          /\ Calm /\ endpoint'[e].exists => endpoint[e].exists /\ endpoint'[e].fails = streak[e]
      <4>1. CASE ResetEndpoint(p, d)
        <5>1. /\ at[p] = "delivered"
              /\ \/ endpoint' = [endpoint EXCEPT ![e].fails = 0]
                 \/ /\ UNCHANGED endpoint
                    /\ batch[p][d].fails > 0 => ~endpoint[e].exists
          BY <4>1 DEF ResetEndpoint
        <5>2. Calm /\ endpoint[e].exists => streak[e] = 0
          BY <2>1, <2>3, <5>1 DEF CopiesOK
        <5>. HIDE DEF e
        <5>3. CASE endpoint' = [endpoint EXCEPT ![e].fails = 0]
          <6>1. endpoint'[e] = [endpoint[e] EXCEPT !.fails = 0]
            BY <1>t, <3>3, <5>3
          <6>2. endpoint'[e].exists = endpoint[e].exists /\ endpoint'[e].fails = 0
            BY <3>3, <6>1 DEF EndpointRow
          <6>. QED  BY <1>t, <5>2, <5>3, <6>2
        <5>4. CASE UNCHANGED endpoint /\ (batch[p][d].fails > 0 => ~endpoint[e].exists)
          BY <3>3, <3>4, <5>2, <5>4
        <5>. QED  BY <5>1, <5>3, <5>4
      <4>2. CASE ChargeEndpoint(p, d)
        <5>1. /\ at[p] = "refused"
              /\ \/ UNCHANGED endpoint /\ ~endpoint[e].exists
                 \/ endpoint' = [endpoint EXCEPT
                                   ![e].fails = count,
                                   ![e].active = @ /\ count < MaxConsecutiveFailures]
          BY <4>2 DEF ChargeEndpoint
        <5>2. Calm /\ endpoint[e].exists => streak[e] = count
          BY <2>1, <2>3, <5>1 DEF CopiesOK
        <5>. HIDE DEF e, count
        <5>3. CASE endpoint' = [endpoint EXCEPT
                                  ![e].fails = count,
                                  ![e].active = @ /\ count < MaxConsecutiveFailures]
          <6>. DEFINE row == [endpoint[e] EXCEPT
                                !.fails = count,
                                !.active = @ /\ count < MaxConsecutiveFailures]
          <6>1. endpoint' = [endpoint EXCEPT ![e] = row]
            BY <5>3
          <6>2. row.exists = endpoint[e].exists /\ row.fails = count
            BY <3>3 DEF EndpointRow
          <6>. HIDE DEF row
          <6>. QED  BY <1>t, <3>3, <5>2, <6>1, <6>2
        <5>. QED  BY <5>1, <5>3
      <4>. QED  BY <2>6, <4>1, <4>2
    <3>6. Calm' => CopiesOK(p)'
      <4>1. ASSUME NEW c \in DOMAIN batch[p], c # d, Calm, endpoint'[EndpointOf[c]].exists
            PROVE  batch[p][c].fails = endpoint'[EndpointOf[c]].fails
        <5>1. EndpointOf[c] # e /\ EndpointOf[c] \in Endpoints
          BY <1>t, <2>3, <4>1
        <5>2. ~Settled(p, c)
          BY <3>1 DEF Settled
        <5>. QED  BY <2>3, <3>5, <4>1, <5>1, <5>2 DEF CopiesOK
      <4>2. Settled(p, d)'
        BY <2>1, <3>2 DEF Settled, Current
      <4>3. at'[p] # "delivered" /\ at'[p] # "refused"
        BY <3>2
      <4>. QED  BY <2>1, <2>3, <3>1, <4>1, <4>2, <4>3 DEF CopiesOK
    <3>7. Calm' => \A f \in Endpoints : CounterOK(f)'
      <4>1. ASSUME NEW f \in Endpoints, f # e, Calm PROVE CounterOK(f)'
        <5>1. \A c \in Deliveries : Struck(p, c) => EndpointOf[c] = e
          BY <2>2 DEF Struck
        <5>2. endpoint[f].exists => endpoint[f].fails = streak[f]
          BY <2>2, <4>1, <5>1 DEF Counters, CounterOK
        <5>. QED  BY <3>1, <3>5, <4>1, <5>2 DEF CounterOK
      <4>2. Calm => CounterOK(e)'
        BY <3>1, <3>5 DEF CounterOK
      <4>. QED  BY <2>1, <4>1, <4>2
    <3>. QED  BY <2>2, <3>6, <3>7 DEF Counters
  <2>. QED  BY <1>6, <2>4, <2>5, <2>6 DEF HandleRow
<1>7. ASSUME NEW p \in Passes, Crash(p) PROVE Counters'
  BY <1>t, <1>7 DEF Crash, Counters, Calm
<1>. QED  BY <1>2, <1>3, <1>4, <1>5, <1>6, <1>7 DEF Next, PassStep

\* Without crashes, and with one row of an endpoint in a batch, the counter that
\* disables an endpoint is the length of its current streak of failures.
THEOREM CounterCounts == ASSUME OnePass PROVE Spec => []CounterIsStreak
<1>1. Init => Counters
  BY NothingTyped, Bounds
     DEF Init, Counters, CopiesOK, CounterOK, Current
<1>2. Delivering /\ Counters /\ [Next]_vars => Counters'
  BY CountersStep
<1>3. Counters => CounterIsStreak
  BY DEF Counters, Calm, CounterOK, Struck, CounterIsStreak
<1>. QED  BY <1>1, <1>2, <1>3, DeliveringInvariant, PTL DEF Spec
=============================================================================
