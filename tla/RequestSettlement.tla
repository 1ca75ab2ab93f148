------------------------- MODULE RequestSettlement -------------------------
(***************************************************************************)
(* How one AI ask is billed.  An ask runs in legs: the first stream, and   *)
(* one more for every approval it paused for.  When a stream ends, the run *)
(* row is closed first (which is what lets the next leg start) and the     *)
(* cost row afterwards; the charge is posted from the cost row.            *)
(*                                                                         *)
(* Every accounting write swallows its error, so any of them may be lost.  *)
(* A lost spend event is a step that does not happen; the other losses are *)
(* counted in `lost`.  `ai_cost_report --rebuild` derives cost rows again  *)
(* at any time.                                                            *)
(***************************************************************************)
EXTENDS Integers, FiniteSets, FiniteSetsExt

CONSTANTS
    LastLeg,        \* bound: legs of the ask
    MaxSpend,       \* bound: cost of one request
    Cap,            \* request_max_credits
    MaxLost,        \* bound: swallowed write errors
    MaxRebuilds     \* bound: rows rebuilt

ASSUME SettlementAssumption ==
    /\ LastLeg \in Nat \ {0}
    /\ {MaxSpend, Cap, MaxLost, MaxRebuilds} \subseteq Nat

VARIABLES
    run,        \* the AgentRun: "running", "awaiting" a decision, or "final"
    leg,        \* leg -> its program point, request_id and outcome
    spent,      \* request_id -> the cost of its AiSpendEvents
    row,        \* request_id -> its AiRequestCost
    charge,     \* request_id -> credits posted for it, 0 if none
    rebuild,    \* the rebuild in progress
    rebuilds,
    lost,
    overlap,    \* a leg started before the one before it was settled (history)
    raced       \* a rebuild wrote while its request was being closed (history)

vars == <<run, leg, spent, row, charge, rebuild, rebuilds, lost, overlap, raced>>

Legs == 1..LastLeg

\* A fresh request_id is named after the leg that made it.
Ids == Legs

Outcomes == {"parked", "success", "failed", "cancelled"}

\* Slip: a parked leg is a success of its own.
ResultParkedSuccess(outcome) ==
    CASE outcome \in {"success", "parked"} -> "success"
      [] outcome = "cancelled" -> "cancellation"
      [] OTHER                 -> "failure"

\* `result`: credits_exhausted counts as success, every other failure as
\* "failure".  A parked leg has neither a status nor an error and falls
\* through to RESULT_PROVIDER_FAILURE.
Result(outcome) ==
    CASE outcome = "success"   -> "success"
      [] outcome = "cancelled" -> "cancellation"
      [] OTHER                 -> "failure"

NoRow   == [stored |-> FALSE, result |-> "none", credits |-> 0, linked |-> FALSE]
Opened  == [NoRow EXCEPT !.stored = TRUE]
NoBuild == [at |-> "idle"]

Least(a, b) == IF a < b THEN a ELSE b

LegsOf(id) == {l \in Legs : leg[l].id = id}

TypeOK ==
    /\ run \in {"running", "awaiting", "final"}
    /\ leg \in [Legs -> [at : {"waiting", "running", "ended", "closed", "settled"},
                         id : {0} \cup Ids, outcome : {"none"} \cup Outcomes]]
    /\ spent \in [Ids -> 0..MaxSpend]
    /\ row \in [Ids -> [stored : BOOLEAN, credits : 0..Cap, linked : BOOLEAN,
                        result : {"none", "success", "failure", "cancellation"}]]
    /\ charge \in [Ids -> 0..Cap]
    /\ rebuild # NoBuild => rebuild.at = "fetched" /\ rebuild.id \in Ids
    /\ rebuilds \in 0..MaxRebuilds
    /\ lost \in 0..MaxLost
    /\ overlap \in BOOLEAN
    /\ raced \in BOOLEAN

\* The ask has been opened; the write of its cost row may have failed.
Init ==
    /\ run = "running"
    /\ leg = [l \in Legs |-> [at |-> IF l = 1 THEN "running" ELSE "waiting",
                              id |-> IF l = 1 THEN 1 ELSE 0,
                              outcome |-> "none"]]
    /\ spent = [i \in Ids |-> 0]
    /\ \/ row = [i \in Ids |-> IF i = 1 THEN Opened ELSE NoRow] /\ lost = 0
       \/ row = [i \in Ids |-> NoRow] /\ lost = 1 /\ MaxLost > 0
    /\ charge = [i \in Ids |-> 0]
    /\ rebuild = NoBuild
    /\ rebuilds = 0
    /\ overlap = FALSE
    /\ raced = FALSE

\* A write of the cost row, or its swallowed failure.
Write(id, new) ==
    \/ row' = [row EXCEPT ![id] = new] /\ UNCHANGED lost
    \/ lost < MaxLost /\ lost' = lost + 1 /\ UNCHANGED row

-----------------------------------------------------------------------------
(* A leg *)

\* record.  The worker of a leg whose reader left goes on until its next step
\* boundary; an answered ask is indexed after the run is closed.
Spend(l) ==
    /\ \/ leg[l].at = "running"
       \/ leg[l].at = "ended" /\ leg[l].outcome = "success"
       \/ leg[l].outcome = "cancelled"
    /\ spent[leg[l].id] < MaxSpend
    /\ spent' = [spent EXCEPT ![leg[l].id] = @ + 1]
    /\ UNCHANGED <<run, leg, row, charge, rebuild, rebuilds, lost, overlap, raced>>

\* The stream ends: _close_run.
End(l, outcome) ==
    /\ leg[l].at = "running"
    /\ leg' = [leg EXCEPT ![l].at = "ended", ![l].outcome = outcome]
    /\ run' = IF outcome = "parked" THEN "awaiting" ELSE "final"
    /\ UNCHANGED <<spent, row, charge, rebuild, rebuilds, lost, overlap, raced>>

\* Slip: every result is billable.
CreditsAnyway(id, result) == Least(spent[id], Cap)

\* eligible_usd_micro and credits_milli
Credits(id, result) == IF result = "success" THEN Least(spent[id], Cap) ELSE 0

\* close_request, which is also what links the row to the run.
Close(l) ==
    LET result == Result(leg[l].outcome)
    IN  /\ leg[l].at = "ended"
        /\ leg' = [leg EXCEPT ![l].at = "closed"]
        /\ Write(leg[l].id,
                 [stored |-> TRUE, result |-> result, linked |-> TRUE,
                  credits |-> Credits(leg[l].id, result)])
        /\ UNCHANGED <<run, spent, charge, rebuild, rebuilds, overlap, raced>>

\* settle_shadow_charge: at most one charge per request_id.
Settle(l) ==
    LET id == leg[l].id
    IN  /\ leg[l].at = "closed"
        /\ leg' = [leg EXCEPT ![l].at = "settled"]
        /\ \/ /\ charge' = IF charge[id] = 0
                           THEN [charge EXCEPT ![id] = row[id].credits]
                           ELSE charge
              /\ UNCHANGED lost
           \/ /\ row[id].credits > charge[id]
              /\ lost < MaxLost
              /\ lost' = lost + 1
              /\ UNCHANGED charge
        /\ UNCHANGED <<run, spent, row, rebuild, rebuilds, overlap, raced>>

-----------------------------------------------------------------------------
(* The next leg *)

\* The cost rows of the run.  The newest, which has the highest number, is taken.
Linked == {i \in Ids : row[i].linked}

\* Slip: every leg opens a request of its own.
DecideAfresh(l) ==
    /\ run = "awaiting"
    /\ l \in Legs
    /\ leg[l].at = "waiting" /\ (\A k \in 1..(l - 1) : leg[k].at # "waiting")
    /\ run' = "running"
    /\ overlap' = (overlap \/ leg[l - 1].at # "settled")
    /\ leg' = [leg EXCEPT ![l].at = "running", ![l].id = l]
    /\ Write(l, Opened)
    /\ UNCHANGED <<spent, charge, rebuild, rebuilds, raced>>

\* The decision claims the run; the leg rejoins the newest request linked to
\* it, or opens a fresh one.
Decide(l) ==
    /\ run = "awaiting"
    /\ l \in Legs
    /\ leg[l].at = "waiting" /\ (\A k \in 1..(l - 1) : leg[k].at # "waiting")
    /\ run' = "running"
    /\ overlap' = (overlap \/ leg[l - 1].at # "settled")
    /\ LET id == IF Linked = {} THEN l ELSE Max(Linked)
       IN  /\ leg' = [leg EXCEPT ![l].at = "running", ![l].id = id]
           /\ IF Linked = {} THEN Write(l, Opened) ELSE UNCHANGED <<row, lost>>
    /\ UNCHANGED <<spent, charge, rebuild, rebuilds, raced>>

-----------------------------------------------------------------------------
(* ai_cost_report --rebuild *)

\* The iterator fetches a row ...
FetchRow(id) ==
    /\ rebuild.at = "idle"
    /\ rebuilds < MaxRebuilds
    /\ row[id].stored
    /\ rebuilds' = rebuilds + 1
    /\ rebuild' = [at |-> "fetched", id |-> id, row |-> row[id]]
    /\ UNCHANGED <<run, leg, spent, row, charge, lost, overlap, raced>>

\* A leg of the request was streaming or settling, or did so since the row
\* was fetched.
Race ==
    raced' = (\/ raced
              \/ rebuild.row # row[rebuild.id]
              \/ \E l \in LegsOf(rebuild.id) : leg[l].at # "settled")

\* Slip: every row is derived again as a success.
DeriveSuccess ==
    /\ rebuild.at = "fetched"
    /\ rebuild' = NoBuild
    /\ row' = [row EXCEPT ![rebuild.id] =
                  [stored |-> TRUE, result |-> "success",
                   linked |-> rebuild.row.linked,
                   credits |-> Credits(rebuild.id, "success")]]
    /\ Race
    /\ UNCHANGED <<run, leg, spent, charge, rebuilds, lost, overlap>>

\* ... and derives it again under the result it had then, or as a success if
\* it had none.
DeriveRow ==
    LET result == IF rebuild.row.result = "none" THEN "success" ELSE rebuild.row.result
    IN  /\ rebuild.at = "fetched"
        /\ rebuild' = NoBuild
        /\ row' = [row EXCEPT ![rebuild.id] =
                      [stored |-> TRUE, result |-> result,
                       linked |-> rebuild.row.linked,
                       credits |-> Credits(rebuild.id, result)]]
        /\ Race
        /\ UNCHANGED <<run, leg, spent, charge, rebuilds, lost, overlap>>

-----------------------------------------------------------------------------
Next ==
    \/ \E l \in Legs : \/ Spend(l) \/ Close(l) \/ Settle(l) \/ Decide(l)
                       \/ \E o \in Outcomes : End(l, o)
    \/ \E i \in Ids : FetchRow(i)
    \/ DeriveRow

Spec == Init /\ [][Next]_vars

-----------------------------------------------------------------------------
(* Properties *)

Settled == \A l \in Legs : leg[l].at \in {"waiting", "settled"}

\* agent_views.py, decide: "a user is charged for one logical request however
\* many approval round-trips it takes".  Even when legs end up under several
\* request_ids, only one of them is charged.  Claimed as long as no rebuild races
\* with a leg: it makes a success of a row that was never closed.
OneChargePerAsk ==
    ~raced => \A i, j \in Ids : (charge[i] > 0 /\ charge[j] > 0) => i = j

AnsweredLegIsCharged(id) ==
    charge[id] > 0 => \E l \in LegsOf(id) : leg[l].outcome = "success"

\* models.py, AiRequestCost: "a failed request is not charged".  A charge has
\* a leg of its request that answered.  Claimed as long as no rebuild races
\* with a leg: it can turn a failure into a success before it is settled.
FailedWorkIsFree == ~raced => \A i \in Ids : AnsweredLegIsCharged(i)

\* What the ask owes once its last leg answered: all it spent, capped.
Owed == IF \E l \in Legs : leg[l].outcome = "success"
        THEN Least(MapThenSumSet(LAMBDA i : spent[i], Ids), Cap)
        ELSE 0

Charged == MapThenSumSet(LAMBDA i : charge[i], Ids)

\* Every leg started after the one before it was settled, no rebuild raced
\* with a leg, and no write was lost.
Orderly == ~overlap /\ ~raced /\ lost = 0

\* agent_views.py, decide: `_close_spend` derives the rollup "over both legs'
\* events", and spend_recorder.py, settle_shadow_charge: "the charge must match it
\* exactly".  The charge of a settled ask is the cost of all its legs, and the
\* statement shows it.  Claimed for orderly asks: a decision may overtake the
\* settlement of the leg it answers, which then is never charged, or overwrites a
\* row that was.
OrderlyAskIsCharged ==
    (Settled /\ Orderly) => Charged = Owed /\ \A i \in Ids : charge[i] = row[i].credits

\* models.py, AiRequestCost: the rollup is derived and can be derived again.
\* Deriving the row of a settled request that nobody wrote meanwhile changes
\* nothing, not even after a rebuild that raced with a leg.  A cancelled
\* worker may still add to the cost.
RebuildIsNoOp ==
    (/\ rebuild.at = "fetched" /\ rebuild'.at = "idle" /\ lost = 0
     /\ rebuild.row = row[rebuild.id]
     /\ \A l \in LegsOf(rebuild.id) :
           leg[l].at = "settled" /\ leg[l].outcome # "cancelled") => row' = row

RebuildChangesNothing == [][RebuildIsNoOp]_vars
=============================================================================
