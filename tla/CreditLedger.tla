---------------------------- MODULE CreditLedger ----------------------------
(***************************************************************************)
(* The AI credit ledger of one user: an append-only table of grants,       *)
(* charges and reversals, and the two buckets that are sums over it.       *)
(*                                                                         *)
(* A row's identity stands for the partial unique constraint it falls      *)
(* under: (period, plan) for a monthly grant, the request for a charge,    *)
(* the checkout session for a pack.  Inserting a row whose identity is     *)
(* taken is the IntegrityError the code relies on.                         *)
(*                                                                         *)
(* A balance read materialises the month's grant before it sums.  A read   *)
(* that hits the 60 s cache does nothing to the table and is left out.     *)
(***************************************************************************)
EXTENDS Integers, FiniteSets, FiniteSetsExt

CONSTANTS
    Plans,
    Entitlement,    \* plan -> credits of its monthly grant
    Readers,        \* requests that read the balance
    Requests,       \* AI requests that settle a charge
    Costs,          \* credits one request may cost
    Packs,          \* checkout sessions that bought a credit pack
    PackSize,
    Buyers,         \* webhook deliveries and reconciles that grant a pack
    Operators,      \* runs of ai_credit_grant
    Gift,           \* credits of a manual grant
    NoRef,          \* ref_id NULL
    LastMonth       \* bound: months

ASSUME LedgerAssumption ==
    /\ Entitlement \in [Plans -> Nat]
    /\ Costs \subseteq Nat \ {0}
    /\ PackSize \in Nat \ {0}
    /\ Gift \in Nat \ {0}
    /\ LastMonth \in Nat \ {0}
    /\ Packs \cap Operators = {}

VARIABLES
    month,      \* the current period
    told,       \* plans the user has had, and requests may hold for the user
    ledger,     \* the AiCreditEntry rows
    reader,     \* reader -> its program point and what it has read
    buyer,      \* buyer -> its program point and what it has read
    operator,   \* operator -> its program point and the entry it reverses
    since,      \* buyer -> credits charged, or taken back by a reversal, since
                \* it began to read the debt (history)
    crossed     \* two readers of a month were on their way with different plans
                \* (history)

vars == <<month, told, ledger, reader, buyer, operator, since, crossed>>

Months == 1..LastMonth

\* A row; `ref` is the row a reversal points at.
Row(type, kind, id, period, credits) ==
    [type |-> type, kind |-> kind, id |-> id, period |-> period,
     credits |-> credits, ref |-> NoRef]

Total(rows)  == MapThenSumSet(LAMBDA r : r.credits, rows)

\* uq_credit_charge_per_request, uq_credit_grant_per_external_ref
Posted(type, kind, id) ==
    \E r \in ledger : r.type = type /\ r.kind = kind /\ r.id = id

Idle == [at |-> "idle"]

TypeOK ==
    /\ month \in Months
    /\ told \subseteq Plans
    /\ \A r \in ledger :
           /\ r.type \in {"grant", "charge", "reversal"}
           /\ r.kind \in {"monthly", "manual", "purchased", "none"}
           /\ r.period \in Months
           /\ r.credits \in Int \ {0}
           /\ r.type = "grant" => r.credits > 0
           /\ r.type = "charge" => r.credits < 0 /\ r.kind = "none"
    /\ \A r \in Readers : reader[r].at \in {"idle", "looked", "summed"}
    /\ \A b \in Buyers : buyer[b].at \in {"idle", "counted", "dated", "owes"}
    /\ \A o \in Operators : operator[o].at \in {"idle", "checked", "ended"}
    /\ since \in [Buyers -> Nat]
    /\ crossed \in BOOLEAN

Init ==
    /\ month = 1
    /\ told \in {{p} : p \in Plans}
    /\ ledger = {}
    /\ reader = [r \in Readers |-> Idle]
    /\ buyer = [b \in Buyers |-> Idle]
    /\ operator = [o \in Operators |-> Idle]
    /\ since = [b \in Buyers |-> 0]
    /\ crossed = FALSE

-----------------------------------------------------------------------------
(* The buckets, as balance_breakdown derives them *)

\* _pool_delta_milli: everything of a period that was not bought.
Pool(rows, p) == Total({r \in rows : r.period = p /\ r.kind # "purchased"})

Bought(rows) == {r \in rows : r.kind = "purchased"}

FirstPeriod(rows) == Min({r.period : r \in Bought(rows)})

\* Slip: every charge is taken from the packs.
OverspendGross(rows, first) ==
    -Total({r \in rows : r.type = "charge" /\ r.period >= first})

\* What the periods from `first` on cost beyond their own allowance.
OverspendFrom(rows, first) ==
    MapThenSumSet(LAMBDA p : IF Pool(rows, p) < 0 THEN -Pool(rows, p) ELSE 0,
                  {p \in Months : p >= first})

Floor(n) == IF n > 0 THEN n ELSE 0

\* _purchased_remaining_milli
Purchased(rows) ==
    IF Total(Bought(rows)) <= 0 THEN 0
    ELSE Floor(Total(Bought(rows)) - OverspendFrom(rows, FirstPeriod(rows)))

Balance(rows, p) == Floor(Pool(rows, p)) + Purchased(rows)

\* _pre_purchase_debt_milli
Debt(rows, p) ==
    LET first == IF Bought(rows) = {} THEN p ELSE FirstPeriod(rows)
    IN  Floor(OverspendFrom(rows, first) - Total(Bought(rows)))

-----------------------------------------------------------------------------
(* ensure_monthly_grant, run by a balance read *)

Granted(p) == {r \in ledger : /\ r.type = "grant" /\ r.kind = "monthly"
                              /\ r.period = p}

\* Is there a grant for plan p?  The caller has p from get_effective_tier, whose
\* answer is cached for 60 s, and has held it for as long as it took to get here:
\* any plan the user was told to have, not the one in force.
Look(r, p) ==
    /\ reader[r].at = "idle"
    /\ p \in told
    /\ ~\E g \in Granted(month) : g.id = p
    /\ reader' = [reader EXCEPT ![r] =
                     [at |-> "looked", plan |-> p, period |-> month]]
    /\ crossed' = (crossed \/ \E s \in Readers : /\ reader[s].at # "idle"
                                                 /\ reader[s].period = month
                                                 /\ reader[s].plan # p)
    /\ UNCHANGED <<month, told, ledger, buyer, operator, since>>

\* Slip: a downgrade claws back.
SumAlways(r) ==
    /\ reader[r].at = "looked"
    /\ reader' = [reader EXCEPT ![r] =
                     [at |-> "summed", plan |-> reader[r].plan,
                      period |-> reader[r].period,
                      delta |-> Entitlement[reader[r].plan]
                                    - Total(Granted(reader[r].period))]]
    /\ UNCHANGED <<month, told, ledger, buyer, operator, since, crossed>>

\* How much is missing?  Nothing, after a downgrade.
SumGrants(r) ==
    LET delta == Entitlement[reader[r].plan] - Total(Granted(reader[r].period))
    IN  /\ reader[r].at = "looked"
        /\ reader' = [reader EXCEPT ![r] =
                         IF delta <= 0 THEN Idle
                         ELSE [at |-> "summed", plan |-> reader[r].plan,
                               period |-> reader[r].period, delta |-> delta]]
        /\ UNCHANGED <<month, told, ledger, buyer, operator, since, crossed>>

\* Slip: without uq_credit_monthly_grant the second row is stored too.
PostGrantTwice(r) ==
    /\ reader[r].at = "summed"
    /\ ledger' = ledger \cup
           {[Row("grant", "monthly", reader[r].plan, reader[r].period,
                 reader[r].delta) EXCEPT !.ref = r]}
    /\ reader' = [reader EXCEPT ![r] = Idle]
    /\ UNCHANGED <<month, told, buyer, operator, since, crossed>>

\* uq_credit_monthly_grant refuses the row if the plan got its grant meanwhile.
PostGrant(r) ==
    LET taken == \E g \in Granted(reader[r].period) : g.id = reader[r].plan
    IN  /\ reader[r].at = "summed"
        /\ ledger' = IF taken THEN ledger
                     ELSE ledger \cup
                          {Row("grant", "monthly", reader[r].plan,
                               reader[r].period, reader[r].delta)}
        /\ reader' = [reader EXCEPT ![r] = Idle]
        /\ UNCHANGED <<month, told, buyer, operator, since, crossed>>

-----------------------------------------------------------------------------
(* Charges *)

\* `cost` credits are gone.
Spend(cost) ==
    since' = [b \in Buyers |-> since[b] + (IF buyer[b].at # "idle" THEN cost ELSE 0)]

\* post_charge, stamped with the period the request ran in: this month or, if it
\* settles late, one before.  A second call for the request is refused and changes
\* nothing.
PostCharge(q, period, cost) ==
    /\ period <= month
    /\ ~Posted("charge", "none", q)
    /\ ledger' = ledger \cup {Row("charge", "none", q, period, -cost)}
    /\ Spend(cost)
    /\ UNCHANGED <<month, told, reader, buyer, operator, crossed>>

-----------------------------------------------------------------------------
(* Credit packs *)

\* post_purchase reads the debt before the transaction that grants the pack, by
\* three queries: how much was bought ...
CountBought(b, pack) ==
    /\ buyer[b].at = "idle"
    /\ buyer' = [buyer EXCEPT ![b] =
                    [at |-> "counted", pack |-> pack, period |-> month,
                     bought |-> Total(Bought(ledger))]]
    /\ UNCHANGED <<month, told, ledger, reader, operator, since, crossed>>

\* ... since when, ...
DateBought(b) ==
    /\ buyer[b].at = "counted"
    /\ buyer' = [buyer EXCEPT ![b] =
                    [at |-> "dated", pack |-> buyer[b].pack, period |-> buyer[b].period,
                     bought |-> buyer[b].bought,
                     first |-> IF Bought(ledger) = {} THEN buyer[b].period
                               ELSE FirstPeriod(ledger)]]
    /\ UNCHANGED <<month, told, ledger, reader, operator, since, crossed>>

\* ... and what was overspent from then on.
ReadDebt(b) ==
    /\ buyer[b].at = "dated"
    /\ buyer' = [buyer EXCEPT ![b] =
                    [at |-> "owes", pack |-> buyer[b].pack, period |-> buyer[b].period,
                     first |-> buyer[b].first,
                     debt |-> Floor(OverspendFrom(ledger, buyer[b].first)
                                        - buyer[b].bought)]]
    /\ UNCHANGED <<month, told, ledger, reader, operator, since, crossed>>

\* Slip: the overshoot is not absorbed.
PackRowAlone(b) ==
    {Row("grant", "purchased", buyer[b].pack, buyer[b].period, PackSize)}

PackRows(b) ==
    {Row("grant", "purchased", buyer[b].pack, buyer[b].period, PackSize)}
        \cup IF buyer[b].debt > 0
             THEN {Row("grant", "manual", buyer[b].pack, buyer[b].period,
                       buyer[b].debt)}
             ELSE {}

\* One transaction; uq_credit_grant_per_external_ref undoes a redelivery.
PostPurchase(b) ==
    LET taken == Posted("grant", "purchased", buyer[b].pack)
    IN  /\ buyer[b].at = "owes"
        /\ ledger' = IF taken THEN ledger ELSE ledger \cup PackRows(b)
        /\ buyer' = [buyer EXCEPT ![b] = Idle]
        /\ since' = [since EXCEPT ![b] = 0]
        /\ UNCHANGED <<month, told, reader, operator, crossed>>

-----------------------------------------------------------------------------
(* Operators *)

\* post_manual
PostManual(o) ==
    /\ operator[o].at = "idle"
    /\ ledger' = ledger \cup {Row("grant", "manual", o, month, Gift)}
    /\ operator' = [operator EXCEPT ![o] = [at |-> "ended"]]
    /\ UNCHANGED <<month, told, reader, buyer, since, crossed>>

\* reverse_entry: not a reversal, and not reversed yet ...
CheckReversal(o, e) ==
    /\ operator[o].at = "idle"
    /\ e.type # "reversal"
    /\ ~\E r \in ledger : r.type = "reversal" /\ r.ref = e
    /\ operator' = [operator EXCEPT ![o] = [at |-> "checked", entry |-> e]]
    /\ UNCHANGED <<month, told, ledger, reader, buyer, since, crossed>>

\* ... then its negation is posted.
PostReversal(o) ==
    LET e == operator[o].entry
    IN  /\ operator[o].at = "checked"
        /\ ledger' = ledger \cup
               {[type |-> "reversal", kind |-> e.kind, id |-> o,
                 period |-> e.period, credits |-> -e.credits, ref |-> e]}
        /\ Spend(Floor(e.credits))
        /\ operator' = [operator EXCEPT ![o] = [at |-> "ended"]]
        /\ UNCHANGED <<month, told, reader, buyer, crossed>>

-----------------------------------------------------------------------------
NextMonth ==
    /\ month < LastMonth
    /\ month' = month + 1
    /\ UNCHANGED <<told, ledger, reader, buyer, operator, since, crossed>>

\* A subscription starts, ends or changes, or a team mate pays.  Whoever was told
\* the plan before may hold it still: the cached tier is dropped as an afterthought,
\* and not by a change of membership.  A return to an earlier plan tells nothing new.
MovePlan(p) ==
    /\ p \notin told
    /\ told' = told \cup {p}
    /\ UNCHANGED <<month, ledger, reader, buyer, operator, since, crossed>>

Next ==
    \/ \E r \in Readers :
           (\E p \in Plans : Look(r, p)) \/ SumGrants(r) \/ PostGrant(r)
    \/ \E q \in Requests, period \in Months, cost \in Costs :
           PostCharge(q, period, cost)
    \/ \E b \in Buyers :
           \/ \E pack \in Packs : CountBought(b, pack)
           \/ DateBought(b) \/ ReadDebt(b) \/ PostPurchase(b)
    \/ \E o \in Operators :
           \/ PostManual(o)
           \/ \E e \in ledger : CheckReversal(o, e)
           \/ PostReversal(o)
    \/ NextMonth
    \/ \E p \in Plans : MovePlan(p)

Spec == Init /\ [][Next]_vars

-----------------------------------------------------------------------------
(* Properties *)

\* The grants of a month add up to the best plan that was granted in it: an
\* upgrade adds the difference, a downgrade and a plan that was true a minute ago
\* take nothing and add nothing, and reads that race for a grant of the month post
\* it once.  They never add up to less.  More is excluded as long as no two reads
\* of a month are between check and insert with different plans, as the cached tier
\* lets them be: uq_credit_monthly_grant is per plan, so both post in full.
MonthlyGrantFitsPlan ==
    \A p \in Months :
        Granted(p) # {} =>
            LET best == Max({Entitlement[g.id] : g \in Granted(p)})
            IN  /\ Total(Granted(p)) >= best
                /\ ~crossed => Total(Granted(p)) = best

\* A charge takes the allowance of its month first and the purchased credits
\* only for what is left of it, and costs the user no more than its amount.
\* It may cost less: an expired allowance pays for a request that settles
\* late, and an empty bucket is not owed.
SpendsMonthlyFirst ==
    \A r \in ledger' \ ledger :
        r.type = "charge" =>
            /\ Pool(ledger', r.period) >= 0
                   => Purchased(ledger') = Purchased(ledger)
            /\ Balance(ledger', month) >= Balance(ledger, month) + r.credits

MonthlyFirst == [][SpendsMonthlyFirst]_vars

\* The step in which b's pack is granted.
Grants(b) ==
    /\ buyer[b].at = "owes"
    /\ buyer'[b].at = "idle"
    /\ ledger' # ledger

\* b's debt has not moved since it was read ...
DebtIsCurrent(b) == Debt(ledger, buyer[b].period) = buyer[b].debt

\* ... and none of it stems from the months before.
OwesThisMonthOnly(b) ==
    Debt({r \in ledger : r.period < buyer[b].period \/ r \in Bought(ledger)},
         buyer[b].period) = 0

\* The debt grew since by no more than what was charged or taken back: another
\* pack, bought in an earlier month and granted meanwhile, uncovers older debt.  Nor
\* did b find, the month having ended between its queries, a first pack of the month
\* after the one it grants in.
NothingUncovered(b) ==
    /\ Debt(ledger, buyer[b].period) <= buyer[b].debt + since[b]
    /\ buyer[b].first <= buyer[b].period

\* A pack raises what the user can spend this month by its size, whatever
\* was overspent before; at most what was charged or taken back after the debt was
\* read is missing.  Claimed unless the month changed between the read of an
\* older debt and the grant: the row that absorbs it is allowance of the month
\* that is over.
PackRaisesBalance(b) ==
    month = buyer[b].period \/ OwesThisMonthOnly(b)
    => Balance(ledger', month) >= Balance(ledger, month) + PackSize - since[b]

\* credit_ledger.py, _pre_purchase_debt_milli: spending of an earlier pack
\* "must not be handed back to them when they buy again".  Claimed for a
\* debt that has not moved since it was read and is this month's: the row
\* that absorbs an older one is spendable allowance of the current month.
NothingHandedBack(b) ==
    DebtIsCurrent(b) /\ OwesThisMonthOnly(b) =>
        Balance(ledger', month) <= Balance(ledger, month) + PackSize

PackFillsBucket(b) ==
    Purchased(ledger') >= Purchased(ledger) + PackSize - since[b]

\* A pack is worth its size to the user, no less and no more, and fills the bucket
\* that does not expire if the debt is of the month of the purchase: however
\* many deliveries of however many packs race.  No less is claimed where nothing
\* older was uncovered since the debt was read.
PackIsWorthItsSize ==
    [][\A b \in Buyers :
           Grants(b) =>
               /\ NothingUncovered(b) =>
                      /\ PackRaisesBalance(b)
                      /\ OwesThisMonthOnly(b) => PackFillsBucket(b)
               /\ NothingHandedBack(b)]_vars

\* credit_ledger.py, _pre_purchase_debt_milli: "Buying 100 has to give 100".
\* The bucket that does not expire holds the whole pack, whatever the user
\* owed, and since when.
PackArrivesWhole == [][\A b \in Buyers : Grants(b) => PackFillsBucket(b)]_vars
=============================================================================
