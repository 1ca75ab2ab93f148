---------------------------- MODULE MemberSchedule ----------------------------
(***************************************************************************)
(* One schedule of one member and the ticks that run it.  schedule_tick    *)
(* lists what is due, claims a row by a guarded update, reads it again,    *)
(* runs its job and writes the outcome while its claim still stands; the   *)
(* member edits, pauses and deletes, moves to another zone, leaves the     *)
(* team.  Ticks overlap, die and outlive their claims.                     *)
(*                                                                         *)
(* Time is counted in units in which LateGrace and DayLength are whole.    *)
(* STALE_CLAIM is shorter than a unit: a claim ages at any moment.         *)
(***************************************************************************)
EXTENDS Integers, FiniteSetsExt

CONSTANTS
    Ticks,        \* processes of the cron
    Plans,        \* recurrences: the local days they match, and the hour
    Zones,        \* local time before and after one change of the clocks
    DayLength,
    LateGrace,    \* LATE_GRACE
    MaxFailures,  \* MAX_FAILURES
    MaxTime,      \* bound: the clock
    MaxEvents     \* bound: edits, moves, leaving the team, ticks that die or overrun

VARIABLES
    clock,
    row,      \* the MemberSchedule
    home,     \* the member's zone
    access,   \* an active member of the team
    tick,     \* tick -> its program point and what it has read
    filed,    \* run_at -> Inbox items that carry it
    events,
    ran,      \* moments ticks ran the job for (history)
    loose,    \* moments whose claim was taken away or aged, or that a change of
              \* zone may schedule again (history)
    told      \* an outcome was recorded since the member planned it (history)

history == <<ran, loose, told>>

vars == <<clock, row, home, access, tick, filed, events, history>>

-----------------------------------------------------------------------------
(* next_run_after *)

None == -1

\* The wall clock of zone z at instant t.
Wall(z, t) == t + (IF t < z.switch THEN z.before ELSE z.after)

\* What zoneinfo takes as the offset of a local time, by fold.
Offset(z, local, fold) ==
    LET edges == {z.switch + z.before, z.switch + z.after}
    IN IF local < (IF fold = 0 THEN Max(edges) ELSE Min(edges))
       THEN z.before ELSE z.after

\* A time that does not exist: the first instant past the gap.
LocalToUtc(z, local) ==
    LET first == local - Offset(z, local, 0)
        probe == local - Offset(z, local, 1)
    IN IF Wall(z, first) = local
       THEN first
       ELSE Min({t \in probe..(probe + DayLength) : Wall(z, t) >= local})

Moments(plan, z) == {LocalToUtc(z, d * DayLength + plan.hour) : d \in plan.days}

Earliest(S) == IF S = {} THEN None ELSE Min(S)

NextRunAfter(plan, after, z) == Earliest({m \in Moments(plan, z) : m > after})

\* Slip: the next run counts from now.
AdvanceFromNow(plan, run, now, z) == NextRunAfter(plan, now, z)

\* _advance: from the scheduled time, past what is too old to run.
Advance(plan, run, now, z) ==
    Earliest({m \in Moments(plan, z) : m > run /\ m + LateGrace > now})

AllMoments == UNION {Moments(plan, z) : plan \in Plans, z \in Zones}

NoOne == "no one"

ASSUME ScheduleAssumption ==
    /\ {DayLength, LateGrace, MaxTime, MaxEvents} \subseteq Nat
    /\ MaxFailures \in Nat \ {0}
    /\ AllMoments \subseteq Nat
    /\ Plans # {}
    /\ NoOne \notin Ticks

-----------------------------------------------------------------------------
Unclaimed == [by |-> NoOne, aged |-> FALSE]

Idle == [at |-> "idle"]

TypeOK ==
    /\ clock \in 0..MaxTime
    /\ row \in [state : {"new", "live", "deleted"}, enabled : BOOLEAN,
                plan : Plans, tz : Zones, next : AllMoments \cup {None},
                claim : [by : Ticks \cup {NoOne}, aged : BOOLEAN],
                fails : 0..MaxFailures]
    /\ row.claim # Unclaimed => row.enabled /\ row.claim.by # NoOne
    /\ ~row.enabled => row.next = None
    /\ row.enabled => row.fails < MaxFailures
    /\ home \in Zones
    /\ access \in BOOLEAN
    /\ \A p \in Ticks :
           tick[p].at \in {"idle", "listed", "claiming", "claimed", "running", "filing", "done"}
    /\ filed \in [AllMoments -> Nat]
    /\ events \in 0..MaxEvents

Init ==
    /\ clock = 0
    /\ home \in Zones
    /\ row = [state |-> "new", enabled |-> FALSE, plan |-> CHOOSE plan \in Plans : TRUE,
              tz |-> home, next |-> None, claim |-> Unclaimed, fails |-> 0]
    /\ access = TRUE
    /\ tick = [p \in Ticks |-> Idle]
    /\ filed = [m \in AllMoments |-> 0]
    /\ events = 0
    /\ ran = {}
    /\ loose = {}
    /\ told = FALSE

-----------------------------------------------------------------------------
(* The row lock of a delivery; every other write of the row waits for it *)

\* Slip: a delivery locks nothing.
NoLock == TRUE

Unlocked == \A q \in Ticks : tick[q].at # "filing"

-----------------------------------------------------------------------------
(* The member *)

\* An edit takes over a run in progress.
Release(r) == [r EXCEPT !.claim = Unclaimed]

Event == events < MaxEvents /\ events' = events + 1

\* A tick that has read the schedule has read an old one (history).
Overtaken(p) ==
    IF tick[p].at \in {"running", "done"} THEN [tick[p] EXCEPT !.old = TRUE] ELSE tick[p]

\* The schedule after the member's change r.
Edited(r) ==
    /\ row.state = "live"
    /\ Unlocked
    /\ Event
    /\ row' = Release(r)
    /\ tick' = [p \in Ticks |-> Overtaken(p)]
    /\ loose' = IF row.claim = Unclaimed THEN loose ELSE loose \cup {row.next}
    /\ UNCHANGED <<clock, home, access, filed, ran>>

FirstRun(plan) == NextRunAfter(plan, clock, home)

Create(plan) ==
    /\ access
    /\ row.state = "new"
    /\ FirstRun(plan) # None
    /\ row' = [row EXCEPT !.state = "live", !.enabled = TRUE, !.plan = plan,
                          !.tz = home, !.next = FirstRun(plan)]
    /\ told' = FALSE
    /\ UNCHANGED <<clock, home, access, tick, filed, events, ran, loose>>

\* update, with a new recurrence.
Reschedule(plan) ==
    /\ access
    /\ IF row.enabled
       THEN /\ FirstRun(plan) # None
            /\ Edited([row EXCEPT !.plan = plan, !.tz = home, !.next = FirstRun(plan)])
       ELSE Edited([row EXCEPT !.plan = plan])
    /\ told' = FALSE

\* update, of the name, the job or the push.
Rename ==
    /\ access
    /\ Edited(row)
    /\ UNCHANGED <<told>>

Pause ==
    /\ access
    /\ Edited([row EXCEPT !.enabled = FALSE, !.next = None])
    /\ UNCHANGED <<told>>

Resume ==
    /\ access
    /\ FirstRun(row.plan) # None
    /\ Edited([row EXCEPT !.enabled = TRUE, !.tz = home, !.fails = 0,
                          !.next = FirstRun(row.plan)])
    /\ told' = FALSE

\* delete asks for no membership.
Delete ==
    /\ Edited([row EXCEPT !.state = "deleted"])
    /\ UNCHANGED <<told>>

Trip == Event /\ UNCHANGED <<clock, row, tick, filed, history>>

Move(z) == home # z /\ home' = z /\ Trip /\ UNCHANGED access

LeaveOrJoin == access' = ~access /\ Trip /\ UNCHANGED home

-----------------------------------------------------------------------------
(* The tick *)

Goes(p, now) == tick' = [tick EXCEPT ![p] = now]

\* Slip: nobody takes over a claim that aged.
UnclaimedOnly == row.claim = Unclaimed

\* Slip: a claim keeps nobody out.
NeverClaimed == TRUE

\* _unclaimed
Claimable == row.claim = Unclaimed \/ row.claim.aged

\* The rest of the condition of due_schedules and _claim.
Due(now) ==
    row.state = "live" /\ row.enabled /\ row.next # None /\ row.next <= now

\* due_schedules: the tick's `now`, and the row and the user as they are.
List(p) ==
    /\ tick[p].at = "idle"
    /\ Due(clock)
    /\ Claimable
    /\ Goes(p, [at |-> IF row.tz = home THEN "claiming" ELSE "listed",
                now |-> clock, zone |-> home, tz |-> row.tz, plan |-> row.plan])
    /\ UNCHANGED <<clock, row, home, access, filed, events, history>>

\* The moments whose job ran or runs (history).
Taken == ran \cup {tick[p].run : p \in {q \in Ticks : tick[q].at = "running"}}

\* _recompute_zone: by the recurrence it read, guarded by the zone it read, whoever
\* holds the claim.
Rezone(p) ==
    /\ tick[p].at = "listed"
    /\ IF row.state = "live" /\ row.enabled /\ row.tz = tick[p].tz
       THEN LET fresh == NextRunAfter(tick[p].plan, tick[p].now - LateGrace, tick[p].zone)
            IN /\ Unlocked
               /\ row' = [row EXCEPT !.next = fresh, !.tz = tick[p].zone]
               /\ loose' = loose \cup {m \in Taken : fresh # None /\ fresh <= m}
               /\ Goes(p, IF fresh = None \/ fresh > tick[p].now
                          THEN Idle ELSE [tick[p] EXCEPT !.at = "claiming"])
       ELSE Goes(p, Idle) /\ UNCHANGED <<row, loose>>
    /\ UNCHANGED <<clock, home, access, filed, events, ran, told>>

\* _claim
Claim(p) ==
    /\ tick[p].at = "claiming"
    /\ IF Due(tick[p].now) /\ Claimable
       THEN /\ Unlocked
            /\ row' = [row EXCEPT !.claim = [by |-> p, aged |-> FALSE]]
            /\ Goes(p, [at |-> "claimed", now |-> tick[p].now,
                        zone |-> tick[p].zone, due |-> row.next])
       ELSE Goes(p, Idle) /\ UNCHANGED row
    /\ UNCHANGED <<clock, home, access, filed, events, history>>

\* Slip: lateness is not looked at.
NeverLate(p) == FALSE

Late(p) == tick[p].now - row.next > LateGrace

\* _process reads the row again and decides.  A row without a next run (paused
\* since the claim) raises; the tick reports it and goes on.
Fetch(p) ==
    /\ tick[p].at = "claimed"
    /\ Goes(p,
           IF row.state = "deleted" \/ (access /\ row.next = None) THEN Idle
           ELSE LET read == [at |-> "running", now |-> tick[p].now, zone |-> tick[p].zone,
                             run |-> row.next, fails |-> row.fails, old |-> FALSE,
                             moved |-> row.next # tick[p].due, status |-> "",
                             next |-> IF row.next = None THEN None
                                      ELSE Advance(row.plan, row.next, tick[p].now, tick[p].zone)]
                IN IF ~access THEN [read EXCEPT !.at = "done", !.status = "skipped_access"]
                   ELSE IF Late(p) THEN [read EXCEPT !.at = "done", !.status = "skipped_late"]
                   ELSE read)
    /\ loose' = IF row.claim = [by |-> p, aged |-> FALSE] /\ row.next = tick[p].due
                THEN loose ELSE loose \cup {row.next}
    /\ UNCHANGED <<clock, row, home, access, filed, events, ran, told>>

\* deliver: an item for this run_at is there.
Repeats(run) == filed[run] > 0

Done(p, status) == [tick[p] EXCEPT !.at = "done", !.status = status]

\* _execute: the job fails.
Fail(p) ==
    /\ tick[p].at = "running"
    /\ ran' = ran \cup {tick[p].run}
    /\ Goes(p, Done(p, "failed"))
    /\ UNCHANGED <<clock, row, home, access, filed, events, loose, told>>

\* deliver: the job is done and its report looked for under the lock of the row,
\* unless the row is gone.
Deliver(p) ==
    /\ tick[p].at = "running"
    /\ row.state = "live" => Unlocked
    /\ ran' = ran \cup {tick[p].run}
    /\ Goes(p, IF row.state = "live" /\ ~Repeats(tick[p].run)
               THEN [tick[p] EXCEPT !.at = "filing"] ELSE Done(p, "ok"))
    /\ UNCHANGED <<clock, row, home, access, filed, events, loose, told>>

\* The transaction of the job and the delivery commits, or fails as a whole.
File(p, status) ==
    /\ tick[p].at = "filing"
    /\ filed' = IF status = "ok" THEN [filed EXCEPT ![tick[p].run] = @ + 1] ELSE filed
    /\ Goes(p, Done(p, status))
    /\ UNCHANGED <<clock, row, home, access, events, history>>

\* Slip: the outcome is written by primary key.
MineByKey(p) == row.state = "live"

\* The condition of _finish.
Mine(p) == row.state = "live" /\ row.claim.by = p

\* What _process hands to _finish.
Outcome(p) ==
    LET t == tick[p]
        paused == [Release(row) EXCEPT !.enabled = FALSE, !.next = None]
        moved == [Release(row) EXCEPT !.next = t.next, !.tz = t.zone]
    IN CASE t.status = "skipped_access" -> paused
         [] t.status = "skipped_late" -> moved
         [] t.status = "ok" -> [moved EXCEPT !.fails = 0]
         [] t.status = "failed" /\ t.fails + 1 < MaxFailures ->
                [moved EXCEPT !.fails = t.fails + 1]
         [] OTHER -> [paused EXCEPT !.fails = t.fails + 1, !.tz = t.zone]

Finish(p) ==
    /\ tick[p].at = "done"
    /\ IF Mine(p)
       THEN /\ Unlocked
            /\ row' = Outcome(p)
            /\ told' = TRUE
       ELSE UNCHANGED <<row, told>>
    /\ Goes(p, Idle)
    /\ UNCHANGED <<clock, home, access, filed, events, ran, loose>>

Die(p) ==
    /\ tick[p].at # "idle"
    /\ Event
    /\ Goes(p, Idle)
    /\ UNCHANGED <<clock, row, home, access, filed, history>>

Held == row.claim # Unclaimed /\ tick[row.claim.by].at \in {"claimed", "running", "filing", "done"}

\* STALE_CLAIM has passed.
Age ==
    /\ row.claim # Unclaimed
    /\ row' = [row EXCEPT !.claim.aged = TRUE]
    /\ loose' = loose \cup {row.next}
    /\ UNCHANGED <<clock, home, access, tick, filed, ran, told>>

\* The claim of a tick that died.
ClaimAges == ~Held /\ Age /\ UNCHANGED events

\* A job that outlives the claim of its tick.
Overrun == Held /\ Age /\ Event

\* A unit is long for a tick (run_due has four minutes) and for a job.
Pass ==
    /\ clock < MaxTime
    /\ \A p \in Ticks : tick[p].at = "idle"
    /\ clock' = clock + 1
    /\ UNCHANGED <<row, home, access, tick, filed, events, history>>

-----------------------------------------------------------------------------
Member ==
    \/ \E plan \in Plans : Create(plan) \/ Reschedule(plan)
    \/ Rename \/ Pause \/ Resume \/ Delete
    \/ \E z \in Zones : Move(z)
    \/ LeaveOrJoin

Execute(p) == Fail(p) \/ Deliver(p) \/ \E status \in {"ok", "failed"} : File(p, status)

Proceed(p) == Rezone(p) \/ Claim(p) \/ Fetch(p) \/ Execute(p) \/ Finish(p)

Next ==
    \/ Member
    \/ \E p \in Ticks : List(p) \/ Proceed(p) \/ Die(p)
    \/ ClaimAges \/ Overrun
    \/ Pass

Spec == Init /\ [][Next]_vars

\* The cron keeps firing, a tick that lives goes on, and claims age.
FairSpec ==
    /\ Spec
    /\ \A p \in Ticks : WF_vars(List(p)) /\ WF_vars(Proceed(p))
    /\ WF_vars(ClaimAges)

-----------------------------------------------------------------------------
(* Properties *)

\* Tick p runs the job of its moment.
Runs(p) == tick[p].at = "running" /\ tick'[p].at \in {"filing", "done"}

\* "A due run happens at most once": a second job for one moment needs a claim
\* that aged or that the member's edit took away, or a change of zone.
RunsOnce == [][\A p \in Ticks : Runs(p) => (tick[p].run \in ran => tick[p].run \in loose)]_vars

\* However often a run is repeated, and however close two deliveries of it are,
\* its report is filed once.
OneReportPerRun == \A m \in AllMoments : filed[m] <= 1

\* A tick runs a job at or after its moment and no later than the grace allows.
RunIsTimely(p) == tick[p].run <= tick[p].now /\ tick[p].now <= tick[p].run + LateGrace

\* No job is run early or too late, unless the next run was changed between the
\* claim and the second read.
RunsWhenDue ==
    [][\A p \in Ticks :
          Runs(p) => tick[p].moved \/ RunIsTimely(p)]_vars

\* What the member changed while a job ran stands: the outcome of a tick that
\* read an older schedule is not written.
MemberHasTheLastWord ==
    [][\A p \in Ticks :
          tick[p].at = "done" /\ tick'[p].at = "idle" /\ tick[p].old => row' = row]_vars

\* An outcome moves the schedule past its own moment and past those too old to
\* run when the tick came, and past no other.  Claimed unless a change of zone
\* moved the schedule since the tick read it: the outcome then overwrites it.
NoMomentIsDropped ==
    [][\A p \in Ticks :
          /\ tick[p].at = "done" /\ tick'[p].at = "idle"
          /\ row' # row /\ row'.enabled
          /\ row.tz = tick[p].zone /\ row.next = tick[p].run
          => \A m \in Moments(row.plan, row.tz) :
                row.next <= m /\ (row'.next = None \/ m < row'.next)
                => m = tick[p].run \/ m + LateGrace <= tick[p].now]_vars

\* A run that is due is handled, skipped or taken back, whatever dies.
DueRunIsHandled == Due(clock) ~> ~Due(clock)

\* "Null when the schedule is paused or a one-off has run."
NullMeansPausedOrRun ==
    row.state = "live" /\ row.next = None => ~row.enabled \/ told

=============================================================================
