------------------------- MODULE MemberScheduleProofs -------------------------
(***************************************************************************)
(* One schedule, for any number of ticks and failures, any plans, zones    *)
(* and lengths of time: the row keeps its type, a report is filed once, a  *)
(* job runs when it is due and once, no moment is dropped, and the         *)
(* member's change outlasts the outcome.                                   *)
(***************************************************************************)
EXTENDS MemberSchedule, WellFoundedInduction, TLAPS

MaybeMoment == AllMoments \cup {None}

RowType ==
    [state : {"new", "live", "deleted"}, enabled : BOOLEAN, plan : Plans,
     tz : Zones, next : MaybeMoment,
     claim : [by : Ticks \cup {NoOne}, aged : BOOLEAN], fails : 0..MaxFailures]

\* What a schedule is at any time: TypeOK's part on the row.
RowOK(r) ==
    /\ r \in RowType
    /\ r.claim # Unclaimed => r.enabled /\ r.claim.by # NoOne
    /\ ~r.enabled => r.next = None
    /\ r.enabled => r.fails < MaxFailures
    /\ r.state = "new" => r.fails = 0

Looking ==
    [at : {"listed", "claiming"}, now : 0..MaxTime, zone : Zones, tz : Zones, plan : Plans]

Holding == [at : {"claimed"}, now : 0..MaxTime, zone : Zones, due : AllMoments]

Working ==
    [at : {"running", "filing", "done"}, now : 0..MaxTime, zone : Zones, run : MaybeMoment,
     fails : 0..MaxFailures, old : BOOLEAN, moved : BOOLEAN,
     status : {"", "ok", "failed", "skipped_access", "skipped_late"}, next : MaybeMoment]

\* A claimed moment has come; a job that runs has a moment, which is its time,
\* and failures left; a job that is done has an outcome.
TickOK(t) ==
    /\ t \in {Idle} \cup Looking \cup Holding \cup Working
    /\ t.at = "claimed" => t.due <= t.now
    /\ t.at \in {"running", "filing"} =>
          /\ t.run \in AllMoments
          /\ t.fails < MaxFailures
          /\ t.moved \/ (t.run <= t.now /\ t.now <= t.run + LateGrace)
    /\ t.at = "done" => /\ t.status # ""
                        /\ t.status = "failed" => t.fails < MaxFailures

Old(t) == t.at \in {"running", "filing", "done"} /\ t.old

\* A delivery that holds the row has found no report of its run, and is alone.
Delivering ==
    \A p \in Ticks : tick[p].at = "filing" =>
        /\ filed[tick[p].run] = 0
        /\ \A q \in Ticks : tick[q].at = "filing" => q = p

\* The inductive invariant: a tick that read an older schedule has no claim on
\* this one, whatever claims were made since.
Scheduling ==
    /\ clock \in 0..MaxTime
    /\ RowOK(row)
    /\ home \in Zones
    /\ access \in BOOLEAN
    /\ \A p \in Ticks : TickOK(tick[p])
    /\ tick \in [Ticks -> {Idle} \cup Looking \cup Holding \cup Working]
    /\ filed \in [AllMoments -> Nat]
    /\ events \in 0..MaxEvents
    /\ OneReportPerRun
    /\ Delivering
    /\ \A p \in Ticks : Old(tick[p]) => row.claim.by # p

-----------------------------------------------------------------------------
LEMMA Constants ==
    /\ LateGrace \in Nat /\ MaxTime \in Nat /\ MaxEvents \in Nat
    /\ MaxFailures \in Nat /\ MaxFailures > 0
    /\ AllMoments \subseteq Nat /\ None \notin AllMoments
    /\ Plans # {} /\ NoOne \notin Ticks
BY ScheduleAssumption DEF None

LEMMA MomentsAreMoments ==
    ASSUME NEW plan \in Plans, NEW z \in Zones
    PROVE  Moments(plan, z) \subseteq AllMoments
BY DEF AllMoments

LessThan == {ss \in Nat \X Nat : ss[1] < ss[2]}

LEMMA LessThanWellFounded == IsWellFoundedOn(LessThan, Nat)
<1>1. LessThan = OpToRel(<, Nat)
  BY Zenon DEF LessThan, OpToRel
<1>. QED  BY ONLY <1>1, NatLessThanWellFounded, Zenon

\* The earliest of some moments is one of them, and none comes before it.
LEMMA EarliestIsFirst ==
    ASSUME NEW S, S \subseteq AllMoments, S # {}
    PROVE  Earliest(S) \in S /\ \A m \in S : Earliest(S) <= m
<1>1. S \subseteq Nat
  BY Constants
<1>2. PICK x \in S : \A y \in S : ~(<<y, x>> \in LessThan)
  BY <1>1, LessThanWellFounded, WFMin
<1>3. \A y \in S : x <= y
  <2>1. \A i, j \in Nat : i < j => <<i, j>> \in LessThan
    BY DEF LessThan
  <2>2. SUFFICES ASSUME NEW y \in S PROVE ~(y < x)
    BY <1>1
  <2>. QED  BY <1>1, <1>2, <2>1
<1>4. Min(S) \in S /\ \A y \in S : Min(S) <= y
  BY <1>3 DEF Min
<1>. QED  BY <1>4 DEF Earliest

LEMMA EarliestIsOne ==
    ASSUME NEW S, S \subseteq AllMoments
    PROVE  Earliest(S) \in MaybeMoment
<1>1. CASE S = {}
  BY <1>1 DEF Earliest, MaybeMoment
<1>2. CASE S # {}
  BY <1>2, EarliestIsFirst DEF MaybeMoment
<1>. QED  BY <1>1, <1>2

LEMMA NextIsMoment ==
    ASSUME NEW plan \in Plans, NEW z \in Zones, NEW run, NEW now
    PROVE  /\ NextRunAfter(plan, now, z) \in MaybeMoment
           /\ Advance(plan, run, now, z) \in MaybeMoment
<1>1. {m \in Moments(plan, z) : m > now} \subseteq AllMoments
  BY MomentsAreMoments
<1>2. {m \in Moments(plan, z) : m > run /\ m + LateGrace > now} \subseteq AllMoments
  BY MomentsAreMoments
<1>. QED  BY <1>1, <1>2, EarliestIsOne DEF NextRunAfter, Advance

LEMMA SchedulingInit == Init => Scheduling
<1>. SUFFICES ASSUME Init PROVE Scheduling
  OBVIOUS
<1>1. (CHOOSE plan \in Plans : TRUE) \in Plans
  BY Constants
<1>2. RowOK(row)
  BY <1>1, Constants DEF Init, RowOK, RowType, MaybeMoment, Unclaimed
<1>3. \A p \in Ticks : tick[p] = Idle /\ TickOK(Idle) /\ ~Old(Idle)
  BY DEF Init, TickOK, Idle, Old
<1>4. Delivering
  BY DEF Init, Delivering, Idle
<1>. QED  BY <1>2, <1>3, <1>4, Constants DEF Init, Scheduling, OneReportPerRun

-----------------------------------------------------------------------------
(* Steps of the member *)

LEMMA RowFields ==
    ASSUME NEW r \in RowType
    PROVE  /\ r.state \in {"new", "live", "deleted"} /\ r.enabled \in BOOLEAN
           /\ r.plan \in Plans /\ r.tz \in Zones /\ r.next \in MaybeMoment
           /\ r.claim \in [by : Ticks \cup {NoOne}, aged : BOOLEAN]
           /\ r.fails \in 0..MaxFailures
BY DEF RowType

LEMMA TickFields ==
    ASSUME NEW t, TickOK(t)
    PROVE  /\ t.at \in {"listed", "claiming"} => t \in Looking
           /\ t.at = "claimed" => t \in Holding
           /\ t.at \in {"running", "filing", "done"} => t \in Working
<1>1. t = Idle => t.at = "idle"
  BY DEF Idle
<1>2. t \in Looking => t.at \in {"listed", "claiming"}
  BY DEF Looking
<1>3. t \in Holding => t.at = "claimed"
  BY DEF Holding
<1>4. t \in Working => t.at \in {"running", "filing", "done"}
  BY DEF Working
<1>. QED  BY <1>1, <1>2, <1>3, <1>4 DEF TickOK

\* A release leaves nothing of the claim.
LEMMA ReleaseOK ==
    ASSUME NEW r \in RowType, ~r.enabled => r.next = None,
           r.enabled => r.fails < MaxFailures, r.state # "new"
    PROVE  /\ RowOK(Release(r))
           /\ Release(r).claim = Unclaimed
<1>1. Unclaimed \in [by : Ticks \cup {NoOne}, aged : BOOLEAN]
  BY DEF Unclaimed
<1>2. /\ Release(r) \in RowType
      /\ Release(r).claim = Unclaimed
      /\ Release(r).enabled = r.enabled
      /\ Release(r).next = r.next
      /\ Release(r).fails = r.fails
      /\ Release(r).state = r.state
  BY <1>1 DEF RowType, Release
<1>. QED  BY <1>2 DEF RowOK

\* What an edit makes of a tick.
LEMMA OvertakenOK ==
    ASSUME NEW p \in Ticks, TickOK(tick[p])
    PROVE  TickOK(Overtaken(p))
<1>1. CASE tick[p].at \in {"running", "done"}
  <2>1. tick[p] \in Working
    BY <1>1, TickFields
  <2>2. Overtaken(p) = [tick[p] EXCEPT !.old = TRUE]
    BY <1>1 DEF Overtaken
  <2>3. /\ Overtaken(p) \in Working
        /\ Overtaken(p).at = tick[p].at /\ Overtaken(p).status = tick[p].status
        /\ Overtaken(p).run = tick[p].run /\ Overtaken(p).now = tick[p].now
        /\ Overtaken(p).fails = tick[p].fails /\ Overtaken(p).moved = tick[p].moved
    BY <2>1, <2>2 DEF Working
  <2>. QED  BY <1>1, <2>3 DEF TickOK
<1>2. CASE tick[p].at \notin {"running", "done"}
  BY <1>2 DEF Overtaken
<1>. QED  BY <1>1, <1>2

LEMMA EditedKeeps ==
    ASSUME Scheduling, NEW r \in RowType, Edited(r),
           ~r.enabled => r.next = None, r.enabled => r.fails < MaxFailures,
           r.state \in {row.state, "deleted"}
    PROVE  Scheduling'
<1>1. /\ RowOK(row') /\ row'.claim = Unclaimed
  BY ReleaseOK DEF Edited
<1>2. \A p \in Ticks : tick'[p] = Overtaken(p) /\ TickOK(tick'[p])
  BY OvertakenOK DEF Scheduling, Edited
<1>3. tick' \in [Ticks -> {Idle} \cup Looking \cup Holding \cup Working]
  BY <1>2 DEF Edited, TickOK
<1>4. events' \in 0..MaxEvents
  BY Constants DEF Edited, Event, Scheduling
<1>5. \A p \in Ticks : row'.claim.by # p
  BY <1>1, Constants DEF Unclaimed
<1>6. OneReportPerRun' /\ UNCHANGED <<clock, home, access, filed>>
  BY DEF Scheduling, Edited, OneReportPerRun
<1>7. \A p \in Ticks : tick'[p].at # "filing"
  <2>. TAKE p \in Ticks
  <2>1. tick[p].at # "filing" /\ tick'[p] = Overtaken(p)
    BY <1>2 DEF Edited, Unlocked
  <2>2. tick[p].at \in {"running", "done"} =>
            [tick[p] EXCEPT !.old = TRUE].at = tick[p].at
    <3>1. tick[p].at \in {"running", "done"} => tick[p] \in Working
      BY TickFields DEF Scheduling
    <3>. QED  BY <3>1 DEF Working
  <2>. QED  BY <2>1, <2>2 DEF Overtaken
<1>. QED  BY <1>1, <1>2, <1>3, <1>4, <1>5, <1>6, <1>7 DEF Scheduling, Delivering

\* The member's steps.
LEMMA SchedulingMember == ASSUME Scheduling, Member PROVE Scheduling'
<1>r. /\ row \in RowType
      /\ ~row.enabled => row.next = None
      /\ row.enabled => row.fails < MaxFailures
      /\ row.state = "new" => row.fails = 0
      /\ home \in Zones
  BY DEF Scheduling, RowOK
<1>n. \A plan \in Plans : FirstRun(plan) \in MaybeMoment
  BY <1>r, NextIsMoment DEF FirstRun
<1>1. ASSUME NEW plan \in Plans, Create(plan) PROVE Scheduling'
  <2>. DEFINE new == [row EXCEPT !.state = "live", !.enabled = TRUE, !.plan = plan,
                                 !.tz = home, !.next = FirstRun(plan)]
  <2>1. /\ new \in RowType /\ new.enabled
        /\ new.claim = row.claim /\ new.fails = row.fails
          /\ new.state = "live"
    BY <1>r, <1>n DEF RowType
  <2>2. /\ row' = new /\ row.state = "new"
        /\ UNCHANGED <<clock, home, access, tick, filed, events>>
    BY <1>1 DEF Create
  <2>. HIDE DEF new
  <2>3. RowOK(row')
    BY <1>r, <2>1, <2>2, Constants DEF RowOK, Scheduling
  <2>. QED  BY <2>1, <2>2, <2>3 DEF Scheduling, OneReportPerRun, Delivering
<1>2. ASSUME NEW plan \in Plans, Reschedule(plan) PROVE Scheduling'
  <2>1. CASE row.enabled
    <3>. DEFINE new == [row EXCEPT !.plan = plan, !.tz = home, !.next = FirstRun(plan)]
    <3>1. /\ new \in RowType /\ new.enabled = row.enabled /\ new.fails = row.fails
          /\ new.state = row.state
      BY <1>r, <1>n DEF RowType
    <3>2. Edited(new)
      BY <1>2, <2>1 DEF Reschedule
    <3>. HIDE DEF new
    <3>. QED  BY <1>r, <2>1, <3>1, <3>2, EditedKeeps
  <2>2. CASE ~row.enabled
    <3>. DEFINE new == [row EXCEPT !.plan = plan]
    <3>1. /\ new \in RowType /\ new.enabled = row.enabled /\ new.next = row.next
          /\ new.state = row.state /\ new.fails = row.fails
      BY <1>r DEF RowType
    <3>2. Edited(new)
      BY <1>2, <2>2 DEF Reschedule
    <3>. HIDE DEF new
    <3>. QED  BY <1>r, <2>2, <3>1, <3>2, EditedKeeps
  <2>. QED  BY <1>r, <2>1, <2>2 DEF RowType
<1>3. ASSUME Rename PROVE Scheduling'
  BY <1>3, <1>r, EditedKeeps DEF Rename
<1>4. ASSUME Pause PROVE Scheduling'
  <2>. DEFINE new == [row EXCEPT !.enabled = FALSE, !.next = None]
  <2>1. new \in RowType /\ ~new.enabled /\ new.next = None /\ new.state = row.state
    BY <1>r DEF RowType, MaybeMoment
  <2>2. Edited(new)
    BY <1>4 DEF Pause
  <2>. HIDE DEF new
  <2>. QED  BY <2>1, <2>2, EditedKeeps
<1>5. ASSUME Resume PROVE Scheduling'
  <2>. DEFINE new == [row EXCEPT !.enabled = TRUE, !.tz = home, !.fails = 0,
                                 !.next = FirstRun(row.plan)]
  <2>0. row.plan \in Plans
    BY <1>r DEF RowType
  <2>1. new \in RowType /\ new.enabled /\ new.fails = 0 /\ new.state = row.state
    <3>1. FirstRun(row.plan) \in MaybeMoment /\ 0 \in 0..MaxFailures
      BY <1>n, <2>0, Constants
    <3>. QED  BY <1>r, <3>1 DEF RowType
  <2>2. Edited(new)
    BY <1>5 DEF Resume
  <2>. HIDE DEF new
  <2>. QED  BY <2>1, <2>2, EditedKeeps, Constants
<1>6. ASSUME Delete PROVE Scheduling'
  <2>. DEFINE new == [row EXCEPT !.state = "deleted"]
  <2>1. /\ new \in RowType /\ new.enabled = row.enabled
        /\ new.next = row.next /\ new.fails = row.fails /\ new.state = "deleted"
    BY <1>r DEF RowType
  <2>2. Edited(new)
    BY <1>6 DEF Delete
  <2>. HIDE DEF new
  <2>. QED  BY <1>r, <2>1, <2>2, EditedKeeps
<1>7. ASSUME NEW z \in Zones, Move(z) PROVE Scheduling'
  BY <1>7, Constants DEF Move, Trip, Event, Scheduling, history, OneReportPerRun, Delivering
<1>8. ASSUME LeaveOrJoin PROVE Scheduling'
  BY <1>8, Constants DEF LeaveOrJoin, Trip, Event, Scheduling, history, OneReportPerRun,
                          Delivering
<1>. QED  BY <1>1, <1>2, <1>3, <1>4, <1>5, <1>6, <1>7, <1>8 DEF Member

-----------------------------------------------------------------------------
(* Steps of a tick *)

\* A step of tick p to t that leaves the claim, ends it, or makes it p's.
LEMMA TickKeeps ==
    ASSUME Scheduling, NEW p \in Ticks, NEW t, Goes(p, t), TickOK(t),
           RowOK(row'), row'.claim.by \in {row.claim.by, NoOne, p},
           Old(t) => row'.claim.by # p,
           UNCHANGED <<clock, home, access>>, events' \in 0..MaxEvents,
           filed' \in [AllMoments -> Nat], OneReportPerRun',
           (t.at # "filing" /\ UNCHANGED filed) \/ Delivering'
    PROVE  Scheduling'
<1>1. /\ tick' \in [Ticks -> {Idle} \cup Looking \cup Holding \cup Working]
      /\ tick'[p] = t
      /\ \A q \in Ticks : q # p => tick'[q] = tick[q]
  BY DEF Scheduling, Goes, TickOK
<1>2. \A q \in Ticks : TickOK(tick'[q])
  BY <1>1 DEF Scheduling
<1>3. ASSUME NEW q \in Ticks, Old(tick'[q]) PROVE row'.claim.by # q
  BY <1>1, <1>3, Constants DEF Scheduling
<1>4. Delivering'
  BY <1>1 DEF Scheduling, Delivering
<1>. QED  BY <1>1, <1>2, <1>3, <1>4 DEF Scheduling

LEMMA IdleOK == TickOK(Idle) /\ ~Old(Idle) /\ Idle.at # "filing"
BY DEF TickOK, Idle, Old

LEMMA SchedulingList == ASSUME Scheduling, NEW p \in Ticks, List(p) PROVE Scheduling'
<1>. DEFINE t == [at |-> IF row.tz = home THEN "claiming" ELSE "listed",
                  now |-> clock, zone |-> home, tz |-> row.tz, plan |-> row.plan]
<1>1. t \in Looking /\ t.at \in {"listed", "claiming"}
  BY DEF Scheduling, RowOK, RowType, Looking
<1>2. /\ Goes(p, t) /\ UNCHANGED <<clock, row, home, access, filed, events>>
  BY DEF List
<1>. HIDE DEF t
<1>3. TickOK(t) /\ ~Old(t) /\ t.at # "filing"
  BY <1>1 DEF TickOK, Old
<1>4. RowOK(row') /\ events' \in 0..MaxEvents /\ filed' \in [AllMoments -> Nat]
      /\ OneReportPerRun' /\ row'.claim.by = row.claim.by
  BY <1>2 DEF Scheduling, OneReportPerRun
<1>. QED  BY <1>2, <1>3, <1>4, TickKeeps

LEMMA SchedulingRezone == ASSUME Scheduling, NEW p \in Ticks, Rezone(p) PROVE Scheduling'
<1>1. tick[p] \in Looking /\ TickOK(tick[p]) /\ tick[p].at = "listed"
  BY TickFields DEF Rezone, Scheduling
<1>2. UNCHANGED <<clock, home, access, filed, events>>
  BY DEF Rezone
<1>3. /\ events' \in 0..MaxEvents /\ filed' \in [AllMoments -> Nat]
      /\ OneReportPerRun'
  BY <1>2 DEF Scheduling, OneReportPerRun
<1>4. CASE row.state = "live" /\ row.enabled /\ row.tz = tick[p].tz
  <2>. DEFINE fresh == NextRunAfter(tick[p].plan, tick[p].now - LateGrace, tick[p].zone)
              new == [row EXCEPT !.next = fresh, !.tz = tick[p].zone]
              t == IF fresh = None \/ fresh > tick[p].now
                   THEN Idle ELSE [tick[p] EXCEPT !.at = "claiming"]
  <2>1. row \in RowType /\ RowOK(row) /\ tick[p].zone \in Zones /\ tick[p].plan \in Plans
    BY <1>1 DEF Scheduling, RowOK, RowType, Looking
  <2>2. fresh \in MaybeMoment
    BY <2>1, NextIsMoment
  <2>3. row' = new /\ Goes(p, t)
    BY <1>4 DEF Rezone
  <2>4. /\ new \in RowType /\ new.claim = row.claim /\ new.enabled = row.enabled
        /\ new.fails = row.fails /\ new.state = row.state
    BY <2>1, <2>2 DEF RowType
  <2>5. [tick[p] EXCEPT !.at = "claiming"] \in Looking
    BY <1>1 DEF Looking
  <2>6. TickOK(t) /\ ~Old(t) /\ t.at # "filing"
    <3>1. [tick[p] EXCEPT !.at = "claiming"].at = "claiming"
      BY <1>1 DEF Looking
    <3>. QED  BY <2>5, <3>1, IdleOK DEF TickOK, Old
  <2>. HIDE DEF new, t, fresh
  <2>7. RowOK(row')
    BY <1>4, <2>1, <2>3, <2>4 DEF RowOK
  <2>. QED  BY <1>2, <1>3, <2>3, <2>4, <2>6, <2>7, TickKeeps
<1>5. CASE ~(row.state = "live" /\ row.enabled /\ row.tz = tick[p].tz)
  <2>1. Goes(p, Idle) /\ row' = row
    BY <1>5 DEF Rezone
  <2>. QED  BY <1>2, <1>3, <2>1, IdleOK, TickKeeps DEF Scheduling
<1>. QED  BY <1>4, <1>5

LEMMA SchedulingClaim == ASSUME Scheduling, NEW p \in Ticks, Claim(p) PROVE Scheduling'
<1>1. tick[p] \in Looking /\ TickOK(tick[p])
  BY TickFields DEF Claim, Scheduling
<1>2. UNCHANGED <<clock, home, access, filed, events>>
  BY DEF Claim
<1>3. /\ events' \in 0..MaxEvents /\ filed' \in [AllMoments -> Nat]
      /\ OneReportPerRun'
  BY <1>2 DEF Scheduling, OneReportPerRun
<1>4. CASE Due(tick[p].now) /\ Claimable
  <2>. DEFINE new == [row EXCEPT !.claim = [by |-> p, aged |-> FALSE]]
              t == [at |-> "claimed", now |-> tick[p].now,
                    zone |-> tick[p].zone, due |-> row.next]
  <2>1. row' = new /\ Goes(p, t)
    BY <1>4 DEF Claim
  <2>2. row \in RowType /\ RowOK(row)
    BY DEF Scheduling, RowOK
  <2>3. /\ new \in RowType /\ new.claim.by = p /\ new.enabled = row.enabled
        /\ new.fails = row.fails /\ new.state = row.state /\ new.next = row.next
    BY <2>2 DEF RowType
  <2>4. row.next \in AllMoments /\ row.next <= tick[p].now
    BY <1>4, <2>2 DEF Due, RowType, MaybeMoment
  <2>5. t \in Holding /\ t.at = "claimed" /\ t.due <= t.now
    BY <1>1, <2>4 DEF Looking, Holding
  <2>. HIDE DEF new, t
  <2>6. TickOK(t) /\ ~Old(t) /\ t.at # "filing"
    BY <2>5 DEF TickOK, Old
  <2>7. RowOK(row')
    BY <1>4, <2>1, <2>2, <2>3, Constants DEF RowOK, Due
  <2>. QED  BY <1>2, <1>3, <2>1, <2>3, <2>6, <2>7, TickKeeps
<1>5. CASE ~(Due(tick[p].now) /\ Claimable)
  <2>1. Goes(p, Idle) /\ row' = row
    BY <1>5 DEF Claim
  <2>. QED  BY <1>2, <1>3, <2>1, IdleOK, TickKeeps DEF Scheduling
<1>. QED  BY <1>4, <1>5

LEMMA SchedulingFetch == ASSUME Scheduling, NEW p \in Ticks, Fetch(p) PROVE Scheduling'
<1>1. tick[p] \in Holding /\ tick[p].due <= tick[p].now /\ tick[p].at = "claimed"
  BY TickFields DEF Fetch, Scheduling, TickOK
<1>2. UNCHANGED <<clock, row, home, access, filed, events>>
  BY DEF Fetch
<1>3. /\ RowOK(row') /\ events' \in 0..MaxEvents /\ filed' \in [AllMoments -> Nat]
      /\ OneReportPerRun' /\ row'.claim.by = row.claim.by
  BY <1>2 DEF Scheduling, OneReportPerRun
<1>4. CASE row.state = "deleted" \/ (access /\ row.next = None)
  <2>1. Goes(p, Idle)
    BY <1>4 DEF Fetch
  <2>. QED  BY <1>2, <1>3, <2>1, IdleOK, TickKeeps
<1>5. CASE ~(row.state = "deleted" \/ (access /\ row.next = None))
  <2>. DEFINE next == IF row.next = None THEN None
                      ELSE Advance(row.plan, row.next, tick[p].now, tick[p].zone)
              moved == row.next # tick[p].due
              read == [at |-> "running", now |-> tick[p].now, zone |-> tick[p].zone,
                       run |-> row.next, fails |-> row.fails, old |-> FALSE,
                       moved |-> moved, status |-> "", next |-> next]
              t == IF ~access THEN [read EXCEPT !.at = "done", !.status = "skipped_access"]
                   ELSE IF Late(p) THEN [read EXCEPT !.at = "done", !.status = "skipped_late"]
                   ELSE read
  <2>1. Goes(p, t)
    BY <1>5 DEF Fetch
  <2>2. /\ row.next \in MaybeMoment /\ row.fails \in 0..MaxFailures /\ row.plan \in Plans
        /\ row.next # None => row.enabled /\ row.fails < MaxFailures
    BY DEF Scheduling, RowOK, RowType
  <2>3. /\ tick[p].now \in 0..MaxTime /\ tick[p].zone \in Zones
        /\ tick[p].due \in AllMoments
    BY <1>1 DEF Holding
  <2>4. next \in MaybeMoment /\ moved \in BOOLEAN
    BY <2>2, <2>3, NextIsMoment DEF MaybeMoment
  <2>5. read \in Working /\ read.at = "running" /\ read.old = FALSE
        /\ read.run = row.next /\ read.fails = row.fails /\ read.now = tick[p].now
        /\ read.moved = moved
    <3>. HIDE DEF next, moved
    <3>. QED  BY <2>2, <2>3, <2>4 DEF Working
  <2>. HIDE DEF next, read
  <2>6. CASE access /\ ~Late(p)
    <3>1. t = read
      BY <2>6
    <3>2. row.next \in AllMoments /\ row.next \in Nat /\ tick[p].now \in Nat
      <4>1. row.next \in AllMoments
        BY <1>5, <2>2, <2>6 DEF MaybeMoment
      <4>2. row.next \in Nat
        BY <4>1, Constants
      <4>3. tick[p].now \in Nat
        BY <2>3, Constants
      <4>. QED  BY <4>1, <4>2, <4>3
    <3>3. tick[p].now <= row.next + LateGrace
      BY <2>6, <3>2, Constants DEF Late
    <3>4. TickOK(read)
      BY <1>1, <2>2, <2>5, <3>2, <3>3, Constants DEF TickOK
    <3>5. ~Old(read)
      BY <2>5 DEF Old
    <3>6. t.at # "filing"
      BY <2>5, <3>1
    <3>. HIDE DEF t
    <3>. QED  BY <1>2, <1>3, <2>1, <3>1, <3>4, <3>5, <3>6, TickKeeps
  <2>7. CASE ~(access /\ ~Late(p))
    <3>1. /\ t \in Working /\ t.at = "done" /\ t.old = FALSE
          /\ t.status \in {"skipped_access", "skipped_late"}
      BY <2>5, <2>7 DEF Working
    <3>. HIDE DEF t
    <3>2. TickOK(t) /\ ~Old(t) /\ t.at # "filing"
      BY <3>1 DEF TickOK, Old
    <3>. QED  BY <1>2, <1>3, <2>1, <3>2, TickKeeps
  <2>. QED  BY <2>6, <2>7
<1>. QED  BY <1>4, <1>5

\* What the end of a job makes of a tick.
LEMMA DoneOK ==
    ASSUME Scheduling, NEW p \in Ticks, tick[p].at \in {"running", "filing"},
           NEW status \in {"ok", "failed"}
    PROVE  /\ TickOK(Done(p, status)) /\ Done(p, status).at = "done"
           /\ Done(p, status).old = tick[p].old
<1>1. tick[p] \in Working /\ tick[p].fails < MaxFailures
  BY TickFields DEF Scheduling, TickOK
<1>2. /\ Done(p, status) \in Working /\ Done(p, status).at = "done"
      /\ Done(p, status).status = status /\ Done(p, status).old = tick[p].old
      /\ Done(p, status).fails = tick[p].fails
  BY <1>1 DEF Working, Done
<1>. QED  BY <1>1, <1>2 DEF TickOK

\* A job and its delivery leave the row, and so whose claim it is.
LEMMA SchedulingExecute == ASSUME Scheduling, NEW p \in Ticks, Execute(p) PROVE Scheduling'
<1>1. /\ tick[p].at \in {"running", "filing"}
      /\ UNCHANGED <<clock, row, home, access, events>>
  BY DEF Execute, Fail, Deliver, File, history
<1>2. RowOK(row') /\ events' \in 0..MaxEvents /\ row'.claim.by = row.claim.by
  BY <1>1 DEF Scheduling
<1>3. tick[p].old => row'.claim.by # p
  BY <1>1 DEF Scheduling, Old
<1>4. ASSUME NEW status \in {"ok", "failed"}, Goes(p, Done(p, status)), UNCHANGED filed
      PROVE  Scheduling'
  <2>1. filed' \in [AllMoments -> Nat] /\ OneReportPerRun'
    BY <1>4 DEF Scheduling, OneReportPerRun
  <2>. QED  BY <1>1, <1>2, <1>3, <1>4, <2>1, DoneOK, TickKeeps DEF Old
<1>5. CASE Fail(p)
  BY <1>4, <1>5 DEF Fail
<1>6. CASE Deliver(p)
  <2>1. /\ tick[p].at = "running" /\ UNCHANGED filed
        /\ row.state = "live" => Unlocked
        /\ Goes(p, IF row.state = "live" /\ ~Repeats(tick[p].run)
                   THEN [tick[p] EXCEPT !.at = "filing"] ELSE Done(p, "ok"))
    BY <1>6 DEF Deliver
  <2>2. CASE row.state = "live" /\ ~Repeats(tick[p].run)
    <3>. DEFINE t == [tick[p] EXCEPT !.at = "filing"]
    <3>1. tick[p] \in Working /\ TickOK(tick[p]) /\ tick[p].run \in AllMoments
      BY <2>1, TickFields DEF Scheduling, TickOK
    <3>2. /\ t \in Working /\ t.at = "filing" /\ t.run = tick[p].run /\ t.now = tick[p].now
          /\ t.fails = tick[p].fails /\ t.moved = tick[p].moved /\ t.old = tick[p].old
      BY <3>1 DEF Working
    <3>3. Goes(p, t)
      BY <2>1, <2>2
    <3>. HIDE DEF t
    <3>4. TickOK(t)
      BY <2>1, <3>1, <3>2 DEF TickOK
    <3>5. filed' \in [AllMoments -> Nat] /\ OneReportPerRun'
      BY <2>1 DEF Scheduling, OneReportPerRun
    \* The lock was free, and no report of this run is there.
    <3>6. Delivering'
      <4>1. /\ tick'[p] = t /\ \A q \in Ticks : q # p => tick'[q] = tick[q]
        BY <3>3 DEF Goes, Scheduling
      <4>2. \A q \in Ticks : tick'[q].at = "filing" => q = p
        BY <2>1, <2>2, <4>1 DEF Unlocked
      <4>3. filed'[t.run] = 0
        BY <2>1, <2>2, <3>1, <3>2 DEF Repeats, Scheduling
      <4>. QED  BY <4>1, <4>2, <4>3 DEF Delivering
    <3>. QED  BY <1>1, <1>2, <1>3, <3>2, <3>3, <3>4, <3>5, <3>6, TickKeeps DEF Old
  <2>3. CASE ~(row.state = "live" /\ ~Repeats(tick[p].run))
    BY <1>4, <2>1, <2>3
  <2>. QED  BY <2>2, <2>3
<1>7. ASSUME NEW status \in {"ok", "failed"}, File(p, status) PROVE Scheduling'
  <2>1. /\ tick[p].at = "filing" /\ Goes(p, Done(p, status))
        /\ filed' = IF status = "ok" THEN [filed EXCEPT ![tick[p].run] = @ + 1] ELSE filed
    BY <1>7 DEF File
  <2>2. tick[p].run \in AllMoments /\ filed[tick[p].run] = 0
    BY <2>1 DEF Scheduling, TickOK, Delivering
  <2>3. filed' \in [AllMoments -> Nat] /\ OneReportPerRun'
    BY <2>1, <2>2 DEF Scheduling, OneReportPerRun
  <2>4. Delivering'
    <3>1. /\ tick'[p] = Done(p, status) /\ \A q \in Ticks : q # p => tick'[q] = tick[q]
      BY <2>1 DEF Goes, Scheduling
    <3>2. \A q \in Ticks : tick'[q].at # "filing"
      BY <2>1, <3>1, DoneOK DEF Scheduling, Delivering
    <3>. QED  BY <3>2 DEF Delivering
  <2>. QED  BY <1>1, <1>2, <1>3, <2>1, <2>3, <2>4, DoneOK, TickKeeps DEF Old
<1>. QED  BY <1>5, <1>6, <1>7 DEF Execute

\* What an outcome makes of the schedule.
LEMMA OutcomeOK ==
    ASSUME Scheduling, NEW p \in Ticks, tick[p].at = "done", Mine(p)
    PROVE  RowOK(Outcome(p)) /\ Outcome(p).claim = Unclaimed
<1>. DEFINE t == tick[p]
            paused == [Release(row) EXCEPT !.enabled = FALSE, !.next = None]
            moved == [Release(row) EXCEPT !.next = t.next, !.tz = t.zone]
<1>1. /\ row \in RowType /\ row.claim # Unclaimed /\ row.enabled /\ row.state = "live"
      /\ row.fails < MaxFailures
  BY Constants DEF Scheduling, RowOK, Mine, Unclaimed
<1>2. /\ t \in Working
      /\ t.status # ""
      /\ t.status = "failed" => t.fails < MaxFailures
  BY TickFields DEF Scheduling, TickOK
<1>3. /\ t.next \in MaybeMoment /\ t.zone \in Zones /\ t.fails \in 0..MaxFailures
      /\ t.status \in {"ok", "failed", "skipped_access", "skipped_late"}
      /\ t.status = "failed" => t.fails < MaxFailures
  BY <1>2 DEF Working
<1>4. /\ Release(row) \in RowType /\ Release(row).claim = Unclaimed
      /\ Release(row).enabled /\ Release(row).state = "live"
      /\ Release(row).fails = row.fails
  <2>1. Unclaimed \in [by : Ticks \cup {NoOne}, aged : BOOLEAN]
    BY DEF Unclaimed
  <2>. QED  BY <1>1, <2>1 DEF RowType, Release
<1>5. /\ paused \in RowType /\ paused.claim = Unclaimed /\ ~paused.enabled
      /\ paused.next = None /\ paused.state = "live" /\ paused.fails = row.fails
  BY <1>4 DEF RowType, MaybeMoment
<1>6. /\ moved \in RowType /\ moved.claim = Unclaimed /\ moved.enabled
      /\ moved.state = "live" /\ moved.fails = row.fails
  BY <1>3, <1>4 DEF RowType
<1>. DEFINE counted == [moved EXCEPT !.fails = t.fails + 1]
            cleared == [moved EXCEPT !.fails = 0]
            ended == [paused EXCEPT !.fails = t.fails + 1, !.tz = t.zone]
<1>7. CASE t.status = "skipped_access"
  <2>1. Outcome(p) = paused
    BY <1>7 DEF Outcome
  <2>. HIDE DEF paused
  <2>. QED  BY <1>1, <1>5, <2>1 DEF RowOK
<1>8. CASE t.status = "skipped_late"
  <2>1. Outcome(p) = moved
    BY <1>8 DEF Outcome
  <2>. HIDE DEF moved
  <2>. QED  BY <1>1, <1>6, <2>1 DEF RowOK
<1>9. CASE t.status = "ok"
  <2>1. Outcome(p) = cleared
    BY <1>9 DEF Outcome
  <2>. HIDE DEF moved
  <2>2. /\ cleared \in RowType /\ cleared.claim = Unclaimed /\ cleared.enabled
        /\ cleared.state = "live" /\ cleared.fails = 0
    BY <1>6, Constants DEF RowType
  <2>. HIDE DEF cleared
  <2>. QED  BY <2>1, <2>2, Constants DEF RowOK
<1>10. CASE t.status = "failed" /\ t.fails + 1 < MaxFailures
  <2>1. Outcome(p) = counted
    BY <1>10 DEF Outcome
  <2>. HIDE DEF moved
  <2>2. /\ counted \in RowType /\ counted.claim = Unclaimed /\ counted.enabled
        /\ counted.state = "live" /\ counted.fails = t.fails + 1
    <3>1. t.fails + 1 \in 0..MaxFailures
      BY <1>3, <1>10, Constants
    <3>. QED  BY <1>6, <3>1 DEF RowType
  <2>. HIDE DEF counted
  <2>. QED  BY <1>10, <2>1, <2>2 DEF RowOK
<1>11. CASE t.status = "failed" /\ ~(t.fails + 1 < MaxFailures)
  <2>1. Outcome(p) = ended
    BY <1>11 DEF Outcome
  <2>. HIDE DEF paused
  <2>2. /\ ended \in RowType /\ ended.claim = Unclaimed /\ ~ended.enabled
        /\ ended.state = "live" /\ ended.next = None
    <3>1. t.fails + 1 \in 0..MaxFailures
      BY <1>3, <1>11, Constants
    <3>. QED  BY <1>3, <1>5, <3>1 DEF RowType
  <2>. HIDE DEF ended
  <2>. QED  BY <2>1, <2>2 DEF RowOK
<1>. QED  BY <1>3, <1>7, <1>8, <1>9, <1>10, <1>11

LEMMA SchedulingFinish == ASSUME Scheduling, NEW p \in Ticks, Finish(p) PROVE Scheduling'
<1>1. /\ Goes(p, Idle) /\ UNCHANGED <<clock, home, access, filed, events>>
      /\ tick[p].at = "done"
      /\ row' = IF Mine(p) THEN Outcome(p) ELSE row
  BY DEF Finish
<1>2. /\ RowOK(row') /\ row'.claim.by \in {row.claim.by, NoOne}
  BY <1>1, OutcomeOK DEF Scheduling, Unclaimed
<1>3. /\ events' \in 0..MaxEvents /\ filed' \in [AllMoments -> Nat] /\ OneReportPerRun'
  BY <1>1 DEF Scheduling, OneReportPerRun
<1>. QED  BY <1>1, <1>2, <1>3, IdleOK, TickKeeps

LEMMA SchedulingDie == ASSUME Scheduling, NEW p \in Ticks, Die(p) PROVE Scheduling'
<1>1. /\ Goes(p, Idle) /\ UNCHANGED <<clock, row, home, access, filed>>
  BY DEF Die
<1>2. events' \in 0..MaxEvents
  BY Constants DEF Die, Event, Scheduling
<1>3. /\ RowOK(row') /\ filed' \in [AllMoments -> Nat] /\ OneReportPerRun'
      /\ row'.claim.by = row.claim.by
  BY <1>1 DEF Scheduling, OneReportPerRun
<1>. QED  BY <1>1, <1>2, <1>3, IdleOK, TickKeeps

LEMMA SchedulingAge == ASSUME Scheduling, ClaimAges \/ Overrun PROVE Scheduling'
<1>. DEFINE new == [row EXCEPT !.claim.aged = TRUE]
<1>1. /\ row' = new /\ row.claim # Unclaimed
      /\ UNCHANGED <<clock, home, access, tick, filed>>
  BY DEF ClaimAges, Overrun, Age
<1>2. events' \in 0..MaxEvents
  BY Constants DEF ClaimAges, Overrun, Event, Scheduling
<1>3. row \in RowType /\ RowOK(row)
  BY DEF Scheduling, RowOK
<1>4. /\ new \in RowType /\ new.claim.by = row.claim.by /\ new.enabled = row.enabled
      /\ new.fails = row.fails /\ new.state = row.state /\ new.next = row.next
  BY <1>3 DEF RowType
<1>. HIDE DEF new
<1>5. RowOK(row')
  BY <1>1, <1>3, <1>4 DEF RowOK
<1>6. \A p \in Ticks : Old(tick'[p]) => row'.claim.by # p
  BY <1>1, <1>4 DEF Scheduling
<1>. QED  BY <1>1, <1>2, <1>5, <1>6 DEF Scheduling, OneReportPerRun, Delivering

LEMMA SchedulingPass == ASSUME Scheduling, Pass PROVE Scheduling'
<1>1. /\ clock' = clock + 1 /\ clock < MaxTime
      /\ UNCHANGED <<row, home, access, tick, filed, events>>
  BY DEF Pass
<1>2. clock' \in 0..MaxTime
  BY <1>1, Constants DEF Scheduling
<1>. QED  BY <1>1, <1>2 DEF Scheduling, OneReportPerRun, Delivering

-----------------------------------------------------------------------------
LEMMA SchedulingStep == Scheduling /\ [Next]_vars => Scheduling'
<1>. SUFFICES ASSUME Scheduling, [Next]_vars PROVE Scheduling'
  OBVIOUS
<1>1. CASE UNCHANGED vars
  BY <1>1 DEF vars, history, Scheduling, OneReportPerRun, Delivering, Old
<1>2. ASSUME NEW p \in Ticks, Proceed(p) PROVE Scheduling'
  BY <1>2, SchedulingRezone, SchedulingClaim, SchedulingFetch, SchedulingFinish,
     SchedulingExecute DEF Proceed
<1>. QED
  BY <1>1, <1>2, SchedulingMember, SchedulingList, SchedulingDie, SchedulingAge,
     SchedulingPass DEF Next

LEMMA SchedulingInvariant == Spec => []Scheduling
BY SchedulingInit, SchedulingStep, PTL DEF Spec

\* The types of the schedule, its ticks and its reports.
THEOREM TypeCorrect == Spec => []TypeOK
<1>1. Scheduling => TypeOK
  <2>. SUFFICES ASSUME Scheduling PROVE TypeOK
    OBVIOUS
  <2>1. \A p \in Ticks :
          tick[p].at \in {"idle", "listed", "claiming", "claimed", "running", "filing", "done"}
    <3>. SUFFICES ASSUME NEW p \in Ticks
                  PROVE tick[p].at \in {"idle", "listed", "claiming", "claimed",
                                        "running", "filing", "done"}
      OBVIOUS
    <3>1. tick[p] \in {Idle} \cup Looking \cup Holding \cup Working
      BY DEF Scheduling
    <3>2. tick[p] = Idle => tick[p].at = "idle"
      BY DEF Idle
    <3>3. tick[p] \in Looking => tick[p].at \in {"listed", "claiming"}
      BY DEF Looking
    <3>4. tick[p] \in Holding => tick[p].at = "claimed"
      BY DEF Holding
    <3>5. tick[p] \in Working => tick[p].at \in {"running", "filing", "done"}
      BY DEF Working
    <3>. QED  BY <3>1, <3>2, <3>3, <3>4, <3>5
  <2>. QED  BY <2>1 DEF Scheduling, TypeOK, RowOK, RowType, MaybeMoment
<1>. QED  BY <1>1, SchedulingInvariant, PTL

\* Whatever dies or overlaps, the report of a run is filed once: of two deliveries
\* the second gets the lock of the row when the first has filed, and finds it.
THEOREM ReportOnce == Spec => []OneReportPerRun
<1>1. Scheduling => OneReportPerRun
  BY DEF Scheduling
<1>. QED  BY <1>1, SchedulingInvariant, PTL

\* A tick runs a job neither early nor past the grace, unless the schedule was
\* moved between its claim and its second read.
THEOREM RunIsInTime == Spec => RunsWhenDue
<1>. DEFINE InTime == \A p \in Ticks : Runs(p) => tick[p].moved \/ RunIsTimely(p)
<1>1. Scheduling => InTime
  BY DEF Scheduling, TickOK, Runs, RunIsTimely
<1>2. Scheduling => [InTime]_vars
  BY <1>1
<1>. QED  BY <1>2, SchedulingInvariant, PTL DEF RunsWhenDue

\* A tick whose reading of the schedule a member has overtaken holds no claim on
\* it, however many were made since; its outcome matches no row.
THEOREM MemberPrevails == Spec => MemberHasTheLastWord
<1>. DEFINE Stands == \A p \in Ticks :
        tick[p].at = "done" /\ tick'[p].at = "idle" /\ tick[p].old => row' = row
<1>1. Scheduling /\ [Next]_vars => [Stands]_vars
  <2>. SUFFICES ASSUME Scheduling, Next, NEW p \in Ticks,
                       tick[p].at = "done", tick'[p].at = "idle", tick[p].old
                PROVE  row' = row
    BY DEF vars
  <2>1. ~Mine(p)
    BY DEF Scheduling, Old, Mine
  <2>2. \A q \in Ticks : \A t : Goes(q, t) => q = p \/ tick'[p] = tick[p]
    BY DEF Scheduling, Goes
  <2>3. ASSUME Member PROVE tick'[p].at = "done"
    <3>1. tick[p] \in Working
      BY TickFields DEF Scheduling
    <3>2. [tick[p] EXCEPT !.old = TRUE].at = "done"
      BY <3>1 DEF Working
    <3>3. Overtaken(p).at = "done"
      BY <3>2 DEF Overtaken
    <3>4. ASSUME NEW r, Edited(r) PROVE tick'[p].at = "done"
      BY <3>3, <3>4 DEF Edited
    <3>. QED
      BY <2>3, <3>4 DEF Member, Create, Reschedule, Rename, Pause, Resume, Delete,
                        Move, LeaveOrJoin, Trip
  <2>4. ASSUME NEW q \in Ticks, List(q) \/ Proceed(q) \/ Die(q) PROVE row' = row
    <3>1. CASE List(q) \/ Fetch(q) \/ Die(q) \/ Execute(q)
      BY <3>1 DEF List, Fetch, Die, Execute, Fail, Deliver, File
    <3>2. CASE Rezone(q)
      BY <2>2, <3>2, SMTT(30) DEF Rezone
    <3>3. CASE Claim(q)
      BY <2>2, <3>3, SMTT(30) DEF Claim
    <3>4. CASE Finish(q)
      BY <2>1, <2>2, <3>4 DEF Finish
    <3>. QED  BY <2>4, <3>1, <3>2, <3>3, <3>4 DEF Proceed
  <2>5. ASSUME ClaimAges \/ Overrun \/ Pass PROVE tick'[p].at = "done"
    BY <2>5 DEF ClaimAges, Overrun, Age, Pass
  <2>. QED  BY <2>3, <2>4, <2>5 DEF Next
<1>. QED  BY <1>1, SchedulingInvariant, PTL DEF MemberHasTheLastWord, Spec

-----------------------------------------------------------------------------
(* What steps leave of the schedule and of what ticks have read *)

\* A next run comes after what it is to come after.
LEMMA NextIsLater ==
    ASSUME NEW plan \in Plans, NEW z \in Zones, NEW run, NEW now
    PROVE  /\ NextRunAfter(plan, now, z) # None => NextRunAfter(plan, now, z) > now
           /\ Advance(plan, run, now, z) # None => Advance(plan, run, now, z) > run
<1>. DEFINE S == {m \in Moments(plan, z) : m > now}
            T == {m \in Moments(plan, z) : m > run /\ m + LateGrace > now}
<1>1. S \subseteq AllMoments /\ T \subseteq AllMoments
  BY MomentsAreMoments
<1>2. Earliest(S) # None => Earliest(S) \in S
  BY <1>1, EarliestIsFirst DEF Earliest
<1>3. Earliest(T) # None => Earliest(T) \in T
  BY <1>1, EarliestIsFirst DEF Earliest
<1>. QED  BY <1>2, <1>3 DEF NextRunAfter, Advance

\* What both readings of a tick have in common.
SameTicks ==
    \A p \in Ticks : /\ tick'[p].at = tick[p].at
                     /\ tick[p].at # "idle" => tick'[p].now = tick[p].now
                     /\ tick[p].at \in {"running", "filing", "done"} =>
                           tick'[p].run = tick[p].run /\ tick'[p].status = tick[p].status

LEMMA EditedSteps ==
    ASSUME Scheduling, NEW r \in RowType, Edited(r)
    PROVE  /\ row.state = "live"
           /\ row'.claim = Unclaimed /\ row'.next = r.next /\ row'.state = r.state
           /\ SameTicks
           /\ loose' = IF row.claim = Unclaimed THEN loose ELSE loose \cup {row.next}
           /\ UNCHANGED <<clock, ran>>
<1>1. row' = Release(r)
  BY DEF Edited
<1>2. row'.claim = Unclaimed /\ row'.next = r.next /\ row'.state = r.state
  BY <1>1 DEF Release, RowType
<1>3. ASSUME NEW p \in Ticks
      PROVE  /\ tick'[p].at = tick[p].at
             /\ tick[p].at # "idle" => tick'[p].now = tick[p].now
             /\ tick[p].at \in {"running", "filing", "done"} =>
                   tick'[p].run = tick[p].run /\ tick'[p].status = tick[p].status
  <2>1. tick'[p] = Overtaken(p)
    BY DEF Edited
  <2>2. CASE tick[p].at \in {"running", "done"}
    <3>1. tick[p] \in Working
      BY <2>2, TickFields DEF Scheduling
    <3>2. tick'[p] = [tick[p] EXCEPT !.old = TRUE]
      BY <2>1, <2>2 DEF Overtaken
    <3>. QED  BY <3>1, <3>2 DEF Working
  <2>3. CASE tick[p].at \notin {"running", "done"}
    BY <2>1, <2>3 DEF Overtaken
  <2>. QED  BY <2>2, <2>3
<1>. QED  BY <1>2, <1>3 DEF Edited, SameTicks

\* The member schedules what is to come, and takes the claim away.
LEMMA MemberSteps ==
    ASSUME Scheduling, Member
    PROVE  \/ /\ row.state = "new" /\ row'.state = "live" /\ row'.claim = row.claim
              /\ row'.next > clock /\ UNCHANGED <<clock, tick, ran, loose>>
           \/ /\ row.state = "live" /\ row'.claim = Unclaimed
              /\ row'.state \in {"live", "deleted"}
              /\ row'.next \in {row.next, None} \/ row'.next > clock
              /\ SameTicks
              /\ loose' = IF row.claim = Unclaimed THEN loose ELSE loose \cup {row.next}
              /\ UNCHANGED <<clock, ran>>
           \/ UNCHANGED <<clock, row, tick, ran, loose>>
<1>r. row \in RowType /\ home \in Zones
  BY DEF Scheduling, RowOK
<1>n. \A plan \in Plans : /\ FirstRun(plan) \in MaybeMoment
                          /\ FirstRun(plan) # None => FirstRun(plan) > clock
  BY <1>r, NextIsMoment, NextIsLater DEF FirstRun
<1>1. ASSUME NEW plan \in Plans, Create(plan)
      PROVE  /\ row.state = "new" /\ row'.state = "live" /\ row'.claim = row.claim
             /\ row'.next > clock /\ UNCHANGED <<clock, tick, ran, loose>>
  BY <1>1, <1>r, <1>n DEF Create, RowType
<1>. DEFINE New(r) == /\ r \in RowType /\ Edited(r)
                      /\ r.state \in {row.state, "deleted"}
                      /\ r.next \in {row.next, None} \/ r.next > clock
<1>2. ASSUME NEW plan \in Plans, Reschedule(plan) PROVE \E r : New(r)
  <2>1. CASE row.enabled
    <3>. DEFINE r == [row EXCEPT !.plan = plan, !.tz = home, !.next = FirstRun(plan)]
    <3>1. r \in RowType /\ r.state = row.state /\ r.next > clock
      BY <1>2, <1>r, <1>n, <2>1 DEF Reschedule, RowType
    <3>2. Edited(r)
      BY <1>2, <2>1 DEF Reschedule
    <3>. HIDE DEF r
    <3>. QED  BY <3>1, <3>2
  <2>2. CASE ~row.enabled
    <3>. DEFINE r == [row EXCEPT !.plan = plan]
    <3>1. r \in RowType /\ r.state = row.state /\ r.next = row.next
      BY <1>r DEF RowType
    <3>2. Edited(r)
      BY <1>2, <2>2 DEF Reschedule
    <3>. HIDE DEF r
    <3>. QED  BY <3>1, <3>2
  <2>. QED  BY <1>r, <2>1, <2>2 DEF RowType
<1>3. ASSUME Rename PROVE \E r : New(r)
  BY <1>3, <1>r DEF Rename
<1>4. ASSUME Pause PROVE \E r : New(r)
  <2>. DEFINE r == [row EXCEPT !.enabled = FALSE, !.next = None]
  <2>1. r \in RowType /\ r.state = row.state /\ r.next = None
    BY <1>r DEF RowType, MaybeMoment
  <2>2. Edited(r)
    BY <1>4 DEF Pause
  <2>. HIDE DEF r
  <2>. QED  BY <2>1, <2>2
<1>5. ASSUME Resume PROVE \E r : New(r)
  <2>. DEFINE r == [row EXCEPT !.enabled = TRUE, !.tz = home, !.fails = 0,
                               !.next = FirstRun(row.plan)]
  <2>0. row.plan \in Plans /\ 0 \in 0..MaxFailures
    BY <1>r, Constants DEF RowType
  <2>1. r \in RowType /\ r.state = row.state /\ r.next > clock
    <3>1. FirstRun(row.plan) \in MaybeMoment /\ FirstRun(row.plan) > clock
      BY <1>5, <1>n, <2>0 DEF Resume
    <3>. QED  BY <1>r, <2>0, <3>1 DEF RowType
  <2>2. Edited(r)
    BY <1>5 DEF Resume
  <2>. HIDE DEF r
  <2>. QED  BY <2>1, <2>2
<1>6. ASSUME Delete PROVE \E r : New(r)
  <2>. DEFINE r == [row EXCEPT !.state = "deleted"]
  <2>1. r \in RowType /\ r.state = "deleted" /\ r.next = row.next
    BY <1>r DEF RowType
  <2>2. Edited(r)
    BY <1>6 DEF Delete
  <2>. HIDE DEF r
  <2>. QED  BY <2>1, <2>2
<1>7. ASSUME NEW r, New(r)
      PROVE  /\ row.state = "live" /\ row'.claim = Unclaimed
             /\ row'.state \in {"live", "deleted"}
             /\ row'.next \in {row.next, None} \/ row'.next > clock
             /\ SameTicks
             /\ loose' = IF row.claim = Unclaimed THEN loose ELSE loose \cup {row.next}
             /\ UNCHANGED <<clock, ran>>
  BY <1>7, EditedSteps
<1>8. ASSUME \/ \E z \in Zones : Move(z)
             \/ LeaveOrJoin
      PROVE  UNCHANGED <<clock, row, tick, ran, loose>>
  BY <1>8 DEF Move, LeaveOrJoin, Trip, history
<1>. HIDE DEF New
<1>. QED  BY <1>1, <1>2, <1>3, <1>4, <1>5, <1>6, <1>7, <1>8 DEF Member

LEMMA TickMoves ==
    ASSUME Scheduling, NEW p \in Ticks, NEW t, Goes(p, t)
    PROVE  tick'[p] = t /\ \A q \in Ticks : q # p => tick'[q] = tick[q]
BY DEF Scheduling, Goes

LEMMA RezoneSteps ==
    ASSUME Scheduling, NEW p \in Ticks, Rezone(p)
    PROVE  /\ row'.claim = row.claim /\ row'.state = row.state /\ row'.plan = row.plan
           /\ tick[p].at = "listed" /\ tick'[p].at \in {"idle", "claiming"}
           /\ tick'[p].at # "idle" => tick'[p].now = tick[p].now
           /\ \A q \in Ticks : q # p => tick'[q] = tick[q]
           /\ \/ row'.next = row.next /\ loose' = loose
              \/ loose' = loose \cup {m \in Taken : row'.next # None /\ row'.next <= m}
           /\ UNCHANGED <<clock, ran>>
<1>1. /\ row \in RowType /\ tick[p] \in Looking /\ tick[p].at = "listed"
      /\ UNCHANGED <<clock, ran>> /\ \E t : Goes(p, t)
  BY TickFields DEF Rezone, Scheduling, RowOK
<1>2. \A q \in Ticks : q # p => tick'[q] = tick[q]
  BY <1>1, TickMoves
<1>3. CASE row.state = "live" /\ row.enabled /\ row.tz = tick[p].tz
  <2>. DEFINE fresh == NextRunAfter(tick[p].plan, tick[p].now - LateGrace, tick[p].zone)
              t == IF fresh = None \/ fresh > tick[p].now
                   THEN Idle ELSE [tick[p] EXCEPT !.at = "claiming"]
  <2>1. /\ row' = [row EXCEPT !.next = fresh, !.tz = tick[p].zone] /\ Goes(p, t)
        /\ loose' = loose \cup {m \in Taken : fresh # None /\ fresh <= m}
    BY <1>3 DEF Rezone
  <2>2. /\ [tick[p] EXCEPT !.at = "claiming"].at = "claiming"
        /\ [tick[p] EXCEPT !.at = "claiming"].now = tick[p].now
    BY <1>1 DEF Looking
  <2>3. Idle.at = "idle"
    BY DEF Idle
  <2>4. t.at \in {"idle", "claiming"} /\ (t.at # "idle" => t.now = tick[p].now)
    <3>. HIDE DEF fresh
    <3>. QED  BY <2>2, <2>3
  <2>. HIDE DEF t, fresh
  <2>5. tick'[p] = t
    BY <2>1, TickMoves
  <2>6. /\ row'.claim = row.claim /\ row'.state = row.state /\ row'.plan = row.plan
        /\ row'.next = fresh
    BY <1>1, <2>1 DEF RowType
  <2>. QED  BY <1>1, <1>2, <2>1, <2>4, <2>5, <2>6
<1>4. CASE ~(row.state = "live" /\ row.enabled /\ row.tz = tick[p].tz)
  <2>1. Goes(p, Idle) /\ UNCHANGED <<row, loose>>
    BY <1>4 DEF Rezone
  <2>2. tick'[p].at = "idle"
    BY <2>1, TickMoves DEF Idle
  <2>. QED  BY <1>1, <1>2, <2>1, <2>2
<1>. QED  BY <1>3, <1>4

LEMMA ClaimSteps ==
    ASSUME Scheduling, NEW p \in Ticks, Claim(p)
    PROVE  /\ row'.state = row.state /\ row'.plan = row.plan /\ row'.next = row.next
           /\ \A q \in Ticks : q # p => tick'[q] = tick[q]
           /\ tick[p].at = "claiming"
           /\ \/ /\ row.state = "live" /\ row.next # None /\ Claimable
                 /\ row'.claim.by = p /\ ~row'.claim.aged
                 /\ tick'[p].at = "claimed" /\ tick'[p].now = tick[p].now
              \/ row' = row /\ tick'[p].at = "idle"
           /\ UNCHANGED <<clock, ran, loose>>
<1>1. /\ row \in RowType /\ UNCHANGED <<clock, ran, loose>> /\ tick[p].at = "claiming"
      /\ \E t : Goes(p, t)
  BY DEF Claim, Scheduling, RowOK, history
<1>2. \A q \in Ticks : q # p => tick'[q] = tick[q]
  BY <1>1, TickMoves
<1>3. CASE Due(tick[p].now) /\ Claimable
  <2>1. /\ row' = [row EXCEPT !.claim = [by |-> p, aged |-> FALSE]]
        /\ Goes(p, [at |-> "claimed", now |-> tick[p].now,
                    zone |-> tick[p].zone, due |-> row.next])
    BY <1>3 DEF Claim
  <2>2. tick'[p] = [at |-> "claimed", now |-> tick[p].now,
                    zone |-> tick[p].zone, due |-> row.next]
    BY <2>1, TickMoves
  <2>. QED  BY <1>1, <1>2, <1>3, <2>1, <2>2 DEF RowType, Due
<1>4. CASE ~(Due(tick[p].now) /\ Claimable)
  <2>1. Goes(p, Idle) /\ row' = row
    BY <1>4 DEF Claim
  <2>2. tick'[p].at = "idle"
    BY <2>1, TickMoves DEF Idle
  <2>. QED  BY <1>1, <1>2, <2>1, <2>2
<1>. QED  BY <1>3, <1>4

LEMMA FetchSteps ==
    ASSUME Scheduling, NEW p \in Ticks, Fetch(p)
    PROVE  /\ tick[p].at = "claimed" /\ tick[p].due \in AllMoments
           /\ tick[p].due <= tick[p].now
           /\ \A q \in Ticks : q # p => tick'[q] = tick[q]
           /\ loose' = IF row.claim = [by |-> p, aged |-> FALSE] /\ row.next = tick[p].due
                       THEN loose ELSE loose \cup {row.next}
           /\ \/ tick'[p].at = "idle"
              \/ /\ tick'[p].at \in {"running", "filing", "done"}
                 /\ tick'[p].now = tick[p].now /\ tick'[p].zone = tick[p].zone
                 /\ tick'[p].run = row.next
                 /\ tick'[p].next = IF row.next = None THEN None
                                    ELSE Advance(row.plan, row.next, tick[p].now, tick[p].zone)
                 /\ tick'[p].status # "skipped_access" => row.next # None
                 /\ row.state # "deleted"
           /\ UNCHANGED <<clock, row, ran>>
<1>1. /\ tick[p].at = "claimed" /\ tick[p] \in Holding /\ tick[p].due <= tick[p].now
      /\ UNCHANGED <<clock, row, ran>> /\ \E t : Goes(p, t)
      /\ loose' = IF row.claim = [by |-> p, aged |-> FALSE] /\ row.next = tick[p].due
                  THEN loose ELSE loose \cup {row.next}
  BY TickFields DEF Fetch, Scheduling, TickOK
<1>2. tick[p].due \in AllMoments /\ \A q \in Ticks : q # p => tick'[q] = tick[q]
  BY <1>1, TickMoves DEF Holding
<1>3. CASE row.state = "deleted" \/ (access /\ row.next = None)
  <2>1. Goes(p, Idle)
    BY <1>3 DEF Fetch
  <2>2. tick'[p].at = "idle"
    BY <2>1, TickMoves DEF Idle
  <2>. QED  BY <1>1, <1>2, <2>2
<1>4. CASE ~(row.state = "deleted" \/ (access /\ row.next = None))
  <2>. DEFINE next == IF row.next = None THEN None
                      ELSE Advance(row.plan, row.next, tick[p].now, tick[p].zone)
              moved == row.next # tick[p].due
              read == [at |-> "running", now |-> tick[p].now, zone |-> tick[p].zone,
                       run |-> row.next, fails |-> row.fails, old |-> FALSE,
                       moved |-> moved, status |-> "", next |-> next]
              t == IF ~access THEN [read EXCEPT !.at = "done", !.status = "skipped_access"]
                   ELSE IF Late(p) THEN [read EXCEPT !.at = "done", !.status = "skipped_late"]
                   ELSE read
  <2>1. Goes(p, t)
    BY <1>4 DEF Fetch
  <2>. HIDE DEF next, moved
  <2>2. /\ t.at \in {"running", "filing", "done"} /\ t.now = tick[p].now /\ t.zone = tick[p].zone
        /\ t.run = row.next /\ t.next = next
        /\ ~access <=> t.status = "skipped_access"
    OBVIOUS
  <2>. HIDE DEF t
  <2>3. tick'[p] = t
    BY <2>1, TickMoves
  <2>. QED  BY <1>1, <1>2, <1>4, <2>2, <2>3 DEF next
<1>. QED  BY <1>3, <1>4

LEMMA ExecuteSteps ==
    ASSUME Scheduling, NEW p \in Ticks, Execute(p)
    PROVE  /\ tick[p].at \in {"running", "filing"} /\ tick[p].run \in AllMoments
           /\ tick'[p].at \in {"filing", "done"} /\ tick'[p].run = tick[p].run
           /\ tick'[p].now = tick[p].now /\ tick'[p].zone = tick[p].zone
           /\ tick'[p].next = tick[p].next
           /\ tick'[p].status = "skipped_access" => tick[p].status = "skipped_access"
           /\ \A q \in Ticks : q # p => tick'[q] = tick[q]
           /\ ran' = IF tick[p].at = "running" THEN ran \cup {tick[p].run} ELSE ran
           /\ UNCHANGED <<clock, row, loose>>
<1>1. /\ tick[p].at \in {"running", "filing"} /\ UNCHANGED <<clock, row, loose>>
      /\ ran' = IF tick[p].at = "running" THEN ran \cup {tick[p].run} ELSE ran
      /\ \/ Goes(p, [tick[p] EXCEPT !.at = "filing"])
         \/ \E status \in {"ok", "failed"} : Goes(p, Done(p, status))
  BY DEF Execute, Fail, Deliver, File, history
<1>2. tick[p] \in Working /\ tick[p].run \in AllMoments
  BY <1>1, TickFields DEF Scheduling, TickOK
<1>3. CASE Goes(p, [tick[p] EXCEPT !.at = "filing"])
  <2>1. tick'[p] = [tick[p] EXCEPT !.at = "filing"]
    BY <1>3, TickMoves
  <2>2. \A q \in Ticks : q # p => tick'[q] = tick[q]
    BY <1>3, TickMoves
  <2>. QED  BY <1>1, <1>2, <2>1, <2>2 DEF Working
<1>4. ASSUME NEW status \in {"ok", "failed"}, Goes(p, Done(p, status))
      PROVE  /\ tick'[p].at = "done" /\ tick'[p].status = status
             /\ tick'[p].run = tick[p].run /\ tick'[p].now = tick[p].now
             /\ tick'[p].zone = tick[p].zone /\ tick'[p].next = tick[p].next
             /\ \A q \in Ticks : q # p => tick'[q] = tick[q]
  <2>1. tick'[p] = [tick[p] EXCEPT !.at = "done", !.status = status]
    BY <1>4, TickMoves DEF Done
  <2>2. \A q \in Ticks : q # p => tick'[q] = tick[q]
    BY <1>4, TickMoves
  <2>. QED  BY <1>2, <2>1, <2>2 DEF Working
<1>. QED  BY <1>1, <1>2, <1>3, <1>4

\* An outcome takes the next run the tick has read, or pauses the schedule.
LEMMA FinishSteps ==
    ASSUME Scheduling, NEW p \in Ticks, Finish(p)
    PROVE  /\ tick[p].at = "done" /\ tick'[p].at = "idle"
           /\ \A q \in Ticks : q # p => tick'[q] = tick[q]
           /\ \/ ~Mine(p) /\ row' = row
              \/ /\ Mine(p) /\ row'.claim = Unclaimed /\ row'.state = "live"
                 /\ \/ row'.next = None /\ ~row'.enabled
                    \/ row'.next = tick[p].next /\ tick[p].status # "skipped_access"
           /\ UNCHANGED <<clock, ran, loose>>
<1>1. /\ tick[p].at = "done" /\ tick[p] \in Working /\ row \in RowType
      /\ UNCHANGED <<clock, ran, loose>> /\ Goes(p, Idle)
      /\ row' = IF Mine(p) THEN Outcome(p) ELSE row
  BY TickFields DEF Finish, Scheduling, RowOK
<1>2. tick'[p].at = "idle" /\ \A q \in Ticks : q # p => tick'[q] = tick[q]
  BY <1>1, TickMoves DEF Idle
<1>3. CASE ~Mine(p)
  BY <1>1, <1>2, <1>3
<1>4. CASE Mine(p)
  <2>. DEFINE t == tick[p]
              paused == [Release(row) EXCEPT !.enabled = FALSE, !.next = None]
              moved == [Release(row) EXCEPT !.next = t.next, !.tz = t.zone]
  <2>1. row' = Outcome(p) /\ row'.claim = Unclaimed
    BY <1>1, <1>4, OutcomeOK
  <2>2. /\ paused.state = "live" /\ paused.next = None /\ ~paused.enabled
        /\ moved.state = "live" /\ moved.next = t.next
    BY <1>1, <1>4 DEF Mine, Release, RowType
  <2>3. \/ row' = paused
        \/ row' = [paused EXCEPT !.fails = t.fails + 1, !.tz = t.zone]
        \/ /\ t.status # "skipped_access"
           /\ \/ row' = moved
              \/ row' = [moved EXCEPT !.fails = 0]
              \/ row' = [moved EXCEPT !.fails = t.fails + 1]
    BY <2>1 DEF Outcome
  <2>4. /\ row'.state = "live"
        /\ \/ row'.next = None /\ ~row'.enabled
           \/ row'.next = t.next /\ t.status # "skipped_access"
    <3>1. CASE row' = paused
      BY <2>2, <3>1
    <3>2. CASE row' = [paused EXCEPT !.fails = t.fails + 1, !.tz = t.zone]
      BY <1>1, <2>2, <3>2 DEF Release, RowType
    <3>3. ASSUME t.status # "skipped_access",
                 \/ row' = moved
                 \/ row' = [moved EXCEPT !.fails = 0]
                 \/ row' = [moved EXCEPT !.fails = t.fails + 1]
          PROVE  row'.state = moved.state /\ row'.next = moved.next
      BY <1>1, <3>3 DEF Release, RowType
    <3>. QED
      <4>. HIDE DEF paused, moved
      <4>. QED  BY <2>2, <2>3, <3>1, <3>2, <3>3
  <2>. QED  BY <1>1, <1>2, <1>4, <2>1, <2>4
<1>. QED  BY <1>3, <1>4


LEMMA ListSteps ==
    ASSUME Scheduling, NEW p \in Ticks, List(p)
    PROVE  /\ tick[p].at = "idle" /\ tick'[p].at \in {"listed", "claiming"}
           /\ tick'[p].now = clock
           /\ \A q \in Ticks : q # p => tick'[q] = tick[q]
           /\ UNCHANGED <<clock, row, ran, loose>>
<1>. DEFINE t == [at |-> IF row.tz = home THEN "claiming" ELSE "listed",
                  now |-> clock, zone |-> home, tz |-> row.tz, plan |-> row.plan]
<1>1. tick[p].at = "idle" /\ Goes(p, t) /\ UNCHANGED <<clock, row, ran, loose>>
  BY DEF List, history
<1>2. t.at \in {"listed", "claiming"} /\ t.now = clock
  OBVIOUS
<1>. HIDE DEF t
<1>. QED  BY <1>1, <1>2, TickMoves

LEMMA DieSteps ==
    ASSUME Scheduling, NEW p \in Ticks, Die(p)
    PROVE  /\ tick'[p].at = "idle"
           /\ \A q \in Ticks : q # p => tick'[q] = tick[q]
           /\ UNCHANGED <<clock, row, ran, loose>>
<1>1. Goes(p, Idle) /\ UNCHANGED <<clock, row, ran, loose>>
  BY DEF Die, history
<1>. QED  BY <1>1, TickMoves DEF Idle

LEMMA AgeSteps ==
    ASSUME Scheduling, ClaimAges \/ Overrun
    PROVE  /\ row.claim # Unclaimed /\ row'.claim.by = row.claim.by /\ row'.claim.aged
           /\ row'.state = row.state /\ row'.plan = row.plan /\ row'.next = row.next
           /\ loose' = loose \cup {row.next}
           /\ UNCHANGED <<clock, tick, ran>>
<1>1. /\ row.claim # Unclaimed /\ row' = [row EXCEPT !.claim.aged = TRUE]
      /\ loose' = loose \cup {row.next} /\ UNCHANGED <<clock, tick, ran>>
  BY DEF ClaimAges, Overrun, Age
<1>2. row \in RowType
  BY DEF Scheduling, RowOK
<1>. QED  BY <1>1, <1>2 DEF RowType

-----------------------------------------------------------------------------
(* A tick that holds the claim has the next run of the schedule as it is     *)

Works(p) == tick[p].at \in {"running", "filing", "done"}

HasRead(p) ==
    Works(p) =>
        /\ tick[p].status # "skipped_access" => tick[p].run # None
        /\ row.claim.by = p /\ tick[p].run # None =>
               tick[p].next = Advance(row.plan, tick[p].run, tick[p].now, tick[p].zone)

Advancing ==
    /\ row.state = "new" => row.claim = Unclaimed
    /\ \A p \in Ticks : HasRead(p)

\* A step that leaves the plan, and gives nobody a claim who works.
LEMMA AdvancingKeeps ==
    ASSUME Scheduling, Advancing, row'.plan = row.plan, row'.state = row.state,
           row'.claim = row.claim \/ row.state = "live",
           \A q \in Ticks : \/ ~Works(q)'
                            \/ HasRead(q)'
                            \/ /\ tick'[q] = tick[q]
                               /\ row'.claim.by = q => row.claim.by = q
    PROVE  Advancing'
<1>. SUFFICES ASSUME NEW q \in Ticks, tick'[q] = tick[q],
                     row'.claim.by = q => row.claim.by = q
              PROVE  HasRead(q)'
  BY DEF Advancing, HasRead
<1>. QED  BY DEF Advancing, HasRead, Works

LEMMA AdvancingStep ==
    ASSUME Scheduling, Advancing, [Next]_vars
    PROVE  Advancing'
<1>1. CASE UNCHANGED vars
  BY <1>1 DEF vars, Advancing, HasRead, Works
<1>2. CASE Member
  <2>1. \A q \in Ticks : Unclaimed.by # q
    BY Constants DEF Unclaimed
  <2>2. CASE /\ row.state = "new" /\ row'.state = "live" /\ row'.claim = row.claim
             /\ UNCHANGED tick
    BY <2>1, <2>2 DEF Advancing, HasRead, Works
  <2>3. CASE /\ row'.claim = Unclaimed /\ row'.state \in {"live", "deleted"} /\ SameTicks
    BY <2>1, <2>3 DEF Advancing, HasRead, Works, SameTicks
  <2>4. CASE UNCHANGED <<row, tick>>
    BY <2>4 DEF Advancing, HasRead, Works
  <2>. QED  BY <1>2, <2>2, <2>3, <2>4, MemberSteps
<1>3. ASSUME NEW p \in Ticks, List(p) PROVE Advancing'
  BY <1>3, ListSteps, AdvancingKeeps DEF Works
<1>4. ASSUME NEW p \in Ticks, Die(p) PROVE Advancing'
  BY <1>4, DieSteps, AdvancingKeeps DEF Works
<1>5. ASSUME NEW p \in Ticks, Rezone(p) PROVE Advancing'
  BY <1>5, RezoneSteps, AdvancingKeeps DEF Works
<1>6. ASSUME NEW p \in Ticks, Claim(p) PROVE Advancing'
  BY <1>6, ClaimSteps, AdvancingKeeps DEF Works
<1>7. ASSUME NEW p \in Ticks, Fetch(p) PROVE Advancing'
  <2>1. ~Works(p)' \/ HasRead(p)'
    BY <1>7, FetchSteps DEF Works, HasRead
  <2>. QED  BY <1>7, <2>1, FetchSteps, AdvancingKeeps
<1>8. ASSUME NEW p \in Ticks, Execute(p) PROVE Advancing'
  <2>1. HasRead(p)'
    BY <1>8, ExecuteSteps, Constants DEF Advancing, Works, HasRead, None
  <2>. QED  BY <1>8, <2>1, ExecuteSteps, AdvancingKeeps
<1>9. ASSUME NEW p \in Ticks, Finish(p) PROVE Advancing'
  <2>1. ~Works(p)' /\ \A q \in Ticks : q # p => tick'[q] = tick[q]
    BY <1>9, FinishSteps DEF Works
  <2>2. CASE row' = row
    BY <2>1, <2>2, AdvancingKeeps
  <2>3. CASE row'.claim = Unclaimed /\ row'.state = "live"
    <3>1. \A q \in Ticks : row'.claim.by # q
      BY <2>3, Constants DEF Unclaimed
    <3>. QED  BY <2>1, <2>3, <3>1 DEF Advancing, HasRead, Works
  <2>. QED  BY <1>9, <2>2, <2>3, FinishSteps
<1>10. ASSUME ClaimAges \/ Overrun PROVE Advancing'
  BY <1>10, AgeSteps DEF Advancing, HasRead, Works
<1>11. ASSUME Pass PROVE Advancing'
  BY <1>11 DEF Pass, Advancing, HasRead, Works
<1>. QED
  BY <1>1, <1>2, <1>3, <1>4, <1>5, <1>6, <1>7, <1>8, <1>9, <1>10, <1>11
  DEF Next, Proceed

LEMMA AdvancingInvariant == Spec => [](Scheduling /\ Advancing)
<1>1. Init => Advancing
  BY Constants DEF Init, Advancing, HasRead, Works, Idle, Unclaimed
<1>. QED  BY <1>1, SchedulingInit, SchedulingStep, AdvancingStep, PTL DEF Spec


\* An outcome drops no moment of the plan: the tick that may write it has the
\* first moment past its own that is not too old, by the plan as it is.
THEOREM NothingIsDropped == Spec => NoMomentIsDropped
<1>. DEFINE Dropless ==
    \A p \in Ticks :
        /\ tick[p].at = "done" /\ tick'[p].at = "idle"
        /\ row' # row /\ row'.enabled
        /\ row.tz = tick[p].zone /\ row.next = tick[p].run
        => \A m \in Moments(row.plan, row.tz) :
              row.next <= m /\ (row'.next = None \/ m < row'.next)
              => m = tick[p].run \/ m + LateGrace <= tick[p].now
<1>1. Scheduling /\ Advancing /\ [Next]_vars => [Dropless]_vars
  <2>. SUFFICES ASSUME Scheduling, Advancing, Next, NEW p \in Ticks,
                       tick[p].at = "done", tick'[p].at = "idle",
                       row' # row, row'.enabled,
                       row.tz = tick[p].zone, row.next = tick[p].run,
                       NEW m \in Moments(row.plan, row.tz),
                       row.next <= m, row'.next = None \/ m < row'.next,
                       m # tick[p].run
                PROVE  m + LateGrace <= tick[p].now
    BY DEF vars
  <2>1. Finish(p)
    <3>1. ~Member
      BY MemberSteps DEF SameTicks
    <3>2. ASSUME NEW q \in Ticks, List(q) \/ Proceed(q) \/ Die(q) PROVE q = p /\ Finish(q)
      <4>1. ~List(q) /\ ~Fetch(q) /\ ~Die(q)
        BY ListSteps, FetchSteps, DieSteps
      <4>2. ~Rezone(q) /\ ~Claim(q)
        BY RezoneSteps, ClaimSteps
      <4>3. ~Execute(q)
        BY ExecuteSteps
      <4>4. Finish(q) => q = p
        BY FinishSteps
      <4>. QED  BY <3>2, <4>1, <4>2, <4>3, <4>4 DEF Proceed
    <3>3. ~ClaimAges /\ ~Overrun
      BY AgeSteps
    <3>4. ~Pass
      BY DEF Pass
    <3>. QED  BY <3>1, <3>2, <3>3, <3>4 DEF Next
  <2>2. /\ row.claim.by = p /\ row'.next = tick[p].next
        /\ tick[p].status # "skipped_access"
    BY <2>1, FinishSteps DEF Mine
  <2>3. /\ tick[p].run # None
        /\ tick[p].next = Advance(row.plan, tick[p].run, tick[p].now, row.tz)
    BY <2>2 DEF Advancing, HasRead, Works
  <2>4. row.plan \in Plans /\ row.tz \in Zones /\ row.next \in MaybeMoment
    BY DEF Scheduling, RowOK, RowType
  <2>n. tick[p].now \in Nat
    <3>1. tick[p] \in Working
      BY TickFields DEF Scheduling
    <3>2. tick[p].now \in 0..MaxTime
      BY <3>1 DEF Working
    <3>. QED  BY <3>2, Constants
  <2>5. row.next \in Nat /\ m \in Nat /\ LateGrace \in Nat /\ m > row.next
    <3>1. row.next \in AllMoments
      BY <2>3, <2>4 DEF MaybeMoment
    <3>2. m \in AllMoments
      BY <2>4, MomentsAreMoments
    <3>3. row.next \in Nat /\ m \in Nat /\ LateGrace \in Nat
      BY <3>1, <3>2, Constants
    <3>. QED  BY <3>3
  <2>. DEFINE S == {x \in Moments(row.plan, row.tz) :
                       x > tick[p].run /\ x + LateGrace > tick[p].now}
  <2>6. S \subseteq AllMoments /\ tick[p].next = Earliest(S)
    BY <2>3, <2>4, MomentsAreMoments DEF Advance
  <2>7. SUFFICES ASSUME m \in S PROVE FALSE
    BY <2>n, <2>5
  <2>. HIDE DEF S
  <2>8. Earliest(S) \in AllMoments /\ Earliest(S) <= m
    BY <2>6, <2>7, EarliestIsFirst
  <2>9. Earliest(S) \in Nat /\ Earliest(S) # None
    BY <2>8, Constants
  <2>. QED  BY <2>2, <2>5, <2>6, <2>8, <2>9
<1>. QED  BY <1>1, AdvancingInvariant, PTL DEF NoMomentIsDropped, Spec


-----------------------------------------------------------------------------
(* A moment is run once                                                      *)

\* The moments nobody may run again.
Spent == Taken \ loose

Past ==
    /\ ran \subseteq AllMoments
    /\ \A p \in Ticks : tick[p].at # "idle" => tick[p].now <= clock
    /\ \A m \in Spent : m <= clock

\* What is spent lies behind the next run, or is the next run while the tick
\* that claimed it has read it and its claim stands.
Behind ==
    row.state = "live" /\ row.next # None =>
        \A m \in Spent :
            /\ m <= row.next
            /\ m = row.next => /\ row.claim.by # NoOne /\ ~row.claim.aged
                               /\ tick[row.claim.by].at # "claimed"

\* It does not lie past the run of the tick that will move the schedule.
HolderIsLast ==
    \A p \in Ticks :
        Works(p) /\ row.claim.by = p /\ tick[p].run # None
        => \A m \in Spent : m <= tick[p].run

\* Two ticks run one moment only if it is loose.
RunsAlone ==
    \A p \in Ticks : tick[p].at = "running" =>
        \/ tick[p].run \in loose
        \/ /\ tick[p].run \notin ran
           /\ \A q \in Ticks : tick[q].at = "running" /\ tick[q].run = tick[p].run => q = p

Once == Past /\ Behind /\ HolderIsLast /\ RunsAlone

LEMMA MomentIsNumber ==
    ASSUME NEW m \in MaybeMoment
    PROVE  m \in Int /\ (m # None => m \in Nat)
<1>1. AllMoments \subseteq Nat
  BY Constants
<1>2. m \in AllMoments \/ m = None
  BY DEF MaybeMoment
<1>3. None \in Int
  BY DEF None
<1>4. CASE m \in AllMoments
  <2>1. m \in Nat
    BY <1>1, <1>4
  <2>. QED  BY <2>1
<1>5. CASE m = None
  BY <1>3, <1>5
<1>. QED  BY <1>2, <1>4, <1>5

LEMMA Numbers ==
    ASSUME Scheduling, ran \subseteq AllMoments
    PROVE  /\ clock \in Nat /\ row.next \in Int /\ (row.next # None => row.next \in Nat)
           /\ row.claim.by \in Ticks \cup {NoOne}
           /\ Taken \subseteq AllMoments /\ Spent \subseteq Nat
<1>1. row.next \in MaybeMoment /\ row.claim.by \in Ticks \cup {NoOne} /\ clock \in 0..MaxTime
  BY DEF Scheduling, RowOK, RowType
<1>2. Taken \subseteq AllMoments
  BY DEF Scheduling, TickOK, Taken
<1>3. row.next \in Int /\ (row.next # None => row.next \in Nat)
  BY <1>1, MomentIsNumber
<1>4. clock \in Nat
  BY <1>1, Constants
<1>5. Spent \subseteq Nat
  <2>1. AllMoments \subseteq Nat
    BY Constants
  <2>. QED  BY <1>2, <2>1 DEF Spent
<1>. QED  BY <1>1, <1>2, <1>3, <1>4, <1>5

LEMMA NowIsNumber ==
    ASSUME Scheduling, NEW p \in Ticks, tick[p].at # "idle"
    PROVE  tick[p].now \in Nat
<1>1. tick[p] \in Looking \cup Holding \cup Working
  <2>1. tick[p] \in {Idle} \cup Looking \cup Holding \cup Working
    BY DEF Scheduling
  <2>2. tick[p] # Idle
    BY DEF Idle
  <2>. QED  BY <2>1, <2>2
<1>2. tick[p] \in Looking => tick[p].now \in 0..MaxTime
  BY DEF Looking
<1>3. tick[p] \in Holding => tick[p].now \in 0..MaxTime
  BY DEF Holding
<1>4. tick[p] \in Working => tick[p].now \in 0..MaxTime
  BY DEF Working
<1>. QED  BY <1>1, <1>2, <1>3, <1>4, Constants

\* A step that starts no job makes nothing spent and runs nothing again.
LEMMA SpentStays ==
    ASSUME Scheduling, Once, ran' = ran, loose \subseteq loose', clock' \in {clock, clock + 1},
           \A q \in Ticks : tick'[q].at = "running" =>
               tick[q].at = "running" /\ tick'[q].run = tick[q].run,
           \A q \in Ticks : tick'[q].at # "idle" =>
               \/ tick[q].at # "idle" /\ tick'[q].now = tick[q].now
               \/ tick'[q].now = clock
    PROVE  /\ Spent' \subseteq Spent /\ Past' /\ RunsAlone'
           /\ Taken' \subseteq Taken
<1>1. Taken' \subseteq Taken
  BY DEF Taken
<1>2. Spent' \subseteq Spent
  BY <1>1 DEF Spent
<1>3. Past'
  <2>1. clock \in Nat /\ Spent \subseteq Nat /\ ran \subseteq AllMoments
    BY Numbers DEF Once, Past
  <2>2. \A m \in Spent' : m <= clock'
    <3>1. \A m \in Spent : m <= clock
      BY DEF Once, Past
    <3>. QED  BY <1>2, <2>1, <3>1
  <2>3. ASSUME NEW q \in Ticks, tick'[q].at # "idle" PROVE tick'[q].now <= clock'
    <3>1. CASE tick'[q].now = clock
      BY <2>1, <3>1
    <3>2. CASE tick[q].at # "idle" /\ tick'[q].now = tick[q].now
      <4>1. tick[q].now \in Int /\ tick[q].now <= clock
        BY <3>2, NowIsNumber DEF Once, Past
      <4>. QED  BY <2>1, <3>2, <4>1
    <3>. QED  BY <2>3, <3>1, <3>2
  <2>. QED  BY <2>1, <2>2, <2>3 DEF Past
<1>4. RunsAlone'
  BY DEF Once, RunsAlone
<1>. QED  BY <1>1, <1>2, <1>3, <1>4

LEMMA HolderStays ==
    ASSUME Once, Spent' \subseteq Spent,
           \A q \in Ticks : Works(q)' /\ row'.claim.by = q =>
               Works(q) /\ row.claim.by = q /\ tick'[q].run = tick[q].run
    PROVE  HolderIsLast'
BY DEF Once, HolderIsLast

LEMMA OnceMember ==
    ASSUME Scheduling, Scheduling', Advancing, Once, Member
    PROVE  Once'
<1>0. Unclaimed.by = NoOne /\ NoOne \notin Ticks
  BY Constants DEF Unclaimed
<1>1. Spent' \subseteq Spent /\ Past' /\ RunsAlone'
  <2>1. CASE UNCHANGED <<clock, tick, ran, loose>>
    BY <2>1, SpentStays
  <2>2. CASE /\ SameTicks /\ UNCHANGED <<clock, ran>>
             /\ loose' = IF row.claim = Unclaimed THEN loose ELSE loose \cup {row.next}
    BY <2>2, SpentStays DEF SameTicks
  <2>. QED  BY <2>1, <2>2, MemberSteps
<1>2. /\ clock \in Nat /\ Spent \subseteq Nat /\ row'.next \in Int
      /\ \A m \in Spent : m <= clock
  <2>1. row'.next \in MaybeMoment
    BY DEF Scheduling, RowOK, RowType
  <2>2. row'.next \in Int
    BY <2>1, MomentIsNumber
  <2>. QED  BY <2>2, Numbers DEF Once, Past
<1>3. CASE /\ row.state = "new" /\ row'.claim = row.claim /\ row'.next > clock
           /\ UNCHANGED <<tick, loose>>
  <2>1. Behind'
    BY <1>1, <1>2, <1>3 DEF Behind
  <2>2. HolderIsLast'
    BY <1>0, <1>3 DEF Advancing, HolderIsLast
  <2>. QED  BY <1>1, <2>1, <2>2 DEF Once
<1>4. CASE /\ row.state = "live" /\ row'.claim = Unclaimed
           /\ row'.next \in {row.next, None} \/ row'.next > clock
           /\ loose' = IF row.claim = Unclaimed THEN loose ELSE loose \cup {row.next}
  <2>1. Behind'
    <3>1. CASE row'.next > clock
      BY <1>1, <1>2, <3>1 DEF Behind
    <3>2. CASE row'.next = row.next
      <4>1. CASE row.claim = Unclaimed
        BY <1>0, <1>1, <1>4, <3>2, <4>1 DEF Once, Behind
      <4>2. CASE row.claim # Unclaimed
        <5>1. row.next \notin Spent'
          BY <1>4, <4>2 DEF Spent
        <5>. QED  BY <1>1, <1>4, <3>2, <5>1 DEF Once, Behind
      <4>. QED  BY <4>1, <4>2
    <3>3. CASE row'.next = None
      BY <3>3 DEF Behind
    <3>. QED  BY <1>4, <3>1, <3>2, <3>3
  <2>2. HolderIsLast'
    BY <1>0, <1>4 DEF HolderIsLast
  <2>. QED  BY <1>1, <2>1, <2>2 DEF Once
<1>5. CASE UNCHANGED <<clock, row, tick, ran, loose>>
  BY <1>1, <1>5 DEF Once, Behind, HolderIsLast, Spent, Taken, Works
<1>. QED  BY <1>3, <1>4, <1>5, MemberSteps


\* A tick that comes, dies, or finds the schedule in a zone it has read.
LEMMA OnceLooks ==
    ASSUME Scheduling, Once, NEW p \in Ticks, List(p) \/ Die(p) PROVE Once'
<1>1. /\ tick'[p].at \in {"idle", "listed", "claiming"}
      /\ tick'[p].at # "idle" => tick'[p].now = clock
      /\ \A q \in Ticks : q # p => tick'[q] = tick[q]
      /\ UNCHANGED <<clock, row, ran, loose>>
  BY ListSteps, DieSteps
<1>2. Spent' \subseteq Spent /\ Past' /\ RunsAlone'
  BY <1>1, SpentStays
<1>3. HolderIsLast'
  BY <1>1, <1>2, HolderStays DEF Works
<1>4. Behind'
  <2>1. tick'[row.claim.by].at = "claimed" /\ row.claim.by # NoOne
        => tick[row.claim.by].at = "claimed"
    BY <1>1, Numbers DEF Once, Past
  <2>. QED  BY <1>1, <1>2, <2>1 DEF Once, Behind
<1>. QED  BY <1>2, <1>3, <1>4 DEF Once

LEMMA OnceRezone ==
    ASSUME Scheduling, Scheduling', Once, NEW p \in Ticks, Rezone(p) PROVE Once'
<1>1. /\ row'.claim = row.claim /\ row'.state = row.state
      /\ tick'[p].at \in {"idle", "claiming"}
      /\ tick[p].at = "listed"
      /\ tick'[p].at # "idle" => tick'[p].now = tick[p].now
      /\ \A q \in Ticks : q # p => tick'[q] = tick[q]
      /\ UNCHANGED <<clock, ran>>
  BY RezoneSteps
<1>2. \/ row'.next = row.next /\ loose' = loose
      \/ loose' = loose \cup {m \in Taken : row'.next # None /\ row'.next <= m}
  BY RezoneSteps
<1>3. /\ Spent' \subseteq Spent /\ Past' /\ RunsAlone' /\ Taken' \subseteq Taken
  <2>1. tick[p].at # "idle"
    BY <1>1
  <2>2. loose \subseteq loose'
    BY <1>2
  <2>. QED  BY <1>1, <2>1, <2>2, SpentStays
<1>4. HolderIsLast'
  BY <1>1, <1>3, HolderStays DEF Works
<1>5. Behind'
  <2>1. CASE row'.next = row.next /\ loose' = loose
    <3>1. tick'[row.claim.by].at = "claimed" /\ row.claim.by # NoOne
          => tick[row.claim.by].at = "claimed"
      BY <1>1, Numbers DEF Once, Past
    <3>. QED  BY <1>1, <1>3, <2>1, <3>1 DEF Once, Behind
  <2>2. CASE loose' = loose \cup {m \in Taken : row'.next # None /\ row'.next <= m}
    <3>1. row'.next # None => \A m \in Spent' : ~(row'.next <= m)
      BY <1>3, <2>2 DEF Spent
    <3>2. Spent \subseteq Nat
      BY Numbers DEF Once, Past
    <3>3. row'.next \in Int
      BY MomentIsNumber DEF Scheduling, RowOK, RowType
    <3>. QED  BY <1>3, <3>1, <3>2, <3>3 DEF Behind
  <2>. QED  BY <1>2, <2>1, <2>2
<1>. QED  BY <1>3, <1>4, <1>5 DEF Once

LEMMA OnceClaim ==
    ASSUME Scheduling, Once, NEW p \in Ticks, Claim(p) PROVE Once'
<1>1. /\ row'.state = row.state /\ row'.next = row.next
      /\ tick[p].at = "claiming" /\ tick'[p].at \in {"claimed", "idle"}
      /\ tick'[p].at # "idle" => tick'[p].now = tick[p].now
      /\ \A q \in Ticks : q # p => tick'[q] = tick[q]
      /\ UNCHANGED <<clock, ran, loose>>
  BY ClaimSteps
<1>2. \/ row.state = "live" /\ row.next # None /\ Claimable /\ row'.claim.by = p
      \/ row' = row /\ tick'[p].at = "idle"
  BY ClaimSteps
<1>3. Spent' \subseteq Spent /\ Past' /\ RunsAlone'
  <2>1. tick[p].at # "idle"
    BY <1>1
  <2>. QED  BY <1>1, <2>1, SpentStays
<1>4. HolderIsLast'
  BY <1>1, <1>2, <1>3, HolderStays DEF Works
<1>5. CASE row.state = "live" /\ row.next # None /\ Claimable
  <2>1. \A m \in Spent : m <= row.next /\ m # row.next
    BY <1>5 DEF Once, Behind, Claimable, Unclaimed
  <2>. QED  BY <1>1, <1>3, <1>4, <2>1 DEF Once, Behind
<1>6. CASE row' = row /\ tick'[p].at = "idle"
  <2>1. tick'[row.claim.by].at = "claimed" /\ row.claim.by # NoOne
        => tick[row.claim.by].at = "claimed"
    BY <1>1, <1>6, Numbers DEF Once, Past
  <2>2. Behind'
    BY <1>3, <1>6, <2>1 DEF Once, Behind
  <2>. QED  BY <1>3, <1>4, <2>2 DEF Once
<1>. QED  BY <1>2, <1>5, <1>6

LEMMA OnceFinish ==
    ASSUME Scheduling, Scheduling', Advancing, Once, NEW p \in Ticks, Finish(p)
    PROVE  Once'
<1>1. /\ tick[p].at = "done" /\ tick'[p].at = "idle"
      /\ \A q \in Ticks : q # p => tick'[q] = tick[q]
      /\ UNCHANGED <<clock, ran, loose>>
  BY FinishSteps
<1>2. Spent' \subseteq Spent /\ Past' /\ RunsAlone'
  BY <1>1, SpentStays
<1>3. CASE row' = row
  <2>1. HolderIsLast'
    BY <1>1, <1>2, <1>3, HolderStays DEF Works
  <2>2. tick'[row.claim.by].at = "claimed" /\ row.claim.by # NoOne
        => tick[row.claim.by].at = "claimed"
    BY <1>1, Numbers DEF Once, Past
  <2>3. Behind'
    BY <1>2, <1>3, <2>2 DEF Once, Behind
  <2>. QED  BY <1>2, <2>1, <2>3 DEF Once
<1>4. CASE /\ row.claim.by = p /\ row'.claim = Unclaimed
           /\ \/ row'.next = None
              \/ row'.next = tick[p].next /\ tick[p].status # "skipped_access"
  <2>1. HolderIsLast'
    BY <1>4, Constants DEF HolderIsLast, Unclaimed
  <2>2. Behind'
    <3>. SUFFICES ASSUME row'.next # None, NEW m \in Spent
                  PROVE  m <= row'.next /\ m # row'.next
      BY <1>2 DEF Behind
    <3>1. /\ Works(p) /\ tick[p].run # None /\ row.plan \in Plans /\ tick[p].zone \in Zones
          /\ row'.next = Advance(row.plan, tick[p].run, tick[p].now, tick[p].zone)
      <4>1. tick[p] \in Working /\ row.plan \in Plans
        BY <1>1, TickFields DEF Scheduling, RowOK, RowType
      <4>2. tick[p].zone \in Zones
        BY <4>1 DEF Working
      <4>. QED  BY <1>1, <1>4, <4>1, <4>2 DEF Advancing, HasRead, Works
    <3>2. row'.next > tick[p].run
      BY <3>1, NextIsLater
    <3>3. m <= tick[p].run
      BY <1>4, <3>1 DEF Once, HolderIsLast
    <3>4. m \in Int /\ row'.next \in Int /\ tick[p].run \in Int
      <4>1. tick[p] \in Working
        BY <1>1, TickFields DEF Scheduling
      <4>2. tick[p].run \in MaybeMoment
        BY <4>1 DEF Working
      <4>3. row'.next \in MaybeMoment
        BY DEF Scheduling, RowOK, RowType
      <4>4. m \in Nat
        BY Numbers DEF Once, Past
      <4>. QED  BY <4>2, <4>3, <4>4, MomentIsNumber
    <3>. QED  BY <3>2, <3>3, <3>4
  <2>. QED  BY <1>2, <2>1, <2>2 DEF Once
<1>. QED  BY <1>3, <1>4, FinishSteps DEF Mine

LEMMA OnceAge ==
    ASSUME Scheduling, Once, ClaimAges \/ Overrun PROVE Once'
<1>1. /\ row'.claim.by = row.claim.by /\ row'.state = row.state /\ row'.next = row.next
      /\ loose' = loose \cup {row.next} /\ UNCHANGED <<clock, tick, ran>>
  BY AgeSteps
<1>2. Spent' \subseteq Spent /\ Past' /\ RunsAlone'
  BY <1>1, SpentStays
<1>3. HolderIsLast'
  BY <1>1, <1>2, HolderStays DEF Works
<1>4. row.next \notin Spent'
  BY <1>1 DEF Spent
<1>. QED  BY <1>1, <1>2, <1>3, <1>4 DEF Once, Behind

LEMMA OncePass ==
    ASSUME Scheduling, Once, Pass PROVE Once'
<1>1. clock' = clock + 1 /\ UNCHANGED <<row, tick, ran, loose>>
  BY DEF Pass, history
<1>2. Spent' \subseteq Spent /\ Past' /\ RunsAlone'
  BY <1>1, SpentStays
<1>3. HolderIsLast'
  BY <1>1, <1>2, HolderStays DEF Works
<1>. QED  BY <1>1, <1>2, <1>3 DEF Once, Behind


\* The second read makes the next run spent if the claim still stands for it,
\* and loose if not.
LEMMA OnceFetch ==
    ASSUME Scheduling, Advancing, Once, NEW p \in Ticks, Fetch(p) PROVE Once'
<1>. DEFINE stands == row.claim = [by |-> p, aged |-> FALSE] /\ row.next = tick[p].due
<1>1. /\ tick[p].at = "claimed" /\ tick[p].due \in AllMoments
      /\ tick[p].due <= tick[p].now
      /\ \A q \in Ticks : q # p => tick'[q] = tick[q]
      /\ loose' = IF stands THEN loose ELSE loose \cup {row.next}
      /\ UNCHANGED <<clock, row, ran>>
  BY FetchSteps
<1>2. \/ tick'[p].at = "idle"
      \/ /\ tick'[p].at \in {"running", "filing", "done"} /\ tick'[p].now = tick[p].now
         /\ tick'[p].run = row.next /\ row.state # "deleted"
  BY FetchSteps
<1>3. /\ clock \in Nat /\ Spent \subseteq Nat /\ ran \subseteq AllMoments
      /\ \A m \in Spent : m <= clock
  BY Numbers DEF Once, Past
<1>4. ASSUME row.claim.by = p, row.state # "deleted" PROVE row.state = "live"
  <2>1. row.claim # Unclaimed
    BY <1>4, Constants DEF Unclaimed
  <2>2. row.state \in {"new", "live", "deleted"}
    BY DEF Scheduling, RowOK, RowType
  <2>. QED  BY <1>4, <2>1, <2>2 DEF Advancing
<1>5. /\ Taken' \subseteq Taken \cup {row.next}
      /\ tick'[p].at # "running" => Taken' \subseteq Taken
  BY <1>1, <1>2 DEF Taken
<1>. HIDE DEF stands
<1>6. /\ Spent' \subseteq Spent \cup {row.next}
      /\ ~stands \/ tick'[p].at # "running" => Spent' \subseteq Spent
      /\ ~stands => row.next \notin Spent'
  BY <1>1, <1>5 DEF Spent
<1>7. ASSUME stands, row.state = "live"
      PROVE  row.next \notin Spent /\ row.next \in Nat /\ row.next <= clock
  <2>1. row.next \in Nat /\ row.next <= clock
    <3>1. tick[p].now \in Nat /\ tick[p].now <= clock
      BY <1>1, NowIsNumber DEF Once, Past
    <3>2. tick[p].due \in Nat /\ row.next = tick[p].due
      BY <1>1, <1>7, Constants DEF stands
    <3>. QED  BY <1>1, <1>3, <3>1, <3>2
  <2>2. row.next # None
    BY <2>1 DEF None
  <2>. QED  BY <1>1, <1>7, <2>1, <2>2 DEF Once, Behind, stands
<1>8. Past'
  <2>1. \A m \in Spent' : m <= clock
    <3>1. CASE ~stands \/ tick'[p].at # "running"
      BY <1>3, <1>6, <3>1
    <3>2. CASE stands /\ tick'[p].at = "running"
      BY <1>2, <1>3, <1>4, <1>6, <1>7, <3>2 DEF stands
    <3>. QED  BY <3>1, <3>2
  <2>. QED  BY <1>1, <1>2, <1>3, <2>1 DEF Once, Past
<1>9. Behind'
  <2>. SUFFICES ASSUME row.state = "live", row.next # None, NEW m \in Spent'
                PROVE  /\ m <= row.next
                       /\ m = row.next => /\ row.claim.by # NoOne /\ ~row.claim.aged
                                          /\ tick'[row.claim.by].at # "claimed"
    BY <1>1 DEF Behind
  <2>1. CASE m = row.next
    <3>1. stands
      BY <1>6, <2>1
    <3>2. row.claim.by = p /\ ~row.claim.aged /\ tick'[p].at # "claimed"
      BY <1>2, <3>1 DEF stands
    <3>. QED  BY <1>7, <2>1, <3>1, <3>2, Constants
  <2>2. CASE m # row.next
    BY <1>6, <2>2 DEF Once, Behind
  <2>. QED  BY <2>1, <2>2
<1>10. HolderIsLast'
  <2>. SUFFICES ASSUME NEW q \in Ticks, Works(q)', row.claim.by = q, tick'[q].run # None,
                       NEW m \in Spent'
                PROVE  m <= tick'[q].run
    BY <1>1 DEF HolderIsLast
  <2>1. CASE q = p
    <3>1. row.state = "live" /\ tick'[p].run = row.next
      BY <1>2, <1>4, <2>1 DEF Works
    <3>2. CASE m = row.next
      BY <1>6, <1>7, <2>1, <3>1, <3>2
    <3>3. CASE m # row.next
      BY <1>6, <2>1, <3>1, <3>3 DEF Once, Behind
    <3>. QED  BY <3>2, <3>3
  <2>2. CASE q # p
    <3>1. ~stands
      BY <2>2 DEF stands
    <3>. QED  BY <1>1, <1>6, <2>2, <3>1 DEF Once, HolderIsLast, Works
  <2>. QED  BY <2>1, <2>2
<1>11. RunsAlone'
  <2>. SUFFICES ASSUME NEW q \in Ticks, tick'[q].at = "running", tick'[q].run \notin loose'
                PROVE  /\ tick'[q].run \notin ran
                       /\ \A s \in Ticks :
                             tick'[s].at = "running" /\ tick'[s].run = tick'[q].run => s = q
    BY <1>1 DEF RunsAlone
  <2>1. loose \subseteq loose'
    BY <1>1
  <2>2. ASSUME tick'[p].at = "running", row.next \notin loose'
        PROVE  row.next \notin Taken
    <3>1. stands
      BY <1>1, <2>2
    <3>2. row.next \notin Spent
      BY <1>2, <1>4, <1>7, <2>2, <3>1 DEF stands
    <3>. QED  BY <2>1, <2>2, <3>2 DEF Spent
  <2>3. CASE q = p
    BY <1>1, <1>2, <2>2, <2>3 DEF Taken
  <2>4. CASE q # p
    <3>1. tick[q] = tick'[q]
      BY <1>1, <2>4
    <3>2. ~(tick'[p].at = "running" /\ tick'[p].run = tick[q].run)
      BY <1>2, <2>2, <3>1 DEF Taken
    <3>. QED  BY <1>1, <2>1, <3>1, <3>2 DEF Once, RunsAlone
  <2>. QED  BY <2>3, <2>4
<1>. QED  BY <1>8, <1>9, <1>10, <1>11 DEF Once

LEMMA OnceExecute ==
    ASSUME Scheduling, Once, NEW p \in Ticks, Execute(p)
    PROVE  Once'
<1>1. /\ tick[p].at \in {"running", "filing"} /\ tick[p].run \in AllMoments
      /\ tick'[p].at \in {"filing", "done"}
      /\ tick'[p].run = tick[p].run /\ tick'[p].now = tick[p].now
      /\ \A q \in Ticks : q # p => tick'[q] = tick[q]
      /\ ran' = IF tick[p].at = "running" THEN ran \cup {tick[p].run} ELSE ran
      /\ UNCHANGED <<clock, row, loose>>
  BY ExecuteSteps
<1>2. Spent' \subseteq Spent
  BY <1>1 DEF Spent, Taken
<1>3. Past'
  BY <1>1, <1>2 DEF Once, Past
<1>4. HolderIsLast'
  BY <1>1, <1>2, HolderStays DEF Works
<1>5. Behind'
  <2>1. tick'[row.claim.by].at = "claimed" /\ row.claim.by # NoOne
        => tick[row.claim.by].at = "claimed"
    BY <1>1, Numbers DEF Once, Past
  <2>. QED  BY <1>1, <1>2, <2>1 DEF Once, Behind
<1>6. RunsAlone'
  BY <1>1 DEF Once, RunsAlone
<1>. QED  BY <1>3, <1>4, <1>5, <1>6 DEF Once

LEMMA OnceStep ==
    ASSUME Scheduling, Scheduling', Advancing, Once, [Next]_vars
    PROVE  Once'
<1>1. CASE UNCHANGED vars
  BY <1>1 DEF vars, history, Once, Past, Behind, HolderIsLast, RunsAlone, Spent, Taken, Works
<1>2. ASSUME NEW p \in Ticks, Proceed(p) PROVE Once'
  BY <1>2, OnceRezone, OnceClaim, OnceFetch, OnceFinish, OnceExecute DEF Proceed
<1>. QED  BY <1>1, <1>2, OnceMember, OnceLooks, OnceAge, OncePass DEF Next

\* "A due run happens at most once": the job of one moment is run a second time
\* only if its claim aged, the member took it away, a tick read the schedule
\* after its claim was gone, or a change of zone scheduled the moment again.
THEOREM JobRunsOnce == Spec => RunsOnce
<1>. DEFINE IsFirst == \A p \in Ticks : Runs(p) => (tick[p].run \in ran => tick[p].run \in loose)
<1>1. Init => Once
  <2>. SUFFICES ASSUME Init PROVE Once
    OBVIOUS
  <2>1. \A p \in Ticks : tick[p].at = "idle"
    BY DEF Init, Idle
  <2>2. row.state = "new" /\ ran = {}
    BY DEF Init
  <2>3. Taken = {}
    BY <2>1, <2>2 DEF Taken
  <2>. QED
    BY <2>1, <2>2, <2>3 DEF Once, Past, Behind, HolderIsLast, RunsAlone, Spent, Works
<1>2. Once => IsFirst
  BY DEF Once, RunsAlone, Runs
<1>3. Spec => []Once
  BY <1>1, SchedulingInit, SchedulingStep, AdvancingInvariant, OnceStep, PTL DEF Spec
<1>4. Once => [IsFirst]_vars
  BY <1>2
<1>. QED  BY <1>3, <1>4, PTL DEF RunsOnce
=============================================================================
