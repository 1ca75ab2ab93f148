--------------------------- MODULE MCMemberSchedule ---------------------------
(* An instance of MemberSchedule for TLC: days of three units. *)
EXTENDS MemberSchedule

\* Daily and once, at midnight.
MCPlans == {[days |-> 0..3, hour |-> 0], [days |-> {0}, hour |-> 0]}

\* The second zone is two units west of the first, and its clocks skip the
\* midnight of day 1.
West == [before |-> -2, after |-> -1, switch |-> 5]

MCZones == {[before |-> 0, after |-> 0, switch |-> 0], West}

\* The instant of a local time is the first at which the wall clock has reached
\* it, where clocks jump, go back or stay.
ASSUME FirstInstant ==
    \A z \in MCZones \cup {[West EXCEPT !.after = a] : a \in -4..1} :
        \A local \in 0..8 :
            LocalToUtc(z, local) = Min({t \in 0..20 : Wall(z, t) >= local})

=============================================================================
