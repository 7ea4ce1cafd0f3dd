----------------------------- MODULE MCSpeedTest -----------------------------
(* Speed tests of a small group.                                           *)
EXTENDS SpeedTest, FiniteSets

CONSTANTS
    a, b, f, x,     \* profiles: two plain ones, a full one, one left out
    MaxStops        \* bound on stops

VARIABLE stops

(* The whole group, and profiles of it, which then have other tags.        *)
Mixed == {<<x, f, a, b>>, <<a>>, <<b>>}

MCInit == Init /\ stops = 0

(* A session is begun only with calls left for it.                         *)
CallsOf(s) == Cardinality(FullConfigs(s)) + IF HasCommon(s) THEN 1 ELSE 0
MCClick(s) == asked + CallsOf(s) <= Calls /\ Click(s)

Inside == Session \/ Core \/ Tick \/ RunPosted \/ \E n \in 1..Calls : Poll(n)

MCNext ==
    \/ (\E s \in Groups : MCClick(s)) /\ UNCHANGED stops
    \/ Inside /\ UNCHANGED stops
    \/ stops < MaxStops /\ Stop /\ stops' = stops + 1

MCSpec == MCInit /\ [][MCNext]_<<vars, stops>>
MCFairSpec == MCSpec /\ Fairness
=============================================================================
