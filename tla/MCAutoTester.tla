---------------------------- MODULE MCAutoTester ----------------------------
(* The tester on a small group, with a bound on what comes from outside.   *)
EXTENDS AutoTester

CONSTANTS
    p1, p2, p3,     \* profiles
    MaxOutside      \* bound on what comes from outside

VARIABLE outside

(* One passes its tests, one may, and the others fail.                     *)
Mixed == [p \in Proxies |-> IF p = p1 THEN {TRUE} ELSE IF p = p2 THEN BOOLEAN ELSE {FALSE}]

MCInit == Init /\ outside = 0

MCNext ==
    \/ Inside /\ UNCHANGED outside
    \/ outside < MaxOutside /\ Outside /\ outside' = outside + 1

MCSpec     == MCInit /\ [][MCNext]_<<vars, outside>>
MCFairSpec == MCSpec /\ Fairness
=============================================================================
