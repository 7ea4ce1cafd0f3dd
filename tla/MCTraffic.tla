------------------------------ MODULE MCTraffic ------------------------------
(* The statistics of a few profiles, with a bound on what the user does.   *)
EXTENDS Traffic

CONSTANTS
    g,          \* a profile that has a front proxy, b
    a, b, c,    \* a chain, c, and its members; a is run alone, too
    MaxOutside  \* bound on what the user does

VARIABLE outside

Shared == [x \in Profiles |-> IF x = c THEN <<b, a>> ELSE IF x = g THEN <<g, b>> ELSE <<x>>]

MCInit == Init /\ outside = 0

Asked == User \/ StopBegin \/ \E x \in Profiles : Start(x)

MCNext == /\ Next
          /\ Asked => outside < MaxOutside
          /\ outside' = IF Asked THEN outside + 1 ELSE outside

MCSpec == MCInit /\ [][MCNext]_<<vars, outside>>
=============================================================================
