------------------------------- MODULE MCRoutes -------------------------------
(* Routing profiles: a few objects and texts, few starts.                  *)
EXTENDS Routes

CONSTANT MaxStarts  \* bound on what ends the program
VARIABLE starts

MCInit == RoutesInit /\ starts = 0

MCNext ==
    \/ (Dialog \/ Window) /\ UNCHANGED starts
    \/ starts < MaxStarts /\ Restart /\ starts' = starts + 1

MCSpec == MCInit /\ [][MCNext]_<<routesVars, starts>>
=============================================================================
