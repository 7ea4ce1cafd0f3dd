-------------------------- MODULE MCProfileManager --------------------------
(* The catalogue on small instances.  MaxOps bounds the user's operations    *)
(* and MaxExits the times the program ends; the threads and the loader are   *)
(* free.                                                                     *)
EXTENDS ProfileManager

CONSTANTS MaxOps, MaxExits

VARIABLES ops, exits

MCInit == Init /\ ops = 0 /\ exits = 0

MCNext ==
    \/ UserStep /\ ops < MaxOps /\ ops' = ops + 1 /\ UNCHANGED exits
    \/ ThreadStep /\ UNCHANGED <<ops, exits>>
    \/ SystemStep /\ UNCHANGED ops
       /\ exits' = exits + (IF up THEN 1 ELSE 0)
       /\ exits' <= MaxExits

MCSpec == MCInit /\ [][MCNext]_<<vars, ops, exits>>
=============================================================================
