------------------------- MODULE MCProfileLifecycle -------------------------
(* Starting and stopping with a bounded number of clicks and of faults, and  *)
(* of both together.                                                         *)
EXTENDS ProfileLifecycle

CONSTANTS MaxClicks, MaxFaults, MaxOutside

VARIABLES clicks, faults

MCInit == Init /\ clicks = 0 /\ faults = 0

MCNext ==
    /\ ~Ended
    /\ \/ UserStep /\ clicks < MaxClicks /\ clicks + faults < MaxOutside
          /\ clicks' = clicks + 1 /\ UNCHANGED faults
       \/ FaultStep /\ faults < MaxFaults /\ clicks + faults < MaxOutside
          /\ faults' = faults + 1 /\ UNCHANGED clicks
       \/ (UiStep \/ StartStep \/ StopStep \/ CoresStep \/ CoreHandles
             \/ CorePanics \/ CoreListens)
          /\ UNCHANGED <<clicks, faults>>

MCSpec == MCInit /\ [][MCNext]_<<vars, clicks, faults>> /\ Fairness
=============================================================================
