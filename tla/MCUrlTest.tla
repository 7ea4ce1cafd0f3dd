------------------------------ MODULE MCUrlTest -----------------------------
(* Url tests of a small group, with a bound on what comes from outside.    *)
EXTENDS UrlTest

CONSTANTS
    p1, f1, x1,     \* profiles: a plain one, a full one, a skipped one
    MaxOutside,     \* bound on what comes from outside
    MaxTested       \* bound on the profiles of all clicks together

VARIABLE outside

(* The group, and parts of it, where a profile has another tag.            *)
Parts == {<<x1, f1, p1>>, <<x1, p1>>, <<x1>>}

MCInit == Init /\ outside = 0

Inside == \/ \E s \in Sessions : Coordinate(s)
          \/ \E j \in Jobs : RunTest(j) \/ RunPoller(j)
          \/ StopStep
          \/ \E p \in Started : CurrentShown(p)

Outside == StopTests \/ FaultStep \/ \E p \in Started : CurrentTested(p)

(* The profiles that all sessions have left to test, and the events from     *)
(* outside, share one budget.                                               *)
FewTested ==
    LET Longer(ps, n) == Len(ps) + n
    IN  FoldFunction(Longer, outside', tested') <= MaxTested

(* A full configuration, or something from outside: not both.              *)
Apart ==
    outside' > 0 => \A s \in DOMAIN tested' : Range(tested'[s]) \cap Full = {}

MCNext ==
    \/ Click /\ UNCHANGED outside /\ Apart /\ FewTested
    \/ Inside /\ UNCHANGED outside
    \/ outside < MaxOutside /\ Outside /\ outside' = outside + 1 /\ Apart /\ FewTested

MCSpec == MCInit /\ [][MCNext]_<<vars, outside>> /\ Fairness
=============================================================================
