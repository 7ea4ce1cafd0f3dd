--------------------------- MODULE MCSubscriptions ---------------------------
(* The updates on a small catalogue, with a bound on what the user does.   *)
EXTENDS Subscriptions

CONSTANTS
    s1, s2, s3,     \* servers; s3 has the address of s2
    g1, g2, g3,     \* groups
    MaxOutside      \* bound on what the user does

VARIABLE outside

Addresses  == [s \in Servers |-> IF s = s3 THEN s2 ELSE s]
OneOrder   == <<g1>>
ThreeOrder == <<g1, g2, g3>>

(* Each group has the profiles of `servers`.                               *)
AllHave(order, servers) ==
    FlattenSeq([i \in DOMAIN order |->
        [k \in DOMAIN servers |-> [gid |-> order[i], server |-> servers[k]]]])

Pairs   == {AllHave(ThreeOrder, <<s1, s2>>)}
Triples == {AllHave(OneOrder, <<s1, s2, s3>>)}

FewDownloads == {<<>>, <<s2, s1>>, <<s3, s2>>}
OneDownload  == {<<s1>>}

MCInit == Init /\ outside = 0

MCNext ==
    \/ Threads /\ UNCHANGED outside
    \/ outside < MaxOutside /\ User /\ outside' = outside + 1

MCSpec     == MCInit /\ [][MCNext]_<<vars, outside>>
MCFairSpec == MCSpec /\ Fairness
=============================================================================
