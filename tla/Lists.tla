-------------------------------- MODULE Lists --------------------------------
(***************************************************************************)
(* A list from which some elements are taken (QList::removeAll, the loops  *)
(* that copy what they accept).                                            *)
(***************************************************************************)
EXTENDS Naturals, FiniteSets

InOrder(f) == \A i, k \in DOMAIN f : i < k => f[i] < f[k]

(* What is left of the list s with only the places in K, in their order:   *)
(* one list.                                                               *)
OnlyAt(s, K) ==
    {[i \in DOMAIN f |-> s[f[i]]] :
        f \in {f \in [1..Cardinality(K) -> K] : InOrder(f)}}
=============================================================================
