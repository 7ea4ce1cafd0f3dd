---------------------------- MODULE ProfileFilter ----------------------------
(***************************************************************************)
(* The filter that finds duplicates (dataStore/ProfileFilter.cpp): the key *)
(* of a profile, its order, and Uniq, which looks the profiles of a list   *)
(* up in an ordered map (a QMap, which is a std::map) as it goes through   *)
(* them.  Uniq is modelled as the program calls it (ui/mainwindow.cpp):    *)
(* by address, and keeping the first.                                      *)
(*                                                                         *)
(* A lookup in an ordered map is right when the order is a strict weak     *)
(* order; this one is not, so that the map is modelled as the search tree  *)
(* that it is.  With two nodes no rotation has happened yet: lists of up   *)
(* to three profiles are exact.                                            *)
(***************************************************************************)
EXTENDS Integers, Sequences, SequencesExt

CONSTANTS
    Types,          \* the display types, as they are ordered
    Addressless,    \* those of which DisplayAddress is empty
    Custom,         \* the type "custom"
    Addresses,      \* addresses of servers, as they are ordered
    Beans,          \* what else the settings of a profile are
    Keys            \* of all the profiles of these: what the lists have

Empty    == 0       \* an empty string
MaxList  == 3       \* bound: profiles of a list

ASSUME KeyAssumption ==
    /\ Types \cup Addresses \cup Beans \subseteq Nat \ {Empty}
    /\ Keys \subseteq [type : Types, address : Addresses, bean : Beans]

VARIABLES
    in,             \* the list given
    next,           \* the place of the next profile
    tree,           \* the map's profiles: the root and its child
    out             \* the places of the profiles that are kept

filterVars == <<in, next, tree, out>>

DisplayAddress(i) == IF in[i].type \in Addressless THEN Empty ELSE in[i].address

(* beanBytes of the key that ProfileFilter_ent_key makes by address.       *)
BeanBytes(i) == IF in[i].type = Custom THEN in[i].bean ELSE Empty

Same(i, k) ==
    /\ in[i].type = in[k].type
    /\ DisplayAddress(i) = DisplayAddress(k)
    /\ BeanBytes(i) = BeanBytes(k)

(* operator<.                                                              *)
Less(i, k) ==
    \/ in[i].type < in[k].type
    \/ DisplayAddress(i) < DisplayAddress(k)
    \/ BeanBytes(i) < BeanBytes(k)

-----------------------------------------------------------------------------
(* The map *)

OnLeft == Less(tree[2], tree[1])

(* Of the nodes that the search for i comes by, those that are not less.   *)
Candidates(i) ==
    LET Visited == IF tree = <<>> THEN {}
                   ELSE {1} \cup IF Len(tree) = 2 /\ OnLeft # Less(tree[1], i)
                                 THEN {2} ELSE {}
    IN  {k \in Visited : ~Less(tree[k], i)}

(* Mutant: whatever the search ends at is taken for it.                    *)
Find_Unchecked(i) ==
    LET c == Candidates(i)
    IN  IF c = {} THEN 0 ELSE IF 2 \in c THEN 2 ELSE 1

(* Where the map has i: the last candidate, unless i is less; 0 if not.    *)
Find(i) ==
    LET c == Candidates(i)
        last == IF 2 \in c THEN 2 ELSE 1
    IN  IF c = {} \/ Less(i, tree[last]) THEN 0 ELSE last

-----------------------------------------------------------------------------
(* Uniq *)

(* Mutant: the map is not told of the profile.                             *)
KeepNew_Forgotten ==
    /\ next <= Len(in) /\ Find(next) = 0
    /\ out' = Append(out, next)
    /\ next' = next + 1
    /\ UNCHANGED <<in, tree>>

(* A profile that the map has not is kept.                                 *)
KeepNew ==
    /\ next <= Len(in) /\ Find(next) = 0
    /\ out' = Append(out, next)
    /\ tree' = IF Len(tree) < 2 THEN Append(tree, next) ELSE tree
    /\ next' = next + 1
    /\ UNCHANGED in

(* One that it has is left out.                                            *)
LeaveOut ==
    /\ next <= Len(in) /\ Find(next) # 0
    /\ next' = next + 1
    /\ UNCHANGED <<in, tree, out>>

FilterInit == /\ in \in SeqOf(Keys, MaxList)
              /\ next = 1 /\ tree = <<>> /\ out = <<>>

FilterNext == KeepNew \/ LeaveOut
FilterSpec == FilterInit /\ [][FilterNext]_filterVars

-----------------------------------------------------------------------------
(* Properties *)

Done == next > Len(in)

(* Whatever the order does to the map, a profile is left out only when one *)
(* with the same key is kept: a wrong order never costs a profile.         *)
OneIsKept ==
    Done => \A i \in DOMAIN in : \E k \in ToSet(out) : Same(i, k)

OfOneType ==
    \E t \in Types \ (Addressless \cup {Custom}) :
        \A i \in DOMAIN in : in[i].type = t

IsFirst(i) == ~\E k \in 1..i - 1 : Same(i, k)

InOrder(s) == \A i, k \in DOMAIN s : i < k => s[i] < s[k]

(* Of a list of servers of one type Uniq keeps of each address exactly the *)
(* first profile, in their order (there the order of the keys is a proper  *)
(* one).                                                                   *)
KeepsFirstOfEach ==
    Done /\ OfOneType => /\ ToSet(out) = {i \in DOMAIN in : IsFirst(i)}
                         /\ InOrder(out)
=============================================================================
