------------------------- MODULE ProfileManagerProofs -------------------------
(***************************************************************************)
(* Proofs about class ProfileManager.  The catalogue: types, the inductive *)
(* invariant CatalogueInv with one lemma per operation, what follows from  *)
(* it for the next ids and for DeleteGroup, and WritesInv for the records. *)
(* The routing profiles (Routes): RoutesInd, with the ids of an accept.    *)
(***************************************************************************)
EXTENDS ProfileManager, Routes, FiniteSetTheorems, SequenceTheorems,
        WellFoundedInduction, TLAPS

USE DEF WithProfiles

(* A table of counters, at 0 everywhere, and such a table with one counter   *)
(* set, as stales and gstales (writes pending in threads) are.               *)
LEMMA TableType ==
    ASSUME NEW A, NEW B
    PROVE  /\ [a \in A |-> [b \in B |-> 0]] \in [A -> [B -> Nat]]
           /\ \A f \in [A -> [B -> Nat]], a \in A, b \in B, n \in Nat :
                 [f EXCEPT ![a][b] = n] \in [A -> [B -> Nat]]
  OBVIOUS

(* No group's list is the absent record, and None is no id: what `groups[g]  *)
(* # None` in the guards rests on.                                           *)
LEMMA ListIsNotNone == /\ \A l \in SUBSET Id : l # None
                      /\ None \notin Id /\ None \notin Gid
  BY SentinelAssumption DEF Lists

(* Taking deleted or moved profiles out of the groups' lists                 *)
(* (Group::RemoveProfile) neither adds nor drops a group.                    *)
LEMMA GroupsWithoutListed ==
    ASSUME TypeOK, NEW D \in SUBSET Id
    PROVE  /\ \A g \in Gid : GroupsWithout(D)[g] = None <=> groups[g] = None
           /\ Listed(GroupsWithout(D)) = Listed(groups)
  <1>1. ASSUME NEW g \in Gid
        PROVE  GroupsWithout(D)[g] = None <=> groups[g] = None
    <2>1. CASE groups[g] = None
      BY <2>1 DEF GroupsWithout
    <2>2. CASE groups[g] # None
      <3>1. GroupsWithout(D)[g] \in SUBSET Id
        BY <2>2 DEF GroupsWithout, TypeOK, Lists
      <3> QED BY <2>2, <3>1, ListIsNotNone
    <2> QED BY <2>1, <2>2
  <1>2. DOMAIN GroupsWithout(D) = Gid /\ DOMAIN groups = Gid
    BY DEF TypeOK, GroupsWithout
  <1> QED BY <1>1, <1>2 DEF Listed

(* RemoveProfile leaves every group a list.                                  *)
LEMMA GroupsWithoutType ==
    ASSUME TypeOK, NEW D \in SUBSET Id
    PROVE  GroupsWithout(D) \in [Gid -> {None} \cup Lists]
  BY DEF TypeOK, GroupsWithout, Lists

(* The saves left over for removed entities stay counters.                   *)
LEMMA DetachedType ==
    ASSUME TypeOK, NEW D \in SUBSET Id
    PROVE  Detached(D) \in [Id -> [Gid -> Nat]]
  BY DEF TypeOK, Detached

(* Taking ids out of an id order leaves a sequence of ids (the erase in      *)
(* BatchDeleteProfiles and DeleteGroup).                                     *)
LEMMA WithoutType ==
    ASSUME NEW S, NEW s \in Seq(S), NEW D, NEW t \in Without(s, D)
    PROVE  t \in Seq(S)
  <1>1. PICK p \in Positions(s, D) : t = [k \in DOMAIN p |-> s[p[k]]]
    BY DEF Without
  <1>2. PICK n \in 0 .. Len(s) : p \in [1 .. n -> Kept(s, D)]
    BY <1>1 DEF Positions
  <1>3. \A k \in 1 .. n : s[p[k]] \in S
    BY <1>2 DEF Kept
  <1>4. t \in [1 .. n -> S]
    BY <1>1, <1>2, <1>3
  <1>5. n \in Nat
    BY <1>2
  <1> QED BY <1>4, <1>5

(* The part that BatchDeleteProfiles and DeleteGroup share keeps the types   *)
(* of what it changes.                                                       *)
LEMMA EraseType ==
    ASSUME TypeOK, NEW D \in SUBSET Id, Erase(D)
    PROVE  /\ profiles' \in [Id -> Gid \cup {None}]
           /\ idOrder' \in Seq(Id)
           /\ stales' \in [Id -> [Gid -> Nat]]
           /\ saves' \in SUBSET Id
           /\ drops' \in [Id -> Nat]
           /\ moved' \in SUBSET Id
           /\ raced' \in SUBSET Id
  <1>1. idOrder' \in Seq(Id)
    BY WithoutType DEF Erase, TypeOK
  <1>2. stales' \in [Id -> [Gid -> Nat]]
    BY DetachedType DEF Erase
  <1>3. Racing' \in SUBSET Id
    BY DEF Racing
  <1> QED BY <1>1, <1>2, <1>3 DEF Erase, TypeOK

(* query_lmdb returns a sequence of the ids it found.                        *)
LEMMA QueryType ==
    ASSUME NEW S, IsFiniteSet(S), NEW s \in Query(S)
    PROVE  s \in Seq(S)
  BY FS_CardinalityType DEF Query

(* There are finitely many ids, which query_lmdb needs to put them in a      *)
(* sequence.                                                                 *)
LEMMA IdsFinite == IsFiniteSet(Id) /\ IsFiniteSet(Gid)
  BY FS_Interval, BoundsAssumption DEF Id, Gid

(* LoadManager's groups, after its repairs, are lists of ids.                *)
LEMMA LoadedGroupsType ==
    ASSUME TypeOK PROVE LoadedGroups \in [Gid -> {None} \cup Lists]
  BY DEF LoadedGroups, TypeOK, Readable, Emptied, Lists

(* The state before the first LoadManager is well typed.                     *)
LEMMA InitType == Init => TypeOK
  <1> SUFFICES ASSUME Init PROVE TypeOK
    OBVIOUS
  <1>1. /\ stales \in [Id -> [Gid -> Nat]]
        /\ gstales \in [Gid -> [Lists -> Nat]]
    BY TableType DEF Init
  <1>2. /\ profiles \in [Id -> Gid \cup {None}]
        /\ groups \in [Gid -> {None} \cup Lists]
        /\ drops \in [Id -> Nat]
        /\ gsaves \in [Gid -> Nat]
        /\ dProfiles \in [Id -> Gid \cup {None, Corrupt}]
        /\ dGroups \in [Gid -> {None} \cup Lists]
    BY DEF Init
  <1>3. << >> \in Seq(Id) /\ << >> \in Seq(Gid)
    OBVIOUS
  <1> QED BY <1>1, <1>2, <1>3 DEF Init, TypeOK

(* Every operation, thread and restart of the catalogue keeps the types.     *)
LEMMA NextType == TypeOK /\ [Next]_vars => TypeOK'
  <1> SUFFICES ASSUME TypeOK, [Next]_vars PROVE TypeOK'
    OBVIOUS
  <1> USE DEF memory, disk, threads, history
  <1>1. ASSUME NEW g \in Gid, AddProfile(g) PROVE TypeOK'
    <2> DEFINE i == NewProfileID
    <2>1. i \in Id
      BY <1>1 DEF AddProfile
    <2>2. stales' \in [Id -> [Gid -> Nat]]
      BY <1>1, <2>1, DetachedType DEF AddProfile
    <2>3. Racing' \in SUBSET Id
      BY DEF Racing
    <2>4. idOrder' \in Seq(Id)
      BY <1>1, <2>1 DEF AddProfile, TypeOK
    <2>5. groups' \in [Gid -> {None} \cup Lists] /\ groups'[g] \in Lists
      BY <1>1, <2>1 DEF AddProfile, TypeOK, Lists
    <2> HIDE DEF i
    <2> QED BY <1>1, <2>1, <2>2, <2>3, <2>4, <2>5 DEF AddProfile, TypeOK, i
  <1>2. ASSUME NEW g \in Gid, DeleteGroup(g) PROVE TypeOK'
    <2> DEFINE D == Deletable(groups[g])
               l == groups[g] \ {i \in D : profiles[i] = g}
    <2>1. D \in SUBSET Id /\ l \in Lists
      BY <1>2 DEF DeleteGroup, TypeOK, Deletable, Lists
    <2>2. Erase(D)
      BY <1>2 DEF DeleteGroup
    <2>3. groups' \in [Gid -> {None} \cup Lists]
      BY <1>2, <2>1, GroupsWithoutType DEF DeleteGroup
    <2>4. dGroups' \in [Gid -> {None} \cup Lists]
      BY <1>2, <2>3 DEF DeleteGroup, TypeOK
    <2>5. gidOrder' \in Seq(Gid)
      BY <1>2, WithoutType DEF DeleteGroup, TypeOK
    <2>6. gstales' \in [Gid -> [Lists -> Nat]]
      <3>1. gstales[g][l] + gsaves[g] \in Nat
        BY <2>1 DEF TypeOK
      <3> QED BY <1>2, <2>1, <3>1, TableType DEF DeleteGroup, TypeOK
    <2>7. gsaves' \in [Gid -> Nat]
      BY <1>2 DEF DeleteGroup, TypeOK
    <2> HIDE DEF D, l
    <2>8. UNCHANGED <<up, started, starting, dProfiles, clobbered>>
      BY <1>2 DEF DeleteGroup
    <2>9. stranded' \in SUBSET Id /\ foreign' \in SUBSET (Id \X Gid)
      BY <1>2, <2>1 DEF DeleteGroup, TypeOK, D
    <2> QED
      BY <2>1, <2>2, <2>3, <2>4, <2>5, <2>6, <2>7, <2>8, <2>9, EraseType DEF TypeOK
  <1>3. ASSUME NEW S \in SUBSET Id, BatchDeleteProfiles(S) PROVE TypeOK'
    <2> DEFINE D == Deletable(S)
    <2>1. D \in SUBSET Id
      BY DEF Deletable
    <2>2. Erase(D)
      BY <1>3 DEF BatchDeleteProfiles
    <2>3. groups' \in [Gid -> {None} \cup Lists]
      BY <1>3, <2>1, GroupsWithoutType DEF BatchDeleteProfiles
    <2>4. dGroups' \in [Gid -> {None} \cup Lists]
      BY <1>3, <2>3 DEF BatchDeleteProfiles, TypeOK
    <2>5. stranded' \in SUBSET Id
      BY <1>3 DEF BatchDeleteProfiles, TypeOK
    <2>6. UNCHANGED <<up, gidOrder, started, starting, dProfiles, gsaves, gstales,
                      foreign, clobbered>>
      BY <1>3 DEF BatchDeleteProfiles
    <2> HIDE DEF D
    <2> QED
      BY <2>1, <2>2, <2>3, <2>4, <2>5, <2>6, EraseType DEF TypeOK
  <1>4. ASSUME NEW S \in SUBSET Id, NEW g \in Gid, MoveProfileBatch(S, g)
        PROVE  TypeOK'
    <2> DEFINE M == Movable(S, g)
    <2>1. M \in SUBSET Id
      BY DEF Movable
    <2>2. groups' \in [Gid -> {None} \cup Lists]
      <3>1. GroupsWithout(M)[g] \cup M \in Lists
        BY <1>4, <2>1 DEF MoveProfileBatch, GroupsWithout, TypeOK, Lists
      <3> QED BY <1>4, <2>1, <3>1, GroupsWithoutType DEF MoveProfileBatch
    <2>3. profiles' \in [Id -> Gid \cup {None}]
      BY <1>4 DEF MoveProfileBatch, TypeOK
    <2>4. gsaves' \in [Gid -> Nat]
      <3> DEFINE touched == {g} \cup {profiles[i] : i \in M}
      <3>1. gsaves' = [h \in Gid |-> IF h \in touched THEN gsaves[h] + 1
                                     ELSE gsaves[h]]
        BY <1>4 DEF MoveProfileBatch
      <3> HIDE DEF touched
      <3> QED BY <3>1 DEF TypeOK
    <2>5. stranded' \in SUBSET Id /\ moved' \in SUBSET Id
      BY <1>4, <2>1 DEF MoveProfileBatch, TypeOK
    <2>6. UNCHANGED <<up, idOrder, gidOrder, started, starting, dProfiles,
                      dGroups, saves, stales, drops, gstales, foreign, raced,
                      clobbered>>
      BY <1>4 DEF MoveProfileBatch
    <2> HIDE DEF M
    <2> QED BY <2>2, <2>3, <2>4, <2>5, <2>6 DEF TypeOK
  <1>5. ASSUME NEW i \in Id, SaveProfile(i) PROVE TypeOK'
    BY <1>5 DEF SaveProfile, TypeOK
  <1>6. ASSUME AddGroup PROVE TypeOK'
    <2>1. {} \in Lists
      BY DEF Lists
    <2>2. /\ groups' \in [Gid -> {None} \cup Lists]
          /\ dGroups' \in [Gid -> {None} \cup Lists]
      BY <1>6, <2>1 DEF AddGroup, TypeOK
    <2>3. gidOrder' \in Seq(Gid)
      BY <1>6 DEF AddGroup, TypeOK
    <2> QED BY <1>6, <2>2, <2>3 DEF AddGroup, TypeOK
  <1>7. ASSUME NEW g \in Gid, SaveGroup(g) PROVE TypeOK'
    BY <1>7 DEF SaveGroup, TypeOK
  <1>8. ASSUME NEW i \in Id, RunSave(i) PROVE TypeOK'
    BY <1>8 DEF RunSave, TypeOK
  <1>9. ASSUME NEW i \in Id, NEW g \in Gid, RunStaleSave(i, g) PROVE TypeOK'
    <2>1. stales[i][g] - 1 \in Nat
      BY <1>9 DEF RunStaleSave, TypeOK
    <2>2. stales' \in [Id -> [Gid -> Nat]]
      BY <1>9, <2>1, TableType DEF RunStaleSave, TypeOK
    <2> QED BY <1>9, <2>2 DEF RunStaleSave, TypeOK
  <1>10. ASSUME NEW i \in Id, RunDrop(i) PROVE TypeOK'
    BY <1>10 DEF RunDrop, TypeOK
  <1>11. ASSUME NEW g \in Gid, RunGroupSave(g) PROVE TypeOK'
    <2>1. gsaves' \in [Gid -> Nat]
      BY <1>11 DEF RunGroupSave, TypeOK
    <2> QED BY <1>11, <2>1 DEF RunGroupSave, TypeOK
  <1>12. ASSUME NEW g \in Gid, NEW l \in Lists, RunStaleGroupSave(g, l)
         PROVE  TypeOK'
    <2>1. gstales[g][l] - 1 \in Nat
      BY <1>12 DEF RunStaleGroupSave, TypeOK
    <2>2. gstales' \in [Gid -> [Lists -> Nat]]
      BY <1>12, <2>1, TableType DEF RunStaleGroupSave, TypeOK
    <2> QED BY <1>12, <2>2 DEF RunStaleGroupSave, TypeOK
  <1>13. ASSUME NEW i \in Id, ProfileStart(i) PROVE TypeOK'
    BY <1>13 DEF ProfileStart, TypeOK
  <1>14. ASSUME NEW ok \in BOOLEAN, ProfileStarted(ok) PROVE TypeOK'
    BY <1>14 DEF ProfileStarted, TypeOK
  <1>15. ASSUME ProfileStop PROVE TypeOK'
    BY <1>15 DEF ProfileStop, TypeOK
  <1>16. ASSUME Exit PROVE TypeOK'
    <2>1. /\ stales' \in [Id -> [Gid -> Nat]]
          /\ gstales' \in [Gid -> [Lists -> Nat]]
      BY <1>16, TableType DEF Exit
    <2>2. /\ profiles' \in [Id -> Gid \cup {None}]
          /\ groups' \in [Gid -> {None} \cup Lists]
          /\ drops' \in [Id -> Nat]
          /\ gsaves' \in [Gid -> Nat]
      BY <1>16 DEF Exit
    <2>3. << >> \in Seq(Id) /\ << >> \in Seq(Gid)
      OBVIOUS
    <2> QED BY <1>16, <2>1, <2>2, <2>3 DEF Exit, TypeOK
  <1>17. ASSUME LoadManager PROVE TypeOK'
    <2>1. groups' \in [Gid -> {None} \cup Lists]
      BY <1>17, LoadedGroupsType DEF LoadManager
    <2>2. idOrder' \in Seq(Id)
      <3> DEFINE S == Listed(dProfiles) \ Orphans
      <3>1. S \subseteq Id /\ IsFiniteSet(S)
        BY IdsFinite, FS_Subset DEF Listed, TypeOK
      <3>2. idOrder' \in Seq(S)
        BY <1>17, <3>1, QueryType DEF LoadManager
      <3> QED BY <3>1, <3>2
    <2>3. gidOrder' \in Seq(Gid)
      <3> DEFINE S == Listed(groups')
      <3>1. S \subseteq Gid /\ IsFiniteSet(S)
        BY <2>1, IdsFinite, FS_Subset DEF Listed
      <3>2. gidOrder' \in Seq(S)
        BY <1>17, <3>1, QueryType DEF LoadManager
      <3> QED BY <3>1, <3>2
    <2>4. profiles' \in [Id -> Gid \cup {None}]
      BY <1>17 DEF LoadManager, Readable
    <2> QED BY <1>17, <2>1, <2>2, <2>3, <2>4 DEF LoadManager, TypeOK
  <1>18. ASSUME NEW i \in Id, CorruptRecord(i) PROVE TypeOK'
    BY <1>18 DEF CorruptRecord, TypeOK
  <1>19. ASSUME UNCHANGED vars PROVE TypeOK'
    BY <1>19 DEF vars, TypeOK
  <1> QED
    BY <1>1, <1>2, <1>3, <1>4, <1>5, <1>6, <1>7, <1>8, <1>9, <1>10, <1>11,
       <1>12, <1>13, <1>14, <1>15, <1>16, <1>17, <1>18, <1>19
       DEF Next, UserStep, ThreadStep, SystemStep

(* Every variable of the catalogue keeps its type, whatever the number of    *)
(* ids, groups and pending writes (all operations of ProfileManager).        *)
THEOREM TypeCorrect == Spec => []TypeOK
  BY InitType, NextType, PTL DEF Spec

-----------------------------------------------------------------------------
(* The lists and the order of ids *)

(* What Without keeps, and what then follows it in the list.                 *)
LEMMA WithoutOrder ==
    ASSUME NEW S, NEW s \in Seq(S), NEW D, NEW t \in Without(s, D),
           NEW k \in DOMAIN s, s[k] \notin D
    PROVE  \E j \in DOMAIN t :
              /\ t[j] = s[k]
              /\ \A m \in DOMAIN t : m > j =>
                    \E q \in DOMAIN s : q > k /\ t[m] = s[q]
  <1>1. PICK p \in Positions(s, D) : t = [x \in DOMAIN p |-> s[p[x]]]
    BY DEF Without
  <1>2. PICK n \in 0 .. Len(s) : p \in [1 .. n -> Kept(s, D)]
    BY <1>1 DEF Positions
  <1>3. DOMAIN p = 1 .. n /\ DOMAIN t = 1 .. n
    BY <1>1, <1>2
  <1>4. \A x, y \in 1 .. n : x < y => p[x] < p[y]
    BY <1>1, <1>3 DEF Positions
  <1>5. PICK j \in 1 .. n : p[j] = k
    BY <1>1, <1>3 DEF Positions, Kept
  <1>6. \A m \in 1 .. n : m > j => p[m] > k
    BY <1>2, <1>4, <1>5 DEF Kept
  <1>7. \A m \in 1 .. n : p[m] \in DOMAIN s /\ t[m] = s[p[m]]
    BY <1>1, <1>2, <1>3 DEF Kept
  <1> QED BY <1>3, <1>5, <1>6, <1>7

(* An order whose last id is the greatest keeps that property when ids are   *)
(* taken out of it (BatchDeleteProfiles, DeleteGroup).                       *)
LEMMA WithoutFollow ==
    ASSUME NEW T, NEW s \in Seq(T), NEW D, NEW t \in Without(s, D),
           NEW S, GreaterFollow(s, S), NEW R \in SUBSET S, R \cap D = {}
    PROVE  GreaterFollow(t, R)
  <1> SUFFICES ASSUME NEW x \in R
               PROVE  \E k \in DOMAIN t :
                         t[k] = x /\ \A j \in DOMAIN t : j > k => t[j] > x
    BY DEF GreaterFollow
  <1>1. PICK k \in DOMAIN s : /\ s[k] = x
                             /\ \A j \in DOMAIN s : j > k => s[j] > x
    BY DEF GreaterFollow
  <1>2. s[k] \notin D
    BY <1>1
  <1>3. PICK j \in DOMAIN t :
              /\ t[j] = s[k]
              /\ \A m \in DOMAIN t : m > j =>
                    \E q \in DOMAIN s : q > k /\ t[m] = s[q]
    BY <1>2, WithoutOrder
  <1> QED BY <1>1, <1>3

(* It also keeps it when a greater id is appended (AddProfileBatch,          *)
(* AddGroup).                                                                *)
LEMMA AppendFollow ==
    ASSUME NEW s \in Seq(Int), NEW S \in SUBSET Int, GreaterFollow(s, S),
           NEW n \in Int, \A x \in S : x < n
    PROVE  GreaterFollow(Append(s, n), S \cup {n})
  <1> DEFINE t == Append(s, n)
  <1>1. /\ DOMAIN s = 1 .. Len(s) /\ Len(s) \in Nat
        /\ DOMAIN t = 1 .. (Len(s) + 1)
        /\ t[Len(s) + 1] = n
        /\ \A k \in DOMAIN s : t[k] = s[k]
    OBVIOUS
  <1> SUFFICES ASSUME NEW x \in S \cup {n}
               PROVE  \E k \in DOMAIN t :
                         t[k] = x /\ \A j \in DOMAIN t : j > k => t[j] > x
    BY DEF GreaterFollow
  <1> HIDE DEF t
  <1>2. CASE x = n
    BY <1>1, <1>2
  <1>3. CASE x \in S
    <2>1. PICK k \in DOMAIN s : /\ s[k] = x
                               /\ \A j \in DOMAIN s : j > k => s[j] > x
      BY <1>3 DEF GreaterFollow
    <2>2. x < n /\ x \in Int
      BY <1>3
    <2> QED BY <1>1, <2>1, <2>2
  <1> QED BY <1>2, <1>3

(* In such an order last() is the greatest id in use, which NewProfileID and *)
(* NewGroupID take for granted.                                              *)
LEMMA LastIsGreatest ==
    ASSUME NEW s \in Seq(Int), NEW S, GreaterFollow(s, S), NEW x \in S
    PROVE  x \in Int /\ s[Len(s)] \in Int /\ x <= s[Len(s)]
  <1>1. PICK k \in DOMAIN s : /\ s[k] = x
                             /\ \A j \in DOMAIN s : j > k => s[j] > x
    BY DEF GreaterFollow
  <1>2. Len(s) \in DOMAIN s /\ k <= Len(s)
    BY <1>1
  <1>3. s[k] \in Int /\ s[Len(s)] \in Int
    BY <1>1, <1>2
  <1>4. CASE k = Len(s)
    BY <1>1, <1>3, <1>4
  <1>5. CASE k < Len(s)
    BY <1>1, <1>2, <1>3, <1>5
  <1> QED BY <1>1, <1>2, <1>3, <1>4, <1>5

(* The two id orders and the ids in use are integers that can be compared.   *)
LEMMA OrderTypes ==
    ASSUME TypeOK
    PROVE  /\ idOrder \in Seq(Int) /\ gidOrder \in Seq(Int)
           /\ Listed(profiles) \in SUBSET Int /\ Listed(groups) \in SUBSET Int
  <1>1. Id \subseteq Int /\ Gid \subseteq Int
    BY DEF Id, Gid
  <1>2. Listed(profiles) \subseteq Id /\ Listed(groups) \subseteq Gid
    BY DEF Listed, TypeOK
  <1> QED BY <1>1, <1>2, SeqMonotonic DEF TypeOK

(* The id NewProfileID hands out is that of no profile, and the one of       *)
(* NewGroupID that of no group.                                              *)
LEMMA FreshId ==
    ASSUME TypeOK, OrdersGrow
    PROVE  /\ \A i \in Listed(profiles) : i < NewProfileID
           /\ NewProfileID \notin Listed(profiles)
           /\ \A g \in Listed(groups) : g < NewGroupID
           /\ NewGroupID \notin Listed(groups)
  <1>1. ASSUME NEW i \in Listed(profiles) PROVE i < NewProfileID /\ i \in Int
    BY <1>1, OrderTypes, LastIsGreatest DEF OrdersGrow, NewProfileID
  <1>2. ASSUME NEW g \in Listed(groups) PROVE g < NewGroupID /\ g \in Int
    BY <1>2, OrderTypes, LastIsGreatest DEF OrdersGrow, NewGroupID
  <1> QED BY <1>1, <1>2

-----------------------------------------------------------------------------
(* The inductive invariant *)

(* The key order of the database is the numeric order for ids of one byte.   *)
OneByteIds == \A i, j \in Id \cup Gid : KeyLess(i, j) => i < j

(* Ids below KeyBase take one byte of the key that pack_char_int writes, so  *)
(* that keys and ids have the same order.                                    *)
LEMMA OneByteIdsLemma == MaxId < KeyBase /\ MaxGid < KeyBase => OneByteIds
  <1> SUFFICES ASSUME MaxId < KeyBase, MaxGid < KeyBase,
                      NEW i \in Id \cup Gid, NEW j \in Id \cup Gid,
                      KeyLess(i, j)
               PROVE  i < j
    BY DEF OneByteIds
  <1>1. \A x \in Id \cup Gid : x % KeyBase = x
    <2> SUFFICES ASSUME NEW x \in (0 .. MaxId) \cup (0 .. MaxGid)
                 PROVE  x % KeyBase = x
      BY DEF Id, Gid
    <2>1. x \in Int /\ 0 <= x /\ x < KeyBase /\ KeyBase \in Int
      BY BoundsAssumption
    <2> QED BY <2>1
  <1> QED BY <1>1 DEF KeyLess

(* For such ids the order in which LoadManager finds the records ends with   *)
(* the greatest id.                                                          *)
LEMMA QueryFollow ==
    ASSUME OneByteIds, NEW S \in SUBSET (Id \cup Gid), NEW s \in Query(S)
    PROVE  GreaterFollow(s, S)
  <1> SUFFICES ASSUME NEW i \in S
               PROVE  \E k \in DOMAIN s :
                         s[k] = i /\ \A j \in DOMAIN s : j > k => s[j] > i
    BY DEF GreaterFollow
  <1>1. PICK k \in DOMAIN s : s[k] = i
    BY DEF Query, InKeyOrder
  <1>2. \A j \in DOMAIN s : j \in Int /\ s[j] \in S
    BY DEF Query
  <1>3. ASSUME NEW j \in DOMAIN s, j > k PROVE s[j] > i
    <2>1. KeyLess(s[k], s[j])
      BY <1>2, <1>3 DEF Query, InKeyOrder
    <2>2. s[k] < s[j] /\ s[k] \in Id \cup Gid /\ s[j] \in Id \cup Gid
      BY <1>2, <2>1 DEF OneByteIds
    <2> QED BY <1>1, <2>2 DEF Id, Gid
  <1> QED BY <1>1, <1>3

(* BatchDeleteProfiles and DeleteGroup leave last() of profilesIdOrder the   *)
(* greatest id in use.                                                       *)
LEMMA ErasedOrder ==
    ASSUME TypeOK, OrdersGrow, NEW D \in SUBSET Id, Erase(D)
    PROVE  GreaterFollow(idOrder', Listed(profiles'))
  <1>1. idOrder' \in Without(idOrder, D) /\ idOrder \in Seq(Id)
    BY DEF Erase, TypeOK
  <1>2. Listed(profiles') \in SUBSET Listed(profiles)
        /\ Listed(profiles') \cap D = {}
    BY DEF Erase, Listed, TypeOK
  <1> QED BY <1>1, <1>2, WithoutFollow DEF OrdersGrow

(* The empty catalogue before LoadManager is consistent.                     *)
LEMMA InitCatalogue == Init => CatalogueInv
  <1> SUFFICES ASSUME Init PROVE CatalogueInv
    OBVIOUS
  <1>1. Listed(profiles) = {} /\ Listed(groups) = {}
    BY DEF Init, Listed
  <1> QED BY <1>1, InitType DEF CatalogueInv, DownIsEmpty, OrdersGrow, GreaterFollow,
             ListedInOwnGroup, ListsOnlyItsOwn

(* AddProfile keeps the catalogue consistent: the new id is greater than all *)
(* others, so it replaces no entity.                                         *)
LEMMA AddKeepsCatalogue ==
    ASSUME CatalogueInv, NEW g \in Gid, AddProfile(g) PROVE CatalogueInv'
  <1> DEFINE n == NewProfileID
  <1>1. TypeOK /\ OrdersGrow
    BY DEF CatalogueInv
  <1>2. TypeOK'
    BY <1>1, NextType DEF Next, UserStep
  <1>3. n \in Id /\ n \notin Listed(profiles) /\ \A i \in Listed(profiles) : i < n
    BY <1>1, FreshId DEF AddProfile
  <1>4. /\ up' /\ stranded' = stranded /\ foreign' = foreign
        /\ profiles' = [profiles EXCEPT ![n] = g]
        /\ groups' = [groups EXCEPT ![g] = @ \cup {n}]
        /\ idOrder' = Append(idOrder, n)
        /\ groups[g] # None
    BY DEF AddProfile
  <1> HIDE DEF n
  <1>5. Listed(profiles') = Listed(profiles) \cup {n}
    BY <1>1, <1>3, <1>4, SentinelAssumption DEF TypeOK, Listed
  <1>6. OrdersGrow'
    <2>1. Listed(groups') = Listed(groups) /\ gidOrder' = gidOrder
      <3>1. groups'[g] \in SUBSET Id
        BY <1>1, <1>3, <1>4 DEF TypeOK, Lists
      <3>2. groups'[g] # None /\ \A h \in Gid \ {g} : groups'[h] = groups[h]
        BY <1>1, <1>4, <3>1, ListIsNotNone DEF TypeOK
      <3>3. DOMAIN groups = Gid /\ DOMAIN groups' = Gid
        BY <1>1, <1>2 DEF TypeOK
      <3>4. Listed(groups') = Listed(groups)
        BY <1>4, <3>2, <3>3 DEF Listed
      <3>5. gidOrder' = gidOrder
        BY DEF AddProfile
      <3> QED BY <3>4, <3>5
    <2>2. GreaterFollow(idOrder', Listed(profiles'))
      <3>1. n \in Int
        BY <1>3 DEF Id
      <3> QED BY <1>1, <1>3, <1>4, <1>5, <3>1, OrderTypes, AppendFollow
              DEF OrdersGrow
    <2> QED BY <1>1, <2>1, <2>2 DEF OrdersGrow, Listed
  <1>7. ListedInOwnGroup'
    <2> SUFFICES ASSUME NEW i \in Listed(profiles') \ stranded
                 PROVE  groups'[profiles'[i]] # None /\ i \in groups'[profiles'[i]]
      BY <1>4 DEF ListedInOwnGroup, Listed
    <2>1. \A h \in Gid : groups[h] # None =>
                groups'[h] # None /\ \A x \in groups[h] : x \in groups'[h]
      BY <1>1, <1>3, <1>4, ListIsNotNone DEF TypeOK, Lists
    <2>2. n \in groups'[g] /\ groups'[g] # None
      BY <1>1, <1>3, <1>4, ListIsNotNone DEF TypeOK, Lists
    <2>3. CASE i = n
      BY <1>1, <1>3, <1>4, <2>2, <2>3 DEF TypeOK
    <2>4. CASE i \in Listed(profiles) /\ i # n
      <3>1. profiles'[i] = profiles[i] /\ profiles[i] \in Gid
        BY <1>1, <1>4, <2>4 DEF TypeOK, Listed
      <3> QED BY <2>1, <2>4, <3>1 DEF CatalogueInv, ListedInOwnGroup
    <2> QED BY <1>5, <2>3, <2>4
  <1>8. ListsOnlyItsOwn'
    <2> SUFFICES ASSUME NEW h \in Listed(groups'), NEW i \in groups'[h],
                        profiles'[i] # h
                 PROVE  <<i, h>> \in foreign
      BY <1>4 DEF ListsOnlyItsOwn, Listed
    <2>1. h \in Listed(groups) /\ h \in Gid
      BY <1>1, <1>4 DEF TypeOK, Listed
    <2>2. i \in groups[h]
      BY <1>1, <1>3, <1>4, <2>1 DEF TypeOK
    <2>3. i \in Id
      BY <1>1, <2>1, <2>2 DEF TypeOK, Listed, Lists
    <2>4. profiles[i] # h
      BY <1>1, <1>3, <1>4, <2>1, <2>3, SentinelAssumption DEF TypeOK, Listed
    <2> QED BY <2>1, <2>2, <2>4 DEF CatalogueInv, ListsOnlyItsOwn
  <1> QED BY <1>2, <1>4, <1>6, <1>7, <1>8 DEF CatalogueInv, DownIsEmpty

(* BatchDeleteProfiles takes each deleted id out of the list of its own      *)
(* group, and of no other.                                                   *)
LEMMA BatchDeleteKeepsCatalogue ==
    ASSUME CatalogueInv, NEW S \in SUBSET Id, BatchDeleteProfiles(S)
    PROVE  CatalogueInv'
  <1> DEFINE D == Deletable(S)
  <1>1. TypeOK /\ OrdersGrow /\ ListedInOwnGroup /\ ListsOnlyItsOwn
    BY DEF CatalogueInv
  <1>2. TypeOK'
    BY <1>1, NextType DEF Next, UserStep
  <1>3. D \in SUBSET Id /\ \A i \in D : profiles[i] # None
    BY DEF Deletable
  <1>4. /\ Erase(D) /\ up' /\ stranded' = stranded \ D /\ foreign' = foreign
        /\ groups' = GroupsWithout(D)
    BY DEF BatchDeleteProfiles
  <1> HIDE DEF D
  <1>5. profiles' = [i \in Id |-> IF i \in D THEN None ELSE profiles[i]]
    BY <1>4 DEF Erase
  <1>6. OrdersGrow'
    <2>1. Listed(groups') = Listed(groups) /\ gidOrder' = gidOrder
      BY <1>1, <1>3, <1>4, GroupsWithoutListed DEF BatchDeleteProfiles
    <2>2. GreaterFollow(idOrder', Listed(profiles'))
      BY <1>1, <1>3, <1>4, ErasedOrder
    <2> QED BY <1>1, <2>1, <2>2 DEF OrdersGrow, Listed
  <1>7. ListedInOwnGroup'
    <2> SUFFICES ASSUME NEW i \in Listed(profiles') \ stranded'
                 PROVE  groups'[profiles'[i]] # None /\ i \in groups'[profiles'[i]]
      BY DEF ListedInOwnGroup
    <2>1. /\ i \in Listed(profiles) \ stranded /\ i \notin D
          /\ profiles'[i] = profiles[i] /\ profiles[i] \in Gid
      BY <1>1, <1>4, <1>5 DEF Listed, TypeOK
    <2>2. profiles[i] \in Listed(groups) /\ i \in groups[profiles[i]]
      BY <1>1, <2>1 DEF ListedInOwnGroup, Listed, TypeOK
    <2>3. profiles[i] \in Listed(groups')
      BY <1>1, <1>3, <1>4, <2>2, GroupsWithoutListed
    <2> QED BY <1>4, <2>1, <2>2, <2>3 DEF GroupsWithout, Listed
  <1>8. ListsOnlyItsOwn'
    <2> SUFFICES ASSUME NEW h \in Listed(groups'), NEW i \in groups'[h],
                        profiles'[i] # h
                 PROVE  <<i, h>> \in foreign
      BY <1>4 DEF ListsOnlyItsOwn, Listed
    <2>1. h \in Listed(groups) /\ h \in Gid /\ i \in groups[h]
          /\ ~(i \in D /\ profiles[i] = h)
      BY <1>1, <1>4 DEF TypeOK, Listed, GroupsWithout
    <2>2. i \in Id
      BY <1>1, <2>1 DEF TypeOK, Listed, Lists
    <2>3. profiles[i] # h
      BY <1>5, <2>1, <2>2
    <2> QED BY <1>1, <2>1, <2>3 DEF ListsOnlyItsOwn
  <1> QED BY <1>2, <1>4, <1>6, <1>7, <1>8 DEF CatalogueInv, DownIsEmpty

(* MoveProfileBatch changes the lists of both groups together with the       *)
(* profiles' group ids.                                                      *)
LEMMA MoveKeepsCatalogue ==
    ASSUME CatalogueInv, NEW S \in SUBSET Id, NEW g \in Gid,
           MoveProfileBatch(S, g)
    PROVE  CatalogueInv'
  <1> DEFINE M == Movable(S, g)
  <1>1. TypeOK /\ OrdersGrow /\ ListedInOwnGroup /\ ListsOnlyItsOwn
    BY DEF CatalogueInv
  <1>2. TypeOK'
    BY <1>1, NextType DEF Next, UserStep
  <1>3. M \in SUBSET Id /\ \A i \in M : profiles[i] # None /\ profiles[i] # g
    BY DEF Movable
  <1>4. /\ up' /\ stranded' = stranded \ M /\ foreign' = foreign
        /\ groups' = [GroupsWithout(M) EXCEPT ![g] = @ \cup M]
        /\ profiles' = [i \in Id |-> IF i \in M THEN g ELSE profiles[i]]
        /\ groups[g] # None /\ idOrder' = idOrder /\ gidOrder' = gidOrder
    BY DEF MoveProfileBatch, memory
  <1> HIDE DEF M
  <1>5. /\ \A h \in Gid \ {g} : groups'[h] = GroupsWithout(M)[h]
        /\ groups'[g] = GroupsWithout(M)[g] \cup M
        /\ groups'[g] = groups[g] \cup M
    BY <1>3, <1>4 DEF GroupsWithout
  <1>6. groups'[g] # None
    BY <1>1, <1>3, <1>4, <1>5, ListIsNotNone DEF TypeOK, Lists
  <1>7. Listed(groups') = Listed(groups)
    <2>1. DOMAIN groups' = Gid /\ DOMAIN groups = Gid
      BY <1>1, <1>2 DEF TypeOK
    <2>2. \A h \in Gid : groups'[h] # None <=> groups[h] # None
      <3>1. \A h \in Gid : GroupsWithout(M)[h] = None <=> groups[h] = None
        BY <1>1, <1>3, GroupsWithoutListed
      <3> QED BY <1>4, <1>5, <1>6, <3>1
    <2> QED BY <2>1, <2>2 DEF Listed
  <1>8. Listed(profiles') = Listed(profiles)
    BY <1>1, <1>3, <1>4, ListIsNotNone DEF Listed, TypeOK
  <1>9. ListedInOwnGroup'
    <2> SUFFICES ASSUME NEW i \in Listed(profiles') \ stranded'
                 PROVE  groups'[profiles'[i]] # None /\ i \in groups'[profiles'[i]]
      BY DEF ListedInOwnGroup
    <2>1. i \in Id /\ i \in Listed(profiles)
      BY <1>1, <1>8 DEF Listed, TypeOK
    <2>2. CASE i \in M
      BY <1>4, <1>5, <1>6, <2>1, <2>2
    <2>3. CASE i \notin M
      <3>1. /\ profiles'[i] = profiles[i] /\ profiles[i] \in Gid
            /\ groups[profiles[i]] # None /\ i \in groups[profiles[i]]
        BY <1>1, <1>4, <2>1, <2>3 DEF Listed, TypeOK, ListedInOwnGroup
      <3>2. i \in groups'[profiles[i]]
        BY <1>5, <2>3, <3>1 DEF GroupsWithout
      <3>3. profiles[i] \in Listed(groups')
        BY <1>1, <1>7, <3>1 DEF Listed, TypeOK
      <3> QED BY <3>1, <3>2, <3>3 DEF Listed
    <2> QED BY <2>2, <2>3
  <1>10. ListsOnlyItsOwn'
    <2> SUFFICES ASSUME NEW h \in Listed(groups'), NEW i \in groups'[h],
                        profiles'[i] # h
                 PROVE  <<i, h>> \in foreign
      BY <1>4 DEF ListsOnlyItsOwn, Listed
    <2>1. h \in Gid /\ h \in Listed(groups) /\ groups[h] # None
      BY <1>1, <1>7 DEF Listed, TypeOK
    <2>2. i \in Id
      BY <1>2, <2>1 DEF TypeOK, Listed, Lists
    <2>3. i \in groups[h] /\ profiles[i] # h
      BY <1>3, <1>4, <1>5, <2>1, <2>2 DEF GroupsWithout
    <2> QED BY <1>1, <2>1, <2>3 DEF ListsOnlyItsOwn
  <1> QED BY <1>1, <1>2, <1>4, <1>7, <1>8, <1>9, <1>10
          DEF CatalogueInv, DownIsEmpty, OrdersGrow

(* AddGroup takes an id no group has; a profile that has this group id       *)
(* outlived an earlier group, for it would have been listed in it.           *)
LEMMA AddGroupKeepsCatalogue ==
    ASSUME CatalogueInv, AddGroup PROVE CatalogueInv'
  <1> DEFINE n == NewGroupID
  <1>1. TypeOK /\ OrdersGrow /\ ListedInOwnGroup /\ ListsOnlyItsOwn
    BY DEF CatalogueInv
  <1>2. TypeOK'
    BY <1>1, NextType DEF Next, UserStep
  <1>3. n \in Gid /\ n \notin Listed(groups) /\ \A h \in Listed(groups) : h < n
    BY <1>1, FreshId DEF AddGroup
  <1>4. /\ up' /\ stranded' = stranded /\ foreign' = foreign
        /\ groups' = [groups EXCEPT ![n] = {}]
        /\ gidOrder' = Append(gidOrder, n)
        /\ profiles' = profiles /\ idOrder' = idOrder
    BY DEF AddGroup, history
  <1> HIDE DEF n
  <1>5. Listed(groups') = Listed(groups) \cup {n}
    BY <1>1, <1>3, <1>4, ListIsNotNone DEF TypeOK, Listed
  <1>6. OrdersGrow'
    <2>1. n \in Int
      BY <1>3 DEF Gid
    <2>2. GreaterFollow(gidOrder', Listed(groups'))
      BY <1>1, <1>3, <1>4, <1>5, <2>1, OrderTypes, AppendFollow DEF OrdersGrow
    <2> QED BY <1>1, <1>4, <2>2 DEF OrdersGrow, Listed
  <1>7. ListedInOwnGroup'
    <2> SUFFICES ASSUME NEW i \in Listed(profiles) \ stranded
                 PROVE  groups'[profiles[i]] # None /\ i \in groups'[profiles[i]]
      BY <1>4 DEF ListedInOwnGroup, Listed
    <2>1. /\ groups[profiles[i]] # None /\ i \in groups[profiles[i]]
          /\ profiles[i] \in Gid
      BY <1>1 DEF ListedInOwnGroup, Listed, TypeOK
    <2>2. profiles[i] # n
      BY <1>1, <1>3, <2>1 DEF Listed, TypeOK
    <2> QED BY <1>1, <1>4, <2>1, <2>2 DEF TypeOK
  <1>8. ListsOnlyItsOwn'
    <2> SUFFICES ASSUME NEW h \in Listed(groups'), NEW i \in groups'[h],
                        profiles[i] # h
                 PROVE  <<i, h>> \in foreign
      BY <1>4 DEF ListsOnlyItsOwn, Listed
    <2>1. h \in Listed(groups) /\ groups'[h] = groups[h]
      BY <1>1, <1>3, <1>4, <1>5 DEF TypeOK, Listed
    <2> QED BY <1>1, <2>1 DEF ListsOnlyItsOwn
  <1> QED BY <1>2, <1>4, <1>6, <1>7, <1>8 DEF CatalogueInv, DownIsEmpty

(* DeleteGroup keeps the catalogue consistent, and deletes every profile of  *)
(* the group but the started one and those stranded before.                  *)
LEMMA DeleteGroupKeepsCatalogue ==
    ASSUME CatalogueInv, NEW g \in Gid, DeleteGroup(g)
    PROVE  /\ CatalogueInv'
           /\ \A i \in Id \ (stranded \cup {started}) : profiles'[i] # g
           /\ \A h \in Gid \ {g} : groups[h] # None => groups'[h] # None
  <1> DEFINE D == Deletable(groups[g])
  <1>1. TypeOK /\ OrdersGrow /\ ListedInOwnGroup /\ ListsOnlyItsOwn
    BY DEF CatalogueInv
  <1>2. TypeOK'
    BY <1>1, NextType DEF Next, UserStep
  <1>3. /\ groups[g] # None /\ groups[g] \in SUBSET Id /\ D \in SUBSET Id
        /\ D = {i \in groups[g] : profiles[i] # None /\ i # started}
    BY <1>1 DEF DeleteGroup, TypeOK, Lists, Deletable
  <1>4. /\ Erase(D) /\ up'
        /\ groups' = [GroupsWithout(D) EXCEPT ![g] = None]
        /\ gidOrder' \in Without(gidOrder, {g})
        /\ stranded' = (stranded \ D) \cup {i \in Id : profiles'[i] = g}
        /\ foreign' = {x \in foreign : x[2] # g}
    BY DEF DeleteGroup
  <1> HIDE DEF D
  <1>5. profiles' = [i \in Id |-> IF i \in D THEN None ELSE profiles[i]]
    BY <1>4 DEF Erase
  <1>6. /\ groups'[g] = None
        /\ \A h \in Gid \ {g} : groups'[h] = GroupsWithout(D)[h]
        /\ \A h \in Gid \ {g} : groups'[h] = None <=> groups[h] = None
    <2>1. \A h \in Gid : GroupsWithout(D)[h] = None <=> groups[h] = None
      BY <1>1, <1>3, GroupsWithoutListed
    <2>2. DOMAIN GroupsWithout(D) = Gid
      BY DEF GroupsWithout
    <2> QED BY <1>4, <2>1, <2>2
  <1>7. Listed(groups') = Listed(groups) \ {g}
    <2>1. DOMAIN groups = Gid /\ DOMAIN groups' = Gid
      BY <1>1, <1>2 DEF TypeOK
    <2> QED BY <1>6, <2>1 DEF Listed
  <1>8. OrdersGrow'
    <2>1. GreaterFollow(idOrder', Listed(profiles'))
      BY <1>1, <1>3, <1>4, ErasedOrder
    <2>2. GreaterFollow(gidOrder', Listed(groups'))
      <3>1. gidOrder \in Seq(Gid) /\ GreaterFollow(gidOrder, Listed(groups))
        BY <1>1 DEF TypeOK, OrdersGrow
      <3>2. /\ Listed(groups') \in SUBSET Listed(groups)
            /\ Listed(groups') \cap {g} = {}
        BY <1>7
      <3> QED BY <1>4, <3>1, <3>2, WithoutFollow
    <2> QED BY <2>1, <2>2 DEF OrdersGrow, Listed
  <1>9. ListedInOwnGroup'
    <2> SUFFICES ASSUME NEW i \in Listed(profiles') \ stranded'
                 PROVE  groups'[profiles'[i]] # None /\ i \in groups'[profiles'[i]]
      BY DEF ListedInOwnGroup
    <2>1. /\ i \in Id /\ i \in Listed(profiles) \ stranded /\ i \notin D
          /\ profiles'[i] = profiles[i] /\ profiles[i] \in Gid \ {g}
      BY <1>1, <1>4, <1>5 DEF Listed, TypeOK
    <2>2. groups[profiles[i]] # None /\ i \in groups[profiles[i]]
      BY <1>1, <2>1 DEF ListedInOwnGroup
    <2>3. i \in GroupsWithout(D)[profiles[i]]
      BY <2>1, <2>2 DEF GroupsWithout
    <2> QED BY <1>6, <2>1, <2>2, <2>3
  <1>10. ListsOnlyItsOwn'
    <2> SUFFICES ASSUME NEW h \in Listed(groups'), NEW i \in groups'[h],
                        profiles'[i] # h
                 PROVE  <<i, h>> \in foreign'
      BY DEF ListsOnlyItsOwn, Listed
    <2>1. h \in Gid \ {g} /\ h \in Listed(groups) /\ groups[h] # None
      BY <1>1, <1>7 DEF Listed, TypeOK
    <2>2. /\ i \in groups[h] /\ ~(i \in D /\ profiles[i] = h)
      BY <1>6, <2>1 DEF GroupsWithout
    <2>3. i \in Id
      BY <1>1, <2>1, <2>2 DEF TypeOK, Lists
    <2>4. profiles[i] # h
      BY <1>5, <2>2, <2>3
    <2> QED BY <1>1, <1>4, <2>1, <2>2, <2>4 DEF ListsOnlyItsOwn
  <1>11. \A i \in Id \ (stranded \cup {started}) : profiles'[i] # g
    <2> SUFFICES ASSUME NEW i \in Id, i \notin stranded, i # started,
                        profiles'[i] = g
                 PROVE  FALSE
      OBVIOUS
    <2>1. profiles[i] = g /\ i \notin D /\ g # None
      BY <1>5, ListIsNotNone
    <2>2. i \in groups[g]
      BY <1>1, <2>1 DEF ListedInOwnGroup, Listed, TypeOK
    <2> QED BY <1>3, <2>1, <2>2
  <1> QED BY <1>2, <1>4, <1>6, <1>8, <1>9, <1>10, <1>11
          DEF CatalogueInv, DownIsEmpty

(* What LoadManager builds from any database is consistent: it drops the     *)
(* orphans and records the entries of other groups.                          *)
LEMMA LoadKeepsCatalogue ==
    ASSUME OneByteIds, CatalogueInv, LoadManager PROVE CatalogueInv'
  <1>1. TypeOK
    BY DEF CatalogueInv
  <1>2. TypeOK'
    BY <1>1, NextType DEF Next, SystemStep
  <1>3. /\ up' /\ groups' = LoadedGroups
        /\ profiles' = [i \in Id |-> IF i \in Readable \ Orphans
                                     THEN dProfiles[i] ELSE None]
        /\ idOrder' \in Query(Listed(dProfiles) \ Orphans)
        /\ gidOrder' \in Query(Listed(groups'))
    BY DEF LoadManager
  <1>4. OrdersGrow'
    <2>1. GreaterFollow(idOrder', Listed(dProfiles) \ Orphans)
      BY <1>1, <1>3, QueryFollow DEF Listed, TypeOK
    <2>2. Listed(profiles') \subseteq Listed(dProfiles) \ Orphans
      <3> SUFFICES ASSUME NEW i \in Listed(profiles')
                   PROVE  i \in Listed(dProfiles) \ Orphans
        OBVIOUS
      <3>1. i \in Id /\ i \in Readable \ Orphans
        BY <1>3 DEF Listed
      <3>2. dProfiles[i] # None /\ DOMAIN dProfiles = Id
        BY <1>1, <3>1, ListIsNotNone DEF Readable, TypeOK
      <3> QED BY <3>1, <3>2 DEF Listed
    <2>3. GreaterFollow(idOrder', Listed(profiles'))
      BY <2>1, <2>2 DEF GreaterFollow
    <2>4. GreaterFollow(gidOrder', Listed(groups'))
      BY <1>2, <1>3, QueryFollow DEF Listed, TypeOK
    <2> QED BY <2>3, <2>4 DEF OrdersGrow, Listed
  <1>5. ListedInOwnGroup'
    <2> SUFFICES ASSUME NEW i \in Listed(profiles')
                 PROVE  groups'[profiles'[i]] # None /\ i \in groups'[profiles'[i]]
      BY DEF ListedInOwnGroup
    <2> DEFINE g == dProfiles[i]
    <2>1. /\ i \in Id /\ i \in Readable /\ i \notin Orphans
          /\ profiles'[i] = g /\ g \in Gid
      BY <1>3 DEF Listed, Readable
    <2>2. dGroups[g] # None /\ (g \in Emptied \/ i \in dGroups[g])
      BY <2>1 DEF Orphans
    <2>3. Listed(dGroups) # {}
      BY <1>1, <2>1, <2>2 DEF Listed, TypeOK
    <2>4. groups'[g] = IF g \in Emptied THEN {x \in Readable : dProfiles[x] = g}
                       ELSE dGroups[g]
      BY <1>3, <2>1, <2>3 DEF LoadedGroups
    <2>5. i \in groups'[g]
      BY <2>1, <2>2, <2>4
    <2>6. groups'[g] # None
      <3>1. CASE g \in Emptied
        BY <2>4, <3>1, ListIsNotNone DEF Readable
      <3>2. CASE g \notin Emptied
        BY <2>2, <2>4, <3>2
      <3> QED BY <3>1, <3>2
    <2> QED BY <2>1, <2>5, <2>6
  <1>6. ListsOnlyItsOwn'
    <2> SUFFICES ASSUME NEW h \in Listed(groups'), NEW i \in groups'[h],
                        profiles'[i] # h
                 PROVE  <<i, h>> \in foreign'
      BY DEF ListsOnlyItsOwn, Listed
    <2>1. h \in Gid /\ groups'[h] # None
      BY <1>2 DEF Listed, TypeOK
    <2>2. i \in Id
      BY <1>2, <2>1 DEF TypeOK, Lists
    <2>3. foreign' = {x \in Id \X Gid : /\ groups'[x[2]] # None
                                       /\ x[1] \in groups'[x[2]]
                                       /\ profiles'[x[1]] # x[2]}
      BY DEF LoadManager
    <2> QED BY <2>1, <2>2, <2>3
  <1> QED BY <1>2, <1>3, <1>4, <1>5, <1>6 DEF CatalogueInv, DownIsEmpty

(* Steps that leave the catalogue and what the invariant records alone.      *)
LEMMA SameCatalogue ==
    ASSUME CatalogueInv, TypeOK', UNCHANGED <<up, memory, foreign, stranded>>
    PROVE  CatalogueInv'
  BY DEF CatalogueInv, DownIsEmpty, OrdersGrow, GreaterFollow,
         ListedInOwnGroup, ListsOnlyItsOwn, Listed, memory

(* CatalogueInv is inductive: every step of the program keeps it.            *)
LEMMA NextCatalogue ==
    ASSUME OneByteIds, CatalogueInv, [Next]_vars PROVE CatalogueInv'
  <1>1. TypeOK'
    BY NextType DEF CatalogueInv
  <1>2. ASSUME NEW g \in Gid, AddProfile(g) PROVE CatalogueInv'
    BY <1>2, AddKeepsCatalogue
  <1>3. ASSUME NEW g \in Gid, DeleteGroup(g) PROVE CatalogueInv'
    BY <1>3, DeleteGroupKeepsCatalogue
  <1>4. ASSUME NEW S \in SUBSET Id, BatchDeleteProfiles(S) PROVE CatalogueInv'
    BY <1>4, BatchDeleteKeepsCatalogue
  <1>5. ASSUME NEW S \in SUBSET Id, NEW g \in Gid, MoveProfileBatch(S, g)
        PROVE  CatalogueInv'
    BY <1>5, MoveKeepsCatalogue
  <1>6. ASSUME AddGroup PROVE CatalogueInv'
    BY <1>6, AddGroupKeepsCatalogue
  <1>7. ASSUME LoadManager PROVE CatalogueInv'
    BY <1>7, LoadKeepsCatalogue
  <1>8. ASSUME Exit PROVE CatalogueInv'
    <2>1. Listed(profiles') = {} /\ Listed(groups') = {}
      BY <1>8 DEF Exit, Listed
    <2> QED BY <1>1, <2>1 DEF CatalogueInv, DownIsEmpty, OrdersGrow,
               GreaterFollow, ListedInOwnGroup, ListsOnlyItsOwn, Listed
  <1>9. ASSUME \/ \E g \in Gid : SaveGroup(g) \/ RunGroupSave(g)
               \/ \E i \in Id : \/ SaveProfile(i) \/ ProfileStart(i)
                               \/ RunSave(i) \/ RunDrop(i) \/ CorruptRecord(i)
               \/ \E i \in Id, g \in Gid : RunStaleSave(i, g)
               \/ \E g \in Gid, l \in Lists : RunStaleGroupSave(g, l)
               \/ \E ok \in BOOLEAN : ProfileStarted(ok)
               \/ ProfileStop
               \/ UNCHANGED vars
        PROVE  CatalogueInv'
    <2>1. UNCHANGED <<up, memory, foreign, stranded>>
      BY <1>9 DEF SaveGroup, RunGroupSave, SaveProfile, ProfileStart, RunSave,
         RunDrop, CorruptRecord, RunStaleSave, RunStaleGroupSave,
         ProfileStarted, ProfileStop, vars, history
    <2> QED BY <1>1, <2>1, SameCatalogue
  <1> QED
    BY <1>2, <1>3, <1>4, <1>5, <1>6, <1>7, <1>8, <1>9
       DEF Next, UserStep, ThreadStep, SystemStep

(* The invariant holds of every behaviour, for any number of ids, groups,    *)
(* restarts and interleavings with the writing threads, as long as ids fit   *)
(* one byte of the database key.                                             *)
THEOREM CatalogueInvariant ==
    ASSUME MaxId < KeyBase, MaxGid < KeyBase PROVE Spec => []CatalogueInv
  <1>1. CatalogueInv /\ [Next]_vars => CatalogueInv'
    BY OneByteIdsLemma, NextCatalogue
  <1> QED BY InitCatalogue, <1>1, PTL DEF Spec

(* The catalogue stays consistent: every profile is in the list of its own   *)
(* group (AddProfileBatch, MoveProfileBatch, BatchDeleteProfiles,            *)
(* DeleteGroup, LoadManager) ...                                             *)
THEOREM CatalogueCorrect ==
    ASSUME MaxId < KeyBase, MaxGid < KeyBase PROVE Spec => []ListedInOwnGroup
  <1>1. CatalogueInv => ListedInOwnGroup
    BY DEF CatalogueInv
  <1> QED BY <1>1, CatalogueInvariant, PTL

(* ... and, but for what LoadManager found, in no other: the way back, which *)
(* MoveProfileBatch has to keep for two groups at once.                      *)
THEOREM ListsAreOwn ==
    ASSUME MaxId < KeyBase, MaxGid < KeyBase PROVE Spec => []ListsOnlyItsOwn
  <1>1. CatalogueInv => ListsOnlyItsOwn
    BY DEF CatalogueInv
  <1> QED BY <1>1, CatalogueInvariant, PTL

(* The vectors of ids keep to their order, ends of the program and the load  *)
(* in key order included.                                                    *)
THEOREM OrdersKeepGrowing ==
    ASSUME MaxId < KeyBase, MaxGid < KeyBase PROVE Spec => []OrdersGrow
  <1>1. CatalogueInv => OrdersGrow
    BY DEF CatalogueInv
  <1> QED BY <1>1, CatalogueInvariant, PTL

(* NewProfileID and NewGroupID never hand out an id in use, under the same   *)
(* assumption: what last() + 1 rests on.                                     *)
THEOREM NewIdsAreFresh ==
    ASSUME MaxId < KeyBase, MaxGid < KeyBase PROVE Spec => []NewIdsFresh
  <1>1. CatalogueInv => NewProfileIdIsFresh
    BY FreshId DEF CatalogueInv, NewProfileIdIsFresh
  <1>2. CatalogueInv => NewGroupIdIsFresh
    BY FreshId DEF CatalogueInv, NewGroupIdIsFresh
  <1>3. CatalogueInv => NewIdsFresh
    BY <1>1, <1>2 DEF NewIdsFresh
  <1> QED BY <1>3, CatalogueInvariant, PTL

(* DeleteGroup goes by the group's list, and still leaves no profile of the  *)
(* group but the started one and those already left over before.             *)
THEOREM DeleteGroupIsComplete ==
    ASSUME MaxId < KeyBase, MaxGid < KeyBase
    PROVE  Spec => DeleteGroupLeavesOnlyStarted
  <1> DEFINE A == up' => \A g \in Gid : groups[g] # None /\ groups'[g] = None =>
                    \A i \in Id \ (stranded \cup {started}) : profiles'[i] # g
  <1>1. OneByteIds
    BY OneByteIdsLemma
  <1>2. CatalogueInv /\ [Next]_vars => CatalogueInv'
    BY <1>1, NextCatalogue
  <1>3. CatalogueInv /\ [Next]_vars => [A]_vars
    <2> SUFFICES ASSUME CatalogueInv, Next, up', NEW g \in Gid,
                        groups[g] # None, groups'[g] = None
                 PROVE  \A i \in Id \ (stranded \cup {started}) : profiles'[i] # g
      OBVIOUS
    <2>1. TypeOK
      BY DEF CatalogueInv
    <2>2. ASSUME NEW h \in Gid, DeleteGroup(h)
          PROVE  \A i \in Id \ (stranded \cup {started}) : profiles'[i] # g
      <3>1. g = h
        BY <2>2, DeleteGroupKeepsCatalogue
      <3> QED BY <2>2, <3>1, DeleteGroupKeepsCatalogue
    <2>3. ASSUME NEW h \in Gid, AddProfile(h) PROVE FALSE
      <3>1. NewProfileID \in Id
        BY <2>3 DEF AddProfile
      <3>2. groups[g] \in SUBSET Id
        BY <2>1 DEF TypeOK, Lists
      <3>3. groups'[g] \in SUBSET Id
        BY <2>1, <2>3, <3>1, <3>2 DEF AddProfile, TypeOK
      <3> QED BY <3>3, ListIsNotNone
    <2>4. ASSUME NEW S \in SUBSET Id, BatchDeleteProfiles(S) PROVE FALSE
      <3>1. groups' = GroupsWithout(Deletable(S)) /\ Deletable(S) \in SUBSET Id
        BY <2>4 DEF BatchDeleteProfiles, Deletable
      <3> QED BY <2>1, <3>1, GroupsWithoutListed
    <2>5. ASSUME NEW S \in SUBSET Id, NEW h \in Gid, MoveProfileBatch(S, h)
          PROVE  FALSE
      <3> DEFINE M == Movable(S, h)
      <3>1. /\ groups' = [GroupsWithout(M) EXCEPT ![h] = @ \cup M]
            /\ M \in SUBSET Id
        BY <2>5 DEF MoveProfileBatch, Movable
      <3> HIDE DEF M
      <3>2. GroupsWithout(M)[g] # None
        BY <2>1, <3>1, GroupsWithoutListed
      <3>3. GroupsWithout(M)[g] \in SUBSET Id
        BY <2>1, <3>1, <3>2, GroupsWithoutType DEF Lists
      <3>4. groups'[g] \in SUBSET Id
        BY <3>1, <3>3 DEF GroupsWithout
      <3> QED BY <3>4, ListIsNotNone
    <2>6. ASSUME AddGroup PROVE FALSE
      <3>1. groups'[g] \in {groups[g], {}}
        BY <2>1, <2>6 DEF AddGroup, TypeOK
      <3> QED BY <3>1, ListIsNotNone
    <2>7. ASSUME LoadManager PROVE FALSE
      BY <2>1, <2>7 DEF LoadManager, CatalogueInv, DownIsEmpty, Listed, TypeOK
    <2>8. ASSUME groups' = groups PROVE FALSE
      BY <2>8
    <2>9. ~Exit
      BY DEF Exit
    <2> QED
      BY <2>2, <2>3, <2>4, <2>5, <2>6, <2>7, <2>8, <2>9
         DEF Next, UserStep, ThreadStep, SystemStep, SaveGroup, RunGroupSave,
         SaveProfile, ProfileStart, RunSave, RunDrop, CorruptRecord,
         RunStaleSave, RunStaleGroupSave, ProfileStarted, ProfileStop, memory
  <1> QED BY InitCatalogue, <1>2, <1>3, PTL DEF Spec, DeleteGroupLeavesOnlyStarted

-----------------------------------------------------------------------------
(* The records in the database *)

(* What the writes are about: a step that leaves it alone keeps WritesInv.   *)
writes == <<up, profiles, saves, stales, drops, dProfiles, moved, raced>>

LEMMA SameWrites == WritesInv /\ UNCHANGED writes => WritesInv'
  BY DEF WritesInv, writes

(* A profile leaves the catalogue with a save under way only among the ids   *)
(* that have raced.                                                          *)
LEMMA EraseWrites ==
    ASSUME TypeOK, WritesInv, up, up', NEW D \in SUBSET Id, Erase(D),
           UNCHANGED dProfiles
    PROVE  WritesInv'
  <1>1. /\ profiles' = [i \in Id |-> IF i \in D THEN None ELSE profiles[i]]
        /\ stales' = Detached(D) /\ saves' = saves \ D
        /\ drops' = [i \in Id |-> IF i \in D THEN drops[i] + 1 ELSE drops[i]]
        /\ moved' = moved \ D /\ raced' = raced \cup Racing'
    BY DEF Erase
  <1>2. ASSUME NEW i \in saves' PROVE profiles'[i] # None
    BY <1>1, <1>2 DEF WritesInv, TypeOK
  <1>3. ASSUME NEW i \in Id \ raced', i \in D
        PROVE  /\ \A g \in Gid : stales'[i][g] = 0
               /\ profiles'[i] = None /\ drops'[i] # 0
    <2>1. drops'[i] > 0 /\ i \notin raced /\ ~SavePending(i)'
      BY <1>1, <1>3 DEF Racing, TypeOK
    <2>2. \A g \in Gid : ~(stales'[i][g] > 0)
      BY <2>1 DEF SavePending
    <2>3. stales' \in [Id -> [Gid -> Nat]]
      BY <1>1, DetachedType
    <2>4. \A g \in Gid : stales'[i][g] = 0
      BY <2>2, <2>3
    <2> QED BY <1>1, <1>3, <2>1, <2>4
  <1>4. ASSUME NEW i \in Id \ raced', i \notin D
        PROVE  /\ \A g \in Gid : stales'[i][g] = 0
               /\ drops'[i] > 0 => profiles'[i] = None
               /\ profiles'[i] # None /\ i \notin saves' =>
                     /\ dProfiles[i] \in Gid
                     /\ i \notin moved' => dProfiles[i] = profiles'[i]
               /\ profiles'[i] = None /\ drops'[i] = 0 => dProfiles[i] \notin Gid
    <2>1. i \notin raced /\ \A g \in Gid : stales[i][g] = 0
      BY <1>1, <1>4 DEF WritesInv
    <2>2. \A g \in Gid : stales'[i][g] = 0
      BY <1>1, <1>4, <2>1 DEF Detached
    <2>3. /\ profiles'[i] = profiles[i] /\ drops'[i] = drops[i]
          /\ i \in saves' <=> i \in saves
          /\ i \in moved' <=> i \in moved
      BY <1>1, <1>4
    <2> QED BY <2>1, <2>2, <2>3 DEF WritesInv
  <1> QED BY <1>2, <1>3, <1>4 DEF WritesInv

(* A new profile has an id nobody saves, so that its own save is the first.  *)
LEMMA AddWrites ==
    ASSUME CatalogueInv, WritesInv, NEW g \in Gid, AddProfile(g)
    PROVE  WritesInv'
  <1> DEFINE n == NewProfileID
  <1>1. TypeOK /\ OrdersGrow
    BY DEF CatalogueInv
  <1>2. n \in Id /\ profiles[n] = None
    BY <1>1, FreshId DEF AddProfile, Listed, TypeOK
  <1>3. n \notin saves
    BY <1>2 DEF WritesInv
  <1>4. /\ up /\ up' /\ profiles' = [profiles EXCEPT ![n] = g]
        /\ stales' = Detached({n}) /\ saves' = saves \cup {n}
        /\ moved' = moved \ {n} /\ raced' = raced \cup Racing'
        /\ UNCHANGED <<drops, dProfiles>>
    BY DEF AddProfile
  <1> HIDE DEF n
  <1>5. \A i \in Id, h \in Gid : stales'[i][h] = stales[i][h]
    BY <1>1, <1>3, <1>4 DEF Detached, TypeOK
  <1>6. profiles'[n] = g /\ g # None
    BY <1>1, <1>2, <1>4, ListIsNotNone DEF TypeOK
  <1>7. \A i \in Id : i # n => profiles'[i] = profiles[i]
    BY <1>1, <1>4 DEF TypeOK
  <1>8. n \notin raced' => ~(drops[n] > 0)
    BY <1>2, <1>4 DEF Racing, SavePending
  <1>9. ASSUME NEW i \in saves' PROVE profiles'[i] # None
    BY <1>1, <1>4, <1>6, <1>7 DEF WritesInv, TypeOK
  <1>10. ASSUME NEW i \in Id \ raced'
         PROVE  /\ \A h \in Gid : stales'[i][h] = 0
                /\ drops'[i] > 0 => profiles'[i] = None
                /\ profiles'[i] # None /\ i \notin saves' =>
                      /\ dProfiles'[i] \in Gid
                      /\ i \notin moved' => dProfiles'[i] = profiles'[i]
                /\ profiles'[i] = None /\ drops'[i] = 0 => dProfiles'[i] \notin Gid
    <2>1. /\ up /\ i \notin raced /\ UNCHANGED <<drops, dProfiles>>
          /\ n \in saves' /\ (i # n => (i \in saves' <=> i \in saves))
          /\ i # n => (i \in moved' <=> i \in moved)
      BY <1>4
    <2>2. \A h \in Gid : stales'[i][h] = 0
      BY <1>5, <2>1 DEF WritesInv
    <2>3. CASE i = n
      BY <1>6, <1>8, <2>1, <2>2, <2>3
    <2>4. CASE i # n
      BY <1>7, <2>1, <2>2, <2>4 DEF WritesInv
    <2> QED BY <2>3, <2>4
  <1> QED BY <1>9, <1>10 DEF WritesInv

(* A moved profile keeps its record.                                         *)
LEMMA MoveWrites ==
    ASSUME TypeOK, WritesInv, NEW S \in SUBSET Id, NEW g \in Gid,
           MoveProfileBatch(S, g)
    PROVE  WritesInv'
  <1> DEFINE M == Movable(S, g)
  <1>1. M \in SUBSET Id /\ \A i \in M : profiles[i] # None
    BY DEF Movable
  <1>2. /\ up /\ up' /\ moved' = moved \cup M
        /\ profiles' = [i \in Id |-> IF i \in M THEN g ELSE profiles[i]]
        /\ UNCHANGED <<saves, stales, drops, dProfiles, raced>>
    BY DEF MoveProfileBatch, disk
  <1> HIDE DEF M
  <1>3. \A i \in Id : /\ profiles'[i] # None <=> profiles[i] # None
                      /\ i \notin moved' => /\ i \notin moved
                                           /\ profiles'[i] = profiles[i]
    BY <1>1, <1>2, ListIsNotNone
  <1>4. saves \subseteq Id
    BY DEF TypeOK
  <1> QED BY <1>2, <1>3, <1>4 DEF WritesInv

(* What LoadManager finds is what it takes into the catalogue, or drops.     *)
LEMMA LoadWrites ==
    ASSUME TypeOK, DownIsQuiet, LoadManager PROVE WritesInv'
  <1>1. /\ saves = {} /\ \A i \in Id, g \in Gid : stales[i][g] = 0
    BY DEF DownIsQuiet, LoadManager
  <1>2. /\ profiles' = [i \in Id |-> IF i \in Readable \ Orphans
                                     THEN dProfiles[i] ELSE None]
        /\ drops' = [i \in Id |-> IF i \in Orphans THEN 1 ELSE 0]
        /\ UNCHANGED <<dProfiles, saves, stales, raced>>
    BY DEF LoadManager
  <1>3. ASSUME NEW i \in Id
        PROVE  /\ profiles'[i] # None => dProfiles[i] \in Gid /\ dProfiles[i] = profiles'[i]
               /\ drops'[i] > 0 => profiles'[i] = None
               /\ profiles'[i] = None /\ drops'[i] = 0 => dProfiles[i] \notin Gid
    BY <1>2, ListIsNotNone DEF Readable
  <1> QED BY <1>1, <1>2, <1>3 DEF WritesInv

(* The threads write what they were given.                                   *)
LEMMA ThreadWrites ==
    ASSUME TypeOK, DownIsQuiet, WritesInv, NEW i \in Id,
           \/ SaveProfile(i) \/ RunSave(i) \/ RunDrop(i) \/ CorruptRecord(i)
           \/ \E g \in Gid : RunStaleSave(i, g)
    PROVE  WritesInv'
  <1>0. saves \subseteq Id /\ profiles \in [Id -> Gid \cup {None}]
        /\ dProfiles \in [Id -> Gid \cup {None, Corrupt}] /\ drops \in [Id -> Nat]
    BY DEF TypeOK
  <1>1. CASE SaveProfile(i) \/ RunSave(i)
    <2>1. /\ profiles[i] # None /\ profiles[i] \in Gid
          /\ dProfiles' = [dProfiles EXCEPT ![i] = profiles[i]]
          /\ moved' = moved \ {i} /\ saves' \in {saves, saves \ {i}}
          /\ UNCHANGED <<up, profiles, stales, drops, raced>>
      BY <1>0, <1>1 DEF SaveProfile, RunSave, WritesInv, memory, threads
    <2>2. dProfiles'[i] = profiles[i] /\ \A j \in Id \ {i} : dProfiles'[j] = dProfiles[j]
      BY <1>0, <2>1
    <2>3. \A j \in Id \ {i} : /\ j \in saves' <=> j \in saves
                             /\ j \in moved' <=> j \in moved
      BY <2>1
    <2> QED BY <2>1, <2>2, <2>3 DEF WritesInv
  <1>2. CASE RunDrop(i)
    <2>1. /\ drops[i] > 0 /\ dProfiles' = [dProfiles EXCEPT ![i] = None]
          /\ drops' = [drops EXCEPT ![i] = @ - 1]
          /\ UNCHANGED <<up, profiles, saves, stales, moved, raced>>
      BY <1>2 DEF RunDrop, memory, history
    <2>2. /\ dProfiles'[i] \notin Gid
          /\ \A j \in Id \ {i} : dProfiles'[j] = dProfiles[j] /\ drops'[j] = drops[j]
      BY <1>0, <2>1, ListIsNotNone
    <2>3. up /\ i \notin raced => profiles[i] = None
      BY <2>1 DEF WritesInv
    <2> QED BY <2>1, <2>2, <2>3 DEF WritesInv
  <1>3. CASE CorruptRecord(i)
    <2>1. ~up' /\ UNCHANGED <<profiles, saves>>
      BY <1>3 DEF CorruptRecord, memory, threads
    <2> QED BY <2>1 DEF WritesInv
  <1>4. ASSUME NEW g \in Gid, RunStaleSave(i, g) PROVE WritesInv'
    <2>1. /\ stales[i][g] > 0 /\ dProfiles' = [dProfiles EXCEPT ![i] = g]
          /\ stales' = [stales EXCEPT ![i][g] = @ - 1]
          /\ UNCHANGED <<up, profiles, saves, drops, moved, raced>>
      BY <1>4 DEF RunStaleSave, memory, history
    <2>2. up /\ i \in raced
      BY <2>1 DEF DownIsQuiet, WritesInv
    <2>3. \A j \in Id \ {i} : dProfiles'[j] = dProfiles[j] /\ stales'[j] = stales[j]
      BY <1>0, <2>1 DEF TypeOK
    <2> QED BY <2>1, <2>2, <2>3 DEF WritesInv
  <1> QED BY <1>1, <1>2, <1>3, <1>4

(* Every step keeps what is under way in step with the records.              *)
LEMMA NextWrites ==
    ASSUME OneByteIds, CatalogueInv, DownIsQuiet, WritesInv, [Next]_vars
    PROVE  WritesInv'
  <1> USE DEF memory, disk, threads, history
  <1>1. TypeOK
    BY DEF CatalogueInv
  <1>2. ASSUME NEW g \in Gid, AddProfile(g) PROVE WritesInv'
    BY <1>2, AddWrites
  <1>3. ASSUME NEW g \in Gid, DeleteGroup(g) PROVE WritesInv'
    <2>1. /\ Erase(Deletable(groups[g])) /\ up /\ up' /\ UNCHANGED dProfiles
          /\ groups[g] \in SUBSET Id
      BY <1>1, <1>3 DEF DeleteGroup, TypeOK, Lists
    <2>2. Deletable(groups[g]) \in SUBSET Id
      BY <2>1 DEF Deletable
    <2> QED BY <1>1, <2>1, <2>2, EraseWrites
  <1>4. ASSUME NEW S \in SUBSET Id, BatchDeleteProfiles(S) PROVE WritesInv'
    <2>1. Erase(Deletable(S)) /\ up /\ up' /\ UNCHANGED dProfiles
      BY <1>4 DEF BatchDeleteProfiles
    <2>2. Deletable(S) \in SUBSET Id
      BY DEF Deletable
    <2> QED BY <1>1, <2>1, <2>2, EraseWrites
  <1>5. ASSUME NEW S \in SUBSET Id, NEW g \in Gid, MoveProfileBatch(S, g)
        PROVE  WritesInv'
    BY <1>1, <1>5, MoveWrites
  <1>6. ASSUME LoadManager PROVE WritesInv'
    BY <1>1, <1>6, LoadWrites
  <1>7. ASSUME Exit PROVE WritesInv'
    BY <1>7 DEF Exit, WritesInv
  <1>8. ASSUME NEW i \in Id, \/ SaveProfile(i) \/ RunSave(i) \/ RunDrop(i)
                            \/ CorruptRecord(i)
                            \/ \E g \in Gid : RunStaleSave(i, g)
        PROVE  WritesInv'
    BY <1>1, <1>8, ThreadWrites
  <1>9. ASSUME \/ AddGroup
               \/ \E g \in Gid : SaveGroup(g) \/ RunGroupSave(g)
               \/ \E g \in Gid, l \in Lists : RunStaleGroupSave(g, l)
               \/ \E i \in Id : ProfileStart(i)
               \/ \E ok \in BOOLEAN : ProfileStarted(ok)
               \/ ProfileStop \/ UNCHANGED vars
        PROVE  UNCHANGED writes
    BY <1>9 DEF AddGroup, SaveGroup, RunGroupSave, RunStaleGroupSave,
                ProfileStart, ProfileStarted, ProfileStop, vars, writes
  <1> QED BY <1>2, <1>3, <1>4, <1>5, <1>6, <1>7, <1>8, <1>9, SameWrites
          DEF Next, UserStep, ThreadStep, SystemStep

(* The threads end with the program, and none starts before it is up again.  *)
LEMMA NextQuiet == DownIsQuiet /\ [Next]_vars => DownIsQuiet'
  <1> SUFFICES ASSUME DownIsQuiet, [Next]_vars, ~up' PROVE DownIsQuiet'
    BY DEF DownIsQuiet
  <1>1. CASE Exit
    BY <1>1 DEF Exit, DownIsQuiet
  <1>2. ASSUME ~Exit PROVE ~up
    BY <1>2 DEF Next, UserStep, ThreadStep, SystemStep, AddProfile, DeleteGroup,
       BatchDeleteProfiles, MoveProfileBatch, SaveProfile, AddGroup, SaveGroup,
       ProfileStart, ProfileStarted, ProfileStop, RunSave, RunDrop, RunStaleSave,
       RunGroupSave, RunStaleGroupSave, CorruptRecord, LoadManager, vars
  <1>3. ASSUME ~up PROVE UNCHANGED <<saves, stales>>
    <2>1. /\ \A i \in Id : ~RunSave(i)
          /\ \A i \in Id, g \in Gid : ~RunStaleSave(i, g)
      BY <1>3 DEF DownIsQuiet, RunSave, RunStaleSave
    <2>2. CASE UserStep
      BY <1>3, <2>2 DEF UserStep, AddProfile, DeleteGroup, BatchDeleteProfiles,
         MoveProfileBatch, SaveProfile, AddGroup, SaveGroup, ProfileStart,
         ProfileStarted, ProfileStop, threads
    <2>3. CASE ThreadStep
      BY <2>1, <2>3 DEF ThreadStep, RunDrop, RunGroupSave, RunStaleGroupSave
    <2>4. CASE SystemStep
      BY <1>3, <2>4 DEF SystemStep, Exit, LoadManager, CorruptRecord, threads
    <2>5. CASE UNCHANGED vars
      BY <2>5 DEF vars, threads
    <2> QED BY <2>2, <2>3, <2>4, <2>5 DEF Next
  <1> QED BY <1>1, <1>2, <1>3 DEF DownIsQuiet

(* A group's record is the list it had when it was last written, and every   *)
(* change of the list writes it or leaves that to a thread.                  *)
LEMMA NextGroupRecords ==
    ASSUME OneByteIds, CatalogueInv, GroupRecordsAgree, [Next]_vars
    PROVE  GroupRecordsAgree'
  <1> USE DEF memory, disk, threads, history
  <1>1. TypeOK /\ OrdersGrow
    BY DEF CatalogueInv
  <1>2. SUFFICES ASSUME up', NEW g \in Gid \ clobbered', gsaves'[g] = 0
                 PROVE  dGroups'[g] = groups'[g]
    BY DEF GroupRecordsAgree
  <1>3. /\ groups \in [Gid -> {None} \cup Lists] /\ dGroups \in [Gid -> {None} \cup Lists]
        /\ gsaves \in [Gid -> Nat]
    BY <1>1 DEF TypeOK
  <1>4. ASSUME up, g \notin clobbered, gsaves[g] = 0 PROVE dGroups[g] = groups[g]
    BY <1>4 DEF GroupRecordsAgree
  <1>5. \A D \in SUBSET Id : g \notin ChangedGroups(D) => GroupsWithout(D)[g] = groups[g]
    <2> SUFFICES ASSUME NEW D \in SUBSET Id, g \notin ChangedGroups(D), groups[g] # None
                 PROVE  GroupsWithout(D)[g] = groups[g]
      BY DEF GroupsWithout
    <2>1. \A i \in D : profiles[i] # g
      BY <1>3 DEF ChangedGroups, Listed
    <2> QED BY <2>1 DEF GroupsWithout
  <1>6. ASSUME NEW h \in Gid, AddProfile(h) PROVE dGroups'[g] = groups'[g]
    BY <1>2, <1>3, <1>4, <1>6 DEF AddProfile
  <1>7. ASSUME NEW h \in Gid, DeleteGroup(h) PROVE dGroups'[g] = groups'[g]
    <2> DEFINE D == Deletable(groups[h])
    <2>1. /\ up /\ clobbered' = clobbered
          /\ groups' = [GroupsWithout(D) EXCEPT ![h] = None]
          /\ dGroups' = [x \in Gid |-> IF x \in ChangedGroups(D) \cup {h}
                                       THEN groups'[x] ELSE dGroups[x]]
          /\ gsaves' = [gsaves EXCEPT ![h] = 0]
          /\ groups[h] # None
      BY <1>7 DEF DeleteGroup
    <2>2. D \in SUBSET Id
      BY <1>3, <2>1 DEF Deletable, Lists
    <2> HIDE DEF D
    <2>3. CASE g \in ChangedGroups(D) \cup {h}
      BY <2>1, <2>3
    <2>4. CASE g \notin ChangedGroups(D) \cup {h}
      <3>1. groups'[g] = groups[g] /\ dGroups'[g] = dGroups[g] /\ gsaves'[g] = gsaves[g]
        BY <1>3, <1>5, <2>1, <2>2, <2>4 DEF GroupsWithout
      <3> QED BY <1>2, <1>4, <2>1, <3>1
    <2> QED BY <2>3, <2>4
  <1>8. ASSUME NEW S \in SUBSET Id, BatchDeleteProfiles(S) PROVE dGroups'[g] = groups'[g]
    <2> DEFINE D == Deletable(S)
    <2>1. /\ up /\ UNCHANGED <<clobbered, gsaves>>
          /\ groups' = GroupsWithout(D)
          /\ dGroups' = [x \in Gid |-> IF x \in ChangedGroups(D) THEN groups'[x]
                                       ELSE dGroups[x]]
      BY <1>8 DEF BatchDeleteProfiles
    <2>2. D \in SUBSET Id
      BY DEF Deletable
    <2> HIDE DEF D
    <2> QED BY <1>2, <1>4, <1>5, <2>1, <2>2
  <1>9. ASSUME NEW S \in SUBSET Id, NEW h \in Gid, MoveProfileBatch(S, h)
        PROVE  dGroups'[g] = groups'[g]
    <2> DEFINE M == Movable(S, h)
               touched == {h} \cup {profiles[i] : i \in M}
    <2>1. /\ up /\ UNCHANGED <<clobbered, dGroups>>
          /\ groups' = [GroupsWithout(M) EXCEPT ![h] = @ \cup M]
          /\ gsaves' = [x \in Gid |-> IF x \in touched THEN gsaves[x] + 1
                                      ELSE gsaves[x]]
      BY <1>9 DEF MoveProfileBatch
    <2>2. M \in SUBSET Id
      BY DEF Movable
    <2>3. g \notin touched /\ gsaves[g] = 0
      <3> HIDE DEF touched
      <3> QED BY <1>2, <1>3, <2>1
    <2>4. g # h /\ g \notin ChangedGroups(M)
      BY <2>3 DEF ChangedGroups
    <2> HIDE DEF M
    <2>5. groups'[g] = groups[g]
      BY <1>5, <2>1, <2>2, <2>4 DEF GroupsWithout
    <2> QED BY <1>2, <1>4, <2>1, <2>3, <2>5
  <1>10. CASE AddGroup
    <2>1. NewGroupID \in Gid
      BY <1>10 DEF AddGroup
    <2> QED BY <1>2, <1>3, <1>4, <1>10, <2>1 DEF AddGroup
  <1>11. CASE LoadManager
    BY <1>11 DEF LoadManager
  <1>12. ASSUME NEW h \in Gid, SaveGroup(h) \/ RunGroupSave(h)
         PROVE  dGroups'[g] = groups'[g]
    BY <1>2, <1>3, <1>4, <1>12 DEF SaveGroup, RunGroupSave
  <1>13. ASSUME NEW h \in Gid, NEW l \in Lists, RunStaleGroupSave(h, l)
         PROVE  dGroups'[g] = groups'[g]
    BY <1>2, <1>3, <1>4, <1>13 DEF RunStaleGroupSave
  <1>14. ASSUME \/ \E i \in Id : \/ SaveProfile(i) \/ ProfileStart(i) \/ RunSave(i)
                                \/ RunDrop(i) \/ CorruptRecord(i)
                \/ \E i \in Id, h \in Gid : RunStaleSave(i, h)
                \/ \E ok \in BOOLEAN : ProfileStarted(ok)
                \/ ProfileStop \/ UNCHANGED vars
         PROVE  UNCHANGED <<up, groups, dGroups, gsaves, clobbered>>
    BY <1>14 DEF SaveProfile, ProfileStart, RunSave, RunDrop, CorruptRecord,
                 RunStaleSave, ProfileStarted, ProfileStop, vars
  <1>15. ~Exit
    BY <1>2 DEF Exit
  <1> QED BY <1>2, <1>4, <1>6, <1>7, <1>8, <1>9, <1>10, <1>11, <1>12, <1>13,
             <1>14, <1>15 DEF Next, UserStep, ThreadStep, SystemStep

(* What is settled agrees with its record.                                   *)
LEMMA SettledAgree == TypeOK /\ WritesInv => ProfileRecordsAgree
  <1> SUFFICES ASSUME TypeOK, WritesInv, up, NEW i \in Id \ raced, Settled(i)
               PROVE  profiles[i] # None <=> dProfiles[i] \in Gid
    BY DEF ProfileRecordsAgree
  <1>1. i \notin saves /\ drops[i] = 0
    BY DEF Settled, SavePending
  <1> QED BY <1>1 DEF WritesInv

LEMMA SettledAgreeNext == TypeOK' /\ WritesInv' => ProfileRecordsAgree'
  BY SettledAgree, PTL

LEMMA InitRecords == Init => RecordsFollow
  BY DEF Init, RecordsFollow, DownIsQuiet, WritesInv, ProfileRecordsAgree,
         GroupRecordsAgree

(* The database follows the catalogue: once its threads are done, a profile  *)
(* or a group has a record exactly when it is there, and a group's record    *)
(* holds its list (the threads of AddProfileBatch, BatchDeleteProfiles and   *)
(* MoveProfileBatch, in any order).                                          *)
THEOREM RecordsFollowCatalogue ==
    ASSUME MaxId < KeyBase, MaxGid < KeyBase PROVE Spec => []RecordsFollow
  <1>1. CatalogueInv /\ RecordsFollow /\ [Next]_vars => RecordsFollow'
    <2> SUFFICES ASSUME CatalogueInv, RecordsFollow, [Next]_vars
                 PROVE  RecordsFollow'
      OBVIOUS
    <2>1. OneByteIds /\ TypeOK'
      BY OneByteIdsLemma, NextType DEF CatalogueInv
    <2>2. DownIsQuiet' /\ WritesInv' /\ GroupRecordsAgree'
      BY <2>1, NextQuiet, NextWrites, NextGroupRecords DEF RecordsFollow
    <2>3. ProfileRecordsAgree'
      BY <2>1, <2>2, SettledAgreeNext
    <2> QED BY <2>2, <2>3 DEF RecordsFollow
  <1> QED BY <1>1, InitRecords, CatalogueInvariant, PTL DEF Spec

(* A profile whose writes are done is back in its group after a restart      *)
(* (LoadManager), but for those that raced, moved or lost their group.       *)
THEOREM ProfilesSurviveRestart ==
    ASSUME MaxId < KeyBase, MaxGid < KeyBase PROVE Spec => []SurvivesRestart
  <1>1. CatalogueInv /\ RecordsFollow => SurvivesRestart
    <2> SUFFICES ASSUME CatalogueInv, RecordsFollow, up,
                        NEW i \in Listed(profiles) \ (raced \cup moved \cup stranded),
                        Settled(i), gsaves[profiles[i]] = 0,
                        profiles[i] \notin clobbered
                 PROVE  dProfiles[i] = profiles[i] /\ i \in Readable \ Orphans
      BY DEF SurvivesRestart
    <2>1. i \in Id /\ profiles[i] # None /\ profiles[i] \in Gid
      BY DEF Listed, CatalogueInv, TypeOK
    <2>2. groups[profiles[i]] # None /\ i \in groups[profiles[i]]
      BY DEF CatalogueInv, ListedInOwnGroup
    <2>3. dProfiles[i] = profiles[i]
      BY <2>1 DEF RecordsFollow, WritesInv, Settled, SavePending
    <2>4. dGroups[profiles[i]] = groups[profiles[i]]
      BY <2>1 DEF RecordsFollow, GroupRecordsAgree
    <2> QED BY <2>1, <2>2, <2>3, <2>4 DEF Readable, Orphans
  <1> QED BY <1>1, RecordsFollowCatalogue, CatalogueInvariant, PTL

-----------------------------------------------------------------------------
(* The ids of an accept *)

(* A set of numbers that is not empty has a least one.                     *)
LEMMA LeastNat ==
    ASSUME NEW T \in SUBSET Nat, T # {}
    PROVE  \E n \in T : \A m \in T : n <= m
  <1> DEFINE U == {0..n : n \in T}
  <1>1. U \subseteq FiniteSubsetsOf(Nat) /\ U # {}
    <2>1. ASSUME NEW n \in T PROVE 0..n \in SUBSET Nat /\ IsFiniteSet(0..n)
      BY FS_Interval
    <2> QED BY <2>1 DEF FiniteSubsetsOf
  <1>2. PICK x \in U : \A y \in U : <<y, x>> \notin StrictSubsetOrdering(Nat)
    <2>1. IsWellFoundedOn(StrictSubsetOrdering(Nat), FiniteSubsetsOf(Nat))
      BY FS_StrictSubsetOrderingWellFounded
    <2> HIDE DEF U
    <2> QED BY <1>1, <2>1, WFMin
  <1>3. PICK n \in T : x = 0..n
    OBVIOUS
  <1>4. ASSUME NEW m \in T, m < n PROVE FALSE
    <2>1. 0..m \in U /\ 0..m \subseteq 0..n /\ n \in 0..n /\ n \notin 0..m
      BY <1>4
    <2>2. <<0..m, x>> \in StrictSubsetOrdering(Nat)
      BY <1>3, <2>1 DEF StrictSubsetOrdering
    <2> QED BY <1>2, <2>1, <2>2
  <1>5. \A m \in T : n <= m
    BY <1>4
  <1> QED BY <1>5

Ids == Nat \cup {-1}

(* The recursive function of AddRouteChain has a value: after the last id  *)
(* that is given come its successors.                                      *)
LEMMA ObjectTypes ==
    ASSUME RoutesTypeOK, NEW o \in Objects
    PROVE  /\ chain[o] \in [id : Ids, rules : 0..MaxNews]
           /\ IdOf(o) \in Ids /\ RulesOf(o) \in 0..MaxNews
  <1>1. chain \in Seq([id : Ids, rules : 0..MaxNews])
    BY DEF RoutesTypeOK, Ids
  <1>2. chain[o] \in [id : Ids, rules : 0..MaxNews]
    <2> DEFINE R == [id : Ids, rules : 0..MaxNews]
    <2>1. chain \in Seq(R)
      BY <1>1
    <2> HIDE DEF R
    <2>2. chain[o] \in R
      BY <2>1 DEF Objects
    <2> QED BY <2>2 DEF R
  <1> QED BY <1>2 DEF IdOf, RulesOf

LEMMA NewIdsFollow ==
    ASSUME RoutesTypeOK, NEW list \in Seq(Objects), InIdOrder(list)
    PROVE  /\ NewIds(list) = [i \in DOMAIN list |-> NewIds(list)[i]]
           /\ \A i \in DOMAIN list :
                 NewIds(list)[i] = IF IdOf(list[i]) >= 0 THEN IdOf(list[i])
                                   ELSE IF i = 1 THEN 0 ELSE NewIds(list)[i - 1] + 1
  <1> DEFINE D == DOMAIN list
             id(i) == IdOf(list[i])
             Named == {i \in D : id(i) >= 0}
             Value(f) == [i \in D |-> IF id(i) >= 0 THEN id(i)
                                      ELSE IF i = 1 THEN 0 ELSE f[i - 1] + 1]
             last == CHOOSE k \in Named : \A i \in Named : i <= k
             g == [i \in D |-> IF id(i) >= 0 THEN id(i)
                               ELSE IF Named = {} THEN i - 1
                               ELSE id(last) + (i - last)]
  <1>1. D = 1..Len(list) /\ Len(list) \in Nat \ {0} /\ \A i \in D : id(i) \in Ids
    <2>1. list # <<>>
      BY DEF InIdOrder
    <2>2. \A i \in D : list[i] \in Objects
      BY <2>1
    <2> QED BY <2>1, <2>2, ObjectTypes
  <1>2. \A i, k \in D : i < k /\ id(k) >= 0 => id(i) >= 0
    BY <1>1 DEF InIdOrder, Ids
  <1>3. Named # {} => /\ last \in Named
                      /\ \A i \in D : i <= last <=> id(i) >= 0
    <2> SUFFICES ASSUME Named # {} PROVE <1>3!2
      OBVIOUS
    <2> DEFINE After == {Len(list) - i : i \in Named}
    <2>1. After \in SUBSET Nat /\ After # {}
      BY <1>1
    <2> HIDE DEF After
    <2>2. PICK n \in After : \A m \in After : n <= m
      BY <2>1, LeastNat
    <2>3. PICK k \in Named : n = Len(list) - k
      BY DEF After
    <2>5. ASSUME NEW i \in Named PROVE i <= k
      <3>1. Len(list) - i \in After
        BY DEF After
      <3>2. n <= Len(list) - i
        BY <2>2, <3>1
      <3>3. i \in Nat /\ k \in Nat
        BY <1>1
      <3> QED BY <1>1, <2>3, <3>2, <3>3
    <2>4. last \in Named /\ \A i \in Named : i <= last
      BY <2>5
    <2> HIDE DEF last
    <2> QED BY <1>1, <1>2, <2>4
  <1>4. g = Value(g)
    <2> HIDE DEF last
    <2>1. ASSUME NEW i \in D PROVE g[i] = Value(g)[i]
      <3>1. CASE id(i) >= 0
        BY <3>1
      <3>2. CASE ~(id(i) >= 0) /\ Named = {}
        <4>1. i > 1 => i - 1 \in D /\ ~(id(i - 1) >= 0)
          BY <1>1, <3>2
        <4>2. g[i] = i - 1
          BY <3>2
        <4>3. i # 1 => g[i - 1] = (i - 1) - 1
          BY <1>1, <3>2, <4>1
        <4>4. Value(g)[i] = IF i = 1 THEN 0 ELSE g[i - 1] + 1
          BY <1>1, <3>2 DEF Ids
        <4> HIDE DEF g, Value
        <4> QED BY <1>1, <4>2, <4>3, <4>4
      <3>3. CASE ~(id(i) >= 0) /\ Named # {}
        <4>1. last \in D /\ id(last) \in Nat /\ last < i
          BY <1>1, <1>3, <3>3 DEF Ids
        <4>2. i - 1 \in D /\ last <= i - 1 /\ i # 1
          BY <1>1, <4>1
        <4>3. CASE last = i - 1
          BY <1>1, <1>3, <3>3, <4>1, <4>2, <4>3
        <4>4. CASE last < i - 1
          <5>1. ~(id(i - 1) >= 0)
            BY <1>1, <1>3, <3>3, <4>2, <4>4 DEF Ids
          <5>2. g[i - 1] = id(last) + ((i - 1) - last)
            BY <3>3, <4>2, <5>1 DEF Ids
          <5>3. g[i] = id(last) + (i - last) /\ Value(g)[i] = g[i - 1] + 1
            BY <3>3, <4>2 DEF Ids
          <5> HIDE DEF g, Value
          <5> QED BY <1>1, <4>1, <5>2, <5>3
        <4> QED BY <1>1, <4>1, <4>2, <4>3, <4>4
      <3> QED BY <1>1, <3>1, <3>2, <3>3 DEF Ids
    <2> QED BY <2>1
  <1>5. NewIds(list) = CHOOSE f : f = Value(f)
    BY DEF NewIds
  <1>6. NewIds(list) = Value(NewIds(list))
    <2> HIDE DEF g, Value
    <2> QED BY <1>4, <1>5
  <1> QED BY <1>6

(* What is given are new ids, in order.                                    *)
LEMMA NewIdsAscend ==
    ASSUME RoutesTypeOK, NEW list \in Seq(Objects), InIdOrder(list)
    PROVE  /\ NewIds(list) \in Seq(Nat) /\ Len(NewIds(list)) = Len(list)
           /\ InOrder(NewIds(list))
  <1> DEFINE D == DOMAIN list
             f == NewIds(list)
             id(i) == IdOf(list[i])
             Fine(k) == f[k] \in Nat /\ \A i \in D : i < k => f[i] < f[k]
             Bad == {k \in D : ~Fine(k)}
  <1>1. D = 1..Len(list) /\ Len(list) \in Nat \ {0} /\ \A i \in D : id(i) \in Ids
    <2>1. list # <<>>
      BY DEF InIdOrder
    <2>2. \A i \in D : list[i] \in Objects
      BY <2>1
    <2> QED BY <2>1, <2>2, ObjectTypes
  <1>2. f = [i \in D |-> f[i]] /\ \A i \in D : f[i] = IF id(i) >= 0 THEN id(i)
                                            ELSE IF i = 1 THEN 0 ELSE f[i - 1] + 1
    BY NewIdsFollow
  <1>3. \A i, k \in D : i < k /\ id(k) >= 0 => id(i) >= 0 /\ id(i) < id(k)
    BY <1>1 DEF InIdOrder, Ids
  <1> HIDE DEF f
  <1>4. ASSUME NEW k \in D, \A m \in D : m < k => Fine(m) PROVE Fine(k)
    <2>1. CASE id(k) >= 0
      <3>1. f[k] = id(k) /\ id(k) \in Nat
        <4>1. f[k] = id(k)
          BY <1>2, <2>1
        <4>2. id(k) \in Ids
          BY <1>1
        <4> HIDE DEF id
        <4> QED BY <2>1, <4>1, <4>2 DEF Ids
      <3>2. ASSUME NEW i \in D, i < k PROVE f[i] < f[k]
        <4>1. id(i) >= 0 /\ id(i) < id(k)
          BY <1>3, <2>1, <3>2
        <4>2. f[i] = id(i)
          BY <1>2, <4>1
        <4> HIDE DEF id
        <4> QED BY <3>1, <4>1, <4>2
      <3> QED BY <3>1, <3>2
    <2>2. CASE ~(id(k) >= 0) /\ k = 1
      <3>1. f[k] = 0
        BY <1>2, <2>2
      <3> QED BY <1>1, <2>2, <3>1
    <2>3. CASE ~(id(k) >= 0) /\ k # 1
      <3>1. k - 1 \in D /\ k - 1 < k /\ f[k] = f[k - 1] + 1
        <4>1. k - 1 \in D /\ k - 1 < k
          BY <1>1, <2>3
        <4>2. f[k] = f[k - 1] + 1
          BY <1>2, <2>3
        <4> QED BY <4>1, <4>2
      <3>2. Fine(k - 1)
        BY <1>4, <3>1
      <3>3. ASSUME NEW i \in D, i < k PROVE f[i] < f[k]
        <4>1. i = k - 1 \/ i < k - 1
          BY <1>1, <3>3
        <4>2. f[i] \in Nat
          BY <1>4, <3>3
        <4> QED BY <3>1, <3>2, <4>1, <4>2
      <3> QED BY <3>1, <3>2, <3>3
    <2> QED BY <2>1, <2>2, <2>3
  <1>5. \A k \in D : Fine(k)
    <2> HIDE DEF Fine
    <2> SUFFICES ASSUME Bad # {} PROVE FALSE
      OBVIOUS
    <2>1. Bad \in SUBSET Nat
      BY <1>1
    <2> HIDE DEF Bad
    <2>2. PICK k \in Bad : \A m \in Bad : k <= m
      BY <2>1, LeastNat
    <2>3. k \in D /\ ~Fine(k)
      BY DEF Bad
    <2>4. ASSUME NEW m \in D, m < k PROVE Fine(m)
      <3>1. m \notin Bad
        BY <1>1, <2>2, <2>3, <2>4
      <3> QED BY <3>1 DEF Bad
    <2> QED BY <1>4, <2>3, <2>4
  <1>6. f \in [1..Len(list) -> Nat]
    BY <1>1, <1>2, <1>5
  <1>7. f \in Seq(Nat) /\ Len(f) = Len(list)
    BY <1>1, <1>6
  <1> QED BY <1>1, <1>5, <1>7 DEF f, InOrder

-----------------------------------------------------------------------------
(* The invariant *)

(* The choice of the window and of the dialog, and what an end of the      *)
(* program leaves of it.                                                   *)
ChoiceInv ==
    /\ CurrentExists
    /\ savedId \in DOMAIN routes \/ torn \/ dialog.at = "accept"
    /\ dialog.at # "closed" => dialog.currentRoute \in ToSet(dialog.list)

RoutesInd == RoutesInv /\ ChoiceInv /\ routesIdOrder # <<>>

(* The parts of RoutesTypeOK, but for the dialog.                          *)
ChainTypes == chain \in Seq([id : Ids, rules : 0..MaxNews])
MapTypes ==
    /\ \A id \in DOMAIN routes : id \in Nat /\ routes[id] \in Objects
    /\ routesIdOrder \in Seq(Nat) /\ current_route_id \in Nat /\ savedId \in Nat
    /\ \A id \in DOMAIN records : records[id] \in 0..MaxNews
ThreadTypes == update \subseteq Objects /\ unsaved \subseteq Objects /\ torn \in BOOLEAN

LEMMA ByTypes ==
    /\ RoutesTypeOK <=> ChainTypes /\ MapTypes /\ ThreadTypes /\ dialog \in DialogStates
    /\ RoutesTypeOK' <=> /\ ChainTypes' /\ MapTypes' /\ ThreadTypes'
                         /\ (dialog \in DialogStates)'
  BY Zenon DEF RoutesTypeOK, ChainTypes, MapTypes, ThreadTypes, Ids

LEMMA WiderSeq ==
    ASSUME NEW S, NEW T, S \subseteq T, NEW s \in Seq(S) PROVE s \in Seq(T)
  OBVIOUS

(* The dialog that is not closed has a list, and the editor a copy.        *)
LEMMA Shapes ==
    ASSUME RoutesTypeOK
    PROVE  /\ dialog.at = "closed" => dialog = Closed
           /\ dialog.at \in {"open", "accept"} =>
                dialog = [at |-> dialog.at, list |-> dialog.list,
                          currentRoute |-> dialog.currentRoute]
           /\ dialog.at = "edit" =>
                /\ dialog = [at |-> "edit", list |-> dialog.list,
                             currentRoute |-> dialog.currentRoute,
                             idx |-> dialog.idx, copy |-> dialog.copy]
                /\ dialog.idx \in Nat /\ dialog.copy \in Objects
           /\ dialog.at # "closed" =>
                dialog.list \in Seq(Objects) /\ dialog.currentRoute \in Objects
           /\ dialog.at \in {"closed", "open", "edit", "accept"}
  <1>1. CASE dialog = Closed
    BY <1>1 DEF Closed
  <1>2. CASE dialog \in [at : {"open", "accept"}, list : Seq(Objects), currentRoute : Objects]
    BY <1>2
  <1>3. CASE dialog \in [at : {"edit"}, list : Seq(Objects), currentRoute : Objects,
                         idx : Nat, copy : Objects]
    BY <1>3
  <1> QED BY <1>1, <1>2, <1>3 DEF RoutesTypeOK, DialogStates

(* Objects are made and changed, but keep the ids they have.               *)
KeepIds == /\ Objects \subseteq Objects'
           /\ \A o \in Objects : IdOf(o)' = IdOf(o)

LEMMA StatesStay ==
    ASSUME RoutesTypeOK, Objects \subseteq Objects', UNCHANGED dialog
    PROVE  (dialog \in DialogStates)'
  <1>1. CASE dialog = Closed
    BY <1>1 DEF DialogStates
  <1>2. CASE dialog # Closed
    <2>1. dialog.at \in {"open", "edit", "accept"}
      BY <1>2, Shapes
    <2>2. dialog.list \in Seq(Objects') /\ dialog.currentRoute \in Objects'
      BY <2>1, Shapes, WiderSeq
    <2>3. dialog.at = "edit" => dialog.copy \in Objects'
      BY Shapes
    <2> QED BY <2>1, <2>2, <2>3, Shapes DEF DialogStates
  <1> QED BY <1>1, <1>2

LEMMA ListStays ==
    ASSUME RoutesTypeOK, DialogInv, KeepIds, dialog.at # "closed", UNCHANGED dialog
    PROVE  InIdOrder(dialog.list)'
  <1>1. \A i \in DOMAIN dialog.list : dialog.list[i] \in Objects
    BY Shapes
  <1> QED BY <1>1 DEF DialogInv, InIdOrder, KeepIds

LEMMA DialogStays ==
    ASSUME RoutesTypeOK, DialogInv, KeepIds, UNCHANGED dialog,
           dialog.at = "edit" => UNCHANGED routes
    PROVE  DialogInv'
  <1>1. dialog.at # "closed" => InIdOrder(dialog.list)'
    BY ListStays
  <1>2. ASSUME dialog.at = "edit"
        PROVE  IdOf(dialog.copy)' = IdOf(dialog.list[dialog.idx])'
    <2>1. dialog.copy \in Objects /\ dialog.list[dialog.idx] \in Objects
      BY <1>2, Shapes DEF DialogInv
    <2> QED BY <1>2, <2>1 DEF DialogInv, KeepIds
  <1> QED BY <1>1, <1>2 DEF DialogInv

(* Making an object leaves the others.                                     *)
LEMMA MakeDoes ==
    ASSUME RoutesTypeOK, NEW id \in Ids, NEW rules \in 0..MaxNews, Make(id, rules)
    PROVE  /\ ChainTypes' /\ KeepIds
           /\ Objects' = Objects \cup {Made} /\ Made \notin Objects
           /\ \A o \in Objects : RulesOf(o)' = RulesOf(o)
           /\ chain'[Made].id = id /\ chain'[Made].rules = rules
  <1> DEFINE R == [id : Ids, rules : 0..MaxNews]
             new == [id |-> id, rules |-> rules]
  <1>1. chain \in Seq(R) /\ new \in R /\ chain' = Append(chain, new)
    BY ByTypes DEF Make, ChainTypes
  <1>2. new.id = id /\ new.rules = rules
    OBVIOUS
  <1> HIDE DEF R, new
  <1>3. /\ chain' \in Seq(R) /\ DOMAIN chain' = DOMAIN chain \cup {Len(chain) + 1}
        /\ Len(chain) + 1 \notin DOMAIN chain
        /\ \A o \in DOMAIN chain : chain'[o] = chain[o]
        /\ chain'[Len(chain) + 1] = new
    BY <1>1
  <1> QED BY <1>2, <1>3 DEF R, ChainTypes, KeepIds, Objects, Made, IdOf, RulesOf

(* Writing rules leaves the ids.                                           *)
LEMMA WriteDoes ==
    ASSUME RoutesTypeOK, NEW o \in Objects, NEW n \in 0..MaxNews,
           chain' = [chain EXCEPT ![o].rules = n]
    PROVE  /\ ChainTypes' /\ KeepIds /\ Objects' = Objects
           /\ \A q \in Objects \ {o} : RulesOf(q)' = RulesOf(q)
  <1> DEFINE R == [id : Ids, rules : 0..MaxNews]
             new == [chain[o] EXCEPT !.rules = n]
  <1>1. chain \in Seq(R) /\ chain[o] \in R /\ chain' = [chain EXCEPT ![o] = new]
    BY ByTypes, ObjectTypes DEF ChainTypes
  <1>2. new \in R /\ new.id = chain[o].id
    BY <1>1
  <1> HIDE DEF R, new
  <1>3. /\ chain' \in Seq(R) /\ DOMAIN chain' = DOMAIN chain /\ chain'[o] = new
        /\ \A q \in DOMAIN chain \ {o} : chain'[q] = chain[q]
    BY <1>1, <1>2 DEF Objects
  <1> QED BY <1>2, <1>3 DEF R, ChainTypes, KeepIds, Objects, IdOf, RulesOf

-----------------------------------------------------------------------------
(* The dialog alone *)

(* Steps that change nothing but the dialog.                               *)
LEMMA DialogOnly ==
    ASSUME RoutesInd, UNCHANGED <<routing, savedRoutes, update, unsaved, torn>>,
           dialog' \in DialogStates, DialogInv',
           dialog'.at # "closed" => dialog'.currentRoute \in ToSet(dialog'.list),
           dialog.at # "accept"
    PROVE  RoutesInd'
  <1> USE DEF routing, savedRoutes
  <1>1. RoutesTypeOK'
    <2>1. Objects' = Objects
      BY DEF Objects
    <2>2. (dialog \in DialogStates)'
      BY <2>1 DEF DialogStates
    <2> QED BY <2>1, <2>2, ByTypes
            DEF RoutesInd, RoutesInv, ChainTypes, MapTypes, ThreadTypes
  <1>2. IdsAgree' /\ RecordsAgree'
    BY DEF RoutesInd, RoutesInv, IdsAgree, RecordsAgree, IdOf, RulesOf
  <1>3. ChoiceInv'
    BY DEF RoutesInd, ChoiceInv, CurrentExists
  <1> QED BY <1>1, <1>2, <1>3 DEF RoutesInd, RoutesInv

LEMMA OpenStates ==
    ASSUME NEW list \in Seq(Objects), NEW cur \in Objects,
           NEW at \in {"open", "accept"}
    PROVE  [at |-> at, list |-> list, currentRoute |-> cur] \in DialogStates
  BY DEF DialogStates

(* A dialog that shows a list in order.                                    *)
LEMMA Opened ==
    ASSUME RoutesInd, UNCHANGED <<routing, savedRoutes, update, unsaved, torn>>,
           dialog.at # "accept",
           NEW list \in Seq(Objects), InIdOrder(list), NEW cur \in ToSet(list),
           dialog' = [at |-> "open", list |-> list, currentRoute |-> cur]
    PROVE  RoutesInd'
  <1>1. cur \in Objects
    BY DEF ToSet
  <1>2. dialog' \in DialogStates
    BY <1>1, OpenStates
  <1>3. InIdOrder(list)'
    BY DEF InIdOrder, IdOf, routing
  <1>4. DialogInv'
    BY <1>3 DEF DialogInv
  <1> QED BY <1>2, <1>4, DialogOnly

LEMMA OpenDialogKeeps == ASSUME RoutesInd, OpenDialog PROVE RoutesInd'
  <1>1. PICK ids \in Ascending(DOMAIN routes) :
           LET list == [i \in DOMAIN ids |-> routes[ids[i]]]
           IN  dialog' = [at |-> "open", list |-> list,
                          currentRoute |-> IF current_route_id \in DOMAIN routes
                                           THEN routes[current_route_id] ELSE list[1]]
    BY DEF OpenDialog
  <1> DEFINE list == [i \in DOMAIN ids |-> routes[ids[i]]]
             cur == IF current_route_id \in DOMAIN routes
                    THEN routes[current_route_id] ELSE list[1]
             n == Cardinality(DOMAIN routes)
  <1>2. RoutesTypeOK /\ IdsAgree /\ routesIdOrder # <<>>
    BY DEF RoutesInd, RoutesInv
  <1>3. /\ ids \in [1..n -> DOMAIN routes] /\ InOrder(ids)
        /\ ToSet(ids) = DOMAIN routes
    BY DEF Ascending
  <1>4. n \in Nat \ {0}
    <2>1. routesIdOrder \in Seq(Nat) /\ DOMAIN routes = ToSet(routesIdOrder)
      BY <1>2 DEF RoutesTypeOK, IdsAgree
    <2>2. Len(routesIdOrder) \in Nat \ {0} /\ DOMAIN routesIdOrder = 1..Len(routesIdOrder)
      BY <1>2, <2>1
    <2>3. IsFiniteSet(DOMAIN routes)
      <3>1. IsFiniteSet(1..Len(routesIdOrder))
        BY <2>2, FS_Interval
      <3>2. routesIdOrder \in Surjection(1..Len(routesIdOrder), DOMAIN routes)
        BY <2>1, <2>2 DEF ToSet, Surjection
      <3> QED BY <3>1, <3>2, FS_Surjection
    <2>4. DOMAIN routes # {}
      <3>1. 1 \in DOMAIN routesIdOrder
        BY <2>2
      <3> QED BY <2>1, <3>1 DEF ToSet
    <2> QED BY <2>3, <2>4, FS_CardinalityType, FS_EmptySet
  <1>5. \A i \in 1..n : ids[i] \in DOMAIN routes /\ list[i] = routes[ids[i]]
                        /\ list[i] \in Objects /\ IdOf(list[i]) = ids[i] /\ ids[i] \in Nat
    BY <1>2, <1>3 DEF RoutesTypeOK, IdsAgree
  <1>6. list \in Seq(Objects) /\ DOMAIN list = 1..n /\ list # <<>>
    <2>1. list \in [1..n -> Objects]
      BY <1>3, <1>5
    <2>2. list \in Seq(Objects)
      BY <1>4, <2>1
    <2>3. 1 \in DOMAIN list
      BY <1>4, <2>1
    <2> HIDE DEF list
    <2> QED BY <1>4, <2>1, <2>2, <2>3
  <1>7. InIdOrder(list)
    <2> SUFFICES ASSUME NEW i \in 1..n, NEW k \in 1..n, i < k
                 PROVE  list[i] # list[k] /\ IdOf(list[i]) \in 0..IdOf(list[k]) - 1
      BY <1>6 DEF InIdOrder
    <2>1. ids[i] < ids[k]
      BY <1>3 DEF InOrder
    <2>2. /\ IdOf(list[i]) = ids[i] /\ ids[i] \in Nat
          /\ IdOf(list[k]) = ids[k] /\ ids[k] \in Nat
      BY <1>5
    <2> HIDE DEF list
    <2> QED BY <2>1, <2>2
  <1>8. cur \in ToSet(list)
    <2>1. CASE current_route_id \in DOMAIN routes
      <3>1. PICK i \in 1..n : ids[i] = current_route_id
        BY <1>3, <2>1 DEF ToSet
      <3>2. cur = list[i]
        BY <1>5, <2>1, <3>1
      <3> HIDE DEF list, cur
      <3> QED BY <1>6, <3>2 DEF ToSet
    <2>2. CASE current_route_id \notin DOMAIN routes
      <3>1. cur = list[1] /\ 1 \in DOMAIN list
        BY <1>4, <1>6, <2>2
      <3> HIDE DEF list, cur
      <3> QED BY <3>1 DEF ToSet
    <2> QED BY <2>1, <2>2
  <1>9. dialog' = [at |-> "open", list |-> list, currentRoute |-> cur]
    BY <1>1
  <1>10. UNCHANGED <<routing, savedRoutes, update, unsaved, torn>> /\ dialog.at # "accept"
    BY DEF OpenDialog, Closed
  <1> HIDE DEF list, cur
  <1> QED BY <1>6, <1>7, <1>8, <1>9, <1>10, Opened

(* Without one of its profiles a list is still in order.                   *)
LEMMA RemoveAtDoes ==
    ASSUME NEW S, NEW s \in Seq(S), NEW i \in DOMAIN s
    PROVE  /\ RemoveAt(s, i) \in Seq(S) /\ DOMAIN RemoveAt(s, i) = 1..Len(s) - 1
           /\ \A j \in 1..Len(s) - 1 :
                 RemoveAt(s, i)[j] = IF j < i THEN s[j] ELSE s[j + 1]
  <1> DEFINE n == Len(s)
             a == SubSeq(s, 1, i - 1)
             b == SubSeq(s, i + 1, n)
  <1>1. n \in Nat /\ i \in 1..n
    OBVIOUS
  <1>2. a \in Seq(S) /\ Len(a) = i - 1 /\ \A j \in 1..i - 1 : a[j] = s[j]
    BY <1>1
  <1>3. b \in Seq(S) /\ Len(b) = n - i /\ \A j \in 1..n - i : b[j] = s[i + j]
    BY <1>1
  <1>4. RemoveAt(s, i) = a \o b
    BY DEF RemoveAt
  <1> HIDE DEF a, b
  <1>5. a \o b \in Seq(S) /\ DOMAIN (a \o b) = 1..n - 1
    BY <1>1, <1>2, <1>3
  <1>6. ASSUME NEW j \in 1..n - 1
        PROVE  (a \o b)[j] = IF j < i THEN s[j] ELSE s[j + 1]
    <2>1. CASE j < i
      BY <1>1, <1>2, <1>3, <2>1
    <2>2. CASE ~(j < i)
      <3>1. j - (i - 1) \in 1..n - i /\ i + (j - (i - 1)) = j + 1
        BY <1>1, <2>2
      <3>2. (a \o b)[j] = b[j - (i - 1)]
        BY <1>1, <1>2, <1>3, <2>2
      <3> QED BY <1>3, <2>2, <3>1, <3>2
    <2> QED BY <2>1, <2>2
  <1> QED BY <1>4, <1>5, <1>6

LEMMA DeleteKeeps ==
    ASSUME RoutesInd, NEW i, DeleteRoute(i) PROVE RoutesInd'
  <1> DEFINE old == dialog.list
             list == RemoveAt(old, i)
             cur == IF dialog.currentRoute = old[i] THEN list[1] ELSE dialog.currentRoute
             n == Len(old)
  <1>1. /\ dialog.at = "open" /\ i \in DOMAIN old /\ n # 1
        /\ UNCHANGED <<routing, savedRoutes, update, unsaved, torn>>
        /\ RoutesTypeOK /\ InIdOrder(old) /\ dialog.currentRoute \in ToSet(old)
    BY DEF DeleteRoute, RoutesInd, RoutesInv, DialogInv, ChoiceInv
  <1>2. old \in Seq(Objects) /\ n \in Nat /\ n > 1 /\ DOMAIN old = 1..n
    <2>1. old \in Seq(Objects)
      BY <1>1, Shapes
    <2> HIDE DEF old
    <2>2. i \in DOMAIN old /\ Len(old) # 1
      BY <1>1
    <2>3. DOMAIN old = 1..Len(old) /\ Len(old) \in Nat
      BY <2>1
    <2>4. Len(old) > 1
      BY <2>2, <2>3
    <2> QED BY <2>1, <2>3, <2>4
  <1>3. dialog' = [at |-> "open", list |-> list, currentRoute |-> cur]
    BY <1>1, Shapes DEF DeleteRoute
  <1> HIDE DEF old
  <1>4. /\ list \in Seq(Objects) /\ DOMAIN list = 1..n - 1
        /\ \A j \in 1..n - 1 : list[j] = IF j < i THEN old[j] ELSE old[j + 1]
    BY <1>1, <1>2, RemoveAtDoes
  <1> HIDE DEF list
  <1>5. InIdOrder(list)
    <2>1. 1 \in DOMAIN list
      BY <1>2, <1>4
    <2>2. ASSUME NEW j \in 1..n - 1, NEW k \in 1..n - 1, j < k
          PROVE  /\ list[j] # list[k]
                 /\ IdOf(list[k]) = -1 \/ IdOf(list[j]) \in 0..IdOf(list[k]) - 1
      <3> DEFINE a == IF j < i THEN j ELSE j + 1
                 b == IF k < i THEN k ELSE k + 1
      <3>1. a \in 1..n /\ b \in 1..n /\ a < b
        BY <1>1, <1>2, <2>2
      <3>2. list[j] = old[a] /\ list[k] = old[b]
        BY <1>4
      <3> HIDE DEF a, b
      <3> QED BY <1>1, <1>2, <3>1, <3>2 DEF InIdOrder
    <2> QED BY <1>4, <2>1, <2>2 DEF InIdOrder
  <1>6. cur \in ToSet(list)
    <2>1. 1 \in DOMAIN list
      BY <1>2, <1>4
    <2>2. ASSUME dialog.currentRoute # old[i] PROVE dialog.currentRoute \in ToSet(list)
      <3>1. PICK k \in 1..n : dialog.currentRoute = old[k]
        BY <1>1, <1>2 DEF ToSet
      <3>2. k < i \/ k > i
        BY <1>1, <1>2, <2>2, <3>1
      <3>3. CASE k < i
        <4>1. k \in 1..n - 1 /\ list[k] = old[k]
          BY <1>1, <1>2, <1>4, <3>3
        <4> QED BY <1>4, <3>1, <4>1 DEF ToSet
      <3>4. CASE k > i
        <4>1. k - 1 \in 1..n - 1 /\ ~(k - 1 < i) /\ (k - 1) + 1 = k
          BY <1>1, <1>2, <3>4
        <4>2. list[k - 1] = old[k]
          BY <1>4, <4>1
        <4> QED BY <1>4, <3>1, <4>1, <4>2 DEF ToSet
      <3> QED BY <3>2, <3>3, <3>4
    <2> QED BY <2>1, <2>2 DEF ToSet
  <1> HIDE DEF cur
  <1>7. dialog.at # "accept"
    BY <1>1
  <1> QED BY <1>1, <1>3, <1>4, <1>5, <1>6, <1>7, Opened

LEMMA ChooseKeeps == ASSUME RoutesInd, NEW i, Choose(i) PROVE RoutesInd'
  <1>1. /\ dialog.at = "open" /\ i \in DOMAIN dialog.list
        /\ UNCHANGED <<routing, savedRoutes, update, unsaved, torn>>
        /\ RoutesTypeOK /\ InIdOrder(dialog.list)
    BY DEF Choose, RoutesInd, RoutesInv, DialogInv
  <1>2. dialog' = [at |-> "open", list |-> dialog.list,
                   currentRoute |-> dialog.list[i]]
    BY <1>1, Shapes DEF Choose
  <1>3. dialog.list \in Seq(Objects) /\ dialog.list[i] \in ToSet(dialog.list)
    BY <1>1, Shapes DEF ToSet
  <1> QED BY <1>1, <1>2, <1>3, Opened

LEMMA CloseKeeps ==
    ASSUME RoutesInd, CloseDialog \/ EditClosed PROVE RoutesInd'
  <1>1. CASE CloseDialog
    <2>1. dialog' = Closed /\ dialog.at = "open"
          /\ UNCHANGED <<routing, savedRoutes, update, unsaved, torn>>
      BY <1>1 DEF CloseDialog
    <2>2. dialog' \in DialogStates /\ DialogInv' /\ dialog'.at = "closed"
      BY <2>1 DEF DialogStates, DialogInv, Closed
    <2> QED BY <2>1, <2>2, DialogOnly
  <1>2. CASE EditClosed
    <2>1. /\ dialog.at = "edit"
          /\ UNCHANGED <<routing, savedRoutes, update, unsaved, torn>>
          /\ dialog' = [at |-> "open", list |-> dialog.list,
                        currentRoute |-> dialog.currentRoute]
      BY <1>2 DEF EditClosed, Back
    <2>2. /\ dialog.list \in Seq(Objects) /\ InIdOrder(dialog.list)
          /\ dialog.currentRoute \in ToSet(dialog.list)
      BY <2>1, Shapes DEF RoutesInd, RoutesInv, DialogInv, ChoiceInv
    <2> QED BY <2>1, <2>2, Opened
  <1> QED BY <1>1, <1>2

-----------------------------------------------------------------------------
(* Objects that are made or written *)

LEMMA MapsStay ==
    ASSUME RoutesTypeOK, IdsAgree, RecordsAgree, KeepIds,
           UNCHANGED <<routes, routesIdOrder, records>>, unsaved \subseteq unsaved',
           \A id \in DOMAIN routes :
              RulesOf(routes[id])' = RulesOf(routes[id]) \/ routes[id] \in unsaved'
    PROVE  IdsAgree' /\ RecordsAgree'
  <1>1. \A id \in DOMAIN routes : routes[id] \in Objects
    BY DEF RoutesTypeOK
  <1>2. \A id \in DOMAIN routes : IdOf(routes[id])' = IdOf(routes[id])
    BY <1>1 DEF KeepIds, IdOf
  <1>3. IdsAgree'
    BY <1>2 DEF IdsAgree
  <1>4. RecordsAgree'
    BY DEF RecordsAgree
  <1> QED BY <1>3, <1>4

LEMMA TypesStay ==
    ASSUME RoutesTypeOK, ChainTypes', Objects \subseteq Objects', (dialog \in DialogStates)',
           UNCHANGED <<routes, routesIdOrder, current_route_id, savedRoutes, torn>>,
           update' \subseteq Objects', unsaved' \subseteq Objects'
    PROVE  RoutesTypeOK'
  <1>1. MapTypes'
    BY ByTypes DEF MapTypes, savedRoutes
  <1>2. ThreadTypes'
    BY ByTypes DEF ThreadTypes
  <1> QED BY <1>1, <1>2, ByTypes

LEMMA ChoiceStays ==
    ASSUME ChoiceInv, UNCHANGED <<routes, current_route_id, savedId, torn>>,
           dialog.at = "accept" => dialog'.at = "accept",
           dialog'.at # "closed" => dialog'.currentRoute \in ToSet(dialog'.list)
    PROVE  ChoiceInv'
  BY DEF ChoiceInv, CurrentExists

LEMMA UsedObjects ==
    ASSUME RoutesTypeOK, IdsAgree PROVE
        /\ update \subseteq Objects /\ unsaved \subseteq Objects
        /\ \A id \in DOMAIN routes : routes[id] \in Objects
  BY DEF RoutesTypeOK

LEMMA NewRouteKeeps == ASSUME RoutesInd, NewRoute PROVE RoutesInd'
  <1> DEFINE old == dialog.list
             list == Append(old, Made)
  <1>1. /\ RoutesTypeOK /\ IdsAgree /\ RecordsAgree /\ DialogInv /\ ChoiceInv
        /\ routesIdOrder # <<>>
    BY DEF RoutesInd, RoutesInv
  <1>2. /\ dialog.at = "open"
        /\ UNCHANGED <<routes, routesIdOrder, current_route_id, savedRoutes, update,
                       news, unsaved, torn>>
    BY DEF NewRoute
  <1>3. /\ old \in Seq(Objects) /\ InIdOrder(old)
        /\ dialog.currentRoute \in ToSet(old) /\ dialog.currentRoute \in Objects
    BY <1>1, <1>2, Shapes DEF DialogInv, ChoiceInv
  <1>4. dialog' = [at |-> "open", list |-> list, currentRoute |-> dialog.currentRoute]
    BY <1>1, <1>2, Shapes DEF NewRoute
  <1>5. PICK rules \in 0..MaxNews : Make(-1, rules)
    <2>1. PICK r \in {0} \cup {RulesOf(o) : o \in ToSet(old)} : Make(-1, r)
      BY DEF NewRoute
    <2>2. \A o \in ToSet(old) : o \in Objects
      BY <1>3 DEF ToSet
    <2>3. r \in 0..MaxNews
      <3>1. CASE r = 0
        BY <3>1, BoundAssumption
      <3>2. CASE r # 0
        <4>1. PICK o \in ToSet(old) : r = RulesOf(o)
          BY <3>2
        <4> QED BY <1>1, <2>2, <4>1, ObjectTypes
      <3> QED BY <3>1, <3>2
    <2> QED BY <2>1, <2>3
  <1>6. /\ ChainTypes' /\ KeepIds /\ Objects' = Objects \cup {Made} /\ Made \notin Objects
        /\ \A o \in Objects : RulesOf(o)' = RulesOf(o)
        /\ chain'[Made].id = -1
    BY <1>1, <1>5, MakeDoes DEF Ids
  <1> HIDE DEF old
  <1>7. /\ list \in Seq(Objects') /\ DOMAIN list = 1..Len(old) + 1 /\ Len(old) \in Nat
        /\ DOMAIN old = 1..Len(old) /\ list # <<>>
        /\ list[Len(old) + 1] = Made /\ \A j \in DOMAIN old : list[j] = old[j]
    <2>1. old \in Seq(Objects') /\ Made \in Objects'
      BY <1>3, <1>6, WiderSeq
    <2> QED BY <2>1
  <1> HIDE DEF list
  <1>8. \A i, k \in DOMAIN list : i < k =>
          /\ list[i] # list[k]
          /\ \/ chain'[list[k]].id = -1
             \/ chain'[list[i]].id \in 0..chain'[list[k]].id - 1
    <2> SUFFICES ASSUME NEW i \in DOMAIN list, NEW k \in DOMAIN list, i < k
                 PROVE  /\ list[i] # list[k]
                        /\ \/ chain'[list[k]].id = -1
                           \/ chain'[list[i]].id \in 0..chain'[list[k]].id - 1
      OBVIOUS
    <2>1. i \in DOMAIN old /\ list[i] = old[i] /\ old[i] \in Objects
      BY <1>3, <1>7
    <2>2. CASE k = Len(old) + 1
      BY <1>6, <1>7, <2>1, <2>2
    <2>3. CASE k # Len(old) + 1
      <3>1. k \in DOMAIN old /\ list[k] = old[k] /\ old[k] \in Objects
        BY <1>3, <1>7, <2>3
      <3>2. old[i] # old[k] /\ (IdOf(old[k]) = -1 \/ IdOf(old[i]) \in 0..IdOf(old[k]) - 1)
        BY <1>3, <2>1, <3>1 DEF InIdOrder
      <3> QED BY <1>6, <2>1, <3>1, <3>2 DEF KeepIds, IdOf
    <2> QED BY <2>2, <2>3
  <1>9. DialogInv'
    BY <1>4, <1>7, <1>8 DEF DialogInv, InIdOrder, IdOf
  <1>10. dialog.currentRoute \in ToSet(list)
    <2>1. PICK j \in DOMAIN old : dialog.currentRoute = old[j]
      BY <1>3 DEF ToSet
    <2>2. j \in DOMAIN list /\ list[j] = old[j]
      BY <1>7
    <2> QED BY <2>1, <2>2 DEF ToSet
  <1>11. (dialog \in DialogStates)'
    BY <1>3, <1>4, <1>6, <1>7 DEF DialogStates
  <1>12. RoutesTypeOK'
    BY <1>1, <1>2, <1>6, <1>11, TypesStay, UsedObjects
  <1>13. IdsAgree' /\ RecordsAgree'
    BY <1>1, <1>2, <1>6, MapsStay, UsedObjects DEF savedRoutes
  <1>14. ChoiceInv'
    BY <1>1, <1>2, <1>4, <1>10, ChoiceStays DEF savedRoutes
  <1> QED BY <1>1, <1>2, <1>9, <1>12, <1>13, <1>14 DEF RoutesInd, RoutesInv

LEMMA EditRouteKeeps == ASSUME RoutesInd, NEW i, EditRoute(i) PROVE RoutesInd'
  <1> DEFINE list == dialog.list
             o == list[i]
  <1>1. /\ RoutesTypeOK /\ IdsAgree /\ RecordsAgree /\ DialogInv /\ ChoiceInv
        /\ routesIdOrder # <<>>
    BY DEF RoutesInd, RoutesInv
  <1>2. /\ dialog.at = "open" /\ i \in DOMAIN list
        /\ Make(IdOf(o), RulesOf(o))
        /\ UNCHANGED <<routes, routesIdOrder, current_route_id, savedRoutes, update,
                       news, unsaved, torn>>
        /\ dialog' = [at |-> "edit", list |-> list, currentRoute |-> dialog.currentRoute,
                      idx |-> i, copy |-> Made]
    BY DEF EditRoute
  <1>3. /\ list \in Seq(Objects) /\ InIdOrder(list)
        /\ dialog.currentRoute \in ToSet(list) /\ dialog.currentRoute \in Objects
    BY <1>1, <1>2, Shapes DEF DialogInv, ChoiceInv
  <1> HIDE DEF list
  <1>4. o \in Objects /\ IdOf(o) \in Ids /\ RulesOf(o) \in 0..MaxNews /\ i \in Nat
        /\ \A j \in DOMAIN list : list[j] \in Objects
    BY <1>1, <1>2, <1>3, ObjectTypes
  <1>5. /\ ChainTypes' /\ KeepIds /\ Objects' = Objects \cup {Made} /\ Made \notin Objects
        /\ \A q \in Objects : RulesOf(q)' = RulesOf(q)
        /\ chain'[Made].id = IdOf(o)
    BY <1>1, <1>2, <1>4, MakeDoes
  <1>6. /\ list # <<>>
        /\ \A j, k \in DOMAIN list : j < k =>
              /\ list[j] # list[k]
              /\ \/ chain'[list[k]].id = -1
                 \/ chain'[list[j]].id \in 0..chain'[list[k]].id - 1
    BY <1>3, <1>4, <1>5 DEF InIdOrder, KeepIds, IdOf
  <1>7. DialogInv'
    <2>1. Made \notin ToSet(list) /\ \A id \in DOMAIN routes : routes[id] # Made
      BY <1>1, <1>4, <1>5, UsedObjects DEF ToSet
    <2>2. chain'[Made].id = chain'[list[i]].id
      BY <1>4, <1>5 DEF KeepIds, IdOf
    <2> QED BY <1>2, <1>6, <2>1, <2>2 DEF DialogInv, InIdOrder, IdOf
  <1>8. (dialog \in DialogStates)'
    <2>1. list \in Seq(Objects') /\ dialog.currentRoute \in Objects' /\ Made \in Objects'
      BY <1>3, <1>5, WiderSeq
    <2> QED BY <1>2, <1>4, <2>1 DEF DialogStates
  <1>9. RoutesTypeOK'
    BY <1>1, <1>2, <1>5, <1>8, TypesStay, UsedObjects
  <1>10. IdsAgree' /\ RecordsAgree'
    BY <1>1, <1>2, <1>5, MapsStay, UsedObjects DEF savedRoutes
  <1>11. ChoiceInv'
    BY <1>1, <1>2, <1>3, ChoiceStays DEF savedRoutes
  <1> QED BY <1>1, <1>2, <1>7, <1>9, <1>10, <1>11 DEF RoutesInd, RoutesInv

LEMMA EditAcceptedKeeps == ASSUME RoutesInd, EditAccepted PROVE RoutesInd'
  <1> DEFINE old == dialog.list
             x == dialog.idx
             copy == dialog.copy
             list == [old EXCEPT ![x] = copy]
             cur == IF dialog.currentRoute = old[x] THEN copy ELSE dialog.currentRoute
  <1>1. /\ RoutesTypeOK /\ IdsAgree /\ RecordsAgree /\ DialogInv /\ ChoiceInv
        /\ routesIdOrder # <<>> /\ dialog.at = "edit"
    BY DEF RoutesInd, RoutesInv, EditAccepted
  <1>2. UNCHANGED <<routes, routesIdOrder, current_route_id, savedRoutes,
                    update, unsaved, torn>>
    BY DEF EditAccepted
  <1>3. dialog' = [at |-> "open", list |-> list, currentRoute |-> cur]
    BY DEF EditAccepted, Back
  <1>4. /\ old \in Seq(Objects) /\ InIdOrder(old) /\ x \in DOMAIN old
        /\ copy \in Objects /\ copy \notin ToSet(old)
        /\ IdOf(copy) = IdOf(old[x])
        /\ \A id \in DOMAIN routes : routes[id] # copy
        /\ dialog.currentRoute \in ToSet(old) /\ dialog.currentRoute \in Objects
    BY <1>1, Shapes DEF DialogInv, ChoiceInv
  <1>5. /\ ChainTypes' /\ KeepIds /\ Objects' = Objects
        /\ \A q \in Objects \ {copy} : RulesOf(q)' = RulesOf(q)
    <2>1. CASE UNCHANGED chain
      BY <1>1, <2>1, ByTypes DEF ChainTypes, KeepIds, Objects, IdOf, RulesOf
    <2>2. ASSUME NEW n \in 1..MaxNews, chain' = [chain EXCEPT ![copy].rules = n]
          PROVE  <1>5!:
      <3>1. n \in 0..MaxNews
        BY BoundAssumption
      <3> HIDE DEF copy
      <3> QED BY <1>1, <1>4, <2>2, <3>1, WriteDoes
    <2> QED BY <2>1, <2>2 DEF EditAccepted
  <1> HIDE DEF old, x, copy
  <1>6. /\ list \in Seq(Objects) /\ DOMAIN list = DOMAIN old /\ list[x] = copy
        /\ \A j \in DOMAIN old \ {x} : list[j] = old[j]
        /\ \A j \in DOMAIN old : old[j] \in Objects
    BY <1>4
  <1>7. list # <<>>
    BY <1>4, <1>6
  <1> HIDE DEF list
  <1>8. \A j, k \in DOMAIN list : j < k =>
          /\ list[j] # list[k]
          /\ \/ chain'[list[k]].id = -1
             \/ chain'[list[j]].id \in 0..chain'[list[k]].id - 1
    <2> SUFFICES ASSUME NEW j \in DOMAIN old, NEW k \in DOMAIN old, j < k
                 PROVE  /\ list[j] # list[k]
                        /\ \/ chain'[list[k]].id = -1
                           \/ chain'[list[j]].id \in 0..chain'[list[k]].id - 1
      BY <1>6
    <2>1. \A l \in DOMAIN old : chain'[list[l]].id = IdOf(old[l])
      BY <1>4, <1>5, <1>6 DEF KeepIds, IdOf
    <2>2. /\ old[j] # old[k]
          /\ IdOf(old[k]) = -1 \/ IdOf(old[j]) \in 0..IdOf(old[k]) - 1
      BY <1>4 DEF InIdOrder
    <2>3. list[j] # list[k]
      <3>1. \A l \in DOMAIN old : old[l] # copy
        BY <1>4 DEF ToSet
      <3>2. j # k
        BY <1>4
      <3> QED BY <1>6, <2>2, <3>1, <3>2
    <2> QED BY <2>1, <2>2, <2>3
  <1>9. DialogInv'
    BY <1>3, <1>7, <1>8 DEF DialogInv, InIdOrder, IdOf
  <1>10. cur \in ToSet(list) /\ cur \in Objects
    <2>1. PICK j \in DOMAIN old : dialog.currentRoute = old[j]
      BY <1>4 DEF ToSet
    <2>2. CASE j = x
      BY <1>4, <1>6, <2>1, <2>2 DEF ToSet
    <2>3. CASE j # x
      <3>1. list[j] = old[j] /\ j \in DOMAIN list
        BY <1>6, <2>3
      <3> QED BY <1>4, <1>6, <2>1, <3>1 DEF ToSet
    <2> QED BY <2>2, <2>3
  <1> HIDE DEF cur
  <1>11. (dialog \in DialogStates)'
    BY <1>3, <1>5, <1>6, <1>10 DEF DialogStates
  <1>12. RoutesTypeOK'
    BY <1>1, <1>2, <1>5, <1>11, TypesStay, UsedObjects
  <1>13. IdsAgree' /\ RecordsAgree'
    <2>1. \A id \in DOMAIN routes : routes[id] \in Objects \ {copy}
      BY <1>1, <1>4, UsedObjects
    <2> QED BY <1>1, <1>2, <1>5, <2>1, MapsStay DEF savedRoutes
  <1>14. ChoiceInv'
    BY <1>1, <1>2, <1>3, <1>10, ChoiceStays DEF savedRoutes
  <1> QED BY <1>1, <1>2, <1>9, <1>12, <1>13, <1>14 DEF RoutesInd, RoutesInv

LEMMA UpdateOneKeeps == ASSUME RoutesInd, NEW o, UpdateOne(o) PROVE RoutesInd'
  <1>1. /\ RoutesTypeOK /\ IdsAgree /\ RecordsAgree /\ DialogInv /\ ChoiceInv
        /\ routesIdOrder # <<>>
    BY DEF RoutesInd, RoutesInv
  <1>2. /\ o \in update /\ update' = update \ {o} /\ o \in Objects
        /\ UNCHANGED <<routes, routesIdOrder, current_route_id, savedRoutes, dialog, torn>>
    BY <1>1, UsedObjects DEF UpdateOne
  <1>3. /\ ChainTypes' /\ KeepIds /\ Objects' = Objects
        /\ unsaved' \subseteq Objects /\ unsaved \subseteq unsaved'
        /\ \A q \in Objects : RulesOf(q)' = RulesOf(q) \/ q \in unsaved'
    <2>1. CASE UNCHANGED <<chain, news, unsaved>>
      BY <1>1, <2>1, ByTypes, UsedObjects DEF ChainTypes, KeepIds, Objects, IdOf, RulesOf
    <2>2. ASSUME NEW n \in 1..MaxNews, chain' = [chain EXCEPT ![o].rules = n],
                 unsaved' = unsaved \cup {o}
          PROVE  <1>3!:
      <3>1. n \in 0..MaxNews
        BY BoundAssumption
      <3> QED BY <1>1, <1>2, <2>2, <3>1, WriteDoes, UsedObjects
    <2> QED BY <2>1, <2>2 DEF UpdateOne
  <1>4. (dialog \in DialogStates)' /\ DialogInv'
    BY <1>1, <1>2, <1>3, StatesStay, DialogStays
  <1>5. RoutesTypeOK'
    BY <1>1, <1>2, <1>3, <1>4, TypesStay, UsedObjects
  <1>6. IdsAgree' /\ RecordsAgree'
    BY <1>1, <1>2, <1>3, MapsStay, UsedObjects DEF savedRoutes
  <1>7. ChoiceInv'
    BY <1>1, <1>2, ChoiceStays DEF savedRoutes, ChoiceInv
  <1> QED BY <1>1, <1>2, <1>4, <1>5, <1>6, <1>7 DEF RoutesInd, RoutesInv

-----------------------------------------------------------------------------
(* The window, the end of an accept and the next start *)

(* The objects stay as they are.                                           *)
LEMMA SameObjects ==
    ASSUME RoutesTypeOK, UNCHANGED chain
    PROVE  /\ ChainTypes' /\ KeepIds /\ Objects' = Objects
           /\ \A o : RulesOf(o)' = RulesOf(o)
  BY ByTypes DEF ChainTypes, KeepIds, Objects, IdOf, RulesOf

LEMMA UpdateProfilesKeeps == ASSUME RoutesInd, UpdateProfiles PROVE RoutesInd'
  <1>1. /\ RoutesTypeOK /\ IdsAgree /\ RecordsAgree /\ DialogInv /\ ChoiceInv
        /\ routesIdOrder # <<>>
    BY DEF RoutesInd, RoutesInv
  <1>2. /\ update' = {routes[id] : id \in DOMAIN routes}
        /\ UNCHANGED <<routing, savedRoutes, dialog, news, unsaved, torn>>
    BY DEF UpdateProfiles
  <1>3. ChainTypes' /\ KeepIds /\ Objects' = Objects /\ \A o : RulesOf(o)' = RulesOf(o)
    BY <1>1, <1>2, SameObjects DEF routing
  <1>4. (dialog \in DialogStates)' /\ DialogInv'
    BY <1>1, <1>2, <1>3, StatesStay, DialogStays DEF routing
  <1>5. RoutesTypeOK'
    BY <1>1, <1>2, <1>3, <1>4, TypesStay, UsedObjects DEF routing
  <1>6. IdsAgree' /\ RecordsAgree'
    BY <1>1, <1>2, <1>3, MapsStay DEF savedRoutes, routing
  <1>7. ChoiceInv'
    BY <1>1, <1>2, ChoiceStays DEF savedRoutes, routing, ChoiceInv
  <1> QED BY <1>1, <1>2, <1>4, <1>5, <1>6, <1>7 DEF RoutesInd, RoutesInv, routing

LEMMA ChosenKeeps ==
    ASSUME RoutesInd, Accepted \/ \E id \in DOMAIN routes : SelectRoute(id)
    PROVE  RoutesInd'
  <1>1. /\ RoutesTypeOK /\ IdsAgree /\ RecordsAgree /\ DialogInv /\ ChoiceInv
        /\ routesIdOrder # <<>>
    BY DEF RoutesInd, RoutesInv
  <1>2. UNCHANGED <<chain, routes, routesIdOrder, records, update, unsaved>>
    BY DEF Accepted, SelectRoute, routing
  <1>3. ChainTypes' /\ KeepIds /\ Objects' = Objects /\ \A o : RulesOf(o)' = RulesOf(o)
    BY <1>1, <1>2, SameObjects
  <1>4. IdsAgree' /\ RecordsAgree'
    BY <1>1, <1>2, <1>3, MapsStay
  <1>5. CASE Accepted
    <2>1. /\ dialog' = Closed /\ savedId' = current_route_id
          /\ UNCHANGED <<current_route_id, torn>>
      BY <1>5 DEF Accepted, routing
    <2>2. (dialog \in DialogStates)' /\ DialogInv' /\ ChoiceInv'
      BY <1>1, <1>2, <2>1 DEF DialogStates, DialogInv, ChoiceInv, CurrentExists, Closed
    <2>3. MapTypes' /\ ThreadTypes'
      BY <1>1, <1>2, <1>3, <2>1, ByTypes DEF MapTypes, ThreadTypes
    <2> QED BY <1>1, <1>2, <1>3, <1>4, <2>2, <2>3, ByTypes DEF RoutesInd, RoutesInv
  <1>6. ASSUME NEW id \in DOMAIN routes, SelectRoute(id) PROVE RoutesInd'
    <2>1. /\ current_route_id' = id /\ savedId' = id /\ torn' = FALSE
          /\ UNCHANGED dialog
      BY <1>6 DEF SelectRoute
    <2>2. (dialog \in DialogStates)' /\ DialogInv'
      BY <1>1, <1>2, <1>3, <2>1, StatesStay, DialogStays
    <2>3. ChoiceInv'
      BY <1>1, <1>2, <2>1 DEF ChoiceInv, CurrentExists
    <2>4. MapTypes' /\ ThreadTypes'
      BY <1>1, <1>2, <1>3, <2>1, ByTypes DEF MapTypes, ThreadTypes
    <2> QED BY <1>1, <1>2, <1>3, <1>4, <2>2, <2>3, <2>4, ByTypes DEF RoutesInd, RoutesInv
  <1> QED BY <1>5, <1>6

LEMMA DownloadKeeps == ASSUME RoutesInd, Download PROVE RoutesInd'
  <1> DEFINE new == NewRouteChainID
             n == Len(routesIdOrder)
  <1>1. /\ RoutesTypeOK /\ IdsAgree /\ RecordsAgree /\ DialogInv /\ ChoiceInv
        /\ routesIdOrder # <<>>
    BY DEF RoutesInd, RoutesInv
  <1>2. /\ routes' = [id \in DOMAIN routes \cup {new} |->
                         IF id = new THEN Made ELSE routes[id]]
        /\ routesIdOrder' = Append(routesIdOrder, new)
        /\ records' = [id \in DOMAIN records \cup {new} |->
                          IF id = new THEN news' ELSE records[id]]
        /\ UNCHANGED <<current_route_id, savedId, dialog, update, unsaved, torn>>
        /\ dialog.at \in {"closed", "open"}
    BY DEF Download, Menu
  <1>3. PICK text \in 1..MaxNews : news' = text /\ Make(new, text)
    BY DEF Download, Text
  <1>4. /\ routesIdOrder \in Seq(Nat) /\ n \in Nat \ {0} /\ DOMAIN routesIdOrder = 1..n
        /\ ToSet(routesIdOrder) = DOMAIN routes
    BY <1>1 DEF RoutesTypeOK, IdsAgree
  <1> HIDE DEF new, n
  <1>5. new \in Nat /\ \A i \in 1..n : routesIdOrder[i] < new
    <2>1. n \in 1..n /\ routesIdOrder[n] \in Nat
      BY <1>4
    <2>2. DOMAIN routes # {}
      BY <1>4, <2>1 DEF ToSet
    <2>3. new = routesIdOrder[n] + 1
      BY <2>2 DEF new, NewRouteChainID, Last, n
    <2>4. ASSUME NEW i \in 1..n PROVE routesIdOrder[i] <= routesIdOrder[n]
      <3>1. i = n \/ i < n
        BY <1>4
      <3>2. routesIdOrder[i] \in Nat
        BY <1>4
      <3> QED BY <1>1, <1>4, <2>1, <3>1, <3>2 DEF IdsAgree
    <2>5. \A i \in 1..n : routesIdOrder[i] \in Nat
      BY <1>4
    <2> QED BY <2>1, <2>3, <2>4, <2>5
  <1>6. new \notin DOMAIN routes
    BY <1>4, <1>5 DEF ToSet
  <1>7. /\ ChainTypes' /\ KeepIds /\ Objects' = Objects \cup {Made} /\ Made \notin Objects
        /\ \A q \in Objects : RulesOf(q)' = RulesOf(q)
        /\ chain'[Made].id = new /\ chain'[Made].rules = text
    <2>1. new \in Ids /\ text \in 0..MaxNews
      BY <1>5, BoundAssumption DEF Ids
    <2> QED BY <1>1, <1>3, <2>1, MakeDoes
  <1>8. /\ routesIdOrder' \in Seq(Nat) /\ DOMAIN routesIdOrder' = 1..n + 1
        /\ routesIdOrder'[n + 1] = new /\ routesIdOrder' # <<>>
        /\ \A i \in 1..n : routesIdOrder'[i] = routesIdOrder[i]
    BY <1>2, <1>4, <1>5 DEF n
  <1>9. RoutesTypeOK'
    <2>1. \A id \in DOMAIN routes' : id \in Nat /\ routes'[id] \in Objects'
      BY <1>1, <1>2, <1>5, <1>7 DEF RoutesTypeOK
    <2>2. \A id \in DOMAIN records' : records'[id] \in 0..MaxNews
      <3>1. news' \in 0..MaxNews
        BY <1>3, BoundAssumption
      <3> QED BY <1>1, <1>2, <3>1 DEF RoutesTypeOK
    <2>3. MapTypes'
      BY <1>1, <1>2, <1>8, <2>1, <2>2 DEF MapTypes, RoutesTypeOK
    <2>4. ThreadTypes'
      BY <1>1, <1>2, <1>7, ByTypes DEF ThreadTypes
    <2>5. (dialog \in DialogStates)'
      BY <1>1, <1>2, <1>7, StatesStay
    <2> QED BY <1>7, <2>3, <2>4, <2>5, ByTypes
  <1>10. IdsAgree'
    <2>1. ToSet(routesIdOrder') = DOMAIN routes'
      <3>1. DOMAIN routes' = DOMAIN routes \cup {new}
        BY <1>2
      <3>2. ToSet(routesIdOrder') = ToSet(routesIdOrder) \cup {new}
        <4>1. \A i \in 1..n + 1 : i \in 1..n \/ i = n + 1
          BY <1>4
        <4>2. 1..n \subseteq 1..n + 1 /\ n + 1 \in 1..n + 1
          BY <1>4
        <4> QED BY <1>4, <1>8, <4>1, <4>2 DEF ToSet
      <3> QED BY <1>4, <3>1, <3>2
    <2>2. \A i, k \in DOMAIN routesIdOrder' : i < k => routesIdOrder'[i] < routesIdOrder'[k]
      <3> SUFFICES ASSUME NEW i \in 1..n + 1, NEW k \in 1..n + 1, i < k
                   PROVE  routesIdOrder'[i] < routesIdOrder'[k]
        BY <1>8
      <3>1. i \in 1..n
        BY <1>4
      <3>2. CASE k = n + 1
        BY <1>5, <1>8, <3>1, <3>2
      <3>3. CASE k # n + 1
        <4>1. k \in 1..n
          BY <1>4, <3>3
        <4> QED BY <1>1, <1>4, <1>8, <3>1, <4>1 DEF IdsAgree
      <3> QED BY <3>2, <3>3
    <2>3. \A id \in DOMAIN routes' : chain'[routes'[id]].id = id
      BY <1>1, <1>2, <1>7, UsedObjects DEF IdsAgree, KeepIds, IdOf
    <2> QED BY <2>1, <2>2, <2>3 DEF IdsAgree, IdOf
  <1>11. RecordsAgree'
    <2>1. DOMAIN records' = DOMAIN routes'
      BY <1>1, <1>2 DEF RecordsAgree
    <2>2. ASSUME NEW id \in DOMAIN routes'
          PROVE  records'[id] = chain'[routes'[id]].rules \/ routes'[id] \in unsaved'
      <3>1. CASE id = new
        BY <1>2, <1>3, <1>7, <2>1, <3>1
      <3>2. CASE id # new
        <4>1. id \in DOMAIN routes /\ routes'[id] = routes[id] /\ records'[id] = records[id]
          BY <1>1, <1>2, <3>2 DEF RecordsAgree
        <4>2. RulesOf(routes[id])' = RulesOf(routes[id])
          BY <1>1, <1>7, <4>1, UsedObjects
        <4>3. chain'[routes'[id]].rules = RulesOf(routes[id])
          BY <1>1, <1>7, <4>1, UsedObjects DEF RulesOf
        <4> QED BY <1>1, <1>2, <4>1, <4>3 DEF RecordsAgree
      <3> QED BY <3>1, <3>2
    <2> QED BY <2>1, <2>2 DEF RecordsAgree, RulesOf
  <1>12. DialogInv'
    BY <1>1, <1>2, <1>7, DialogStays
  <1>13. ChoiceInv'
    BY <1>1, <1>2 DEF ChoiceInv, CurrentExists
  <1> QED BY <1>8, <1>9, <1>10, <1>11, <1>12, <1>13 DEF RoutesInd, RoutesInv

(* What UpdateRouteChains makes of a list in order: the objects have the   *)
(* new ids, and the map finds each of the list under its own.              *)
LEMMA UpdateRouteChainsDoes ==
    ASSUME RoutesTypeOK, NEW list \in Seq(Objects), InIdOrder(list), UpdateRouteChains(list)
    PROVE  LET ids == NewIds(list)
           IN  /\ ChainTypes' /\ Objects' = Objects
               /\ DOMAIN list = DOMAIN ids /\ ids \in Seq(Nat) /\ InOrder(ids)
               /\ DOMAIN routes' = ToSet(ids) /\ routesIdOrder' = ids
               /\ DOMAIN records' = ToSet(ids)
               /\ \A i \in DOMAIN ids :
                     /\ list[i] \in Objects /\ routes'[ids[i]] = list[i]
                     /\ chain'[list[i]].id = ids[i]
                     /\ records'[ids[i]] = chain'[list[i]].rules
               /\ unsaved' = unsaved \ ToSet(list)
  <1> DEFINE ids == NewIds(list)
             D == DOMAIN list
             place(o) == CHOOSE i \in D : list[i] = o
             with(o) == IF o \in ToSet(list)
                        THEN [chain[o] EXCEPT !.id = ids[place(o)]] ELSE chain[o]
             R == [id : Ids, rules : 0..MaxNews]
  <1>1. ids \in Seq(Nat) /\ Len(ids) = Len(list) /\ InOrder(ids)
    BY NewIdsAscend
  <1> HIDE DEF ids
  <1>2. D = DOMAIN ids /\ D \subseteq Nat
        /\ (\A i \in D : ids[i] \in Nat /\ list[i] \in Objects)
    BY <1>1
  <1>3. \A i, k \in D : i # k => list[i] # list[k] /\ ids[i] # ids[k]
    <2> SUFFICES ASSUME NEW i \in D, NEW k \in D, i # k
                 PROVE  list[i] # list[k] /\ ids[i] # ids[k]
      OBVIOUS
    <2>1. i \in Nat /\ k \in Nat /\ ids[i] \in Nat /\ ids[k] \in Nat
      BY <1>2
    <2>2. i < k \/ k < i
      BY <2>1
    <2>3. i < k => list[i] # list[k] /\ ids[i] < ids[k]
      BY <1>1, <1>2 DEF InIdOrder, InOrder
    <2>4. k < i => list[i] # list[k] /\ ids[k] < ids[i]
      BY <1>1, <1>2 DEF InIdOrder, InOrder
    <2> QED BY <2>1, <2>2, <2>3, <2>4
  <1>4. /\ chain' = [o \in Objects |-> with(o)]
        /\ routes' = MapOf(list, ids) /\ routesIdOrder' = ids
        /\ records' = [id \in DOMAIN routes' |-> RulesOf(routes'[id])]
        /\ unsaved' = unsaved \ ToSet(list)
    BY DEF UpdateRouteChains, ids
  <1>5. \A i \in D : place(list[i]) = i
    BY <1>3
  <1>6. \A o \in Objects : with(o) \in R /\ with(o).rules = chain[o].rules
    <2> SUFFICES ASSUME NEW o \in Objects
                 PROVE  with(o) \in R /\ with(o).rules = chain[o].rules
      OBVIOUS
    <2>1. chain[o] \in R
      BY ObjectTypes
    <2>2. CASE o \in ToSet(list)
      <3>1. PICK i \in D : o = list[i]
        BY <2>2 DEF ToSet
      <3>2. place(o) = i /\ ids[i] \in Ids
        BY <1>2, <1>5, <3>1 DEF Ids
      <3>3. with(o) = [chain[o] EXCEPT !.id = ids[i]]
        BY <2>2, <3>2
      <3> QED BY <2>1, <3>2, <3>3
    <2>3. CASE o \notin ToSet(list)
      BY <2>1, <2>3
    <2> QED BY <2>2, <2>3
  <1>7. ChainTypes' /\ Objects' = Objects
    <2>1. chain \in Seq(R)
      BY ByTypes DEF ChainTypes
    <2> HIDE DEF R, with
    <2>2. Objects = 1..Len(chain) /\ Len(chain) \in Nat
      BY <2>1 DEF Objects
    <2>3. chain' \in Seq(R)
      BY <1>4, <1>6, <2>2
    <2> QED BY <1>4, <2>2, <2>3 DEF ChainTypes, Objects, R
  <1>8. \A i \in D : chain'[list[i]].id = ids[i] /\ chain'[list[i]].rules = RulesOf(list[i])
    <2> SUFFICES ASSUME NEW i \in D
                 PROVE  /\ chain'[list[i]].id = ids[i]
                        /\ chain'[list[i]].rules = RulesOf(list[i])
      OBVIOUS
    <2>1. list[i] \in Objects /\ list[i] \in ToSet(list) /\ chain[list[i]] \in R
      BY <1>2, ObjectTypes DEF ToSet
    <2>2. with(list[i]) = [chain[list[i]] EXCEPT !.id = ids[i]]
      BY <1>5, <2>1
    <2>3. chain'[list[i]] = with(list[i])
      BY <1>4, <2>1
    <2> HIDE DEF with
    <2> QED BY <2>1, <2>2, <2>3 DEF RulesOf
  <1>9. DOMAIN routes' = ToSet(ids) /\ \A i \in D : routes'[ids[i]] = list[i]
    <2> DEFINE at(id) == CHOOSE i \in D : ids[i] = id /\ \A k \in D : ids[k] = id => k <= i
    <2>1. routes' = [id \in ToSet(ids) |-> list[at(id)]]
      BY <1>4 DEF MapOf
    <2>2. \A i \in D : at(ids[i]) = i /\ ids[i] \in ToSet(ids)
      BY <1>2, <1>3 DEF ToSet
    <2> HIDE DEF at
    <2> QED BY <2>1, <2>2
  <1>10. /\ DOMAIN records' = ToSet(ids)
         /\ \A i \in D : records'[ids[i]] = chain'[list[i]].rules
    <2>1. \A i \in D : ids[i] \in ToSet(ids)
      BY <1>2 DEF ToSet
    <2> QED BY <1>4, <1>8, <1>9, <2>1
  <1> QED BY <1>1, <1>2, <1>4, <1>7, <1>8, <1>9, <1>10 DEF ids

LEMMA AcceptKeeps == ASSUME RoutesInd, Accept PROVE RoutesInd'
  <1> DEFINE list == dialog.list
             ids == NewIds(list)
             cur == dialog.currentRoute
  <1>1. /\ RoutesTypeOK /\ IdsAgree /\ RecordsAgree /\ DialogInv /\ ChoiceInv
        /\ routesIdOrder # <<>> /\ dialog.at = "open"
    BY DEF RoutesInd, RoutesInv, Accept
  <1>2. /\ UpdateRouteChains(list) /\ torn' = FALSE
        /\ current_route_id' = chain'[cur].id /\ UNCHANGED <<savedId, update>>
        /\ dialog' = [at |-> "accept", list |-> list, currentRoute |-> cur]
    BY <1>1, Shapes DEF Accept
  <1>3. list \in Seq(Objects) /\ InIdOrder(list) /\ cur \in ToSet(list) /\ cur \in Objects
    BY <1>1, Shapes DEF DialogInv, ChoiceInv
  <1> HIDE DEF list, ids, cur
  <1>4. /\ ChainTypes' /\ Objects' = Objects
        /\ DOMAIN list = DOMAIN ids /\ ids \in Seq(Nat) /\ InOrder(ids)
        /\ DOMAIN routes' = ToSet(ids) /\ routesIdOrder' = ids
        /\ DOMAIN records' = ToSet(ids)
        /\ \A i \in DOMAIN ids :
              /\ list[i] \in Objects /\ routes'[ids[i]] = list[i]
              /\ chain'[list[i]].id = ids[i]
              /\ records'[ids[i]] = chain'[list[i]].rules
        /\ unsaved' = unsaved \ ToSet(list)
    BY <1>1, <1>2, <1>3, UpdateRouteChainsDoes DEF ids
  <1>5. \A i \in DOMAIN ids : i \in Nat /\ ids[i] \in Nat
    BY <1>4
  <1>6. \A id \in ToSet(ids) : \E i \in DOMAIN ids : id = ids[i]
    BY DEF ToSet
  <1>7. PICK c \in DOMAIN ids : cur = list[c]
    BY <1>3, <1>4 DEF ToSet
  <1>8. current_route_id' \in ToSet(ids) /\ current_route_id' \in Nat
    BY <1>2, <1>4, <1>5, <1>7 DEF ToSet
  <1>9. RoutesTypeOK'
    <2>1. MapTypes'
      <3>1. ASSUME NEW id \in DOMAIN routes'
            PROVE  id \in Nat /\ routes'[id] \in Objects'
        BY <1>4, <1>5, <1>6
      <3>2. ASSUME NEW id \in DOMAIN records' PROVE records'[id] \in 0..MaxNews
        <4>1. PICK i \in DOMAIN ids : id = ids[i]
          BY <1>4, <1>6
        <4>2. chain'[list[i]] \in [id : Ids, rules : 0..MaxNews]
          <5> DEFINE R == [id : Ids, rules : 0..MaxNews]
          <5>1. chain' \in Seq(R) /\ list[i] \in DOMAIN chain'
            BY <1>4, <4>1 DEF ChainTypes, Objects
          <5> HIDE DEF R
          <5>2. chain'[list[i]] \in R
            BY <5>1
          <5> QED BY <5>2 DEF R
        <4> QED BY <1>4, <4>1, <4>2
      <3> QED BY <1>1, <1>2, <1>4, <1>8, <3>1, <3>2, ByTypes DEF MapTypes
    <2>2. ThreadTypes'
      BY <1>1, <1>2, <1>4, UsedObjects DEF ThreadTypes
    <2>3. (dialog \in DialogStates)'
      BY <1>2, <1>3, <1>4 DEF DialogStates
    <2> QED BY <1>4, <2>1, <2>2, <2>3, ByTypes
  <1>10. IdsAgree' /\ RecordsAgree'
    <2>1. \A i, k \in DOMAIN routesIdOrder' : i < k => routesIdOrder'[i] < routesIdOrder'[k]
      BY <1>4 DEF InOrder
    <2>2. \A id \in DOMAIN routes' : chain'[routes'[id]].id = id
      BY <1>4, <1>6
    <2>3. \A id \in DOMAIN routes' : records'[id] = chain'[routes'[id]].rules
      BY <1>4, <1>6
    <2> QED BY <1>4, <2>1, <2>2, <2>3 DEF IdsAgree, RecordsAgree, IdOf, RulesOf
  <1>11. DialogInv'
    <2>1. list # <<>>
      BY <1>3 DEF InIdOrder
    <2>2. ASSUME NEW i \in DOMAIN list, NEW k \in DOMAIN list, i < k
          PROVE  /\ list[i] # list[k]
                 /\ chain'[list[i]].id \in 0..chain'[list[k]].id - 1
      <3>1. list[i] # list[k]
        BY <1>3, <2>2 DEF InIdOrder
      <3>2. ids[i] < ids[k] /\ ids[i] \in Nat /\ ids[k] \in Nat
        BY <1>4, <1>5, <2>2 DEF InOrder
      <3> QED BY <1>4, <2>2, <3>1, <3>2
    <2> QED BY <1>2, <2>1, <2>2 DEF DialogInv, InIdOrder, IdOf
  <1>12. ChoiceInv'
    BY <1>2, <1>3, <1>4, <1>8 DEF ChoiceInv, CurrentExists
  <1>13. routesIdOrder' # <<>>
    BY <1>4, <1>7
  <1> QED BY <1>9, <1>10, <1>11, <1>12, <1>13 DEF RoutesInd, RoutesInv

LEMMA RestartKeeps == ASSUME RoutesInd, Restart PROVE RoutesInd'
  <1> DEFINE ids == routesIdOrder'
             n == Cardinality(DOMAIN records)
             R == [id : Ids, rules : 0..MaxNews]
  <1>1. /\ RoutesTypeOK /\ IdsAgree /\ RecordsAgree /\ ChoiceInv
        /\ routesIdOrder # <<>>
    BY DEF RoutesInd, RoutesInv
  <1>2. /\ routes' = [id \in ToSet(ids) |-> CHOOSE i \in DOMAIN ids : ids[i] = id]
        /\ current_route_id' = savedId /\ UNCHANGED savedId
        /\ dialog' = Closed /\ update' = {} /\ unsaved' = {}
        /\ torn' = (torn \/ dialog.at = "accept")
    BY DEF Restart
  <1>3. DOMAIN records = ToSet(routesIdOrder) /\ DOMAIN records \subseteq Nat
        /\ DOMAIN records # {}
    <2>1. 1 \in DOMAIN routesIdOrder
      BY <1>1 DEF RoutesTypeOK
    <2> QED BY <1>1, <2>1 DEF IdsAgree, RecordsAgree, RoutesTypeOK, ToSet
  <1>4. n \in Nat \ {0}
    <2>1. routesIdOrder \in Seq(Nat)
      BY <1>1 DEF RoutesTypeOK
    <2>2. routesIdOrder \in Surjection(1..Len(routesIdOrder), DOMAIN records)
      BY <1>3, <2>1 DEF ToSet, Surjection
    <2>3. IsFiniteSet(1..Len(routesIdOrder))
      BY <2>1, FS_Interval
    <2>4. IsFiniteSet(DOMAIN records)
      BY <2>2, <2>3, FS_Surjection
    <2> QED BY <1>3, <2>4, FS_CardinalityType, FS_EmptySet
  <1>5. /\ ids \in [1..n -> DOMAIN records] /\ InOrder(ids) /\ ToSet(ids) = DOMAIN records
        /\ chain' = [i \in DOMAIN ids |-> [id |-> ids[i], rules |-> records[ids[i]]]]
        /\ records' = records
    BY <1>3 DEF Restart, Ascending
  <1> HIDE DEF ids, n
  <1>6. \A i \in 1..n : ids[i] \in Nat /\ records[ids[i]] \in 0..MaxNews
    BY <1>1, <1>3, <1>5 DEF RoutesTypeOK
  <1>7. ids \in Seq(Nat) /\ DOMAIN ids = 1..n /\ ids # <<>>
    <2>1. ids \in [1..n -> Nat]
      BY <1>5, <1>6
    <2> QED BY <1>4, <2>1
  <1>8. /\ ChainTypes' /\ Objects' = 1..n
        /\ \A i \in 1..n : chain'[i].id = ids[i] /\ chain'[i].rules = records[ids[i]]
    <2>1. \A i \in 1..n : [id |-> ids[i], rules |-> records[ids[i]]] \in R
      BY <1>6 DEF Ids
    <2>2. chain' \in [1..n -> R]
      BY <1>5, <1>7, <2>1
    <2>3. chain' \in Seq(R)
      <3> HIDE DEF R
      <3> QED BY <1>4, <2>2
    <2>4. Objects' = 1..n
      BY <1>5, <1>7 DEF Objects
    <2> QED BY <1>5, <1>7, <2>3, <2>4 DEF ChainTypes
  <1>9. /\ DOMAIN routes' = DOMAIN records
        /\ \A id \in DOMAIN records : routes'[id] \in 1..n /\ ids[routes'[id]] = id
    BY <1>2, <1>5, <1>7 DEF ToSet
  <1>10. RoutesTypeOK'
    <2>1. MapTypes'
      BY <1>1, <1>2, <1>3, <1>5, <1>7, <1>8, <1>9, ByTypes DEF MapTypes, ids
    <2>2. ThreadTypes'
      BY <1>1, <1>2, ByTypes DEF ThreadTypes
    <2>3. (dialog \in DialogStates)'
      BY <1>2 DEF DialogStates, Closed
    <2> QED BY <1>8, <2>1, <2>2, <2>3, ByTypes
  <1>11. IdsAgree' /\ RecordsAgree'
    <2>1. ToSet(ids) = DOMAIN routes'
      BY <1>5, <1>9
    <2>2. \A i, k \in DOMAIN ids : i < k => ids[i] < ids[k]
      BY <1>5 DEF InOrder
    <2>3. \A id \in DOMAIN routes' :
             chain'[routes'[id]].id = id /\ records'[id] = chain'[routes'[id]].rules
      BY <1>5, <1>8, <1>9
    <2> QED BY <1>5, <1>9, <2>1, <2>2, <2>3 DEF IdsAgree, RecordsAgree, IdOf, RulesOf, ids
  <1>12. DialogInv'
    BY <1>2 DEF DialogInv, Closed
  <1>13. ChoiceInv'
    BY <1>1, <1>2, <1>9 DEF ChoiceInv, CurrentExists, Closed, RecordsAgree
  <1> QED BY <1>7, <1>10, <1>11, <1>12, <1>13 DEF RoutesInd, RoutesInv, ids

LEMMA InitRoutes == RoutesInit => RoutesInd
  <1> SUFFICES ASSUME RoutesInit PROVE RoutesInd
    OBVIOUS
  <1>1. /\ DOMAIN routes = {0} /\ routes[0] = 1 /\ routesIdOrder = <<0>>
        /\ DOMAIN records = {0} /\ records[0] = 0
        /\ Objects = {1} /\ chain[1] = [id |-> 0, rules |-> 0]
        /\ current_route_id = 0 /\ savedId = 0
        /\ dialog = Closed /\ update = {} /\ unsaved = {} /\ torn = FALSE
    BY DEF RoutesInit, Objects
  <1>2. RoutesTypeOK
    <2>1. ChainTypes
      <3>1. [id |-> 0, rules |-> 0] \in [id : Ids, rules : 0..MaxNews]
        BY BoundAssumption DEF Ids
      <3> QED BY <3>1 DEF RoutesInit, ChainTypes
    <2>2. MapTypes
      BY <1>1, BoundAssumption DEF MapTypes
    <2>3. ThreadTypes /\ dialog \in DialogStates
      BY <1>1 DEF ThreadTypes, DialogStates
    <2> QED BY <2>1, <2>2, <2>3, ByTypes
  <1>3. IdsAgree /\ RecordsAgree
    BY <1>1 DEF IdsAgree, RecordsAgree, IdOf, RulesOf, ToSet
  <1>4. DialogInv /\ ChoiceInv
    BY <1>1 DEF DialogInv, ChoiceInv, CurrentExists, Closed
  <1> QED BY <1>1, <1>2, <1>3, <1>4 DEF RoutesInd, RoutesInv

LEMMA NextRoutes == RoutesInd /\ [RoutesNext]_routesVars => RoutesInd'
  <1> SUFFICES ASSUME RoutesInd, [RoutesNext]_routesVars PROVE RoutesInd'
    OBVIOUS
  <1>1. CASE UNCHANGED routesVars
    BY <1>1 DEF routesVars, routing, savedRoutes, RoutesInd, RoutesInv, RoutesTypeOK,
                DialogStates, IdsAgree,
       RecordsAgree, DialogInv, InIdOrder, ChoiceInv, CurrentExists, IdOf, RulesOf,
       Objects
  <1>2. CASE Dialog
    BY <1>2, OpenDialogKeeps, CloseKeeps, NewRouteKeeps, EditAcceptedKeeps, ChooseKeeps,
       EditRouteKeeps, DeleteKeeps, AcceptKeeps, ChosenKeeps DEF Dialog
  <1>3. CASE Window
    BY <1>3, DownloadKeeps, ChosenKeeps, UpdateProfilesKeeps, UpdateOneKeeps DEF Window
  <1>4. CASE Restart
    BY <1>4, RestartKeeps
  <1> QED BY <1>1, <1>2, <1>3, <1>4 DEF RoutesNext

(* The routing profiles, their ids, their records and the dialog agree:    *)
(* new ids are free although they are taken from the end of a list that    *)
(* the dialog has made, for any number of profiles, texts and starts.      *)
THEOREM RoutesAgree == RoutesSpec => []RoutesInv
  <1>1. RoutesInd => RoutesInv
    BY DEF RoutesInd
  <1> QED BY <1>1, InitRoutes, NextRoutes, PTL DEF RoutesSpec

(* The routing profile that is chosen is there, unless the program ended   *)
(* between the two writes of an accept.                                    *)
THEOREM ChosenRouteExists == RoutesSpec => []CurrentExists
  <1>1. RoutesInd => CurrentExists
    BY DEF RoutesInd, ChoiceInv
  <1> QED BY <1>1, InitRoutes, NextRoutes, PTL DEF RoutesSpec
=============================================================================
