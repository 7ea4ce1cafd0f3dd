------------------------- MODULE SubscriptionsProofs -------------------------
(***************************************************************************)
(* Proofs about the updates of groups: the types, the round that visits    *)
(* every group, and what an update that nobody disturbs leaves behind; and *)
(* about the filter that finds the duplicates in what it leaves.           *)
(***************************************************************************)
EXTENDS Subscriptions, ProfileFilter, TLAPS, FiniteSetTheorems, WellFoundedInduction

-----------------------------------------------------------------------------
(* Numbers and lists *)

(* A set of numbers that is not empty has a least one.                     *)
LEMMA LeastNat ==
    ASSUME NEW T \in SUBSET Nat, T # {}
    PROVE  \E n \in T : \A m \in T : n <= m
  <1> DEFINE U == {0..n : n \in T}
  <1>1. U \subseteq FiniteSubsetsOf(Nat) /\ U # {}
    <2>1. ASSUME NEW n \in T PROVE 0..n \in SUBSET Nat /\ IsFiniteSet(0..n)
      BY FS_Interval
    <2> QED BY <2>1 DEF FiniteSubsetsOf
  <1>2. PICK x \in U : \A y \in U : <<y, x>> \notin StrictSubsetOrdering(Nat)
    <2>1. IsWellFoundedOn(StrictSubsetOrdering(Nat), FiniteSubsetsOf(Nat))
      BY FS_StrictSubsetOrderingWellFounded
    <2> HIDE DEF U
    <2> QED BY <1>1, <2>1, WFMin
  <1>3. PICK n \in T : x = 0..n
    OBVIOUS
  <1>4. ASSUME NEW m \in T, m < n PROVE FALSE
    <2>1. 0..m \in U /\ 0..m \subseteq 0..n /\ n \in 0..n /\ n \notin 0..m
      BY <1>4
    <2>2. <<0..m, x>> \in StrictSubsetOrdering(Nat)
      BY <1>3, <2>1 DEF StrictSubsetOrdering
    <2> QED BY <1>2, <2>1, <2>2
  <1>5. \A m \in T : n <= m
    BY <1>4
  <1> QED BY <1>5

LEMMA MinIsLeast ==
    ASSUME NEW T \in SUBSET Nat, T # {}
    PROVE  Min(T) \in T /\ \A m \in T : Min(T) <= m
  <1>1. PICK n \in T : \A m \in T : n <= m
    BY LeastNat
  <1> QED BY <1>1 DEF Min

(* The greatest of some numbers that are no greater than n.                *)
LEMMA MaxIsGreatest ==
    ASSUME NEW n \in Nat, NEW T \in SUBSET (-1..n), T # {}
    PROVE  Max(T) \in T /\ \A m \in T : m <= Max(T)
  <1> DEFINE U == {n - t : t \in T}
  <1>0. \A t \in T : t \in Int /\ n - t \in Nat
    OBVIOUS
  <1>1. U \in SUBSET Nat /\ U # {}
    BY <1>0
  <1>4. \A m \in T : n - m \in U
    OBVIOUS
  <1> HIDE DEF U
  <1>2. PICK k \in U : \A m \in U : k <= m
    BY <1>1, LeastNat
  <1>3. PICK t \in T : k = n - t
    BY DEF U
  <1>5. ASSUME NEW m \in T PROVE t >= m
    <2>1. n - t <= n - m /\ t \in Int /\ m \in Int
      BY <1>0, <1>2, <1>3, <1>4
    <2> QED BY <2>1
  <1>6. \E x \in T : \A y \in T : x >= y
    BY <1>5
  <1>7. Max(T) \in T /\ \A y \in T : Max(T) >= y
    BY <1>6 DEF Max
  <1> QED BY <1>0, <1>7

LEMMA WiderSeq ==
    ASSUME NEW S, NEW T, S \subseteq T, NEW s \in Seq(S) PROVE s \in Seq(T)
  OBVIOUS

LEMMA SeqByPlaces ==
    ASSUME NEW S, NEW n \in Nat, NEW f, f = [i \in 1..n |-> f[i]],
           \A i \in 1..n : f[i] \in S
    PROVE  f \in Seq(S) /\ Len(f) = n
  <1>1. f \in [1..n -> S]
    OBVIOUS
  <1> QED BY <1>1

LEMMA ConcatDoes ==
    ASSUME NEW S, NEW s \in Seq(S), NEW t \in Seq(S)
    PROVE  /\ s \o t \in Seq(S) /\ Len(s \o t) = Len(s) + Len(t)
           /\ \A i \in 1..Len(s) : (s \o t)[i] = s[i]
           /\ \A i \in 1..Len(t) : (s \o t)[Len(s) + i] = t[i]
  OBVIOUS

LEMMA SetOfConcat ==
    ASSUME NEW S, NEW s \in Seq(S), NEW t \in Seq(S)
    PROVE  s \o t \in Seq(S) /\ ToSet(s \o t) = ToSet(s) \cup ToSet(t)
  <1>1. /\ s \o t \in Seq(S) /\ Len(s) \in Nat /\ Len(t) \in Nat
        /\ DOMAIN s = 1..Len(s) /\ DOMAIN t = 1..Len(t)
        /\ DOMAIN (s \o t) = 1..Len(s) + Len(t)
        /\ \A i \in 1..Len(s) : (s \o t)[i] = s[i]
        /\ \A i \in 1..Len(t) : (s \o t)[Len(s) + i] = t[i]
    OBVIOUS
  <1>2. ASSUME NEW x \in ToSet(s \o t) PROVE x \in ToSet(s) \cup ToSet(t)
    <2>1. PICK i \in 1..Len(s) + Len(t) : x = (s \o t)[i]
      BY <1>1 DEF ToSet
    <2>2. CASE i \in 1..Len(s)
      BY <1>1, <2>1, <2>2 DEF ToSet
    <2>3. CASE i \notin 1..Len(s)
      <3>1. i - Len(s) \in 1..Len(t) /\ i = Len(s) + (i - Len(s))
        BY <1>1, <2>3
      <3>2. x = t[i - Len(s)]
        BY <1>1, <2>1, <3>1
      <3> QED BY <1>1, <3>1, <3>2 DEF ToSet
    <2> QED BY <2>2, <2>3
  <1>3. ToSet(s) \subseteq ToSet(s \o t)
    BY <1>1 DEF ToSet
  <1>4. \A i \in 1..Len(t) : Len(s) + i \in DOMAIN (s \o t)
    BY <1>1
  <1>5. ToSet(t) \subseteq ToSet(s \o t)
    BY <1>1, <1>4 DEF ToSet
  <1> QED BY <1>1, <1>2, <1>3, <1>5

(* The recursive function of Without has a value: what it is up to a place *)
(* can be extended to the next.                                            *)
LeftUpTo(s, D, n, f) ==
    f = [i \in 0..n |->
           IF i = 0 THEN <<>>
           ELSE IF s[i] \in D THEN f[i - 1] ELSE Append(f[i - 1], s[i])]

LEMMA WithoutExists ==
    ASSUME NEW s, NEW D, NEW len \in Nat
    PROVE  \E f : LeftUpTo(s, D, len, f)
  <1> DEFINE Bad == {n \in 0..len : ~\E f : LeftUpTo(s, D, n, f)}
  <1>1. SUFFICES ASSUME Bad # {} PROVE FALSE
    BY <1>1
  <1>2. PICK n \in Bad : \A m \in Bad : n <= m
    <2>1. Bad \in SUBSET Nat
      OBVIOUS
    <2> HIDE DEF Bad
    <2> QED BY <1>1, <2>1, LeastNat
  <1>3. n # 0
    <2>1. LeftUpTo(s, D, 0, [i \in 0..0 |-> <<>>])
      BY DEF LeftUpTo
    <2> QED BY <2>1
  <1>4. PICK f : LeftUpTo(s, D, n - 1, f)
    BY <1>2, <1>3
  <1> DEFINE g == [i \in 0..n |->
                     IF i # n THEN f[i]
                     ELSE IF s[n] \in D THEN f[n - 1] ELSE Append(f[n - 1], s[n])]
             h == [i \in 0..n |->
                     IF i = 0 THEN <<>>
                     ELSE IF s[i] \in D THEN g[i - 1] ELSE Append(g[i - 1], s[i])]
  <1>5. ASSUME NEW i \in 0..n PROVE g[i] = h[i]
    <2>1. CASE i = n
      <3>1. n - 1 \in 0..n /\ n - 1 # n
        BY <1>3
      <3>2. g[n - 1] = f[n - 1]
        BY <3>1
      <3> QED BY <1>3, <2>1, <3>2
    <2>2. CASE i # n
      <3>1. i \in 0..n - 1 /\ g[i] = f[i]
        BY <2>2
      <3>2. i # 0 => i - 1 \in 0..n /\ g[i - 1] = f[i - 1]
        BY <2>2
      <3>3. f[i] = IF i = 0 THEN <<>>
                   ELSE IF s[i] \in D THEN f[i - 1] ELSE Append(f[i - 1], s[i])
        BY <1>4, <3>1 DEF LeftUpTo
      <3> QED BY <3>1, <3>2, <3>3
    <2> QED BY <2>1, <2>2
  <1>6. LeftUpTo(s, D, n, g)
    BY <1>5 DEF LeftUpTo
  <1> QED BY <1>6

LEMMA WithoutFollows ==
    ASSUME NEW s, Len(s) \in Nat, NEW D
    PROVE  \E f : LeftUpTo(s, D, Len(s), f) /\ Without(s, D) = f[Len(s)]
  <1> DEFINE f == CHOOSE f : LeftUpTo(s, D, Len(s), f)
  <1>1. LeftUpTo(s, D, Len(s), f)
    BY WithoutExists
  <1>2. Without(s, D) = f[Len(s)]
    BY DEF Without, LeftUpTo
  <1> QED BY <1>1, <1>2

(* What is left of a list has its other elements; without elements that it *)
(* has not it is the same.                                                 *)
LEMMA WithoutDoes ==
    ASSUME NEW S, NEW s \in Seq(S), NEW D
    PROVE  /\ Without(s, D) \in Seq(S)
           /\ ToSet(Without(s, D)) = ToSet(s) \ D
           /\ ToSet(s) \cap D = {} => Without(s, D) = s
  <1>1. PICK f : LeftUpTo(s, D, Len(s), f) /\ Without(s, D) = f[Len(s)]
    BY WithoutFollows
  <1> DEFINE Fine(n) ==
               /\ f[n] \in Seq(S)
               /\ ToSet(f[n]) = {s[i] : i \in 1..n} \ D
               /\ ToSet(s) \cap D = {} =>
                    Len(f[n]) = n /\ \A i \in 1..n : f[n][i] = s[i]
             Bad == {n \in 0..Len(s) : ~Fine(n)}
  <1>2. Bad = {}
    <2>1. SUFFICES ASSUME Bad # {} PROVE FALSE
      OBVIOUS
    <2>2. PICK n \in Bad : \A m \in Bad : n <= m
      <3>1. Bad \in SUBSET Nat
        OBVIOUS
      <3> HIDE DEF Bad
      <3> QED BY <2>1, <3>1, LeastNat
    <2>3. n # 0
      <3>1. f[0] = <<>>
        BY <1>1 DEF LeftUpTo
      <3>2. Fine(0)
        BY <3>1 DEF ToSet
      <3> QED BY <3>2
    <2>4. n - 1 \in 0..Len(s) /\ n \in 1..Len(s) /\ Fine(n - 1)
      <3>1. n \in 0..Len(s) /\ Len(s) \in Nat
        OBVIOUS
      <3>2. n - 1 \in 0..Len(s) /\ n \in 1..Len(s)
        BY <2>3, <3>1
      <3>3. n - 1 \notin Bad
        <4> HIDE DEF Bad
        <4> QED BY <2>2, <3>1
      <3> QED BY <3>2, <3>3
    <2>5. s[n] \in S /\ 1..n = (1..n - 1) \cup {n}
      BY <2>4
    <2>6. f[n] = IF s[n] \in D THEN f[n - 1] ELSE Append(f[n - 1], s[n])
      BY <1>1, <2>3, <2>4 DEF LeftUpTo
    <2>7. s[n] \in ToSet(s)
      BY <2>4 DEF ToSet
    <2> HIDE DEF Bad
    <2>8. CASE s[n] \in D
      <3>1. f[n] = f[n - 1]
        BY <2>6, <2>8
      <3>2. {s[i] : i \in 1..n} \ D = {s[i] : i \in 1..n - 1} \ D
        BY <2>5, <2>8
      <3>3. Fine(n)
        BY <2>4, <2>7, <2>8, <3>1, <3>2
      <3> QED BY <3>3 DEF Bad
    <2>9. CASE s[n] \notin D
      <3> DEFINE r == f[n - 1]
      <3>1. f[n] = Append(r, s[n]) /\ r \in Seq(S)
        BY <2>4, <2>6, <2>9
      <3> HIDE DEF r
      <3>2. /\ f[n] \in Seq(S) /\ Len(f[n]) = Len(r) + 1 /\ Len(r) \in Nat
            /\ \A i \in 1..Len(r) : f[n][i] = r[i]
            /\ f[n][Len(r) + 1] = s[n]
            /\ DOMAIN f[n] = 1..Len(r) + 1 /\ DOMAIN r = 1..Len(r)
        BY <2>5, <3>1
      <3>3. 1..Len(r) + 1 = (1..Len(r)) \cup {Len(r) + 1}
        BY <3>2
      <3>4. ToSet(f[n]) = ToSet(r) \cup {s[n]}
        BY <3>2, <3>3 DEF ToSet
      <3>5. {s[i] : i \in 1..n} \ D = ({s[i] : i \in 1..n - 1} \ D) \cup {s[n]}
        BY <2>5, <2>9
      <3>6. ASSUME ToSet(s) \cap D = {}
            PROVE  Len(f[n]) = n /\ \A i \in 1..n : f[n][i] = s[i]
        <4>1. Len(r) = n - 1 /\ \A i \in 1..n - 1 : r[i] = s[i]
          BY <2>4, <3>6 DEF r
        <4>2. n \in Nat
          BY <2>4
        <4> QED BY <2>5, <3>2, <4>1, <4>2
      <3>7. Fine(n)
        BY <2>4, <3>2, <3>4, <3>5, <3>6 DEF r
      <3> QED BY <3>7 DEF Bad
    <2> QED BY <2>8, <2>9
  <1>3. Fine(Len(s))
    <2>1. Len(s) \in 0..Len(s)
      OBVIOUS
    <2> HIDE DEF Fine
    <2> QED BY <1>2, <2>1
  <1>4. Len(s) \in Nat /\ DOMAIN s = 1..Len(s)
    OBVIOUS
  <1> HIDE DEF Fine
  <1>5. Without(s, D) \in Seq(S) /\ ToSet(Without(s, D)) = ToSet(s) \ D
    BY <1>1, <1>3, <1>4 DEF Fine, ToSet
  <1>6. ASSUME ToSet(s) \cap D = {} PROVE Without(s, D) = s
    BY <1>1, <1>3, <1>4, <1>5, <1>6 DEF Fine
  <1> QED BY <1>5, <1>6

-----------------------------------------------------------------------------
(* The invariants *)

(* A round has been at every group before the place to go on at, but for   *)
(* those that are gone or archived.                                        *)
RoundInv ==
    \A i \in 1..nextOrder - 1 : Order[i] \in groups \ Skipped => Order[i] \in updated

(* What an update in the state r finds when nobody has disturbed it: its   *)
(* group is there and lists, before the download is applied, the profiles  *)
(* it had, then these and the ones that were added for the download, and   *)
(* afterwards for each entry of the download a profile that equals it, an  *)
(* old one if there was one.                                               *)
Listed(g) == ToSet(ProfileEnts(g))

Started(r) == r.at \in {"download", "add", "apply", "cleanup"} => r.g \in groups

Remembered(r) ==
    r.at = "add" /\ ~SubClear => ToSet(r.old) = Listed(r.g)

Added(r) ==
    r.at = "apply" /\ ~SubClear =>
        /\ Listed(r.g) = ToSet(r.old) \cup ToSet(r.new)
        /\ ToSet(r.old) \cap ToSet(r.new) = {}
        /\ DOMAIN r.new = DOMAIN r.got
        /\ \A i \in DOMAIN r.got : ServerOf(r.new[i]) = r.got[i]

Applied(r) ==
    r.at = "cleanup" =>
        /\ \A e \in ToSet(r.all) : Exists(IdOf(e)) /\ profiles[IdOf(e)] = e
        /\ ToSet(r.old) \subseteq ToSet(r.all)
        /\ DOMAIN list[r.g] = DOMAIN r.got
        /\ \A i \in DOMAIN r.got : \E k \in ToSet(r.all) :
              list[r.g][i] = IdOf(k) /\ ServerOf(k) = r.got[i]
        /\ \A e \in ToSet(r.old) : ServerOf(e) \in ToSet(r.got) =>
              \E k \in ToSet(r.old) :
                 ServerOf(k) = ServerOf(e) /\ IdOf(k) \in ToSet(list[r.g])

Undisturbed(r) == Started(r) /\ Remembered(r) /\ Added(r) /\ Applied(r)

AloneInv == \A u \in Updates \ disturbed : Undisturbed(update[u])

-----------------------------------------------------------------------------
(* The types *)

Objects == [id : Ids \cup {-1}, gid : Groups, server : Servers]

CatalogueTypes ==
    /\ ents \in Seq(Objects)
    /\ profiles \in [Ids -> {0} \cup Made]
    /\ \A id \in Ids : Exists(id) => IdOf(profiles[id]) = id /\ id < Len(ents)
    /\ list \in [Groups -> Seq(Ids \cup {-1})]
    /\ groups \subseteq Groups /\ groups # {} /\ onDisk \subseteq Groups
RoundTypes ==
    updating \in BOOLEAN /\ nextOrder \in 1..Len(Order) + 1 /\ updated \subseteq Groups
OtherTypes == started \in Ids \cup {None} /\ disturbed \subseteq Updates

LEMMA ByTypes ==
    /\ TypeOK <=> /\ CatalogueTypes /\ RoundTypes /\ OtherTypes
                  /\ update \in [Updates -> UpdateStates]
    /\ TypeOK' <=> /\ CatalogueTypes' /\ RoundTypes' /\ OtherTypes'
                   /\ update' \in [Updates -> UpdateStates']
  BY Zenon DEF TypeOK, CatalogueTypes, RoundTypes, OtherTypes, Objects

LEMMA EntTypes ==
    ASSUME CatalogueTypes, NEW e \in Made
    PROVE  /\ e \in 1..Len(ents) /\ Len(ents) \in Nat /\ ents[e] \in Objects
           /\ IdOf(e) \in Ids \cup {-1} /\ ServerOf(e) \in Servers
  <1>1. ents \in Seq(Objects)
    BY DEF CatalogueTypes
  <1> HIDE DEF Objects
  <1>2. e \in 1..Len(ents) /\ Len(ents) \in Nat /\ ents[e] \in Objects
    BY <1>1 DEF Made
  <1> QED BY <1>2 DEF Objects, IdOf, ServerOf

(* The profiles of a group are objects that are found under their ids.     *)
LEMMA EntsOf ==
    ASSUME CatalogueTypes, NEW g \in Groups
    PROVE  /\ ProfileEnts(g) \in Seq(Made)
           /\ Listed(g) = {profiles[id] : id \in {id \in ToSet(list[g]) : Exists(id)}}
           /\ \A e \in Listed(g) :
                 e \in Made /\ IdOf(e) \in Ids /\ Exists(IdOf(e)) /\ profiles[IdOf(e)] = e
  <1> DEFINE gone == {id \in ToSet(list[g]) : ~Exists(id)}
             ids  == Without(list[g], gone)
             I    == Ids \cup {-1}
  <1>1. list[g] \in Seq(I)
    BY DEF CatalogueTypes
  <1> HIDE DEF I, gone
  <1>2. ids \in Seq(I) /\ ToSet(ids) = ToSet(list[g]) \ gone
    BY <1>1, WithoutDoes
  <1>3. ToSet(ids) = {id \in ToSet(list[g]) : Exists(id)}
    BY <1>2 DEF gone
  <1> HIDE DEF ids
  <1>4. \A id \in ToSet(ids) : id \in Ids /\ Exists(id) /\ profiles[id] \in Made
    BY <1>3 DEF Exists, CatalogueTypes
  <1>5. ProfileEnts(g) = [i \in DOMAIN ids |-> profiles[ids[i]]]
    BY DEF ProfileEnts, ids, gone
  <1>6. DOMAIN ids = 1..Len(ids) /\ Len(ids) \in Nat
    BY <1>2
  <1>7. \A i \in DOMAIN ids : ids[i] \in ToSet(ids)
    BY DEF ToSet
  <1>8. ProfileEnts(g) \in Seq(Made)
    <2>1. \A i \in DOMAIN ids : profiles[ids[i]] \in Made
      BY <1>4, <1>7
    <2> HIDE DEF Made
    <2> QED BY <1>5, <1>6, <2>1
  <1>9. Listed(g) = {profiles[id] : id \in ToSet(ids)}
    BY <1>5 DEF Listed, ToSet
  <1>10. ASSUME NEW e \in Listed(g)
         PROVE  e \in Made /\ IdOf(e) \in Ids /\ Exists(IdOf(e)) /\ profiles[IdOf(e)] = e
    <2>1. PICK id \in ToSet(ids) : e = profiles[id]
      BY <1>9
    <2> QED BY <1>4, <2>1 DEF CatalogueTypes
  <1> QED BY <1>3, <1>8, <1>9, <1>10

(* What an update has with it at its place.                                *)
LEMMA Shapes ==
    ASSUME NEW r \in UpdateStates
    PROVE  /\ r.at \in {"none", "stuck", "finish", "begin", "download", "post",
                        "invalid", "add", "apply", "cleanup"}
           /\ r.at = "finish" => r.inRound \in BOOLEAN
           /\ r.at \in {"begin", "download", "post", "invalid"} =>
                r \in [at : {r.at}, g : Groups, inRound : BOOLEAN]
           /\ r.at = "add" =>
                r \in [at : {"add"}, g : Groups, inRound : BOOLEAN,
                       old : Seq(Made), got : Seq(Servers)]
           /\ r.at = "apply" =>
                r \in [at : {"apply"}, g : Groups, inRound : BOOLEAN,
                       old : Seq(Made), got : Seq(Servers), new : Seq(Made)]
           /\ r.at = "cleanup" =>
                r \in [at : {"cleanup"}, g : Groups, inRound : BOOLEAN,
                       old : Seq(Made), got : Seq(Servers), all : Seq(Made)]
           /\ r.at \notin {"none", "stuck", "finish"} =>
                r.g \in Groups /\ r.inRound \in BOOLEAN
  <1> DEFINE M == Seq(Made)
             S == Seq(Servers)
  <1> HIDE DEF M, S
  <1>1. CASE r \in {Ended, [at |-> "stuck"]}
    BY <1>1 DEF Ended
  <1>2. CASE r \in [at : {"finish"}, inRound : BOOLEAN]
    BY <1>2
  <1>3. CASE r \in [at : {"begin", "download", "post", "invalid"}, g : Groups,
                    inRound : BOOLEAN]
    BY <1>3
  <1>4. CASE r \in [at : {"add"}, g : Groups, inRound : BOOLEAN, old : M, got : S]
    BY <1>4 DEF M, S
  <1>5. CASE r \in [at : {"apply"}, g : Groups, inRound : BOOLEAN, old : M, got : S,
                    new : M]
    BY <1>5 DEF M, S
  <1>6. CASE r \in [at : {"cleanup"}, g : Groups, inRound : BOOLEAN, old : M, got : S,
                    all : M]
    BY <1>6 DEF M, S
  <1> QED BY <1>1, <1>2, <1>3, <1>4, <1>5, <1>6 DEF UpdateStates, M, S

(* More objects leave what an update can have possible.                    *)
LEMMA StatesStay ==
    ASSUME Made \subseteq Made' PROVE UpdateStates \subseteq UpdateStates'
  <1>1. Seq(Made) \subseteq Seq(Made')
    BY WiderSeq
  <1> QED BY <1>1 DEF UpdateStates, Ended

LEMMA MovedTypes ==
    ASSUME TypeOK, NEW u \in Updates, NEW r, r \in UpdateStates', Made \subseteq Made',
           UpdateAt(u, r)
    PROVE  update' \in [Updates -> UpdateStates']
  <1>1. UpdateStates \subseteq UpdateStates'
    BY StatesStay
  <1> QED BY <1>1, ByTypes DEF UpdateAt

(* BatchDeleteProfiles leaves the lists of what it does not delete.        *)
LEMMA Deletes ==
    ASSUME CatalogueTypes, NEW ids, BatchDeleteProfiles(ids)
    PROVE  /\ CatalogueTypes' /\ UNCHANGED <<ents, groups>> /\ Made' = Made
           /\ \A id \in Ids : profiles'[id] = IF id \in Deletable(ids) THEN 0 ELSE profiles[id]
           /\ \A g \in Groups : /\ ToSet(list'[g]) \subseteq ToSet(list[g])
                                /\ ids \cap ToSet(list[g]) = {} => list'[g] = list[g]
  <1> DEFINE D == Deletable(ids)
             GroupsOf == {ents[profiles[id]].gid : id \in D} \cap groups
             Of(g) == {id \in D : ents[profiles[id]].gid = g}
             I == Ids \cup {-1}
  <1>1. /\ profiles' = [id \in Ids |-> IF id \in D THEN 0 ELSE profiles[id]]
        /\ list' = [g \in Groups |-> IF g \in GroupsOf
                                     THEN Without(list[g], Of(g)) ELSE list[g]]
        /\ onDisk' = onDisk \cup GroupsOf
        /\ UNCHANGED <<ents, groups>> /\ Made' = Made
    BY DEF BatchDeleteProfiles, Made
  <1> HIDE DEF D, I, GroupsOf
  <1>2. ASSUME NEW g \in Groups
        PROVE  /\ list'[g] \in Seq(I) /\ ToSet(list'[g]) \subseteq ToSet(list[g])
               /\ ids \cap ToSet(list[g]) = {} => list'[g] = list[g]
    <2>1. list[g] \in Seq(I)
      BY DEF CatalogueTypes, I
    <2>2. Of(g) \subseteq ids
      BY DEF D, Deletable
    <2>3. /\ Without(list[g], Of(g)) \in Seq(I)
          /\ ToSet(Without(list[g], Of(g))) = ToSet(list[g]) \ Of(g)
          /\ ToSet(list[g]) \cap Of(g) = {} => Without(list[g], Of(g)) = list[g]
      <3> HIDE DEF Of
      <3> QED BY <2>1, WithoutDoes
    <2>4. list'[g] = IF g \in GroupsOf THEN Without(list[g], Of(g)) ELSE list[g]
      BY <1>1
    <2> HIDE DEF Of
    <2> QED BY <2>1, <2>2, <2>3, <2>4
  <1>3. list' \in [Groups -> Seq(I)]
    BY <1>1, <1>2
  <1>4. profiles' \in [Ids -> {0} \cup Made']
    BY <1>1 DEF CatalogueTypes
  <1>5. \A id \in Ids : Exists(id)' => IdOf(profiles[id])' = id /\ id < Len(ents)
    BY <1>1 DEF CatalogueTypes, Exists, IdOf
  <1>6. onDisk' \subseteq Groups
    BY <1>1 DEF CatalogueTypes, GroupsOf
  <1>7. CatalogueTypes'
    BY <1>1, <1>3, <1>4, <1>5, <1>6 DEF CatalogueTypes, I
  <1> QED BY <1>1, <1>2, <1>7 DEF D

(* The same before and after a step.                                       *)
EntsFound ==
    \A g \in Groups :
        /\ ProfileEnts(g) \in Seq(Made)
        /\ Listed(g) = {profiles[id] : id \in {id \in ToSet(list[g]) : Exists(id)}}
        /\ \A e \in Listed(g) :
              e \in Made /\ IdOf(e) \in Ids /\ Exists(IdOf(e)) /\ profiles[IdOf(e)] = e

LEMMA EntsAreFound ==
    (CatalogueTypes => EntsFound) /\ (CatalogueTypes' => EntsFound')
  <1>1. CatalogueTypes => EntsFound
    BY EntsOf DEF EntsFound
  <1> QED BY <1>1, PTL

(* A new id is free, and no greater than the number of objects.            *)
LEMMA NewIdIsFree ==
    ASSUME CatalogueTypes
    PROVE  /\ NewProfileID \in 0..Len(ents)
           /\ \A id \in Ids : Exists(id) => id < NewProfileID
  <1> DEFINE T == {-1} \cup {id \in Ids : profiles[id] # 0}
  <1>1. Len(ents) \in Nat
    BY DEF CatalogueTypes
  <1>2. \A id \in Ids : id \in Nat /\ (Exists(id) => id < Len(ents))
    BY EntAssumption DEF CatalogueTypes, Ids
  <1>3. \A t \in T : t \in Int /\ -1 <= t /\ t < Len(ents)
    BY <1>1, <1>2 DEF Exists
  <1>4. T \in SUBSET (-1..Len(ents)) /\ T # {}
    <2>1. -1 \in T
      OBVIOUS
    <2> HIDE DEF T
    <2>2. \A t \in T : t \in -1..Len(ents)
      BY <1>1, <1>3
    <2> QED BY <2>1, <2>2
  <1>5. \A id \in Ids : Exists(id) => id \in T
    BY DEF Exists
  <1>6. NewProfileID = Max(T) + 1
    BY DEF NewProfileID
  <1> HIDE DEF T
  <1>7. Max(T) \in T /\ \A m \in T : m <= Max(T)
    BY <1>1, <1>4, MaxIsGreatest
  <1> QED BY <1>1, <1>2, <1>3, <1>5, <1>6, <1>7

(* The last of the objects with a server, if there is one.                 *)
LEMMA CommonDoes ==
    ASSUME CatalogueTypes, NEW src \in Seq(Made), NEW server
    PROVE  IF \E e \in ToSet(src) : ServerOf(e) = server
           THEN /\ CommonOf(src, server) \in ToSet(src) /\ CommonOf(src, server) # 0
                /\ ServerOf(CommonOf(src, server)) = server
           ELSE CommonOf(src, server) = 0
  <1> DEFINE Equal == {i \in DOMAIN src : ServerOf(src[i]) = server}
  <1>1. CommonOf(src, server) = IF Equal = {} THEN 0 ELSE src[Max(Equal)]
    BY DEF CommonOf
  <1>2. Equal # {} <=> \E e \in ToSet(src) : ServerOf(e) = server
    BY DEF ToSet
  <1>3. ASSUME Equal # {} PROVE Max(Equal) \in Equal
    <2>1. DOMAIN src = 1..Len(src) /\ Len(src) \in Nat
      OBVIOUS
    <2>2. \A i \in Equal : i \in -1..Len(src)
      BY <2>1
    <2>3. Equal \in SUBSET (-1..Len(src))
      BY <2>2
    <2> HIDE DEF Equal
    <2> QED BY <1>3, <2>1, <2>3, MaxIsGreatest
  <1>4. ASSUME NEW i \in DOMAIN src PROVE src[i] \in ToSet(src) /\ src[i] # 0
    <2>1. src[i] \in Made
      <3> HIDE DEF Made
      <3> QED OBVIOUS
    <2> QED BY <2>1, EntTypes DEF ToSet
  <1>5. \A i \in Equal : i \in DOMAIN src /\ ServerOf(src[i]) = server
    OBVIOUS
  <1> HIDE DEF Equal
  <1> QED BY <1>1, <1>2, <1>3, <1>4, <1>5

(* The next group of a round: those before it are left out.                *)
LEMMA NextDoes ==
    ASSUME NEW k \in 1..Len(Order) + 1
    PROVE  /\ NextToUpdate(k) \in k..Len(Order) + 1
           /\ \A i \in k..NextToUpdate(k) - 1 : ShouldSkip(i)
           /\ NextToUpdate(k) <= Len(Order) => ~ShouldSkip(NextToUpdate(k))
  <1> DEFINE S == {i \in k..Len(Order) : ~ShouldSkip(i)} \cup {Len(Order) + 1}
  <1>1. Len(Order) \in Nat /\ k \in Nat
    BY OrderAssumption
  <1>2. S \in SUBSET Nat /\ S # {} /\ S \subseteq k..Len(Order) + 1
    BY <1>1
  <1>3. NextToUpdate(k) = Min(S)
    BY DEF NextToUpdate
  <1>4. \A i \in S : i <= Len(Order) => ~ShouldSkip(i)
    BY <1>1
  <1>5. \A i \in k..Len(Order) : i \notin S => ShouldSkip(i)
    OBVIOUS
  <1> HIDE DEF S
  <1>6. Min(S) \in S /\ \A m \in S : Min(S) <= m
    BY <1>2, MinIsLeast
  <1>7. ASSUME NEW i \in k..Min(S) - 1 PROVE ShouldSkip(i)
    <2>1. Min(S) \in k..Len(Order) + 1 /\ Min(S) \in Nat
      BY <1>2, <1>6
    <2>2. i \in k..Len(Order) /\ ~(Min(S) <= i)
      BY <1>1, <2>1
    <2> QED BY <1>5, <1>6, <2>2
  <1> QED BY <1>2, <1>3, <1>4, <1>6, <1>7

(* AddProfileBatch adds objects; those of a group that is there have new   *)
(* ids, under which they are found, and are listed with what was listed.   *)
Batched(u, r, new) ==
    /\ r.at = "add" /\ new \in Seq(Made')
    /\ UpdateAt(u, [at |-> "apply", g |-> r.g, inRound |-> r.inRound,
                    old |-> r.old, got |-> r.got, new |-> new])
    /\ CatalogueTypes' /\ Made \subseteq Made'
    /\ \A e \in Made : ents'[e] = ents[e]
    /\ \A i \in DOMAIN r.got : new[i] \notin Made /\ ServerOf(new[i])' = r.got[i]
    /\ UNCHANGED <<groups, started, round>>
    /\ IF r.g \in groups
       THEN Disturb(u) /\ Listed(r.g)' = Listed(r.g) \cup ToSet(new)
       ELSE UNCHANGED <<profiles, list, onDisk, disturbed>>

LEMMA BatchAdds ==
    ASSUME TypeOK, NEW u \in Updates, AddProfileBatch(u),
           NEW r, r = update[u], NEW first, first = Len(ents)
    PROVE  Batched(u, r, [i \in DOMAIN r.got |-> first + i])
  <1> DEFINE g     == r.g
             got   == r.got
             n     == Len(got)
             there == g \in groups
             new   == [i \in DOMAIN got |-> first + i]
             I     == Ids \cup {-1}
  <1>a. PICK n0 : n0 = NewProfileID
    OBVIOUS
  <1>b. PICK ids : ids = [i \in DOMAIN got |-> IF there THEN n0 + i - 1 ELSE -1]
    OBVIOUS
  <1> DEFINE made == [i \in DOMAIN got |->
                        [id |-> ids[i], gid |-> g, server |-> got[i]]]
  <1>1. CatalogueTypes /\ r \in UpdateStates /\ r.at = "add"
    BY ByTypes DEF AddProfileBatch
  <1>2. r.g \in Groups /\ r.got \in Seq(Servers)
    BY <1>1, Shapes
  <1>3. /\ first + n <= MaxEnts /\ ents' = ents \o made
        /\ UpdateAt(u, [at |-> "apply", g |-> r.g, inRound |-> r.inRound,
                        old |-> r.old, got |-> r.got, new |-> new])
        /\ UNCHANGED <<groups, started, round>>
    <2>1. ents' = ents \o made
      BY <1>a, <1>b DEF AddProfileBatch
    <2> QED BY <2>1 DEF AddProfileBatch
  <1>4. IF there
        THEN /\ profiles' = [id \in Ids |-> IF id \in ToSet(ids)
                               THEN new[id - (n0 + 1 - 1) + 1] ELSE profiles[id]]
             /\ list' = [list EXCEPT ![g] = @ \o Without(ids, ToSet(@))]
             /\ onDisk' = onDisk \cup {g}
             /\ Disturb(u)
        ELSE UNCHANGED <<profiles, list, onDisk, disturbed>>
    BY <1>a, <1>b DEF AddProfileBatch
  <1>5. /\ first \in Nat /\ n \in Nat /\ DOMAIN got = 1..n /\ DOMAIN ents = 1..first
        /\ MaxEnts \in Nat
    BY <1>1, <1>2, EntAssumption DEF CatalogueTypes
  <1>6. n0 \in 0..first /\ \A id \in Ids : Exists(id) => id < n0
    BY <1>1, <1>a, NewIdIsFree
  <1>7. \A i \in 1..n : got[i] \in Servers
    BY <1>2
  <1>8. /\ \A i \in 1..n : ids[i] \in I /\ ids[i] = IF there THEN n0 + i - 1 ELSE -1
        /\ ids = [i \in 1..n |-> ids[i]]
    BY <1>3, <1>5, <1>6, <1>b DEF Ids
  <1> HIDE DEF g, got, n, there, I
  <1>9. made \in Seq(Objects) /\ Len(made) = n
    <2>1. \A i \in 1..n : made[i] \in Objects
      BY <1>2, <1>5, <1>7, <1>8 DEF Objects, I, g
    <2> HIDE DEF Objects
    <2> QED BY <1>5, <2>1
  <1> HIDE DEF made
  <1>10. /\ ents' \in Seq(Objects) /\ Len(ents') = first + n /\ Made' = 1..first + n
         /\ \A e \in 1..first : ents'[e] = ents[e]
         /\ \A i \in 1..n : ents'[first + i] = made[i]
    <2>1. ents \in Seq(Objects)
      BY <1>1 DEF CatalogueTypes
    <2> HIDE DEF Objects
    <2>2. /\ ents \o made \in Seq(Objects) /\ Len(ents \o made) = first + n
          /\ \A e \in 1..first : (ents \o made)[e] = ents[e]
          /\ \A i \in 1..n : (ents \o made)[first + i] = made[i]
      <3>1. /\ ents \o made \in Seq(Objects) /\ Len(ents \o made) = Len(ents) + Len(made)
            /\ \A i \in 1..Len(ents) : (ents \o made)[i] = ents[i]
            /\ \A i \in 1..Len(made) : (ents \o made)[Len(ents) + i] = made[i]
        BY <1>9, <2>1
      <3> QED BY <1>9, <3>1
    <2>3. DOMAIN ents' = 1..first + n
      BY <1>3, <2>2
    <2> QED BY <1>3, <2>2, <2>3 DEF Made
  <1>11. Made = 1..first /\ Made \subseteq Made'
    BY <1>5, <1>10 DEF Made
  <1>12. \A i \in 1..n : new[i] = first + i /\ new[i] \in Made' /\ new[i] \notin Made
    BY <1>5, <1>10, <1>11
  <1>13. new \in Seq(Made')
    <2>1. DOMAIN new = 1..n /\ new = [i \in 1..n |-> new[i]]
      BY <1>5
    <2> HIDE DEF new, Made
    <2> QED BY <1>5, <1>12, <2>1, SeqByPlaces
  <1>14. \A i \in 1..n : ents'[new[i]].id = ids[i] /\ ents'[new[i]].server = got[i]
    <2>1. \A i \in 1..n : made[i].id = ids[i] /\ made[i].server = got[i]
      BY <1>5 DEF made
    <2> QED BY <1>10, <1>12, <2>1
  <1>15. ToSet(new) = {new[i] : i \in 1..n} /\ ToSet(ids) = {ids[i] : i \in 1..n}
    BY <1>5, <1>8 DEF ToSet
  <1>16. CASE ~there
    <2>1. UNCHANGED <<profiles, list, onDisk, disturbed, groups>>
      BY <1>3, <1>4, <1>16
    <2>2. profiles' \in [Ids -> {0} \cup Made']
      BY <1>1, <1>11, <2>1 DEF CatalogueTypes
    <2>3. ASSUME NEW id \in Ids, Exists(id)'
          PROVE  IdOf(profiles[id])' = id /\ id < Len(ents')
      <3>1. Exists(id) /\ profiles[id] \in Made /\ profiles'[id] = profiles[id]
        BY <1>1, <2>1, <2>3 DEF Exists, CatalogueTypes
      <3>2. IdOf(profiles[id]) = id /\ id < first /\ id \in Nat
        BY <1>1, <3>1 DEF CatalogueTypes, Ids
      <3> QED BY <1>5, <1>10, <1>11, <3>1, <3>2 DEF IdOf
    <2>4. CatalogueTypes'
      BY <1>1, <1>10, <2>1, <2>2, <2>3 DEF CatalogueTypes
    <2>5. \A e \in Made : ents'[e] = ents[e]
      BY <1>10, <1>11
    <2>6. ASSUME NEW i \in DOMAIN got
          PROVE  new[i] \notin Made /\ ServerOf(new[i])' = got[i]
      <3>1. i \in 1..n /\ new[i]' = new[i]
        BY <1>5 DEF got
      <3>2. ServerOf(new[i])' = ents'[new[i]].server
        BY <3>1 DEF ServerOf, got
      <3> HIDE DEF new
      <3> QED BY <1>12, <1>14, <3>1, <3>2
    <2> HIDE DEF new
    <2> QED BY <1>1, <1>3, <1>11, <1>13, <1>16, <2>1, <2>4, <2>5, <2>6
            DEF there, g, got, new, Batched
  <1>17. CASE there
    <2>1. \A i \in 1..n : /\ ids[i] = n0 + i - 1 /\ ids[i] \in Ids
                          /\ ids[i] < first + n /\ ids[i] - n0 + 1 = i
                          /\ ~Exists(ids[i])
      <3>1. n0 \in Nat /\ n0 <= first
        BY <1>5, <1>6
      <3>2. ASSUME NEW i \in 1..n
            PROVE  /\ ids[i] = n0 + i - 1 /\ ids[i] \in Ids /\ ~(ids[i] < n0)
                   /\ ids[i] < first + n /\ ids[i] - n0 + 1 = i
        <4>1. ids[i] = n0 + i - 1 /\ i \in Nat /\ 1 <= i /\ i <= n
          BY <1>5, <1>8, <1>17
        <4> QED BY <1>3, <1>5, <3>1, <4>1 DEF Ids
      <3>3. \A i \in 1..n : ~Exists(ids[i])
        BY <1>6, <3>2
      <3> QED BY <3>2, <3>3
    <2>2. /\ profiles' = [id \in Ids |-> IF id \in ToSet(ids)
                             THEN new[id - n0 + 1] ELSE profiles[id]]
          /\ list' = [list EXCEPT ![g] = @ \o Without(ids, ToSet(@))]
          /\ onDisk' = onDisk \cup {g} /\ Disturb(u)
      <3>1. n0 + 1 - 1 = n0
        BY <1>6
      <3> HIDE DEF new
      <3> QED BY <1>4, <1>17, <3>1
    <2>3. \A i \in 1..n : profiles'[ids[i]] = new[i]
      <3> HIDE DEF new
      <3> QED BY <1>15, <2>1, <2>2
    <2>4. \A id \in Ids : id \notin ToSet(ids) => profiles'[id] = profiles[id]
      BY <2>2
    <2> HIDE DEF new
    <2>5. profiles' \in [Ids -> {0} \cup Made']
      <3>1. \A id \in Ids : profiles'[id] \in {0} \cup Made'
        <4>1. \A id \in Ids : profiles[id] \in {0} \cup Made'
          BY <1>1, <1>11 DEF CatalogueTypes
        <4> QED BY <1>12, <1>15, <2>3, <2>4, <4>1
      <3> QED BY <2>2, <3>1
    <2>6. ASSUME NEW id \in Ids, Exists(id)'
          PROVE  IdOf(profiles[id])' = id /\ id < Len(ents')
      <3>1. CASE id \in ToSet(ids)
        <4>1. PICK i \in 1..n : id = ids[i]
          BY <1>15, <3>1
        <4>2. profiles'[id] = new[i]
          BY <2>3, <4>1
        <4>3. ents'[new[i]].id = ids[i]
          BY <1>14, <4>1
        <4> QED BY <1>10, <2>1, <4>1, <4>2, <4>3 DEF IdOf
      <3>2. CASE id \notin ToSet(ids)
        <4>1. profiles'[id] = profiles[id] /\ Exists(id) /\ profiles[id] \in Made
          BY <1>1, <2>4, <2>6, <3>2 DEF Exists, CatalogueTypes
        <4>2. IdOf(profiles[id]) = id /\ id < first /\ id \in Nat
          BY <1>1, <4>1 DEF CatalogueTypes, Ids
        <4> QED BY <1>5, <1>10, <1>11, <4>1, <4>2 DEF IdOf
      <3> QED BY <3>1, <3>2
    <2> DEFINE more == Without(ids, ToSet(list[g]))
    <2>7. list[g] \in Seq(I) /\ ids \in Seq(I)
      <3>1. ids \in Seq(I)
        BY <1>5, <1>8, SeqByPlaces
      <3> QED BY <1>1, <1>2, <3>1 DEF CatalogueTypes, I, g
    <2>8. more \in Seq(I) /\ ToSet(more) = ToSet(ids) \ ToSet(list[g])
      BY <2>7, WithoutDoes
    <2> HIDE DEF more
    <2>9. list[g] \o more \in Seq(I) /\ ToSet(list[g] \o more) = ToSet(list[g]) \cup ToSet(more)
      BY <2>7, <2>8, SetOfConcat
    <2>10. /\ list' \in [Groups -> Seq(I)] /\ list'[g] = list[g] \o more
           /\ ToSet(list'[g]) = ToSet(list[g]) \cup ToSet(ids)
      <3>1. list \in [Groups -> Seq(I)]
        BY <1>1 DEF CatalogueTypes, I
      <3>2. list' = [list EXCEPT ![g] = list[g] \o more]
        BY <2>2 DEF more
      <3> QED BY <1>2, <2>8, <2>9, <3>1, <3>2 DEF g
    <2>11. CatalogueTypes'
      BY <1>1, <1>2, <1>3, <1>10, <2>2, <2>5, <2>6, <2>10 DEF CatalogueTypes, I, g
    <2>12. Listed(g)' = Listed(g) \cup ToSet(new)
      <3>1. /\ Listed(g) = {profiles[id] : id \in {id \in ToSet(list[g]) : Exists(id)}}
            /\ Listed(g)' = {profiles'[id] : id \in {id \in ToSet(list'[g]) : Exists(id)'}}
        BY <1>1, <1>2, <2>11, EntsAreFound DEF EntsFound, g, Listed
      <3>2. \A i \in 1..n : Exists(ids[i])' /\ new[i] # 0
        <4>1. \A i \in 1..n : new[i] # 0
          BY <1>5, <1>12
        <4> QED BY <2>1, <2>3, <4>1 DEF Exists
      <3>3. \A id : id \in ToSet(list'[g]) /\ Exists(id)'
                      <=> \/ id \in ToSet(list[g]) /\ Exists(id)
                          \/ id \in ToSet(ids)
        <4>1. \A id \in Ids : id \notin ToSet(ids) => (Exists(id)' <=> Exists(id))
          BY <2>4 DEF Exists
        <4>2. \A id : Exists(id) \/ Exists(id)' => id \in Ids
          BY DEF Exists
        <4>3. \A id \in ToSet(ids) : ~Exists(id) /\ Exists(id)'
          BY <1>15, <2>1, <3>2
        <4> QED BY <2>10, <4>1, <4>2, <4>3
      <3>4. \A id : id \in ToSet(list[g]) /\ Exists(id) => profiles'[id] = profiles[id]
        <4>1. \A id \in ToSet(ids) : ~Exists(id)
          BY <1>15, <2>1
        <4> QED BY <2>4, <4>1 DEF Exists
      <3>5. {profiles'[id] : id \in ToSet(ids)} = ToSet(new)
        BY <1>15, <2>3
      <3> QED BY <3>1, <3>3, <3>4, <3>5
    <2>13. \A e \in Made : ents'[e] = ents[e]
      BY <1>10, <1>11
    <2>14. ASSUME NEW i \in DOMAIN got
          PROVE  new[i] \notin Made /\ ServerOf(new[i])' = got[i]
      <3>1. i \in 1..n /\ new[i]' = new[i]
        BY <1>5 DEF got
      <3>2. ServerOf(new[i])' = ents'[new[i]].server
        BY <3>1 DEF ServerOf, got
      <3> HIDE DEF new
      <3> QED BY <1>12, <1>14, <3>1, <3>2
    <2> QED BY <1>1, <1>3, <1>11, <1>13, <1>17, <2>2, <2>11, <2>12, <2>13, <2>14
            DEF there, g, got, new, Batched
  <1> QED BY <1>16, <1>17

-----------------------------------------------------------------------------
(* The steps *)

SubsInd == TypeOK /\ RoundInv /\ AloneInv

(* Objects are made, and those there are stay.                             *)
ObjectsStay == Made \subseteq Made' /\ \A e \in Made : ents'[e] = ents[e]

LEMMA CatalogueStays ==
    ASSUME CatalogueTypes, UNCHANGED catalogue
    PROVE  CatalogueTypes' /\ ObjectsStay /\ UNCHANGED <<profiles, list, groups>>
  BY DEF catalogue, CatalogueTypes, ObjectsStay, Made, Exists, IdOf

LEMMA RoundStays ==
    ASSUME RoundTypes, RoundInv, UNCHANGED round, groups' \subseteq groups
    PROVE  RoundTypes' /\ RoundInv'
  BY DEF RoundTypes, RoundInv, round

(* What an update found it still finds after a step that leaves the lists  *)
(* alone.                                                                  *)
LEMMA FindsTheSame ==
    ASSUME CatalogueTypes, ObjectsStay, UNCHANGED <<profiles, list, groups>>,
           NEW r \in UpdateStates, Undisturbed(r)
    PROVE  Undisturbed(r)'
  <1>1. \A g : Listed(g)' = Listed(g)
    BY DEF Listed, ProfileEnts, Exists
  <1>2. \A e \in Made : ServerOf(e)' = ServerOf(e) /\ IdOf(e)' = IdOf(e)
    BY DEF ObjectsStay, ServerOf, IdOf
  <1>3. \A id : Exists(id)' <=> Exists(id)
    BY DEF Exists
  <1>4. Started(r)' /\ Remembered(r)'
    BY <1>1 DEF Undisturbed, Started, Remembered
  <1>5. ASSUME r.at = "apply", ~SubClear, NEW i \in DOMAIN r.got, DOMAIN r.new = DOMAIN r.got
        PROVE  ServerOf(r.new[i])' = ServerOf(r.new[i])
    <2>1. r.new \in Seq(Made)
      BY <1>5, Shapes
    <2>2. r.new[i] \in Made
      <3> HIDE DEF Made
      <3> QED BY <1>5, <2>1
    <2> QED BY <1>2, <2>2
  <1>6. Added(r)'
    BY <1>1, <1>5 DEF Undisturbed, Added
  <1>7. ASSUME r.at = "cleanup"
        PROVE  \A e \in ToSet(r.all) \cup ToSet(r.old) : e \in Made
    <2>1. r.all \in Seq(Made) /\ r.old \in Seq(Made)
      BY <1>7, Shapes
    <2> HIDE DEF Made
    <2> QED BY <2>1 DEF ToSet
  <1>8. Applied(r)'
    BY <1>2, <1>3, <1>7 DEF Undisturbed, Applied
  <1> QED BY <1>4, <1>6, <1>8 DEF Undisturbed

(* An update that is nowhere finds nothing.                                *)
LEMMA NothingFound ==
    ASSUME NEW r, r.at \notin {"download", "add", "apply", "cleanup"}
    PROVE  Undisturbed(r) /\ Undisturbed(r)'
  BY DEF Undisturbed, Started, Remembered, Added, Applied

(* A step of one update, which moves it to r: the others find what they    *)
(* have found, or are disturbed.                                           *)
LEMMA OthersKeep ==
    ASSUME SubsInd, NEW u \in Updates, NEW r, r \in UpdateStates', UpdateAt(u, r),
           CatalogueTypes', RoundTypes', RoundInv', ObjectsStay, UNCHANGED started,
           \/ Disturb(u)
           \/ /\ UNCHANGED <<profiles, list, groups>>
              /\ disturbed \ {u} \subseteq disturbed' /\ disturbed' \subseteq Updates,
           u \notin disturbed' => Undisturbed(r)'
    PROVE  SubsInd'
  <1>1. TypeOK /\ RoundInv /\ AloneInv /\ CatalogueTypes
    BY ByTypes DEF SubsInd
  <1>2. update' \in [Updates -> UpdateStates']
    BY <1>1, MovedTypes DEF ObjectsStay
  <1>3. OtherTypes'
    <2>1. Busy \subseteq Updates
      BY DEF Busy
    <2> QED BY <1>1, <2>1, ByTypes DEF OtherTypes, Disturb
  <1>4. ASSUME NEW v \in Updates \ disturbed' PROVE Undisturbed(update[v])'
    <2>1. CASE v = u
      <3>1. update'[v] = r
        BY <1>1, <2>1, ByTypes DEF UpdateAt
      <3> QED BY <1>4, <2>1, <3>1 DEF Undisturbed, Started, Remembered, Added, Applied
    <2>2. CASE v # u
      <3>1. PICK s : s = update[v]
        OBVIOUS
      <3>2. update'[v] = s /\ s \in UpdateStates
        BY <1>1, <2>2, <3>1, ByTypes DEF UpdateAt
      <3>3. Undisturbed(s)'
        <4>1. CASE Disturb(u)
          <5>1. s.at = "none"
            BY <1>4, <2>2, <3>1, <4>1 DEF Disturb, Busy
          <5> QED BY <5>1, NothingFound
        <4>2. CASE /\ UNCHANGED <<profiles, list, groups>>
                   /\ disturbed \ {u} \subseteq disturbed'
          <5>1. v \in Updates \ disturbed
            BY <1>4, <2>2, <4>2
          <5>2. Undisturbed(s)
            BY <1>1, <3>1, <5>1 DEF AloneInv
          <5> QED BY <1>1, <3>2, <4>2, <5>2, FindsTheSame
        <4> QED BY <4>1, <4>2
      <3> QED BY <3>2, <3>3 DEF Undisturbed, Started, Remembered, Added, Applied
    <2> QED BY <2>1, <2>2
  <1>5. AloneInv'
    BY <1>4 DEF AloneInv
  <1> QED BY <1>2, <1>3, <1>5, ByTypes DEF SubsInd

LEMMA FinishDoes ==
    ASSUME SubsInd, NEW u \in Updates, SerialUpdate(u, nextOrder), UNCHANGED groups
    PROVE  /\ RoundTypes' /\ RoundInv'
           /\ \E r \in UpdateStates : UpdateAt(u, r) /\ r.at \in {"none", "begin"}
           /\ updating /\ ~updating' => groups \ Skipped \subseteq updated
  <1> DEFINE k == nextOrder
             i == NextToUpdate(k)
  <1>1. RoundTypes /\ RoundInv /\ k \in 1..Len(Order) + 1 /\ Len(Order) \in Nat
        /\ groups \subseteq Groups
    BY ByTypes, OrderAssumption DEF SubsInd, RoundTypes, CatalogueTypes
  <1>2. /\ i \in k..Len(Order) + 1 /\ \A j \in k..i - 1 : ShouldSkip(j)
        /\ i <= Len(Order) => ~ShouldSkip(i)
    BY <1>1, NextDoes
  <1>3. IF i > Len(Order)
        THEN UpdateAt(u, Ended) /\ updating' = FALSE /\ UNCHANGED <<nextOrder, updated>>
        ELSE /\ UpdateAt(u, Begun(Order[i], TRUE)) /\ updating' = TRUE
             /\ nextOrder' = NextToUpdate(i + 1)
             /\ updated' = updated \cup {Order[i]}
    BY DEF SerialUpdate
  <1> HIDE DEF i, k
  <1>4. CASE i > Len(Order)
    <2>0. updating' = FALSE /\ UNCHANGED <<nextOrder, updated, groups>>
      BY <1>3, <1>4
    <2>1. RoundTypes' /\ RoundInv'
      <3>1. RoundTypes'
        BY <1>1, <2>0 DEF RoundTypes
      <3>2. RoundInv'
        BY <1>1, <2>0 DEF RoundInv
      <3> QED BY <3>1, <3>2
    <2>2. Ended \in UpdateStates /\ Ended.at = "none"
      BY DEF UpdateStates, Ended
    <2>3. ASSUME NEW g \in groups \ Skipped PROVE g \in updated
      <3>1. PICK j \in 1..Len(Order) : g = Order[j]
        BY <1>1, OrderAssumption DEF ToSet
      <3>2. ~(j \in k..i - 1)
        BY <1>2, <2>3, <3>1 DEF ShouldSkip
      <3>3. j \in 1..nextOrder - 1
        BY <1>1, <1>2, <1>4, <3>1, <3>2 DEF k
      <3> QED BY <1>1, <2>3, <3>1, <3>3 DEF RoundInv
    <2> QED BY <1>3, <1>4, <2>1, <2>2, <2>3
  <1>5. CASE ~(i > Len(Order))
    <2>1. i \in 1..Len(Order) /\ i + 1 \in 1..Len(Order) + 1
      BY <1>1, <1>2, <1>5
    <2>2. Order[i] \in groups /\ Order[i] \in Groups
      BY <1>1, <1>2, <1>5, <2>1 DEF ShouldSkip
    <2>3. /\ NextToUpdate(i + 1) \in i + 1..Len(Order) + 1
          /\ \A j \in i + 1..NextToUpdate(i + 1) - 1 : ShouldSkip(j)
      BY <2>1, NextDoes
    <2>4. /\ updating' = TRUE /\ nextOrder' = NextToUpdate(i + 1)
          /\ updated' = updated \cup {Order[i]} /\ UpdateAt(u, Begun(Order[i], TRUE))
      BY <1>3, <1>5
    <2>5. RoundTypes'
      BY <1>1, <2>1, <2>2, <2>3, <2>4 DEF RoundTypes
    <2>6. ASSUME NEW j \in 1..nextOrder' - 1, Order[j] \in groups \ Skipped
          PROVE  Order[j] \in updated'
      <3>1. j \in Nat /\ ~ShouldSkip(j)
        BY <2>6 DEF ShouldSkip
      <3>2. ~(j \in k..i - 1) /\ ~(j \in i + 1..NextToUpdate(i + 1) - 1)
        BY <1>2, <2>3, <3>1
      <3>3. j \in 1..k - 1 \/ j = i
        BY <1>1, <1>2, <2>1, <2>3, <2>4, <2>6, <3>1, <3>2
      <3> QED BY <1>1, <2>4, <2>6, <3>3 DEF RoundInv, k
    <2>7. Begun(Order[i], TRUE) \in UpdateStates /\ Begun(Order[i], TRUE).at = "begin"
      BY <2>2 DEF Begun, UpdateStates
    <2> QED BY <2>4, <2>5, <2>6, <2>7 DEF RoundInv
  <1> QED BY <1>4, <1>5

LEMMA BeginsRound ==
    ASSUME SubsInd, NEW u \in Updates, UpdateAll(u)
    PROVE  /\ RoundTypes' /\ RoundInv'
           /\ \E g \in Groups : UpdateAt(u, Begun(g, TRUE))
  <1> DEFINE i == NextToUpdate(1)
  <1>1. RoundTypes /\ Len(Order) \in Nat /\ groups \subseteq Groups /\ UNCHANGED groups
        /\ 1 \in 1..Len(Order) + 1
    BY ByTypes, OrderAssumption DEF SubsInd, RoundTypes, CatalogueTypes, UpdateAll, catalogue
  <1>2. /\ i \in 1..Len(Order) + 1 /\ \A j \in 1..i - 1 : ShouldSkip(j)
        /\ i <= Len(Order) => ~ShouldSkip(i)
    BY <1>1, NextDoes
  <1>3. /\ i <= Len(Order)
        /\ UpdateAt(u, Begun(Order[i], TRUE)) /\ updating' = TRUE
        /\ nextOrder' = NextToUpdate(i + 1) /\ updated' = {Order[i]}
    BY DEF UpdateAll
  <1> HIDE DEF i
  <1>4. i \in 1..Len(Order) /\ i + 1 \in 1..Len(Order) + 1
    BY <1>1, <1>2, <1>3
  <1>5. Order[i] \in Groups
    BY <1>1, <1>2, <1>3 DEF ShouldSkip
  <1>6. /\ NextToUpdate(i + 1) \in i + 1..Len(Order) + 1
        /\ \A j \in i + 1..NextToUpdate(i + 1) - 1 : ShouldSkip(j)
    BY <1>4, NextDoes
  <1>7. RoundTypes'
    BY <1>1, <1>3, <1>4, <1>5, <1>6 DEF RoundTypes
  <1>8. ASSUME NEW j \in 1..nextOrder' - 1, Order[j] \in groups \ Skipped
        PROVE  Order[j] \in updated'
    <2>1. j \in Nat /\ ~ShouldSkip(j)
      BY <1>8 DEF ShouldSkip
    <2>2. ~(j \in 1..i - 1) /\ ~(j \in i + 1..NextToUpdate(i + 1) - 1)
      BY <1>2, <1>6, <2>1
    <2>3. j = i
      BY <1>1, <1>3, <1>4, <1>6, <1>8, <2>1, <2>2
    <2> QED BY <1>3, <2>3
  <1> QED BY <1>1, <1>3, <1>5, <1>7, <1>8 DEF RoundInv

(* The steps that leave the catalogue alone and disturb nobody.            *)
LEMMA QuietKeeps ==
    ASSUME SubsInd, NEW u \in Updates, NEW r, r \in UpdateStates, UpdateAt(u, r),
           UNCHANGED <<catalogue, started>>, RoundTypes', RoundInv',
           disturbed \ {u} \subseteq disturbed', disturbed' \subseteq Updates,
           u \notin disturbed' => Undisturbed(r)
    PROVE  SubsInd'
  <1>1. CatalogueTypes /\ CatalogueTypes' /\ ObjectsStay
        /\ UNCHANGED <<profiles, list, groups>>
    BY ByTypes, CatalogueStays DEF SubsInd
  <1>2. r \in UpdateStates'
    BY <1>1, StatesStay DEF ObjectsStay
  <1>3. u \notin disturbed' => Undisturbed(r)'
    BY <1>1, FindsTheSame
  <1> QED BY <1>1, <1>2, <1>3, OthersKeep

LEMMA LookUpKeeps == ASSUME SubsInd, NEW u \in Updates, LookUp(u) PROVE SubsInd'
  <1>1. /\ CatalogueTypes /\ RoundTypes /\ RoundInv /\ disturbed \subseteq Updates
        /\ UNCHANGED <<catalogue, started, round, disturbed>> /\ groups' = groups
    BY ByTypes DEF SubsInd, LookUp, OtherTypes, catalogue
  <1>2. PICK s : s = update[u]
    OBVIOUS
  <1>3. s \in UpdateStates /\ s.at = "begin"
    BY <1>2, ByTypes DEF LookUp, SubsInd
  <1>4. s \in [at : {"begin"}, g : Groups, inRound : BOOLEAN]
    BY <1>3, Shapes
  <1>5. PICK r : /\ UpdateAt(u, r)
                 /\ r = IF s.g \in groups \ Skipped THEN [s EXCEPT !.at = "download"]
                        ELSE [at |-> "finish", inRound |-> s.inRound]
    BY <1>2 DEF LookUp, ToFinish
  <1>6. CASE s.g \in groups \ Skipped
    <2>1. r \in [at : {"download"}, g : Groups, inRound : BOOLEAN] /\ r.g \in groups
      BY <1>4, <1>5, <1>6
    <2>2. r \in UpdateStates
      BY <2>1 DEF UpdateStates
    <2>3. Undisturbed(r)
      BY <2>1 DEF Undisturbed, Started, Remembered, Added, Applied
    <2> QED BY <1>1, <1>5, <2>2, <2>3, RoundStays, QuietKeeps
  <1>7. CASE ~(s.g \in groups \ Skipped)
    <2>1. r \in [at : {"finish"}, inRound : BOOLEAN]
      BY <1>4, <1>5, <1>7
    <2>2. r \in UpdateStates
      BY <2>1 DEF UpdateStates
    <2>3. Undisturbed(r)
      BY <2>1, NothingFound
    <2> QED BY <1>1, <1>5, <2>2, <2>3, RoundStays, QuietKeeps
  <1> QED BY <1>6, <1>7

LEMMA DownloadFailsKeeps ==
    ASSUME SubsInd, NEW u \in Updates, DownloadFails(u) PROVE SubsInd'
  <1>1. /\ CatalogueTypes /\ RoundTypes /\ RoundInv /\ disturbed \subseteq Updates
        /\ UNCHANGED <<catalogue, started, round, disturbed>> /\ groups' = groups
    BY ByTypes DEF SubsInd, DownloadFails, OtherTypes, catalogue
  <1>2. update[u] \in UpdateStates /\ update[u].at = "download"
    BY ByTypes DEF DownloadFails, SubsInd
  <1>3. update[u].inRound \in BOOLEAN
    BY <1>2, Shapes
  <1>4. PICK r : UpdateAt(u, r) /\ r = [at |-> "finish", inRound |-> update[u].inRound]
    BY DEF DownloadFails, ToFinish
  <1>5. r \in UpdateStates /\ Undisturbed(r)
    BY <1>3, <1>4, NothingFound DEF UpdateStates
  <1> QED BY <1>1, <1>4, <1>5, RoundStays, QuietKeeps

LEMMA FinishKeeps == ASSUME SubsInd, NEW u \in Updates, Finish(u) PROVE SubsInd'
  <1>1. /\ CatalogueTypes /\ RoundTypes /\ RoundInv /\ disturbed \subseteq Updates
        /\ UNCHANGED <<catalogue, started, disturbed>> /\ groups' = groups
    BY ByTypes DEF SubsInd, Finish, OtherTypes, catalogue
  <1>2. CASE update[u].inRound
    <2>1. SerialUpdate(u, nextOrder)
      BY <1>2 DEF Finish
    <2>2. PICK r \in UpdateStates : UpdateAt(u, r) /\ r.at \in {"none", "begin"}
      BY <1>1, <2>1, FinishDoes
    <2> QED BY <1>1, <2>1, <2>2, FinishDoes, NothingFound, QuietKeeps
  <1>3. CASE ~update[u].inRound
    <2>1. UpdateAt(u, Ended) /\ UNCHANGED round
      BY <1>3 DEF Finish
    <2>2. Ended \in UpdateStates /\ Undisturbed(Ended)
      BY NothingFound DEF UpdateStates, Ended
    <2> QED BY <1>1, <2>1, <2>2, RoundStays, QuietKeeps
  <1> QED BY <1>2, <1>3

LEMMA BeginKeeps ==
    ASSUME SubsInd, NEW u \in Updates, UpdateAll(u) \/ \E g \in Groups : UpdateGroup(u, g)
    PROVE  SubsInd'
  <1>1. /\ CatalogueTypes /\ RoundTypes /\ RoundInv /\ disturbed \subseteq Updates
        /\ UNCHANGED <<catalogue, started>> /\ groups' = groups
        /\ disturbed \ {u} \subseteq disturbed' /\ disturbed' \subseteq Updates
    BY ByTypes DEF SubsInd, UpdateAll, UpdateGroup, Alone, OtherTypes, catalogue
  <1>2. ASSUME NEW g \in Groups, NEW b \in BOOLEAN, UpdateAt(u, Begun(g, b)),
               RoundTypes', RoundInv'
        PROVE  SubsInd'
    <2>1. Begun(g, b) \in UpdateStates /\ Undisturbed(Begun(g, b))
      BY NothingFound DEF UpdateStates, Begun
    <2> QED BY <1>1, <1>2, <2>1, QuietKeeps
  <1>3. CASE UpdateAll(u)
    BY <1>2, <1>3, BeginsRound
  <1>4. CASE \E g \in Groups : UpdateGroup(u, g)
    BY <1>1, <1>2, <1>4, RoundStays DEF UpdateGroup
  <1> QED BY <1>3, <1>4

(* Those that delete profiles.                                             *)
LEMMA DeletingKeeps ==
    ASSUME SubsInd, NEW u \in Updates, NEW r, r \in UpdateStates, UpdateAt(u, r),
           NEW ids, BatchDeleteProfiles(ids), Disturb(u), UNCHANGED <<started, round>>,
           u \notin disturbed' => Undisturbed(r)'
    PROVE  SubsInd'
  <1>1. CatalogueTypes /\ RoundTypes /\ RoundInv
    BY ByTypes DEF SubsInd
  <1>2. CatalogueTypes' /\ UNCHANGED <<ents, groups>> /\ Made' = Made
    BY <1>1, Deletes
  <1>3. ObjectsStay
    BY <1>2 DEF ObjectsStay
  <1>4. r \in UpdateStates'
    BY <1>2, StatesStay
  <1>5. RoundTypes' /\ RoundInv'
    BY <1>1, <1>2, RoundStays
  <1> QED BY <1>2, <1>3, <1>4, <1>5, OthersKeep

LEMMA DownloadedKeeps == ASSUME SubsInd, NEW u \in Updates, Downloaded(u) PROVE SubsInd'
  <1>1. /\ CatalogueTypes /\ RoundTypes /\ RoundInv /\ disturbed \subseteq Updates
        /\ UNCHANGED <<started, round>>
    BY ByTypes DEF SubsInd, Downloaded, OtherTypes
  <1>2. PICK s : s = update[u]
    OBVIOUS
  <1>3. s \in UpdateStates /\ s.at = "download"
    BY <1>2, ByTypes DEF Downloaded, SubsInd
  <1>4. s.g \in Groups /\ s.inRound \in BOOLEAN
    BY <1>3, Shapes
  <1>5. u \notin disturbed => s.g \in groups
    BY <1>2, <1>3 DEF SubsInd, AloneInv, Undisturbed, Started
  <1>6. PICK r : \E d \in Downloads :
                    /\ UpdateAt(u, r)
                    /\ r = [at |-> "add", g |-> s.g, inRound |-> s.inRound,
                            old |-> ProfileEnts(s.g), got |-> d]
    BY <1>2 DEF Downloaded
  <1>7. r \in [at : {"add"}, g : Groups, inRound : BOOLEAN,
               old : Seq(Made), got : Seq(Servers)]
    <2>1. ProfileEnts(s.g) \in Seq(Made)
      BY <1>1, <1>4, EntsOf
    <2>2. Downloads \subseteq Seq(Servers)
      BY DownloadAssumption
    <2> HIDE DEF Made
    <2> QED BY <1>4, <1>6, <2>1, <2>2
  <1>8. r \in UpdateStates
    BY <1>7 DEF UpdateStates
  <1>9. CASE SubClear
    <2>1. BatchDeleteProfiles(Walked(list[s.g])) /\ Disturb(u)
      BY <1>2, <1>9 DEF Downloaded
    <2>2. UNCHANGED groups
      BY <1>1, <2>1, Deletes
    <2>3. u \notin disturbed' => Undisturbed(r)'
      BY <1>5, <1>6, <1>9, <2>1, <2>2
         DEF Undisturbed, Started, Remembered, Added, Applied, Disturb
    <2>4. PICK ids : ids = Walked(list[s.g])
      OBVIOUS
    <2> QED BY <1>1, <1>6, <1>8, <2>1, <2>3, <2>4, DeletingKeeps
  <1>10. CASE ~SubClear
    <2>1. onDisk' = onDisk \cup {s.g} /\ UNCHANGED <<ents, profiles, list, groups, disturbed>>
      BY <1>2, <1>10 DEF Downloaded
    <2>2. CatalogueTypes' /\ ObjectsStay
      BY <1>1, <1>4, <2>1 DEF CatalogueTypes, ObjectsStay, Made, Exists, IdOf
    <2>3. RoundTypes' /\ RoundInv'
      BY <1>1, <2>1, RoundStays
    <2>4. ASSUME u \notin disturbed' PROVE Undisturbed(r)
      <3>1. ToSet(r.old) = Listed(r.g) /\ r.g \in groups
        BY <1>5, <1>6, <2>1, <2>4 DEF Listed
      <3> QED BY <1>7, <3>1 DEF Undisturbed, Started, Remembered, Added, Applied
    <2>5. u \notin disturbed' => Undisturbed(r)'
      BY <1>1, <1>8, <2>1, <2>2, <2>4, FindsTheSame
    <2>6. r \in UpdateStates'
      BY <1>8, <2>2, StatesStay DEF ObjectsStay
    <2> QED BY <1>1, <1>6, <2>1, <2>2, <2>3, <2>5, <2>6, OthersKeep
  <1> QED BY <1>9, <1>10

LEMMA AddKeeps == ASSUME SubsInd, NEW u \in Updates, AddProfileBatch(u) PROVE SubsInd'
  <1>1. /\ TypeOK /\ CatalogueTypes /\ RoundTypes /\ RoundInv /\ disturbed \subseteq Updates
    BY ByTypes DEF SubsInd, OtherTypes
  <1>2. PICK s : s = update[u]
    OBVIOUS
  <1>3. PICK first : first = Len(ents)
    OBVIOUS
  <1> DEFINE new == [i \in DOMAIN s.got |-> first + i]
  <1>a. Batched(u, s, new)
    BY <1>1, <1>2, <1>3, BatchAdds
  <1>4. /\ s.at = "add" /\ new \in Seq(Made')
        /\ UpdateAt(u, [at |-> "apply", g |-> s.g, inRound |-> s.inRound,
                        old |-> s.old, got |-> s.got, new |-> new])
        /\ CatalogueTypes' /\ Made \subseteq Made'
        /\ \A e \in Made : ents'[e] = ents[e]
        /\ \A i \in DOMAIN s.got : new[i] \notin Made /\ ServerOf(new[i])' = s.got[i]
        /\ UNCHANGED <<groups, started, round>>
        /\ IF s.g \in groups
           THEN Disturb(u) /\ Listed(s.g)' = Listed(s.g) \cup ToSet(new)
           ELSE UNCHANGED <<profiles, list, onDisk, disturbed>>
    BY <1>a DEF Batched
  <1>5. s \in [at : {"add"}, g : Groups, inRound : BOOLEAN,
               old : Seq(Made), got : Seq(Servers)]
    BY <1>1, <1>2, <1>4, ByTypes, Shapes
  <1>6. DOMAIN new = DOMAIN s.got
    OBVIOUS
  <1>7. \A i \in DOMAIN new : ServerOf(new[i])' = s.got[i] /\ new[i] \notin Made
    BY <1>4
  <1> HIDE DEF new
  <1>8. PICK r : r = [at |-> "apply", g |-> s.g, inRound |-> s.inRound,
                      old |-> s.old, got |-> s.got, new |-> new]
    OBVIOUS
  <1>9. /\ r.at = "apply" /\ r.g = s.g /\ r.old = s.old /\ r.got = s.got /\ r.new = new
        /\ UpdateAt(u, r)
    BY <1>4, <1>8
  <1>10. r \in UpdateStates'
    <2>1. s.old \in Seq(Made')
      BY <1>4, <1>5, WiderSeq
    <2>2. r \in [at : {"apply"}, g : Groups, inRound : BOOLEAN,
                 old : Seq(Made'), got : Seq(Servers), new : Seq(Made')]
      BY <1>4, <1>5, <1>8, <2>1
    <2> QED BY <2>2 DEF UpdateStates
  <1>11. ObjectsStay /\ RoundTypes' /\ RoundInv'
    BY <1>1, <1>4, RoundStays DEF ObjectsStay
  <1>12. CASE s.g \notin groups
    <2>1. u \in disturbed
      BY <1>2, <1>4, <1>12 DEF SubsInd, AloneInv, Undisturbed, Started
    <2>2. UNCHANGED <<profiles, list, groups, disturbed>>
      BY <1>4, <1>12
    <2> QED BY <1>1, <1>4, <1>9, <1>10, <1>11, <2>1, <2>2, OthersKeep
  <1>13. CASE s.g \in groups
    <2>1. Disturb(u) /\ Listed(s.g)' = Listed(s.g) \cup ToSet(new)
      BY <1>4, <1>13
    <2>2. ASSUME u \notin disturbed', ~SubClear PROVE Added(r)'
      <3>1. u \notin disturbed
        BY <2>1, <2>2 DEF Disturb
      <3>2. ToSet(s.old) = Listed(s.g)
        BY <1>2, <1>4, <2>2, <3>1 DEF SubsInd, AloneInv, Undisturbed, Remembered
      <3>3. ToSet(s.old) \subseteq Made
        <4>1. s.old \in Seq(Made)
          BY <1>5
        <4> HIDE DEF Made
        <4> QED BY <4>1 DEF ToSet
      <3>4. ToSet(s.old) \cap ToSet(new) = {}
        BY <1>7, <3>3 DEF ToSet
      <3> QED BY <1>6, <1>7, <1>9, <2>1, <3>2, <3>4 DEF Added
    <2>3. u \notin disturbed' => Undisturbed(r)'
      BY <1>4, <1>9, <1>13, <2>2 DEF Undisturbed, Started, Remembered, Added, Applied
    <2> QED BY <1>1, <1>4, <1>9, <1>10, <1>11, <2>1, <2>3, OthersKeep
  <1> QED BY <1>12, <1>13

LEMMA ApplyKeeps == ASSUME SubsInd, NEW u \in Updates, Apply(u) PROVE SubsInd'
  <1>1. /\ CatalogueTypes /\ RoundTypes /\ RoundInv /\ disturbed \subseteq Updates
        /\ UNCHANGED <<started, round>>
    BY ByTypes DEF SubsInd, OtherTypes, Apply
  <1>2. PICK s : s = update[u]
    OBVIOUS
  <1>3. s \in UpdateStates /\ s.at = "apply"
    BY <1>2, ByTypes DEF SubsInd, Apply
  <1>4. /\ s.g \in Groups /\ s.inRound \in BOOLEAN
        /\ s.old \in Seq(Made) /\ s.got \in Seq(Servers) /\ s.new \in Seq(Made)
    BY <1>3, Shapes
  <1>5. CASE SubClear
    <2>1. PICK r : r = [at |-> "post", g |-> s.g, inRound |-> s.inRound]
      OBVIOUS
    <2>2. UpdateAt(u, r) /\ UNCHANGED <<catalogue, disturbed>>
      BY <1>2, <1>5, <2>1 DEF Apply
    <2>3. r \in UpdateStates /\ Undisturbed(r)
      BY <1>4, <2>1, NothingFound DEF UpdateStates
    <2> QED BY <1>1, <2>2, <2>3, RoundStays, QuietKeeps DEF catalogue
  <1>6. CASE ~SubClear
    <2>1. PICK all : all = ProfileEnts(s.g)
      OBVIOUS
    <2> DEFINE Common(e) == CommonOf(s.old, ServerOf(e))
               Kept(e) == IF e \in ToSet(all) \ ToSet(s.old) /\ Common(e) # 0
                          THEN Common(e) ELSE e
    <2>2. PICK kept : kept = [i \in DOMAIN s.new |-> Kept(s.new[i])]
      OBVIOUS
    <2>3. PICK r : r = [at |-> "cleanup", g |-> s.g, inRound |-> s.inRound,
                        old |-> s.old, got |-> s.got, all |-> all]
      OBVIOUS
    <2>4. /\ UpdateAt(u, r) /\ onDisk' = onDisk \cup {s.g} /\ Disturb(u)
          /\ list' = [list EXCEPT ![s.g] = [i \in DOMAIN s.new |-> IdOf(kept[i])]]
          /\ UNCHANGED <<ents, profiles, groups>>
      BY <1>2, <1>6, <2>1, <2>2, <2>3 DEF Apply
    <2>5. all \in Seq(Made) /\ ToSet(all) = Listed(s.g)
      BY <1>1, <1>4, <2>1, EntsOf DEF Listed
    <2>6. \A i \in DOMAIN s.new : s.new[i] \in Made
      <3> HIDE DEF Made
      <3> QED BY <1>4
    <2>7. \A e \in ToSet(s.old) : e \in Made
      <3> HIDE DEF Made
      <3> QED BY <1>4 DEF ToSet
    <2>8. ASSUME NEW i \in DOMAIN s.new
          PROVE  IF /\ s.new[i] \in ToSet(all) \ ToSet(s.old)
                    /\ \E e \in ToSet(s.old) : ServerOf(e) = ServerOf(s.new[i])
                 THEN /\ kept[i] \in ToSet(s.old)
                      /\ ServerOf(kept[i]) = ServerOf(s.new[i])
                 ELSE kept[i] = s.new[i]
      <3>1. kept[i] = Kept(s.new[i])
        BY <2>2
      <3>2. IF \E e \in ToSet(s.old) : ServerOf(e) = ServerOf(s.new[i])
            THEN /\ Common(s.new[i]) \in ToSet(s.old) /\ Common(s.new[i]) # 0
                 /\ ServerOf(Common(s.new[i])) = ServerOf(s.new[i])
            ELSE Common(s.new[i]) = 0
        BY <1>1, <1>4, CommonDoes
      <3> QED BY <3>1, <3>2
    <2> HIDE DEF Kept
    <2>9. \A i \in DOMAIN s.new : kept[i] \in Made /\ IdOf(kept[i]) \in Ids \cup {-1}
      BY <1>1, <2>6, <2>7, <2>8, EntTypes
    <2>10. list' \in [Groups -> Seq(Ids \cup {-1})]
           /\ list'[s.g] = [i \in DOMAIN s.new |-> IdOf(kept[i])]
      <3> DEFINE I == Ids \cup {-1}
                 ids == [i \in DOMAIN s.new |-> IdOf(kept[i])]
      <3>1. DOMAIN s.new = 1..Len(s.new) /\ Len(s.new) \in Nat
        BY <1>4
      <3>2. \A i \in 1..Len(s.new) : ids[i] \in I
        BY <2>9, <3>1
      <3>3. list \in [Groups -> Seq(I)]
        BY <1>1 DEF CatalogueTypes
      <3>4. ids = [i \in 1..Len(s.new) |-> ids[i]]
        BY <3>1
      <3> HIDE DEF I, ids
      <3>5. ids \in Seq(I)
        BY <3>1, <3>2, <3>4, SeqByPlaces
      <3>6. list' = [list EXCEPT ![s.g] = ids]
        BY <2>4 DEF ids
      <3>7. list' \in [Groups -> Seq(I)] /\ list'[s.g] = ids
        BY <1>4, <3>3, <3>5, <3>6
      <3> QED BY <3>7 DEF I, ids
    <2>11. CatalogueTypes' /\ ObjectsStay
      BY <1>1, <1>4, <2>4, <2>10 DEF CatalogueTypes, ObjectsStay, Made, Exists, IdOf
    <2>12. r \in UpdateStates'
      <3>1. r \in UpdateStates
        BY <1>4, <2>3, <2>5 DEF UpdateStates
      <3> QED BY <2>11, <3>1, StatesStay DEF ObjectsStay
    <2>13. RoundTypes' /\ RoundInv'
      BY <1>1, <2>4, RoundStays
    <2>14. ASSUME u \notin disturbed' PROVE Undisturbed(r)'
      <3>1. Started(s) /\ Added(s)
        BY <1>2, <2>4, <2>14 DEF SubsInd, AloneInv, Undisturbed, Disturb
      <3>2. /\ s.g \in groups
            /\ ToSet(all) = ToSet(s.old) \cup ToSet(s.new)
            /\ ToSet(s.old) \cap ToSet(s.new) = {}
            /\ DOMAIN s.new = DOMAIN s.got
            /\ \A i \in DOMAIN s.got : ServerOf(s.new[i]) = s.got[i]
        BY <1>3, <1>6, <2>5, <3>1 DEF Started, Added
      <3>3. /\ \A e : ServerOf(e)' = ServerOf(e) /\ IdOf(e)' = IdOf(e)
            /\ \A id : Exists(id)' <=> Exists(id)
        BY <2>4 DEF ServerOf, IdOf, Exists
      <3>4. \A i \in DOMAIN s.new : s.new[i] \in ToSet(s.new)
        BY DEF ToSet
      <3>5. ASSUME NEW i \in DOMAIN s.got
            PROVE  /\ kept[i] \in ToSet(all) /\ ServerOf(kept[i]) = s.got[i]
                   /\ \A e \in ToSet(s.old) : ServerOf(e) = s.got[i] =>
                        kept[i] \in ToSet(s.old)
        BY <2>8, <3>2, <3>4
      <3>6. \A i \in DOMAIN s.got : list'[s.g][i] = IdOf(kept[i])
        BY <2>10, <3>2
      <3>7. DOMAIN list'[s.g] = DOMAIN s.got
        BY <2>10, <3>2
      <3>8. /\ r.at = "cleanup" /\ r.g = s.g /\ r.all = all /\ r.old = s.old
            /\ r.got = s.got
        BY <2>3
      <3>9. \A e \in ToSet(all) : Exists(IdOf(e)) /\ profiles[IdOf(e)] = e
        BY <1>1, <1>4, <2>5, EntsOf
      <3>10. ASSUME NEW e \in ToSet(s.old), ServerOf(e) \in ToSet(s.got)
             PROVE  \E k \in ToSet(s.old) :
                       ServerOf(k) = ServerOf(e) /\ IdOf(k) \in ToSet(list'[s.g])
        <4>1. PICK i \in DOMAIN s.got : ServerOf(e) = s.got[i]
          BY <3>10 DEF ToSet
        <4>2. kept[i] \in ToSet(s.old) /\ ServerOf(kept[i]) = ServerOf(e)
          BY <3>5, <4>1
        <4>3. IdOf(kept[i]) \in ToSet(list'[s.g])
          BY <3>6, <3>7 DEF ToSet
        <4> QED BY <4>2, <4>3
      <3>11. \A i \in DOMAIN s.got : \E k \in ToSet(all) :
                list'[s.g][i] = IdOf(k) /\ ServerOf(k) = s.got[i]
        BY <3>5, <3>6
      <3>12. Applied(r)'
        BY <2>4, <3>2, <3>3, <3>7, <3>8, <3>9, <3>10, <3>11 DEF Applied
      <3> QED BY <2>4, <3>2, <3>8, <3>12 DEF Undisturbed, Started, Remembered, Added
    <2> QED BY <1>1, <2>4, <2>11, <2>12, <2>13, <2>14, OthersKeep
  <1> QED BY <1>5, <1>6

LEMMA CleanupKeeps == ASSUME SubsInd, NEW u \in Updates, Cleanup(u) PROVE SubsInd'
  <1>1. update[u] \in UpdateStates /\ update[u].at = "cleanup"
    BY ByTypes DEF SubsInd, Cleanup
  <1>2. update[u].g \in Groups /\ update[u].inRound \in BOOLEAN
    BY <1>1, Shapes
  <1>3. PICK r : UpdateAt(u, r) /\ r = [at |-> "post", g |-> update[u].g,
                                        inRound |-> update[u].inRound]
    BY DEF Cleanup, Post
  <1>4. r \in UpdateStates /\ r.at = "post"
    BY <1>2, <1>3 DEF UpdateStates
  <1>5. PICK ids : BatchDeleteProfiles(ids)
    BY DEF Cleanup
  <1>6. Disturb(u) /\ UNCHANGED <<started, round>>
    BY DEF Cleanup
  <1> QED BY <1>3, <1>4, <1>5, <1>6, NothingFound, DeletingKeeps

LEMMA RemoveDuplicatesKeeps ==
    ASSUME SubsInd, NEW u \in Updates, RemoveDuplicates(u) PROVE SubsInd'
  <1>1. PICK s : s = update[u]
    OBVIOUS
  <1>2. s \in UpdateStates /\ s.at = "post"
    BY <1>1, ByTypes DEF SubsInd, RemoveDuplicates
  <1>3. s \in [at : {"post"}, g : Groups, inRound : BOOLEAN]
    BY <1>2, Shapes
  <1>4. PICK r : UpdateAt(u, r) /\ r = [s EXCEPT !.at = "invalid"]
    BY <1>1 DEF RemoveDuplicates
  <1>5. r \in [at : {"invalid"}, g : Groups, inRound : BOOLEAN]
    BY <1>3, <1>4
  <1>6. r \in UpdateStates /\ r.at = "invalid"
    BY <1>5 DEF UpdateStates
  <1>7. UNCHANGED <<started, round>>
    BY DEF RemoveDuplicates
  <1>8. CASE RmDuplicates
    <2>1. PICK ids : BatchDeleteProfiles(ids) /\ Disturb(u)
      BY <1>8 DEF RemoveDuplicates
    <2> QED BY <1>4, <1>6, <1>7, <2>1, NothingFound, DeletingKeeps
  <1>9. CASE ~RmDuplicates
    <2>1. /\ UNCHANGED <<catalogue, disturbed>> /\ groups' = groups
          /\ disturbed \subseteq Updates /\ RoundTypes /\ RoundInv
      BY <1>9, ByTypes DEF RemoveDuplicates, catalogue, SubsInd, OtherTypes
    <2> QED BY <1>4, <1>6, <1>7, <2>1, NothingFound, RoundStays, QuietKeeps
  <1> QED BY <1>8, <1>9

LEMMA RemoveInvalidKeeps ==
    ASSUME SubsInd, NEW u \in Updates, RemoveInvalid(u) PROVE SubsInd'
  <1> DEFINE es == ProfileEnts(update[u].g)
  <1>1. update[u] \in UpdateStates /\ update[u].at = "invalid"
    BY ByTypes DEF SubsInd, RemoveInvalid
  <1>2. update[u].inRound \in BOOLEAN
    BY <1>1, Shapes
  <1>3. UNCHANGED <<started, round>>
    BY DEF RemoveInvalid
  <1>4. ASSUME NEW r \in UpdateStates, UpdateAt(u, r), r.at \in {"stuck", "finish"},
               UNCHANGED <<catalogue, disturbed>>
        PROVE  SubsInd'
    <2>1. /\ groups' = groups /\ disturbed \subseteq Updates /\ RoundTypes /\ RoundInv
      BY <1>4, ByTypes DEF catalogue, SubsInd, OtherTypes
    <2> QED BY <1>3, <1>4, <2>1, NothingFound, RoundStays, QuietKeeps
  <1>5. CASE RmInvalid /\ es = <<>>
    <2>1. UpdateAt(u, [at |-> "stuck"]) /\ UNCHANGED <<catalogue, disturbed>>
      BY <1>5 DEF RemoveInvalid
    <2>2. [at |-> "stuck"] \in UpdateStates /\ [at |-> "stuck"].at = "stuck"
      BY DEF UpdateStates
    <2> QED BY <1>4, <2>1, <2>2
  <1>6. CASE ~(RmInvalid /\ es = <<>>)
    <2>1. PICK r : UpdateAt(u, r) /\ r = [at |-> "finish", inRound |-> update[u].inRound]
      BY <1>6 DEF RemoveInvalid, ToFinish
    <2>2. r \in UpdateStates /\ r.at = "finish"
      BY <1>2, <2>1 DEF UpdateStates
    <2>3. CASE RmInvalid
      <3>1. PICK ids : BatchDeleteProfiles(ids) /\ Disturb(u)
        BY <1>6, <2>3 DEF RemoveInvalid
      <3> QED BY <1>3, <2>1, <2>2, <3>1, NothingFound, DeletingKeeps
    <2>4. CASE ~RmInvalid
      <3>1. UNCHANGED <<catalogue, disturbed>>
        BY <1>6, <2>4 DEF RemoveInvalid
      <3> QED BY <1>4, <2>1, <2>2, <3>1
    <2> QED BY <2>3, <2>4
  <1> QED BY <1>5, <1>6

(* What the user does, who disturbs every update where he changes the      *)
(* catalogue.                                                              *)
LEMMA OutsideKeeps ==
    ASSUME SubsInd, CatalogueTypes', ObjectsStay, OtherTypes', RoundTypes', RoundInv',
           UNCHANGED update,
           \/ disturbed' = disturbed \cup Busy
           \/ UNCHANGED <<profiles, list, groups, disturbed>>
    PROVE  SubsInd'
  <1>1. TypeOK /\ AloneInv /\ CatalogueTypes /\ update \in [Updates -> UpdateStates]
    BY ByTypes DEF SubsInd
  <1>2. TypeOK'
    BY <1>1, ByTypes, StatesStay DEF ObjectsStay
  <1>3. ASSUME NEW v \in Updates \ disturbed' PROVE Undisturbed(update[v])'
    <2>1. PICK s : s = update[v]
      OBVIOUS
    <2>2. s \in UpdateStates /\ update'[v] = s
      BY <1>1, <2>1
    <2>3. Undisturbed(s)'
      <3>1. CASE disturbed' = disturbed \cup Busy
        <4>1. s.at = "none"
          BY <1>3, <2>1, <3>1 DEF Busy
        <4> QED BY <4>1, NothingFound
      <3>2. CASE UNCHANGED <<profiles, list, groups, disturbed>>
        <4>1. Undisturbed(s)
          BY <1>1, <1>3, <2>1, <3>2 DEF AloneInv
        <4> QED BY <1>1, <2>2, <3>2, <4>1, FindsTheSame
      <3> QED BY <3>1, <3>2
    <2> QED BY <2>2, <2>3 DEF Undisturbed, Started, Remembered, Added, Applied
  <1> QED BY <1>2, <1>3 DEF SubsInd, AloneInv

LEMMA UserStartsKeep ==
    ASSUME SubsInd, UserStop \/ \E id \in Ids : UserStart(id) PROVE SubsInd'
  <1>1. /\ CatalogueTypes /\ RoundTypes /\ RoundInv /\ disturbed \subseteq Updates
        /\ UNCHANGED <<catalogue, update, round, disturbed>>
        /\ started' \in Ids \cup {None}
    BY ByTypes DEF SubsInd, OtherTypes, UserStop, UserStart
  <1>2. CatalogueTypes' /\ ObjectsStay /\ UNCHANGED <<profiles, list, groups>>
    BY <1>1, CatalogueStays
  <1>3. OtherTypes' /\ RoundTypes' /\ RoundInv'
    BY <1>1, <1>2, RoundStays DEF OtherTypes
  <1> QED BY <1>1, <1>2, <1>3, OutsideKeeps

LEMMA DeleteProfileKeeps ==
    ASSUME SubsInd, NEW id \in Ids, DeleteProfile(id) PROVE SubsInd'
  <1>1. CatalogueTypes /\ RoundTypes /\ RoundInv /\ OtherTypes
    BY ByTypes DEF SubsInd
  <1>2. /\ BatchDeleteProfiles({id}) /\ disturbed' = disturbed \cup Busy
        /\ UNCHANGED <<started, update, round>>
    BY DEF DeleteProfile
  <1>3. CatalogueTypes' /\ UNCHANGED <<ents, groups>> /\ Made' = Made
    BY <1>1, <1>2, Deletes
  <1>4. ObjectsStay
    BY <1>3 DEF ObjectsStay
  <1>5. OtherTypes' /\ RoundTypes' /\ RoundInv'
    BY <1>1, <1>2, <1>3, RoundStays DEF OtherTypes, Busy
  <1> QED BY <1>2, <1>3, <1>4, <1>5, OutsideKeeps

LEMMA GroupsAreFinite == IsFiniteSet(Groups)
  <1>1. Len(Order) \in Nat /\ DOMAIN Order = 1..Len(Order)
    BY OrderAssumption
  <1>2. IsFiniteSet(1..Len(Order))
    BY <1>1, FS_Interval
  <1>3. \A g \in Groups : \E i \in 1..Len(Order) : Order[i] = g
    BY <1>1, OrderAssumption DEF ToSet
  <1>4. Order \in [1..Len(Order) -> Groups]
    BY <1>1, OrderAssumption
  <1>5. Order \in Surjection(1..Len(Order), Groups)
    BY <1>3, <1>4 DEF Surjection
  <1> QED BY <1>2, <1>5, FS_Surjection

LEMMA DeleteGroupKeeps ==
    ASSUME SubsInd, NEW g \in Groups, DeleteGroup(g) PROVE SubsInd'
  <1> DEFINE D == Deletable(ToSet(list[g]))
             I == Ids \cup {-1}
  <1>1. CatalogueTypes /\ RoundTypes /\ RoundInv /\ OtherTypes
    BY ByTypes DEF SubsInd
  <1>2. /\ profiles' = [id \in Ids |-> IF id \in D THEN 0 ELSE profiles[id]]
        /\ list' = [list EXCEPT ![g] = Without(list[g], D)]
        /\ groups' = groups \ {g} /\ onDisk' = onDisk \ {g}
        /\ disturbed' = disturbed \cup Busy
        /\ UNCHANGED <<ents, started, update, round>>
    BY DEF DeleteGroup
  <1>3. groups' # {}
    <2>1. IsFiniteSet(groups)
      BY <1>1, GroupsAreFinite, FS_Subset DEF CatalogueTypes
    <2>2. Cardinality(groups) > 1
      BY DEF DeleteGroup
    <2>3. ASSUME groups \ {g} = {} PROVE FALSE
      <3>1. groups = {g}
        BY <2>3 DEF DeleteGroup
      <3>2. Cardinality(groups) = 1
        BY <3>1, FS_Singleton
      <3> QED BY <2>2, <3>2
    <2> QED BY <1>2, <2>3
  <1> HIDE DEF D
  <1>4. list' \in [Groups -> Seq(I)]
    <2>1. list \in [Groups -> Seq(I)]
      BY <1>1 DEF CatalogueTypes
    <2> HIDE DEF I
    <2>2. Without(list[g], D) \in Seq(I)
      BY <2>1, WithoutDoes
    <2> QED BY <1>2, <2>1, <2>2
  <1>5. CatalogueTypes' /\ ObjectsStay
    BY <1>1, <1>2, <1>3, <1>4 DEF CatalogueTypes, ObjectsStay, Made, Exists, IdOf
  <1>6. OtherTypes' /\ RoundTypes' /\ RoundInv'
    BY <1>1, <1>2, RoundStays DEF OtherTypes, Busy
  <1> QED BY <1>2, <1>5, <1>6, OutsideKeeps

LEMMA InitSubs == Init => SubsInd
  <1> SUFFICES ASSUME Init PROVE SubsInd
    OBVIOUS
  <1> DEFINE I == Ids \cup {-1}
  <1>1. PICK all \in Catalogues :
          /\ ents = [i \in DOMAIN all |->
                [id |-> i - 1, gid |-> all[i].gid, server |-> all[i].server]]
          /\ profiles = [id \in Ids |-> IF id < Len(all) THEN id + 1 ELSE 0]
          /\ list = [g \in Groups |->
                Without([i \in DOMAIN all |-> i - 1],
                        {i - 1 : i \in {i \in DOMAIN all : all[i].gid # g}})]
    BY DEF Init
  <1>2. /\ all \in Seq([gid : Groups, server : Servers])
        /\ Len(all) <= MaxEnts /\ MaxEnts \in Nat
    BY DownloadAssumption, EntAssumption
  <1>3. /\ DOMAIN all = 1..Len(all) /\ Len(all) \in Nat
        /\ \A i \in 1..Len(all) : all[i].gid \in Groups /\ all[i].server \in Servers
                                  /\ i \in Nat /\ i - 1 \in Ids
    <2>1. DOMAIN all = 1..Len(all) /\ Len(all) \in Nat
      BY <1>2
    <2>2. ASSUME NEW i \in 1..Len(all)
          PROVE  all[i] \in [gid : Groups, server : Servers]
      <3> DEFINE P == [gid : Groups, server : Servers]
      <3> HIDE DEF P
      <3>1. all \in Seq(P)
        BY <1>2 DEF P
      <3>2. all[i] \in P
        BY <2>1, <3>1
      <3> QED BY <3>2 DEF P
    <2>3. ASSUME NEW i \in 1..Len(all) PROVE i \in Nat /\ i - 1 \in 0..MaxEnts
      BY <1>2, <2>1
    <2> QED BY <2>1, <2>2, <2>3 DEF Ids
  <1>4. ents \in Seq(Objects) /\ Len(ents) = Len(all) /\ Made = 1..Len(all)
    <2>1. \A i \in 1..Len(all) : ents[i] \in Objects
      BY <1>1, <1>3 DEF Objects
    <2>2. ents = [i \in 1..Len(all) |-> ents[i]] /\ DOMAIN ents = 1..Len(all)
      BY <1>1, <1>3
    <2> HIDE DEF Objects
    <2> QED BY <1>3, <2>1, <2>2, SeqByPlaces DEF Made
  <1>5. profiles \in [Ids -> {0} \cup Made]
    <2>1. \A id \in Ids : id \in Nat /\ (id < Len(all) => id + 1 \in Made)
      BY <1>2, <1>3, <1>4 DEF Ids
    <2> QED BY <1>1, <2>1
  <1>6. ASSUME NEW id \in Ids, Exists(id) PROVE IdOf(profiles[id]) = id /\ id < Len(ents)
    <2>1. id \in Nat /\ id < Len(all) /\ profiles[id] = id + 1 /\ id + 1 \in DOMAIN all
      BY <1>1, <1>2, <1>3, <1>6 DEF Exists, Ids
    <2>2. ents[id + 1].id = id + 1 - 1
      BY <1>1, <2>1
    <2> QED BY <1>4, <2>1, <2>2 DEF IdOf
  <1>7. list \in [Groups -> Seq(I)]
    <2>1. PICK loaded : loaded = [i \in DOMAIN all |-> i - 1]
      OBVIOUS
    <2>2. loaded \in Seq(I)
      BY <1>3, <2>1, SeqByPlaces
    <2> HIDE DEF I
    <2>3. \A D : Without(loaded, D) \in Seq(I)
      BY <2>2, WithoutDoes
    <2> QED BY <1>1, <2>1, <2>3
  <1>8. /\ groups = Groups /\ onDisk = Groups /\ started = None
        /\ update = [u \in Updates |-> Ended]
        /\ updating = FALSE /\ nextOrder = 1 /\ disturbed = {} /\ updated = {}
    BY DEF Init
  <1>9. Groups # {} /\ Len(Order) \in Nat
    <2>1. Order \in Seq(Groups) /\ Order # <<>>
      BY OrderAssumption
    <2> QED BY <2>1
  <1>10. CatalogueTypes
    BY <1>4, <1>5, <1>6, <1>7, <1>8, <1>9 DEF CatalogueTypes
  <1>11. RoundTypes /\ OtherTypes /\ RoundInv
    <2>1. 1..nextOrder - 1 = {} /\ nextOrder \in 1..Len(Order) + 1
      BY <1>8, <1>9
    <2> QED BY <1>8, <2>1 DEF RoundTypes, OtherTypes, RoundInv
  <1>12. Ended \in UpdateStates /\ Undisturbed(Ended)
    BY NothingFound DEF UpdateStates, Ended
  <1> QED BY <1>8, <1>10, <1>11, <1>12, ByTypes DEF SubsInd, AloneInv

LEMMA NextSubs == SubsInd /\ [Next]_vars => SubsInd'
  <1>1. ASSUME SubsInd, NEW u \in Updates, Step(u) PROVE SubsInd'
    BY <1>1, LookUpKeeps, DownloadFailsKeeps, DownloadedKeeps, AddKeeps, ApplyKeeps,
       CleanupKeeps, RemoveDuplicatesKeeps, RemoveInvalidKeeps, FinishKeeps DEF Step
  <1>2. ASSUME SubsInd, User PROVE SubsInd'
    BY <1>2, BeginKeeps, UserStartsKeep, DeleteProfileKeeps, DeleteGroupKeeps DEF User
  <1>3. ASSUME SubsInd, UNCHANGED vars PROVE SubsInd'
    <2>1. /\ UNCHANGED <<catalogue, update, round, disturbed>> /\ started' = started
      BY <1>3 DEF vars
    <2>2. CatalogueTypes /\ RoundTypes /\ RoundInv /\ OtherTypes
      BY <1>3, ByTypes DEF SubsInd
    <2>3. CatalogueTypes' /\ ObjectsStay /\ UNCHANGED <<profiles, list, groups>>
      BY <2>1, <2>2, CatalogueStays
    <2>4. OtherTypes' /\ RoundTypes' /\ RoundInv'
      BY <2>1, <2>2, <2>3, RoundStays DEF OtherTypes
    <2> QED BY <1>3, <2>1, <2>3, <2>4, OutsideKeeps
  <1> QED BY <1>1, <1>2, <1>3 DEF Next, Threads

LEMMA SubsInvariant == Spec => []SubsInd
  BY InitSubs, NextSubs, PTL DEF Spec

-----------------------------------------------------------------------------
(* What an update leaves behind *)

(* A step moves the update that takes it, and no other.                    *)
LEMMA StepMoves ==
    ASSUME NEW u, Step(u) PROVE \E r : UpdateAt(u, r)
  <1>1. ASSUME LookUp(u) \/ DownloadFails(u) \/ Downloaded(u) \/ AddProfileBatch(u)
               \/ Apply(u) PROVE \E r : UpdateAt(u, r)
    BY <1>1 DEF LookUp, DownloadFails, Downloaded, AddProfileBatch, Apply, ToFinish
  <1>2. ASSUME Cleanup(u) \/ RemoveDuplicates(u) \/ RemoveInvalid(u) \/ Finish(u)
        PROVE  \E r : UpdateAt(u, r)
    BY <1>2 DEF Cleanup, RemoveDuplicates, RemoveInvalid, Finish, Post, ToFinish,
                SerialUpdate
  <1> QED BY <1>1, <1>2 DEF Step

(* Only Cleanup ends a cleanup.                                            *)
LEMMA OnlyCleanup ==
    ASSUME TypeOK, [Next]_vars, NEW v \in Updates, CleansUp(v) PROVE Cleanup(v)
  <1>1. update \in [Updates -> UpdateStates] /\ update[v].at = "cleanup"
        /\ update'[v] # update[v]
    BY ByTypes DEF CleansUp
  <1>2. ASSUME NEW u \in Updates, NEW r, UpdateAt(u, r) PROVE v = u
    BY <1>1, <1>2 DEF UpdateAt
  <1>3. ASSUME NEW u \in Updates, Step(u) PROVE Cleanup(v)
    <2>1. v = u
      BY <1>2, <1>3, StepMoves
    <2> QED BY <1>1, <1>3, <2>1 DEF Step, LookUp, DownloadFails, Downloaded,
            AddProfileBatch, Apply, RemoveDuplicates, RemoveInvalid, Finish
  <1>4. ASSUME NEW u \in Updates, UpdateAll(u) \/ \E g \in Groups : UpdateGroup(u, g)
        PROVE  FALSE
    <2>0. update[u] = Ended
      BY <1>4 DEF UpdateAll, UpdateGroup
    <2>1. update[u].at = "none"
      BY <2>0 DEF Ended
    <2>2. \E r : UpdateAt(u, r)
      BY <1>4 DEF UpdateAll, UpdateGroup
    <2> QED BY <1>1, <1>2, <2>1, <2>2
  <1>5. ASSUME \/ \E id \in Ids : UserStart(id) \/ DeleteProfile(id)
               \/ \E g \in Groups : DeleteGroup(g)
               \/ UserStop
               \/ UNCHANGED vars
        PROVE  FALSE
    BY <1>1, <1>5 DEF UserStart, DeleteProfile, DeleteGroup, UserStop, vars
  <1> QED BY <1>3, <1>4, <1>5 DEF Next, Threads, User

(* What there is after a cleanup that nobody disturbed.                    *)
LEMMA CleanupLeaves ==
    ASSUME SubsInd, NEW u \in Updates \ disturbed, Cleanup(u), NEW s, s = update[u]
    PROVE  /\ s.at = "cleanup" /\ s.g \in Groups /\ Applied(s)
           /\ s \in [at : {"cleanup"}, g : Groups, inRound : BOOLEAN,
                     old : Seq(Made), got : Seq(Servers), all : Seq(Made)]
           /\ list'[s.g] = list[s.g] /\ ents' = ents
           /\ \A e \in ToSet(s.all) :
                 IF IdOf(e) \in ToSet(list[s.g]) THEN profiles'[IdOf(e)] = e
                 ELSE IdOf(e) = started \/ profiles'[IdOf(e)] = 0
  <1> DEFINE ids == {IdOf(e) : e \in ToSet(s.all)} \ ToSet(list[s.g])
  <1>1. CatalogueTypes /\ s \in UpdateStates /\ s.at = "cleanup"
        /\ BatchDeleteProfiles(ids)
    BY ByTypes DEF SubsInd, Cleanup
  <1>2. s.g \in Groups /\ s \in [at : {"cleanup"}, g : Groups, inRound : BOOLEAN,
                                 old : Seq(Made), got : Seq(Servers), all : Seq(Made)]
    BY <1>1, Shapes
  <1>3. Applied(s)
    BY DEF SubsInd, AloneInv, Undisturbed
  <1>4. ids \cap ToSet(list[s.g]) = {}
    OBVIOUS
  <1>5. \A e \in ToSet(s.all) : IdOf(e) \in ids <=> IdOf(e) \notin ToSet(list[s.g])
    OBVIOUS
  <1> HIDE DEF ids
  <1>6. /\ list'[s.g] = list[s.g] /\ ents' = ents
        /\ \A id \in Ids : profiles'[id] = IF id \in Deletable(ids) THEN 0 ELSE profiles[id]
    BY <1>1, <1>2, <1>4, Deletes
  <1>7. ASSUME NEW e \in ToSet(s.all)
        PROVE  IF IdOf(e) \in ToSet(list[s.g]) THEN profiles'[IdOf(e)] = e
               ELSE IdOf(e) = started \/ profiles'[IdOf(e)] = 0
    <2>1. Exists(IdOf(e)) /\ IdOf(e) \in Ids /\ profiles[IdOf(e)] = e
      BY <1>1, <1>3 DEF Applied, Exists
    <2> QED BY <1>5, <1>6, <2>1 DEF Deletable
  <1> QED BY <1>1, <1>2, <1>3, <1>6, <1>7

LEMMA CleanupInOrder ==
    ASSUME SubsInd, NEW u \in Updates \ disturbed, Cleanup(u)
    PROVE  LET ids == list'[update[u].g]
           IN  /\ \A i \in DOMAIN ids : profiles'[ids[i]] # 0
               /\ [i \in DOMAIN ids |-> ents'[profiles'[ids[i]]].server] = update[u].got
  <1>1. PICK s : s = update[u]
    OBVIOUS
  <1>2. /\ s.at = "cleanup" /\ Applied(s) /\ CatalogueTypes
        /\ s.got \in Seq(Servers) /\ s.all \in Seq(Made)
        /\ list'[s.g] = list[s.g] /\ ents' = ents
        /\ \A e \in ToSet(s.all) :
              IdOf(e) \in ToSet(list[s.g]) => profiles'[IdOf(e)] = e
    <2>1. CatalogueTypes
      BY ByTypes DEF SubsInd
    <2> HIDE DEF Made
    <2> QED BY <1>1, <2>1, CleanupLeaves
  <1>3. \A e \in ToSet(s.all) : e # 0
    <2>1. \A e \in ToSet(s.all) : e \in Made
      <3> HIDE DEF Made
      <3> QED BY <1>2 DEF ToSet
    <2> QED BY <1>2, <2>1, EntTypes
  <1>4. DOMAIN list[s.g] = DOMAIN s.got
    BY <1>2 DEF Applied
  <1>5. ASSUME NEW i \in DOMAIN list[s.g]
        PROVE  /\ profiles'[list[s.g][i]] # 0
               /\ ents[profiles'[list[s.g][i]]].server = s.got[i]
    <2>1. PICK k \in ToSet(s.all) : list[s.g][i] = IdOf(k) /\ ServerOf(k) = s.got[i]
      BY <1>2, <1>4 DEF Applied
    <2>2. IdOf(k) \in ToSet(list[s.g])
      BY <2>1 DEF ToSet
    <2> QED BY <1>2, <1>3, <2>1, <2>2 DEF ServerOf
  <1>6. s.got = [i \in DOMAIN s.got |-> s.got[i]]
    BY <1>2
  <1>7. [i \in DOMAIN list[s.g] |-> ents[profiles'[list[s.g][i]]].server] = s.got
    BY <1>4, <1>5, <1>6
  <1> QED BY <1>1, <1>2, <1>5, <1>7

LEMMA CleanupKeepsOrDeletes ==
    ASSUME SubsInd, NEW u \in Updates \ disturbed, Cleanup(u)
    PROVE  /\ LET listed == ToSet(list'[update[u].g])
                  old    == ToSet(update[u].old)
              IN  \A e \in old :
                     IF ServerOf(e) \in ToSet(update[u].got)
                     THEN \E k \in old : ServerOf(k) = ServerOf(e) /\ IdOf(k) \in listed
                     ELSE IdOf(e) = started \/ profiles'[IdOf(e)] = 0
           /\ \A e \in ToSet(update[u].all) :
                 \/ IdOf(e) \in ToSet(list'[update[u].g]) \cup {started}
                 \/ profiles'[IdOf(e)] = 0
  <1>1. PICK s : s = update[u]
    OBVIOUS
  <1>2. /\ s.at = "cleanup" /\ Applied(s) /\ list'[s.g] = list[s.g]
        /\ \A e \in ToSet(s.all) :
              IF IdOf(e) \in ToSet(list[s.g]) THEN profiles'[IdOf(e)] = e
              ELSE IdOf(e) = started \/ profiles'[IdOf(e)] = 0
    BY <1>1, CleanupLeaves
  <1>3. ASSUME NEW e \in ToSet(s.old), ServerOf(e) \notin ToSet(s.got)
        PROVE  IdOf(e) = started \/ profiles'[IdOf(e)] = 0
    <2>1. e \in ToSet(s.all) /\ profiles[IdOf(e)] = e
      BY <1>2 DEF Applied
    <2>2. ASSUME IdOf(e) \in ToSet(list[s.g]) PROVE FALSE
      <3>1. PICK i \in DOMAIN s.got : IdOf(e) = list[s.g][i]
        BY <1>2, <2>2 DEF Applied, ToSet
      <3>2. PICK k \in ToSet(s.all) : IdOf(e) = IdOf(k) /\ ServerOf(k) = s.got[i]
        BY <1>2, <3>1 DEF Applied
      <3>3. e = k
        BY <1>2, <2>1, <3>2 DEF Applied
      <3> QED BY <1>3, <3>2, <3>3 DEF ToSet
    <2> QED BY <1>2, <2>1, <2>2
  <1>4. \A e \in ToSet(s.old) : ServerOf(e) \in ToSet(s.got) =>
           \E k \in ToSet(s.old) :
              ServerOf(k) = ServerOf(e) /\ IdOf(k) \in ToSet(list'[s.g])
    BY <1>2 DEF Applied
  <1> QED BY <1>1, <1>2, <1>3, <1>4

(* Only the end of a round ends it.                                        *)
LEMMA RoundIsFull ==
    ASSUME SubsInd, [Next]_vars, updating, ~updating' PROVE groups \ Skipped \subseteq updated
  <1>1. ASSUME NEW u \in Updates, Step(u) PROVE groups \ Skipped \subseteq updated
    <2>1. Finish(u)
      BY <1>1 DEF Step, LookUp, DownloadFails, Downloaded, AddProfileBatch, Apply,
                  Cleanup, RemoveDuplicates, RemoveInvalid, round
    <2>2. SerialUpdate(u, nextOrder) /\ UNCHANGED groups
      BY <2>1 DEF Finish, round, catalogue
    <2> QED BY <2>2, FinishDoes
  <1>2. ASSUME User \/ UNCHANGED vars PROVE FALSE
    BY <1>2 DEF User, UpdateAll, UpdateGroup, UserStart, UserStop, DeleteProfile,
                DeleteGroup, round, vars
  <1> QED BY <1>1, <1>2 DEF Next, Threads

(* Every state is one of the types' states: an id leads to the object that *)
(* has it, an update has what belongs to its place, and a group stays.     *)
THEOREM UpdateTypes == Spec => []TypeOK
  <1>1. SubsInd => TypeOK
    BY DEF SubsInd
  <1> QED BY <1>1, SubsInvariant, PTL

(* However groups are removed and single groups updated meanwhile, a round *)
(* ends only after it has been at all that are there and not archived.     *)
THEOREM RoundIsWhole == Spec => RoundVisitsAll
  <1>1. SubsInd /\ [Next]_vars
          => [updating /\ ~updating' => groups \ Skipped \subseteq updated]_vars
    BY RoundIsFull
  <1> QED BY <1>1, SubsInvariant, PTL DEF Spec, RoundVisitsAll

(* An update that nobody disturbs leaves in the group's list the servers   *)
(* of the download, in its order, whatever the group had and whatever the  *)
(* download repeats.                                                       *)
THEOREM DownloadIsListed == Spec => RemoteOrder
  <1>1. ASSUME SubsInd, [Next]_vars, NEW u \in Updates, CleansUp(u)
        PROVE  LET ids == list'[update[u].g]
               IN  /\ \A i \in DOMAIN ids : profiles'[ids[i]] # 0
                   /\ [i \in DOMAIN ids |-> ents'[profiles'[ids[i]]].server]
                        = update[u].got
    <2>1. Cleanup(u) /\ u \in Updates \ disturbed
      BY <1>1, OnlyCleanup DEF SubsInd, CleansUp
    <2> QED BY <1>1, <2>1, CleanupInOrder
  <1>2. SubsInd /\ [Next]_vars =>
          [\A u \in Updates : CleansUp(u) =>
             LET ids == list'[update[u].g]
             IN  /\ \A i \in DOMAIN ids : profiles'[ids[i]] # 0
                 /\ [i \in DOMAIN ids |-> ents'[profiles'[ids[i]]].server]
                      = update[u].got]_vars
    BY <1>1
  <1> QED BY <1>2, SubsInvariant, PTL DEF Spec, RemoteOrder

(* And it keeps a profile the group had for what is still offered, deletes *)
(* what is not, and strands none, but for the profile that runs.           *)
THEOREM KeptOrDeleted == Spec => KeptOrGone
  <1>1. ASSUME SubsInd, [Next]_vars, NEW u \in Updates, CleansUp(u)
        PROVE  /\ LET listed == ToSet(list'[update[u].g])
                      old    == ToSet(update[u].old)
                  IN  \A e \in old :
                         IF ServerOf(e) \in ToSet(update[u].got)
                         THEN \E k \in old : ServerOf(k) = ServerOf(e) /\ IdOf(k) \in listed
                         ELSE IdOf(e) = started \/ profiles'[IdOf(e)] = 0
               /\ \A e \in ToSet(update[u].all) :
                     \/ IdOf(e) \in ToSet(list'[update[u].g]) \cup {started}
                     \/ profiles'[IdOf(e)] = 0
    <2>1. Cleanup(u) /\ u \in Updates \ disturbed
      BY <1>1, OnlyCleanup DEF SubsInd, CleansUp
    <2> QED BY <1>1, <2>1, CleanupKeepsOrDeletes
  <1>2. SubsInd /\ [Next]_vars =>
          [\A u \in Updates : CleansUp(u) =>
             LET listed == ToSet(list'[update[u].g])
                 old    == ToSet(update[u].old)
             IN  \A e \in old :
                    IF ServerOf(e) \in ToSet(update[u].got)
                    THEN \E k \in old : ServerOf(k) = ServerOf(e) /\ IdOf(k) \in listed
                    ELSE IdOf(e) = started \/ profiles'[IdOf(e)] = 0]_vars
    BY <1>1
  <1>3. SubsInd /\ [Next]_vars =>
          [\A u \in Updates : CleansUp(u) =>
             \A e \in ToSet(update[u].all) :
                \/ IdOf(e) \in ToSet(list'[update[u].g]) \cup {started}
                \/ profiles'[IdOf(e)] = 0]_vars
    BY <1>1
  <1>4. Spec => KeepsProfiles
    BY <1>2, SubsInvariant, PTL DEF Spec, KeepsProfiles
  <1>5. Spec => NoneStranded
    BY <1>3, SubsInvariant, PTL DEF Spec, NoneStranded
  <1> QED BY <1>4, <1>5 DEF KeptOrGone

-----------------------------------------------------------------------------
(* The filter, which leaves out a profile only for one with the same key   *)

Seen == 1..next - 1

Places ==
    /\ in \in Seq(Keys) /\ next \in 1..Len(in) + 1
    /\ tree \in Seq(Seen) /\ out \in Seq(Seen)

(* The nodes of the map are profiles that are kept, and each profile so far*)
(* is kept or has its key there.                                           *)
KeptInv ==
    /\ Places
    /\ ToSet(tree) \subseteq ToSet(out)
    /\ \A i \in Seen : \E k \in ToSet(out) : Same(i, k)

(* What an appended element adds to a sequence's set.                      *)
LEMMA SetOfAppend ==
    ASSUME NEW S, NEW s \in Seq(S), NEW x
    PROVE  ToSet(Append(s, x)) = ToSet(s) \cup {x}
  <1>1. /\ DOMAIN Append(s, x) = 1..Len(s) + 1 /\ DOMAIN s = 1..Len(s)
        /\ Append(s, x)[Len(s) + 1] = x
        /\ \A i \in DOMAIN s : Append(s, x)[i] = s[i]
    OBVIOUS
  <1>2. 1..Len(s) + 1 = (1..Len(s)) \cup {Len(s) + 1}
    OBVIOUS
  <1> QED BY <1>1, <1>2 DEF ToSet

(* The parts of a key are numbers.                                         *)
LEMMA KeyTypes ==
    ASSUME in \in Seq(Keys), NEW i \in DOMAIN in
    PROVE  in[i].type \in Nat /\ DisplayAddress(i) \in Nat /\ BeanBytes(i) \in Nat
  <1>1. in[i] \in Keys
    OBVIOUS
  <1>2. in[i].type \in Nat /\ in[i].address \in Nat /\ in[i].bean \in Nat
    BY <1>1, KeyAssumption
  <1> QED BY <1>2 DEF DisplayAddress, BeanBytes, Empty

(* Profiles neither of which is less have the same key: what the map finds *)
(* by operator< is an equal of operator==, the order may be what it is.    *)
LEMMA NotLessIsSame ==
    ASSUME in \in Seq(Keys), NEW i \in DOMAIN in, NEW k \in DOMAIN in,
           ~Less(i, k), ~Less(k, i)
    PROVE  Same(i, k)
  <1>1. /\ ~(in[i].type < in[k].type) /\ ~(in[k].type < in[i].type)
        /\ ~(DisplayAddress(i) < DisplayAddress(k))
        /\ ~(DisplayAddress(k) < DisplayAddress(i))
        /\ ~(BeanBytes(i) < BeanBytes(k)) /\ ~(BeanBytes(k) < BeanBytes(i))
    BY DEF Less
  <1>2. /\ in[i].type \in Nat /\ DisplayAddress(i) \in Nat /\ BeanBytes(i) \in Nat
        /\ in[k].type \in Nat /\ DisplayAddress(k) \in Nat /\ BeanBytes(k) \in Nat
    BY KeyTypes
  <1>3. in[i].type = in[k].type
    BY <1>1, <1>2
  <1>4. DisplayAddress(i) = DisplayAddress(k)
    BY <1>1, <1>2
  <1>5. BeanBytes(i) = BeanBytes(k)
    BY <1>1, <1>2
  <1> QED BY <1>3, <1>4, <1>5 DEF Same

(* What the search finds is a profile that is kept, with the same key.     *)
LEMMA FoundIsSame ==
    ASSUME KeptInv, next <= Len(in), Find(next) # 0
    PROVE  \E k \in ToSet(out) : Same(next, k)
  <1> DEFINE c == Candidates(next)
             last == IF 2 \in c THEN 2 ELSE 1
  <1>1. Find(next) = IF c = {} \/ Less(next, tree[last]) THEN 0 ELSE last
    BY DEF Find
  <1>2. c # {} /\ ~Less(next, tree[last])
    BY <1>1
  <1>3. \A k \in c : k \in {1, 2} /\ k \in DOMAIN tree /\ ~Less(tree[k], next)
    <2>1. c = {k \in IF tree = <<>> THEN {}
                     ELSE {1} \cup IF Len(tree) = 2 /\ OnLeft # Less(tree[1], next)
                                   THEN {2} ELSE {} : ~Less(tree[k], next)}
      BY DEF Candidates
    <2>2. tree \in Seq(Seen)
      BY DEF KeptInv, Places
    <2>3. tree # <<>> => 1 \in DOMAIN tree
      BY <2>2
    <2>4. Len(tree) = 2 => 2 \in DOMAIN tree
      BY <2>2
    <2> QED BY <2>1, <2>3, <2>4
  <1>4. last \in c
    BY <1>2, <1>3
  <1>5. tree[last] \in ToSet(out) /\ tree[last] \in Seen
    <2>1. last \in DOMAIN tree
      BY <1>3, <1>4
    <2>2. tree[last] \in ToSet(tree)
      BY <2>1 DEF ToSet
    <2>3. tree[last] \in Seen
      BY <2>1 DEF KeptInv, Places
    <2> QED BY <2>2, <2>3 DEF KeptInv
  <1>6. in \in Seq(Keys) /\ next \in DOMAIN in /\ tree[last] \in DOMAIN in
    BY <1>5 DEF KeptInv, Places, Seen
  <1>7. ~Less(tree[last], next) /\ ~Less(next, tree[last])
    BY <1>2, <1>3, <1>4
  <1>8. Same(next, tree[last])
    BY <1>6, <1>7, NotLessIsSame
  <1> QED BY <1>5, <1>8

-----------------------------------------------------------------------------

LEMMA FilterInitKept == FilterInit => KeptInv
  <1> SUFFICES ASSUME FilterInit PROVE KeptInv
    OBVIOUS
  <1>1. in \in Seq(Keys)
    <2>1. in \in UNION {[1..m -> Keys] : m \in 0..MaxList}
      BY DEF FilterInit, SeqOf
    <2>2. PICK m \in 0..MaxList : in \in [1..m -> Keys]
      BY <2>1
    <2>3. m \in Nat
      BY DEF MaxList
    <2> QED BY <2>2, <2>3
  <1>2. Seen = {}
    BY DEF FilterInit, Seen
  <1>3. Places
    BY <1>1, <1>2 DEF FilterInit, Places
  <1>4. ToSet(tree) = {}
    BY DEF FilterInit, ToSet
  <1> QED BY <1>2, <1>3, <1>4 DEF KeptInv

(* The step to the next profile, which is kept or has its key there.       *)
LEMMA StepKept ==
    ASSUME KeptInv, next <= Len(in), next' = next + 1, in' = in,
           tree' \in Seq(Seen'), out' \in Seq(Seen'),
           ToSet(tree') \subseteq ToSet(out'), ToSet(out) \subseteq ToSet(out'),
           \E k \in ToSet(out') : Same(next, k)
    PROVE  KeptInv'
  <1>1. next \in 1..Len(in) + 1 /\ Len(in) \in Nat /\ in \in Seq(Keys)
    BY DEF KeptInv, Places
  <1>2. next' \in 1..Len(in') + 1
    BY <1>1
  <1>3. Places'
    BY <1>1, <1>2 DEF Places
  <1>4. Seen' = Seen \cup {next}
    BY <1>1 DEF Seen
  <1>5. \A i, k : Same(i, k)' = Same(i, k)
    BY DEF Same, DisplayAddress, BeanBytes
  <1>6. ASSUME NEW i \in Seen' PROVE \E k \in ToSet(out') : Same(i, k)'
    <2>1. CASE i = next
      BY <1>5, <2>1
    <2>2. CASE i \in Seen
      BY <1>5, <2>2 DEF KeptInv
    <2> QED BY <1>4, <2>1, <2>2
  <1> QED BY <1>3, <1>6 DEF KeptInv

LEMMA KeepNewKept == ASSUME KeptInv, KeepNew PROVE KeptInv'
  <1>1. /\ next <= Len(in) /\ next' = next + 1 /\ in' = in
        /\ out' = Append(out, next)
        /\ tree' = IF Len(tree) < 2 THEN Append(tree, next) ELSE tree
    BY DEF KeepNew
  <1>2. /\ next \in 1..Len(in) + 1 /\ in \in Seq(Keys)
        /\ tree \in Seq(Seen) /\ out \in Seq(Seen)
    BY DEF KeptInv, Places
  <1>3. Seen \subseteq Seen' /\ next \in Seen'
    BY <1>1, <1>2 DEF Seen
  <1>4. tree \in Seq(Seen') /\ out \in Seq(Seen')
    BY <1>2, <1>3, WiderSeq
  <1>5. tree' \in Seq(Seen') /\ out' \in Seq(Seen')
    BY <1>1, <1>3, <1>4
  <1>6. ToSet(out') = ToSet(out) \cup {next}
    BY <1>1, <1>2, SetOfAppend
  <1>7. ToSet(tree') \subseteq ToSet(tree) \cup {next}
    BY <1>1, <1>2, SetOfAppend
  <1>8. ToSet(tree') \subseteq ToSet(out') /\ ToSet(out) \subseteq ToSet(out')
    BY <1>6, <1>7 DEF KeptInv
  <1>9. Same(next, next)
    BY DEF Same
  <1>10. \E k \in ToSet(out') : Same(next, k)
    BY <1>6, <1>9
  <1> QED BY <1>1, <1>5, <1>8, <1>10, StepKept

LEMMA LeaveOutKept == ASSUME KeptInv, LeaveOut PROVE KeptInv'
  <1>1. /\ next <= Len(in) /\ next' = next + 1 /\ in' = in
        /\ tree' = tree /\ out' = out /\ Find(next) # 0
    BY DEF LeaveOut
  <1>2. \E k \in ToSet(out') : Same(next, k)
    BY <1>1, FoundIsSame
  <1>3. next \in Nat /\ tree \in Seq(Seen) /\ out \in Seq(Seen)
    BY DEF KeptInv, Places
  <1>4. Seen \subseteq Seen'
    BY <1>1, <1>3 DEF Seen
  <1>5. tree' \in Seq(Seen') /\ out' \in Seq(Seen')
    BY <1>1, <1>3, <1>4, WiderSeq
  <1> QED BY <1>1, <1>2, <1>5, StepKept DEF KeptInv

LEMMA FilterNextKept == KeptInv /\ [FilterNext]_filterVars => KeptInv'
  <1> SUFFICES ASSUME KeptInv, [FilterNext]_filterVars PROVE KeptInv'
    OBVIOUS
  <1>1. CASE UNCHANGED filterVars
    BY <1>1 DEF filterVars, KeptInv, Places, Seen, Same, DisplayAddress, BeanBytes
  <1> QED BY <1>1, KeepNewKept, LeaveOutKept DEF FilterNext

(* Uniq (ProfileFilter.cpp) never costs a profile: each one of the list has*)
(* its key among those that are kept, for all keys, though operator< is not*)
(* the strict weak order that it is said to be.                            *)
THEOREM NoneIsLost == FilterSpec => []OneIsKept
  <1>1. KeptInv => OneIsKept
    <2> SUFFICES ASSUME KeptInv, Done, NEW i \in DOMAIN in
                 PROVE  \E k \in ToSet(out) : Same(i, k)
      BY DEF OneIsKept
    <2>1. i \in Seen
      BY DEF KeptInv, Places, Done, Seen
    <2> QED BY <2>1 DEF KeptInv
  <1> QED BY <1>1, FilterInitKept, FilterNextKept, PTL DEF FilterSpec

-----------------------------------------------------------------------------
(* Servers of one type *)

(* The list is so short that the map is what is kept as long as it is      *)
(* asked; of servers of one type the first of each address has been kept.  *)
FirstInv ==
    /\ KeptInv
    /\ Len(in) <= MaxList /\ Len(out) < next
    /\ next <= MaxList => tree = out
    /\ InOrder(out)
    /\ OfOneType => ToSet(out) = {i \in Seen : IsFirst(i)}

(* For servers of one type operator< compares the addresses.               *)
LEMMA LessIsByAddress ==
    ASSUME OfOneType, in \in Seq(Keys), NEW i \in DOMAIN in, NEW k \in DOMAIN in
    PROVE  /\ DisplayAddress(i) \in Nat /\ DisplayAddress(k) \in Nat
           /\ Less(i, k) <=> DisplayAddress(i) < DisplayAddress(k)
           /\ Same(i, k) <=> DisplayAddress(i) = DisplayAddress(k)
  <1>1. PICK t \in Types \ (Addressless \cup {Custom}) :
                \A n \in DOMAIN in : in[n].type = t
    BY DEF OfOneType
  <1>2. in[i].type = in[k].type /\ BeanBytes(i) = Empty /\ BeanBytes(k) = Empty
    BY <1>1 DEF BeanBytes
  <1>3. /\ in[i].type \in Nat /\ DisplayAddress(i) \in Nat
        /\ in[k].type \in Nat /\ DisplayAddress(k) \in Nat
    BY KeyTypes
  <1>4. Less(i, k) <=> DisplayAddress(i) < DisplayAddress(k)
    BY <1>2, <1>3 DEF Less, Empty
  <1> QED BY <1>2, <1>3, <1>4 DEF Same

(* What is kept has been seen, by number of places.                        *)
LEMMA KeptPlaces ==
    ASSUME FirstInv, next <= Len(in)
    PROVE  /\ in \in Seq(Keys) /\ next \in 1..3 /\ next \in DOMAIN in
           /\ out \in Seq(Nat) /\ tree = out /\ Len(out) \in 0..2
           /\ \A n \in DOMAIN out :
                  out[n] \in Seen /\ out[n] \in DOMAIN in /\ out[n] \in ToSet(out)
  <1>1. /\ in \in Seq(Keys) /\ next \in 1..Len(in) + 1 /\ out \in Seq(Seen)
        /\ Len(in) <= 3 /\ Len(out) < next
    BY DEF FirstInv, KeptInv, Places, MaxList
  <1>2. next \in 1..3 /\ next \in DOMAIN in /\ Len(out) \in 0..2
    <2>1. Len(in) \in Nat /\ DOMAIN in = 1..Len(in) /\ Len(out) \in Nat
      BY <1>1
    <2>2. /\ next \in Nat /\ 1 <= next /\ next <= Len(in)
          /\ Len(in) <= 3 /\ Len(out) < next
      BY <1>1, <2>1
    <2>3. next \in 1..3
      BY <2>1, <2>2
    <2>4. next \in DOMAIN in
      BY <2>1, <2>2
    <2>5. Len(out) \in 0..2
      <3>1. ASSUME NEW n \in Nat, n < next PROVE n \in 0..2
        BY <2>3, <3>1
      <3> QED BY <2>1, <2>2, <3>1
    <2> QED BY <2>3, <2>4, <2>5
  <1>3. \A n \in DOMAIN out : out[n] \in Seen
    BY <1>1
  <1>4. Seen \subseteq Nat /\ Seen \subseteq DOMAIN in
    BY <1>1 DEF Seen
  <1>5. out \in Seq(Nat)
    BY <1>1, <1>4, WiderSeq
  <1>6. tree = out
    BY <1>2 DEF FirstInv, MaxList
  <1> QED BY <1>1, <1>2, <1>3, <1>4, <1>5, <1>6 DEF ToSet

(* Two profiles that are kept have different addresses.                    *)
LEMMA KeptDiffer ==
    ASSUME FirstInv, OfOneType, next <= Len(in), Len(out) = 2
    PROVE  DisplayAddress(out[1]) # DisplayAddress(out[2])
  <1>1. 1 \in DOMAIN out /\ 2 \in DOMAIN out
    BY KeptPlaces
  <1>2. out[1] < out[2]
    BY <1>1 DEF FirstInv, InOrder
  <1>3. out[1] \in Nat /\ out[2] \in Nat /\ out[1] # 0
    BY <1>1, KeptPlaces DEF Seen
  <1>4. out[1] \in 1..out[2] - 1
    BY <1>2, <1>3
  <1>5. out[2] \in {i \in Seen : IsFirst(i)}
    BY <1>1, KeptPlaces DEF FirstInv
  <1>6. ~Same(out[2], out[1])
    BY <1>4, <1>5 DEF IsFirst
  <1> QED BY <1>1, <1>6, KeptPlaces, LessIsByAddress

(* A profile whose address is kept is found.                               *)
LEMMA SameIsFound ==
    ASSUME FirstInv, OfOneType, next <= Len(in),
           NEW n \in DOMAIN out, Same(next, out[n])
    PROVE  Find(next) # 0
  <1> DEFINE a(k) == DisplayAddress(out[k])
             c == Candidates(next)
             last == IF 2 \in c THEN 2 ELSE 1
  <1>1. \A k \in DOMAIN out : a(k) \in Nat
    BY KeptPlaces, LessIsByAddress
  <1>2. \A k \in DOMAIN out : Less(out[k], next) <=> a(k) < a(n)
    BY KeptPlaces, LessIsByAddress
  <1>3. \A k \in DOMAIN out : Less(next, out[k]) <=> a(n) < a(k)
    BY KeptPlaces, LessIsByAddress
  <1>4. \A i, k \in DOMAIN out : Less(out[i], out[k]) <=> a(i) < a(k)
    BY KeptPlaces, LessIsByAddress
  <1>5. tree = out /\ n \in {1, 2} /\ (n = 2 => Len(out) = 2) /\ tree # <<>>
        /\ 1 \in DOMAIN out /\ (Len(out) = 2 => 2 \in DOMAIN out)
    BY KeptPlaces
  <1>6. Find(next) = IF c = {} \/ Less(next, tree[last]) THEN 0 ELSE last
    BY DEF Find
  <1>7. c = {k \in {1} \cup IF Len(out) = 2 /\ OnLeft # Less(out[1], next)
                           THEN {2} ELSE {} : ~Less(out[k], next)}
    BY <1>5 DEF Candidates
  <1>8. n \in c /\ last = n
    <2>1. CASE Len(out) # 2
      <3>1. n = 1 /\ ~Less(out[1], next)
        BY <1>1, <1>2, <1>5, <2>1
      <3> QED BY <1>7, <2>1, <3>1
    <2>2. CASE Len(out) = 2 /\ n = 1
      <3>1. ~Less(out[1], next)
        BY <1>1, <1>2, <1>5, <2>2
      <3>2. OnLeft => Less(out[2], next)
        BY <1>2, <1>4, <1>5, <2>2 DEF OnLeft
      <3>3. 2 \in c => OnLeft # Less(out[1], next) /\ ~Less(out[2], next)
        BY <1>7
      <3>4. 2 \notin c
        BY <3>1, <3>2, <3>3 DEF OnLeft, Less
      <3> QED BY <1>7, <2>2, <3>1, <3>4
    <2>3. CASE Len(out) = 2 /\ n = 2
      <3>1. a(1) # a(2)
        BY <2>3, KeptDiffer
      <3>2. OnLeft <=> a(2) < a(1)
        BY <1>4, <1>5, <2>3 DEF OnLeft
      <3>3. Less(out[1], next) <=> a(1) < a(2)
        BY <1>2, <1>5, <2>3
      <3>4. OnLeft # Less(out[1], next)
        BY <1>1, <1>5, <2>3, <3>1, <3>2, <3>3 DEF OnLeft, Less
      <3>5. ~Less(out[2], next)
        BY <1>1, <1>2, <1>5, <2>3
      <3> QED BY <1>7, <2>3, <3>4, <3>5
    <2> QED BY <1>5, <2>1, <2>2, <2>3
  <1>9. ~Less(next, tree[last])
    BY <1>1, <1>3, <1>5, <1>8
  <1> QED BY <1>5, <1>6, <1>8, <1>9

-----------------------------------------------------------------------------

LEMMA FilterInitFirst == FilterInit => FirstInv
  <1> SUFFICES ASSUME FilterInit PROVE FirstInv
    OBVIOUS
  <1>1. Len(in) <= MaxList
    <2>1. PICK m \in 0..MaxList : in \in [1..m -> Keys]
      BY DEF FilterInit, SeqOf
    <2>2. Len(in) = m
      BY <2>1 DEF MaxList
    <2> QED BY <2>2 DEF MaxList
  <1>2. tree = <<>> /\ out = <<>> /\ next = 1 /\ Seen = {}
    BY DEF FilterInit, Seen
  <1>3. InOrder(out) /\ ToSet(out) = {} /\ Len(out) < next
    BY <1>2 DEF InOrder, ToSet
  <1> QED BY <1>1, <1>2, <1>3, FilterInitKept DEF FirstInv

(* A profile of those of one type is kept if it is the first of its key.   *)
LEMMA FoundIsNotFirst ==
    ASSUME FirstInv, OfOneType, next <= Len(in)
    PROVE  Find(next) = 0 <=> IsFirst(next)
  <1>1. ASSUME Find(next) # 0 PROVE ~IsFirst(next)
    <2>1. PICK k \in ToSet(out) : Same(next, k)
      BY <1>1, FoundIsSame DEF FirstInv
    <2>2. k \in 1..next - 1
      BY KeptPlaces DEF ToSet, Seen
    <2> QED BY <2>1, <2>2 DEF IsFirst
  <1>2. ASSUME ~IsFirst(next) PROVE Find(next) # 0
    <2>1. PICK i \in Seen : Same(next, i)
      BY <1>2 DEF IsFirst, Seen
    <2>2. PICK k \in ToSet(out) : Same(i, k)
      BY DEF FirstInv, KeptInv
    <2>3. PICK n \in DOMAIN out : out[n] = k
      BY DEF ToSet
    <2>4. Same(next, out[n])
      BY <2>1, <2>2, <2>3 DEF Same
    <2> QED BY <2>4, SameIsFound
  <1> QED BY <1>1, <1>2

(* The list given and the first of a key stay what they are.               *)
LEMMA FirstStays ==
    ASSUME in' = in
    PROVE  (OfOneType' <=> OfOneType) /\ \A i : IsFirst(i)' <=> IsFirst(i)
  BY DEF OfOneType, IsFirst, Same, DisplayAddress, BeanBytes

LEMMA KeepNewFirst == ASSUME FirstInv, KeepNew PROVE FirstInv'
  <1>1. /\ next <= Len(in) /\ Find(next) = 0 /\ next' = next + 1 /\ in' = in
        /\ out' = Append(out, next)
        /\ tree' = IF Len(tree) < 2 THEN Append(tree, next) ELSE tree
    BY DEF KeepNew
  <1>2. KeptInv' /\ Len(in') <= MaxList
    BY <1>1, KeepNewKept DEF FirstInv
  <1>3. /\ next \in 1..3 /\ out \in Seq(Nat) /\ tree = out /\ Len(out) \in 0..2
        /\ Len(out) < next /\ \A n \in DOMAIN out : out[n] \in Seen
    BY <1>1, KeptPlaces DEF FirstInv
  <1>4. Len(out') = Len(out) + 1
    BY <1>1, <1>3
  <1>5. next' <= MaxList => tree' = out'
    BY <1>1, <1>3 DEF MaxList
  <1>6. InOrder(out')
    <2>1. SUFFICES ASSUME NEW i \in DOMAIN out', NEW k \in DOMAIN out', i < k
                   PROVE  out'[i] < out'[k]
      BY DEF InOrder
    <2>2. i \in DOMAIN out /\ out'[i] = out[i]
      BY <1>1, <1>3, <2>1
    <2>3. CASE k \in DOMAIN out
      BY <1>1, <1>3, <2>1, <2>2, <2>3 DEF FirstInv, InOrder
    <2>4. CASE k \notin DOMAIN out
      <3>1. out'[k] = next
        BY <1>1, <1>3, <2>1, <2>4
      <3> QED BY <1>3, <2>2, <3>1 DEF Seen
    <2> QED BY <2>3, <2>4
  <1>7. ASSUME OfOneType' PROVE ToSet(out') = {i \in Seen' : IsFirst(i)'}
    <2>1. OfOneType /\ \A i : IsFirst(i)' <=> IsFirst(i)
      BY <1>1, <1>7, FirstStays
    <2>2. IsFirst(next)
      BY <1>1, <2>1, FoundIsNotFirst
    <2>3. ToSet(out') = ToSet(out) \cup {next}
      BY <1>1, <1>3, SetOfAppend
    <2>4. Seen' = Seen \cup {next}
      BY <1>1, <1>3 DEF Seen
    <2>5. ToSet(out) = {i \in Seen : IsFirst(i)}
      BY <2>1 DEF FirstInv
    <2> QED BY <2>1, <2>2, <2>3, <2>4, <2>5
  <1>8. Len(out') < next'
    BY <1>1, <1>3, <1>4
  <1> QED BY <1>2, <1>5, <1>6, <1>7, <1>8 DEF FirstInv

LEMMA LeaveOutFirst == ASSUME FirstInv, LeaveOut PROVE FirstInv'
  <1>1. /\ next <= Len(in) /\ Find(next) # 0 /\ next' = next + 1 /\ in' = in
        /\ out' = out /\ tree' = tree
    BY DEF LeaveOut
  <1>2. KeptInv' /\ Len(in') <= MaxList
    BY <1>1, LeaveOutKept DEF FirstInv
  <1>3. next \in 1..3 /\ tree = out /\ Len(out) \in 0..2 /\ Len(out) < next
    BY <1>1, KeptPlaces DEF FirstInv
  <1>4. InOrder(out')
    BY <1>1 DEF FirstInv, InOrder
  <1>5. ASSUME OfOneType' PROVE ToSet(out') = {i \in Seen' : IsFirst(i)'}
    <2>1. OfOneType /\ \A i : IsFirst(i)' <=> IsFirst(i)
      BY <1>1, <1>5, FirstStays
    <2>2. ~IsFirst(next)
      BY <1>1, <2>1, FoundIsNotFirst
    <2>3. Seen' = Seen \cup {next}
      BY <1>1, <1>3 DEF Seen
    <2>4. ToSet(out) = {i \in Seen : IsFirst(i)}
      BY <2>1 DEF FirstInv
    <2> QED BY <1>1, <2>1, <2>2, <2>3, <2>4
  <1>6. Len(out') < next' /\ (next' <= MaxList => tree' = out')
    BY <1>1, <1>3
  <1> QED BY <1>2, <1>4, <1>5, <1>6 DEF FirstInv

LEMMA FilterNextFirst == FirstInv /\ [FilterNext]_filterVars => FirstInv'
  <1> SUFFICES ASSUME FirstInv, [FilterNext]_filterVars PROVE FirstInv'
    OBVIOUS
  <1>1. CASE UNCHANGED filterVars
    <2>1. in' = in /\ next' = next /\ tree' = tree /\ out' = out
      BY <1>1 DEF filterVars
    <2>2. KeptInv'
      BY FilterNextKept DEF FirstInv
    <2>3. (OfOneType' <=> OfOneType) /\ \A i : IsFirst(i)' <=> IsFirst(i)
      BY <2>1, FirstStays
    <2> QED BY <2>1, <2>2, <2>3 DEF FirstInv, Seen, InOrder
  <1> QED BY <1>1, KeepNewFirst, LeaveOutFirst DEF FilterNext

(* Of servers of one type Uniq keeps of each address exactly the first, in *)
(* their order, for all keys: there operator< is a proper order, and the   *)
(* search finds what is there.                                             *)
THEOREM FirstsAreKept == FilterSpec => []KeepsFirstOfEach
  <1>1. FirstInv => KeepsFirstOfEach
    <2> SUFFICES ASSUME FirstInv, Done, OfOneType
                 PROVE  ToSet(out) = {i \in DOMAIN in : IsFirst(i)} /\ InOrder(out)
      BY DEF KeepsFirstOfEach
    <2>1. Seen = DOMAIN in
      <3>1. in \in Seq(Keys) /\ next \in 1..Len(in) + 1
        BY DEF FirstInv, KeptInv, Places
      <3> QED BY <3>1 DEF Done, Seen
    <2> QED BY <2>1 DEF FirstInv
  <1> QED BY <1>1, FilterInitFirst, FilterNextFirst, PTL DEF FilterSpec

=============================================================================
