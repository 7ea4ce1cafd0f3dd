---------------------------- MODULE TrafficProofs ----------------------------
(***************************************************************************)
(* For any profiles and chains, with any members in common: the profile    *)
(* that was started is still there when a stop saves it, but for one       *)
(* deleted while it was being started; what was carried until a stop is in *)
(* the records afterwards, and nothing is credited twice, but for the      *)
(* profiles of which a history says why.                                   *)
(***************************************************************************)
EXTENDS Traffic, FiniteSetTheorems, TLAPS

(* Until started_id names the profile of the core's instance, its deletion *)
(* is remembered; from then on BatchDeleteProfiles leaves it alone.        *)
StartingKept == window = "start" => core \in profiles \cup early
StartedKept  ==
    window \in {"running", "stop", "credit", "save", "crashed"} =>
        started \in profiles \cup early
KeptInv == StartingKept /\ StartedKept

LEMMA InitKept == Init => KeptInv
  BY DEF Init, KeptInv, StartingKept, StartedKept

(* A deletion takes away neither the profile that is started nor, without  *)
(* a trace, the one that is being started.                                 *)
LEMMA DeleteKeeps ==
    ASSUME KeptInv, NEW p \in Profiles, DeleteProfile(p) PROVE KeptInv'
  <1>1. /\ profiles' = profiles \ {p} /\ p # started
        /\ early' = IF p = core /\ window = "start" THEN early \cup {p} ELSE early
        /\ UNCHANGED <<started, window, core>>
    BY DEF DeleteProfile, catalog
  <1>2. StartingKept'
    <2> SUFFICES ASSUME window = "start" PROVE core \in profiles' \cup early'
      BY <1>1 DEF StartingKept
    <2>1. CASE p = core
      BY <1>1, <2>1
    <2>2. CASE p # core
      BY <1>1, <2>2 DEF KeptInv, StartingKept
    <2> QED BY <2>1, <2>2
  <1>3. StartedKept'
    BY <1>1 DEF KeptInv, StartedKept
  <1> QED BY <1>2, <1>3 DEF KeptInv

LEMMA NextKept == KeptInv /\ [Next]_vars => KeptInv'
  <1> SUFFICES ASSUME KeptInv, [Next]_vars PROVE KeptInv'
    OBVIOUS
  <1> USE DEF KeptInv, StartingKept, StartedKept
  <1>1. CASE UNCHANGED <<profiles, started, window, core, early>>
    BY <1>1
  <1>2. CASE Loop
    BY <1>2, <1>1 DEF Loop, LoopCheck, LoopQuery, LoopCredit, catalog
  <1>3. ASSUME NEW p \in Profiles, Start(p) PROVE KeptInv'
    BY <1>3 DEF Start, CanBuild, catalog
  <1>4. CASE Started
    BY <1>4 DEF Started
  <1>5. CASE StopBegin \/ StopQuery \/ StopCredit
    BY <1>5 DEF StopBegin, StopQuery, StopCredit, catalog
  <1>6. CASE StopSave
    <2>1. window = "save" /\ window' \in {"save", "crashed"} /\ UNCHANGED catalog
      BY <1>6 DEF StopSave
    <2> QED BY <2>1 DEF catalog
  <1>7. CASE StopUnlock
    BY <1>7 DEF StopUnlock, catalog
  <1>8. CASE StopCore
    BY <1>8 DEF StopCore
  <1>9. ASSUME NEW p \in Profiles, TestBuild(p) PROVE KeptInv'
    BY <1>9, <1>1 DEF TestBuild, catalog
  <1>10. CASE Carry \/ Tick
    BY <1>10, <1>1 DEF Carry, Tick, catalog
  <1>11. CASE UNCHANGED vars
    BY <1>11, <1>1 DEF vars, catalog
  <1> QED BY <1>2, <1>3, <1>4, <1>5, <1>6, <1>7, <1>8, <1>9, <1>10, <1>11,
             DeleteKeeps DEF Next, Window, User

(* When profile_stop saves the items of the looper (mainwindow_rpc.cpp,    *)
(* GetProfile(item->id)->Save()), the profile that runs is there, unless   *)
(* it was deleted before UpdateStartedId.                                  *)
THEOREM StartedProfileIsSaved == Spec => []StopFindsItems
  <1>1. KeptInv => StopFindsItems
    BY DEF KeptInv, StartedKept, StopFindsItems
  <1> QED BY <1>1, InitKept, NextKept, PTL DEF Spec

-----------------------------------------------------------------------------
(* Types *)

(* What the core has not handed out it has carried, and what it has handed *)
(* out belongs to who holds the mutex to credit it; it ran a profile then, *)
(* and has the one that is being started.                                  *)
HandedInv ==
    /\ carried \in 0..MaxCarried /\ pending \in 0..carried
    /\ mutex = "free" \/ window \in {"save", "crashed"} => got = None
    /\ core \in Startable \cup {None}
    /\ got # None => from \in Startable
    /\ window = "start" => core \in Startable
    /\ window \notin {"save", "crashed"} => saved = 0
    /\ ran \in [Profiles -> Nat] /\ owed \in [Profiles -> Nat]

TypeInv == TypeOK /\ HandedInv

(* The parts of TypeOK.                                                    *)
NameTypes   == started \in Profiles \cup {None} /\ core \in Profiles \cup {None}
DataTypes   ==
    /\ tag \in [Profiles -> {"none", "proxy", "tail"}]
    /\ isChainTail \subseteq Profiles /\ ignoreForRate \subseteq Profiles
KeptTypes   ==
    profiles \subseteq Profiles /\ disk \in [Profiles -> Nat] /\ saved \in 0..Len(items)
CreditTypes ==
    /\ stamped \subseteq Profiles /\ now \subseteq stamped
    /\ uplink \in [Profiles -> Nat] /\ proxy \in Nat
LooperTypes ==
    items \in Seq(Profiles) /\ isChain \in BOOLEAN /\ loop_enabled \in BOOLEAN
MutexTypes ==
    /\ mutex \in {"free", "loop", "window"}
    /\ (mutex = "loop") = (loop = "credit")
    /\ (mutex = "window") = (window \in {"credit", "save", "crashed"})
GotTypes    == got \in Nat \cup {None} /\ pending \in 0..MaxCarried

LEMMA ByTypes ==
    /\ TypeOK <=> /\ NameTypes /\ DataTypes /\ KeptTypes /\ CreditTypes
                  /\ LooperTypes /\ MutexTypes /\ GotTypes
    /\ TypeOK' <=> /\ NameTypes' /\ DataTypes' /\ KeptTypes' /\ CreditTypes'
                   /\ LooperTypes' /\ MutexTypes' /\ GotTypes'
  <1>1. ASSUME NEW w, NEW x, NEW y, NEW z
        PROVE  w \cup x \cup y \cup z \subseteq Profiles
                 <=> /\ w \subseteq Profiles /\ x \subseteq Profiles
                     /\ y \subseteq Profiles /\ z \subseteq Profiles
    OBVIOUS
  <1>2. ASSUME NEW x, NEW y
        PROVE  {x, y} \subseteq BOOLEAN <=> x \in BOOLEAN /\ y \in BOOLEAN
    BY Zenon
  <1> QED BY <1>1, <1>2, Zenon
          DEF TypeOK, NameTypes, DataTypes, KeptTypes, CreditTypes, LooperTypes,
              MutexTypes, GotTypes

(* The outbounds of a profile are profiles, and no chains; its items are   *)
(* they, and after several the profile itself, which is one of its         *)
(* outbounds if it is no chain.                                            *)
LEMMA WayTypes ==
    ASSUME NEW p \in Profiles
    PROVE  /\ Way[p] \in Seq(Profiles) /\ Len(Way[p]) \in Nat \ {0}
           /\ Way[p][1] \in Profiles \ Chains /\ TailOf(p) \subseteq Profiles \ Chains
           /\ OutsOf(p) \subseteq Profiles
           /\ ItemsOf(p) \in Seq(Profiles) /\ ItemsOf(p) # <<>>
  <1>1. Way[p] \in Seq(Profiles \ Chains) /\ Way[p] # <<>>
    BY ProfileAssumption
  <1>2. /\ Len(Way[p]) \in Nat \ {0}
        /\ \A i \in 1..Len(Way[p]) : Way[p][i] \in Profiles \ Chains
    BY <1>1
  <1>3. Way[p] \in Seq(Profiles)
    BY <1>1, <1>2
  <1>4. Way[p][1] \in Profiles \ Chains /\ TailOf(p) \subseteq Profiles \ Chains
    BY <1>2 DEF TailOf
  <1>5. ItemsOf(p) \in Seq(Profiles) /\ ItemsOf(p) # <<>>
    BY <1>1, <1>3 DEF ItemsOf
  <1> QED BY <1>2, <1>3, <1>4, <1>5 DEF OutsOf

LEMMA BuildTypes ==
    ASSUME DataTypes, NEW p \in Profiles, BuildChain(p) PROVE DataTypes'
  <1>1. TailOf(p) \subseteq Profiles
    BY WayTypes
  <1>2. tag' \in [Profiles -> {"none", "proxy", "tail"}]
    BY DEF BuildChain, DataTypes
  <1> QED BY <1>1, <1>2 DEF BuildChain, DataTypes

(* Places are counted by natural numbers.                                  *)
LEMMA PlacesCount ==
    ASSUME items \in Seq(Profiles), NEW K \in SUBSET DOMAIN items
    PROVE  Cardinality(K) \in Nat
  <1>1. DOMAIN items = 1..Len(items) /\ Len(items) \in Nat
    OBVIOUS
  <1>2. IsFiniteSet(DOMAIN items)
    BY <1>1, FS_Interval
  <1>3. IsFiniteSet(K)
    BY <1>2, FS_Subset
  <1> QED BY <1>3, FS_CardinalityType

LEMMA CreditKeepsTypes ==
    ASSUME CreditTypes, items \in Seq(Profiles), got \in Nat \cup {None}, Credit
    PROVE  CreditTypes'
  <1>1. CASE got = None
    BY <1>1 DEF Credit, credit, CreditTypes
  <1>2. CASE got # None
    <2>1. PICK first \in SUBSET (ToSet(items) \ stamped), turns \in SUBSET DOMAIN items :
             CreditOf(Proxies(Timely(first, turns)), got) /\ Stamp(turns)
      BY <1>2 DEF Credit, UpdateAll
    <2> DEFINE C == Proxies(Timely(first, turns))
               a(p) == Cardinality(At(C, p))
               b(p) == IF C = {} THEN 0 ELSE Cardinality(At(Tails, p))
               d == Cardinality({i \in C : items[i] \notin ignoreForRate})
    <2>2. C \subseteq DOMAIN items /\ Tails \subseteq DOMAIN items
      BY DEF Proxies, Timely, Tails
    <2>3. d \in Nat /\ \A p : a(p) \in Nat /\ b(p) \in Nat
      <3> HIDE DEF C
      <3>1. {i \in C : items[i] \notin ignoreForRate} \in SUBSET DOMAIN items
        BY <2>2
      <3>2. ASSUME NEW p PROVE a(p) \in Nat /\ b(p) \in Nat
        <4>1. At(C, p) \in SUBSET DOMAIN items /\ At(Tails, p) \in SUBSET DOMAIN items
          BY <2>2 DEF At
        <4> QED BY <4>1, PlacesCount
      <3> QED BY <3>1, <3>2, PlacesCount
    <2>4. /\ uplink' = [p \in Profiles |-> uplink[p] + got * (a(p) + b(p))]
          /\ proxy' = proxy + got * d
      BY <2>1 DEF CreditOf
    <2>5. got \in Nat
      BY <1>2
    <2>6. \A n, x, y \in Nat : n * x \in Nat /\ n * (x + y) \in Nat
      OBVIOUS
    <2> HIDE DEF a, b, d
    <2>7. uplink' \in [Profiles -> Nat]
      <3>1. ASSUME NEW p \in Profiles PROVE uplink[p] + got * (a(p) + b(p)) \in Nat
        <4>1. got * (a(p) + b(p)) \in Nat /\ uplink[p] \in Nat
          BY <2>3, <2>5, <2>6 DEF CreditTypes
        <4> QED BY <4>1
      <3> QED BY <2>4, <3>1
    <2>8. proxy' \in Nat
      <3>1. got * d \in Nat /\ proxy \in Nat
        BY <2>3, <2>5, <2>6 DEF CreditTypes
      <3> QED BY <2>4, <3>1
    <2>9. stamped' \subseteq Profiles /\ now' \subseteq stamped'
      <3>1. ToSet(items) = {items[i] : i \in DOMAIN items} /\ ToSet(items) \subseteq Profiles
        BY DEF ToSet
      <3>2. /\ stamped' = stamped \cup ToSet(items)
            /\ now' \subseteq {items[i] : i \in DOMAIN items} \cup now
        BY <2>1 DEF Stamp
      <3> QED BY <3>1, <3>2 DEF CreditTypes
    <2> QED BY <2>7, <2>8, <2>9 DEF CreditTypes
  <1> QED BY <1>1, <1>2

(* What the core hands out is a number, unless there is no instance.       *)
LEMMA QueryTypes ==
    ASSUME HandedInv, Query
    PROVE  got' \in Nat \cup {None} /\ pending' = 0 /\ (got' # None => from' \in Startable)
  BY BoundAssumption DEF HandedInv, Query

(* The places of a profile in the items of another are counted, too.       *)
LEMMA PlacesTypes ==
    ASSUME NEW p \in Profiles, NEW q PROVE Places(p, q) \in Nat
  <1>1. ItemsOf(p) \in Seq(Profiles)
    BY WayTypes
  <1> DEFINE I == ItemsOf(p)
  <1> HIDE DEF I
  <1>2. DOMAIN I = 1..Len(I) /\ Len(I) \in Nat
    BY <1>1 DEF I
  <1>3. IsFiniteSet(1..Len(I)) /\ {i \in DOMAIN I : I[i] = q} \in SUBSET (1..Len(I))
    BY <1>2, FS_Interval
  <1>4. IsFiniteSet({i \in DOMAIN I : I[i] = q})
    BY <1>3, FS_Subset
  <1> QED BY <1>4, FS_CardinalityType DEF Places, I

LEMMA NextTypes == TypeInv /\ [Next]_vars => TypeInv'
  <1> SUFFICES ASSUME TypeInv, [Next]_vars PROVE TypeOK' /\ HandedInv'
    BY DEF TypeInv
  <1>0. /\ NameTypes /\ DataTypes /\ KeptTypes /\ CreditTypes
        /\ LooperTypes /\ MutexTypes /\ GotTypes /\ HandedInv
    BY ByTypes DEF TypeInv
  <1> SUFFICES /\ NameTypes' /\ DataTypes' /\ KeptTypes' /\ CreditTypes'
               /\ LooperTypes' /\ MutexTypes' /\ GotTypes' /\ HandedInv'
    BY ByTypes, Zenon
  <1> USE <1>0
  <1> USE DEF data, credit, looper, handed, ledger, saving, catalog,
              NameTypes, DataTypes, KeptTypes, LooperTypes, MutexTypes, GotTypes,
              HandedInv
  <1>1. CASE LoopCheck
    BY <1>1 DEF LoopCheck, CreditTypes
  <1>2. CASE LoopQuery
    <2>1. got' \in Nat \cup {None} /\ pending' = 0 /\ (got' # None => from' \in Startable)
      BY <1>2, QueryTypes DEF LoopQuery
    <2> QED BY <1>2, <2>1, BoundAssumption DEF LoopQuery, CreditTypes
  <1>3. CASE LoopCredit
    <2>1. CreditTypes' /\ got' = None
      BY <1>3, CreditKeepsTypes DEF LoopCredit, Credit
    <2> QED BY <1>3, <2>1 DEF LoopCredit
  <1>4. ASSUME NEW p \in Profiles, Start(p)
        PROVE  /\ NameTypes' /\ DataTypes' /\ KeptTypes' /\ CreditTypes'
               /\ LooperTypes' /\ MutexTypes' /\ GotTypes' /\ HandedInv'
    <2>1. DataTypes'
      BY <1>4, BuildTypes DEF Start
    <2> QED BY <1>4, <2>1, BoundAssumption DEF Start, CreditTypes
  <1>5. CASE Started
    <2>1. core \in Profiles
      BY <1>5, ProfileAssumption DEF Started
    <2>2. items' \in Seq(Profiles)
      BY <1>5, <2>1, WayTypes DEF Started
    <2>3. isChain' \in BOOLEAN /\ loop_enabled' \in BOOLEAN
      BY <1>5 DEF Started
    <2>4. saved' = 0 /\ saved' \in 0..Len(items')
      <3>1. saved' = 0
        BY <1>5 DEF Started
      <3>2. Len(items') \in Nat
        BY <2>2
      <3> QED BY <3>1, <3>2
    <2>5. KeptTypes' /\ LooperTypes'
      BY <1>5, <2>2, <2>3, <2>4 DEF Started
    <2>6. NameTypes' /\ DataTypes' /\ CreditTypes' /\ MutexTypes' /\ GotTypes'
      BY <1>5, <2>1 DEF Started, CreditTypes
    <2>7. HandedInv'
      BY <1>5, <2>4 DEF Started
    <2> QED BY <2>5, <2>6, <2>7
  <1>6. CASE StopBegin
    <2>1. loop_enabled' \in BOOLEAN
      BY <1>6 DEF StopBegin
    <2> QED BY <1>6, <2>1 DEF StopBegin, CreditTypes
  <1>7. CASE StopQuery
    <2>1. got' \in Nat \cup {None} /\ pending' = 0 /\ (got' # None => from' \in Startable)
      BY <1>7, QueryTypes DEF StopQuery
    <2> QED BY <1>7, <2>1, BoundAssumption DEF StopQuery, CreditTypes
  <1>8. CASE StopCredit
    <2>1. CreditTypes' /\ got' = None
      BY <1>8, CreditKeepsTypes DEF StopCredit, Credit
    <2>2. saved' = 0 /\ saved' \in 0..Len(items')
      BY <1>8 DEF StopCredit
    <2> QED BY <1>8, <2>1, <2>2 DEF StopCredit
  <1>9. CASE StopSave
    <2>1. CASE items[saved + 1] \in profiles
      <3>1. items[saved + 1] \in Profiles /\ uplink[items[saved + 1]] \in Nat
        BY <2>1 DEF CreditTypes
      <3>2. saved' \in 0..Len(items) /\ UNCHANGED <<window, items>>
        BY <1>9, <2>1 DEF StopSave
      <3>3. disk' \in [Profiles -> Nat]
        BY <1>9, <2>1, <3>1 DEF StopSave
      <3> QED BY <1>9, <3>2, <3>3 DEF StopSave, CreditTypes
    <2>2. CASE items[saved + 1] \notin profiles
      BY <1>9, <2>2 DEF StopSave, CreditTypes
    <2> QED BY <2>1, <2>2
  <1>10. CASE StopUnlock
    BY <1>10 DEF StopUnlock, CreditTypes
  <1>11. CASE StopCore
    BY <1>11, BoundAssumption DEF StopCore, CreditTypes
  <1>12. ASSUME NEW p \in Profiles, TestBuild(p)
         PROVE  /\ NameTypes' /\ DataTypes' /\ KeptTypes' /\ CreditTypes'
                /\ LooperTypes' /\ MutexTypes' /\ GotTypes' /\ HandedInv'
    <2>1. DataTypes'
      BY <1>12, BuildTypes DEF TestBuild
    <2> QED BY <1>12, <2>1 DEF TestBuild, CreditTypes
  <1>13. ASSUME NEW p \in Profiles, DeleteProfile(p)
         PROVE  /\ NameTypes' /\ DataTypes' /\ KeptTypes' /\ CreditTypes'
                /\ LooperTypes' /\ MutexTypes' /\ GotTypes' /\ HandedInv'
    BY <1>13 DEF DeleteProfile, CreditTypes
  <1>14. CASE Carry
    <2>1. carried' \in 0..MaxCarried /\ pending' \in 0..carried' /\ pending' \in 0..MaxCarried
      BY <1>14, BoundAssumption DEF Carry
    <2>2. core \in Profiles
      BY <1>14 DEF Carry
    <2>3. ran' \in [Profiles -> Nat]
      <3>1. \A p \in Profiles : ran[p] + Places(core, p) \in Nat
        BY <2>2, PlacesTypes
      <3> QED BY <1>14, <3>1 DEF Carry
    <2>4. owed' \in [Profiles -> Nat]
      BY <1>14 DEF Carry
    <2> QED BY <1>14, <2>1, <2>3, <2>4 DEF Carry, CreditTypes
  <1>15. CASE Tick
    BY <1>15 DEF Tick, CreditTypes
  <1>16. CASE UNCHANGED vars
    BY <1>16 DEF vars, CreditTypes
  <1> QED BY <1>1, <1>2, <1>3, <1>4, <1>5, <1>6, <1>7, <1>8, <1>9, <1>10, <1>11,
             <1>12, <1>13, <1>14, <1>15, <1>16 DEF Next, Loop, Window, User

LEMMA InitTypes == Init => TypeInv
  <1> SUFFICES ASSUME Init PROVE TypeOK /\ HandedInv
    BY DEF TypeInv
  <1>1. NameTypes /\ DataTypes /\ KeptTypes /\ CreditTypes
    BY DEF Init, NameTypes, DataTypes, KeptTypes, CreditTypes
  <1>2. LooperTypes
    <2>1. items = <<>> /\ isChain = FALSE /\ loop_enabled = FALSE
      BY DEF Init
    <2>2. items \in Seq(Profiles)
      BY <2>1
    <2>3. isChain \in BOOLEAN /\ loop_enabled \in BOOLEAN
      BY <2>1
    <2> QED BY <2>2, <2>3 DEF LooperTypes
  <1>3. MutexTypes
    BY DEF Init, MutexTypes
  <1>4. GotTypes /\ HandedInv
    BY BoundAssumption DEF Init, GotTypes, HandedInv
  <1> QED BY <1>1, <1>2, <1>3, <1>4, ByTypes

(* The types, among them that the mutex is with the loop or with the stop  *)
(* exactly while these credit an update or save it (loop_mutex in          *)
(* TrafficLooper.cpp and in profile_stop).                                 *)
THEOREM TypeCorrect == Spec => []TypeOK
  <1>1. Spec => []TypeInv
    BY InitTypes, NextTypes, PTL DEF Spec
  <1>2. TypeInv => TypeOK
    BY DEF TypeInv
  <1> QED BY <1>1, <1>2, PTL

-----------------------------------------------------------------------------
(* The parts that profiles have *)

(* What the counters say since p was built: its outbounds have the tag     *)
(* "proxy", the others of its way are tails, and with a way of several p   *)
(* itself does not count in the window.  Builds of others leave that alone,*)
(* but for the profiles that have two parts.                               *)
BuiltAs(p) ==
    /\ \A q \in OutsOf(p) \ mixed : tag[q] = "proxy"
    /\ TailOf(p) \subseteq isChainTail
    /\ Len(Way[p]) > 1 => p \in ignoreForRate

(* Tails are no chains, and those of one part have no other tag.           *)
TailsInv ==
    /\ isChainTail \cap Chains = {} /\ mixed \subseteq isChainTail
    /\ \A q \in isChainTail \ mixed : tag[q] = "tail"

(* What the core runs, whose traffic was handed out and whose the items are*)
(* has been built.                                                         *)
ItemsAre(p) == items = ItemsOf(p) /\ isChain = (p \in Chains) /\ BuiltAs(p)
PartsInv ==
    /\ core # None => BuiltAs(core)
    /\ got # None => BuiltAs(from)
    /\ items # <<>> => \E p \in Startable : ItemsAre(p)

(* From the start to the end of the stop, the items are those of what runs.*)
RunInv ==
    window \in {"running", "stop", "credit", "save", "core", "crashed"} =>
        core \in Startable /\ items = ItemsOf(core)

RoleInv == TailsInv /\ PartsInv /\ RunInv

LEMMA InitRoles == Init => RoleInv
  BY DEF Init, RoleInv, TailsInv, PartsInv, RunInv

(* A build leaves what others have built, but for profiles of two parts.   *)
LEMMA BuildKeeps ==
    ASSUME DataTypes, TailsInv, NEW p \in Profiles, BuildChain(p)
    PROVE  /\ TailsInv' /\ BuiltAs(p)'
           /\ \A r \in Profiles : BuiltAs(r) => BuiltAs(r)'
  <1>1. /\ tag' = [q \in Profiles |->
                     IF q = p /\ Len(Way[p]) > 1 THEN "proxy"
                     ELSE IF q \in TailOf(p) THEN "tail"
                     ELSE IF q = Way[p][1] THEN "proxy" ELSE tag[q]]
        /\ isChainTail' = isChainTail \cup TailOf(p)
        /\ ignoreForRate \subseteq ignoreForRate'
        /\ Len(Way[p]) > 1 => p \in ignoreForRate'
        /\ mixed' = mixed \cup {q \in isChainTail' : tag[q] = "proxy" \/ q \in OutsOf(p)}
    BY DEF BuildChain
  <1>2. \A q \in OutsOf(p) : q = Way[p][1] \/ (q = p /\ Len(Way[p]) > 1)
    BY DEF OutsOf
  <1>3. Way[p][1] \in OutsOf(p) /\ (Len(Way[p]) > 1 => p \in OutsOf(p))
    BY DEF OutsOf
  <1>4. TailOf(p) \subseteq Profiles \ Chains
    BY WayTypes
  <1>5. TailsInv'
    <2>1. isChainTail' \cap Chains = {} /\ mixed' \subseteq isChainTail'
      BY <1>1, <1>4 DEF TailsInv
    <2>2. ASSUME NEW q \in isChainTail' \ mixed' PROVE tag'[q] = "tail"
      <3>1. q \in Profiles /\ q \notin OutsOf(p)
        BY <1>1, <1>4, <2>2 DEF DataTypes
      <3>2. q \in TailOf(p) \/ tag[q] = "tail"
        BY <1>1, <2>2 DEF TailsInv
      <3> QED BY <1>1, <1>3, <3>1, <3>2
    <2> QED BY <2>1, <2>2 DEF TailsInv
  <1>6. BuiltAs(p)'
    <2>1. ASSUME NEW q \in OutsOf(p) \ mixed' PROVE tag'[q] = "proxy"
      <3>1. q \in Profiles /\ q \notin TailOf(p)
        BY <1>1, <2>1, WayTypes
      <3> QED BY <1>1, <1>2, <2>1, <3>1
    <2> QED BY <1>1, <2>1 DEF BuiltAs
  <1>7. ASSUME NEW r \in Profiles, BuiltAs(r) PROVE BuiltAs(r)'
    <2>1. ASSUME NEW q \in OutsOf(r) \ mixed' PROVE tag'[q] = "proxy"
      <3>1. q \in Profiles /\ tag[q] = "proxy"
        BY <1>1, <1>7, <2>1, WayTypes DEF BuiltAs
      <3>2. q \notin TailOf(p)
        BY <1>1, <2>1, <3>1
      <3> QED BY <1>1, <3>1, <3>2
    <2> QED BY <1>1, <1>7, <2>1 DEF BuiltAs
  <1> QED BY <1>5, <1>6, <1>7

LEMMA NextRoles == TypeInv /\ RoleInv /\ [Next]_vars => RoleInv'
  <1> SUFFICES ASSUME TypeInv, RoleInv, [Next]_vars PROVE RoleInv'
    OBVIOUS
  <1> USE ProfileAssumption
  <1>1. DataTypes /\ NameTypes /\ LooperTypes /\ GotTypes
    BY ByTypes DEF TypeInv
  <1>2. /\ core \in Startable \cup {None} /\ (got # None => from \in Startable)
        /\ (window = "start" => core \in Startable)
    BY DEF TypeInv, HandedInv
  <1>3. ASSUME UNCHANGED data, UNCHANGED <<items, isChain>>, core' \in {core, None},
               \/ got' = None \/ UNCHANGED handed
               \/ from' = core /\ core # None
        PROVE  TailsInv' /\ PartsInv'
    <2>1. TailsInv' /\ \A p : BuiltAs(p)' <=> BuiltAs(p)
      BY <1>3 DEF RoleInv, TailsInv, BuiltAs, data
    <2> QED BY <1>3, <2>1 DEF RoleInv, PartsInv, ItemsAre, handed
  <1>4. ASSUME NEW p \in Profiles, BuildChain(p), UNCHANGED <<items, isChain, handed>>,
               core' \in {core, p}
        PROVE  TailsInv' /\ PartsInv'
    <2>1. TailsInv' /\ BuiltAs(p)' /\ \A r \in Profiles : BuiltAs(r) => BuiltAs(r)'
      BY <1>1, <1>4, BuildKeeps DEF RoleInv
    <2>2. core' # None => BuiltAs(core)'
      <3>1. CASE core' = p
        BY <2>1, <3>1 DEF BuiltAs
      <3>2. ASSUME core' = core, core # None PROVE BuiltAs(core)'
        <4>1. PICK r \in Profiles : r = core
          BY <1>2, <3>2
        <4>2. BuiltAs(r)'
          BY <2>1, <3>2, <4>1 DEF RoleInv, PartsInv
        <4> QED BY <3>2, <4>1, <4>2 DEF BuiltAs
      <3> QED BY <1>4, <3>1, <3>2
    <2>3. got' # None => BuiltAs(from)'
      <3> SUFFICES ASSUME got # None PROVE BuiltAs(from)'
        BY <1>4 DEF handed
      <3>1. PICK r \in Profiles : r = from
        BY <1>2
      <3>2. BuiltAs(r)'
        BY <2>1, <3>1 DEF RoleInv, PartsInv
      <3> QED BY <1>4, <3>1, <3>2 DEF BuiltAs, handed
    <2>4. ASSUME items' # <<>> PROVE \E r \in Startable : ItemsAre(r)'
      <3>1. PICK r \in Startable : ItemsAre(r)
        BY <1>4, <2>4 DEF RoleInv, PartsInv
      <3>2. ItemsAre(r)'
        BY <1>4, <2>1, <3>1 DEF ItemsAre
      <3> QED BY <3>2
    <2> QED BY <2>1, <2>2, <2>3, <2>4 DEF PartsInv
  <1>5. ASSUME UNCHANGED <<window, core, items>> PROVE RunInv'
    BY <1>5 DEF RoleInv, RunInv
  <1>6. ASSUME NEW p \in Profiles, Start(p) PROVE RoleInv'
    <2>1. TailsInv' /\ PartsInv'
      BY <1>4, <1>6 DEF Start, looper
    <2> QED BY <1>6, <2>1 DEF Start, RoleInv, RunInv
  <1>7. ASSUME NEW p \in Profiles, TestBuild(p) PROVE RoleInv'
    <2>1. TailsInv' /\ PartsInv'
      BY <1>4, <1>7 DEF TestBuild, looper
    <2> QED BY <1>5, <1>7, <2>1 DEF TestBuild, looper, RoleInv
  <1>8. CASE Started
    <2>1. core \in Startable /\ items' = ItemsOf(core) /\ isChain' = (core \in Chains)
          /\ UNCHANGED <<data, core, handed>>
      BY <1>2, <1>8 DEF Started
    <2>2. TailsInv' /\ \A p : BuiltAs(p)' <=> BuiltAs(p)
      BY <2>1 DEF RoleInv, TailsInv, BuiltAs, data
    <2>3. ItemsAre(core)' /\ core \in Startable
      BY <2>1, <2>2 DEF ItemsAre, RoleInv, PartsInv
    <2>4. PartsInv'
      BY <2>1, <2>2, <2>3 DEF RoleInv, PartsInv, ItemsAre, handed
    <2>5. RunInv'
      BY <2>1 DEF RunInv
    <2> QED BY <2>2, <2>4, <2>5 DEF RoleInv
  <1>9. CASE LoopCheck \/ Tick \/ Carry \/ StopBegin \/ StopSave \/ StopUnlock \/ StopCore
    <2>1. UNCHANGED <<data, handed, items, isChain>> /\ core' \in {core, None}
      BY <1>9 DEF LoopCheck, Tick, Carry, StopBegin, StopSave, StopUnlock, StopCore,
         data, looper
    <2>2. RunInv'
      <3>1. CASE LoopCheck \/ Tick \/ Carry
        BY <1>5, <3>1 DEF LoopCheck, Tick, Carry, looper
      <3>2. CASE StopBegin \/ StopUnlock \/ StopCore
        BY <3>2 DEF StopBegin, StopUnlock, StopCore, looper, RoleInv, RunInv
      <3>3. CASE StopSave
        <4>1. window' \in {"save", "crashed"} /\ window = "save" /\ UNCHANGED <<core, items>>
          BY <3>3 DEF StopSave, looper
        <4> QED BY <4>1 DEF RoleInv, RunInv
      <3> QED BY <1>9, <3>1, <3>2, <3>3
    <2> QED BY <1>3, <2>1, <2>2 DEF RoleInv
  <1>10. CASE LoopQuery \/ StopQuery \/ LoopCredit \/ StopCredit
    <2>1. /\ UNCHANGED <<data, core, items, isChain>>
          /\ got' = None \/ (from' = core /\ core # None)
      BY <1>10 DEF LoopQuery, StopQuery, LoopCredit, StopCredit, Query, Credit, looper
    <2>2. RunInv'
      BY <1>10, <2>1 DEF LoopQuery, StopQuery, LoopCredit, StopCredit, RoleInv, RunInv
    <2> QED BY <1>3, <2>1, <2>2 DEF RoleInv
  <1>11. ASSUME NEW p \in Profiles, DeleteProfile(p) PROVE RoleInv'
    BY <1>3, <1>5, <1>11 DEF DeleteProfile, looper, RoleInv
  <1>12. CASE UNCHANGED vars
    BY <1>3, <1>5, <1>12 DEF vars, looper, RoleInv
  <1> QED BY <1>6, <1>7, <1>8, <1>9, <1>10, <1>11, <1>12 DEF Next, Loop, Window, User

-----------------------------------------------------------------------------
(* What an update credits *)

(* The items of p are its outbounds and its tails, each somewhere; what is *)
(* no tail is first, or p itself after several.                            *)
LEMMA ItemPlaces ==
    ASSUME NEW p \in Profiles
    PROVE  /\ ToSet(ItemsOf(p)) = OutsOf(p) \cup TailOf(p)
           /\ \A i \in DOMAIN ItemsOf(p) :
                 ItemsOf(p)[i] \in TailOf(p) \/ i = 1 \/ (Len(Way[p]) > 1 /\ ItemsOf(p)[i] = p)
           /\ TailOf(p) # {} => Len(Way[p]) > 1
           /\ Len(Way[p]) = 1 => Len(ItemsOf(p)) = 1
           /\ Len(Way[p]) > 1 => Len(ItemsOf(p)) > 1 /\ ItemsOf(p)[Len(ItemsOf(p))] = p
  <1> DEFINE n == Len(Way[p])
             I == ItemsOf(p)
  <1>1. Way[p] \in Seq(Profiles) /\ n \in Nat \ {0}
    BY WayTypes
  <1>2. \A i \in 1..n : i \in DOMAIN I /\ I[i] = Way[p][i]
    BY <1>1 DEF ItemsOf
  <1>3. n > 1 => n + 1 \in DOMAIN I /\ I[n + 1] = p /\ Len(I) = n + 1
    BY <1>1 DEF ItemsOf
  <1>4. \A i \in DOMAIN I : i \in 1..n \/ (n > 1 /\ i = n + 1)
    BY <1>1 DEF ItemsOf
  <1>5. n = 1 => Len(I) = 1
    BY <1>1 DEF ItemsOf
  <1>6. TailOf(p) = {Way[p][i] : i \in 2..n}
    BY DEF TailOf
  <1>7. OutsOf(p) = {Way[p][1]} \cup IF n > 1 THEN {p} ELSE {}
    BY DEF OutsOf
  <1>8. ToSet(I) = {I[i] : i \in DOMAIN I}
    BY DEF ToSet
  <1> HIDE DEF n, I
  <1>9. ASSUME NEW i \in DOMAIN I PROVE I[i] \in TailOf(p) \/ i = 1 \/ (n > 1 /\ I[i] = p)
    <2>1. CASE i \in 2..n
      BY <1>1, <1>2, <1>6, <2>1
    <2>2. CASE i \notin 2..n
      BY <1>1, <1>3, <1>4, <2>2
    <2> QED BY <2>1, <2>2
  <1>10. ToSet(I) \subseteq OutsOf(p) \cup TailOf(p)
    BY <1>1, <1>2, <1>7, <1>8, <1>9
  <1>11. OutsOf(p) \cup TailOf(p) \subseteq ToSet(I)
    <2>1. 1 \in 1..n /\ \A i \in 2..n : i \in 1..n
      BY <1>1
    <2> QED BY <1>2, <1>3, <1>6, <1>7, <1>8, <2>1
  <1>12. TailOf(p) # {} => n > 1
    BY <1>1, <1>6
  <1>13. n > 1 => Len(I) > 1 /\ I[Len(I)] = p
    BY <1>1, <1>3
  <1> QED BY <1>5, <1>9, <1>10, <1>11, <1>12, <1>13 DEF n, I

(* When they are several the items tell whose they are, and isChain is     *)
(* that profile's.                                                         *)
LEMMA ChainOfItems ==
    ASSUME RoleInv, NEW p \in Profiles, items = ItemsOf(p), TailOf(p) # {}
    PROVE  isChain = (p \in Chains)
  <1>1. items # <<>>
    BY WayTypes
  <1>2. PICK r \in Startable : items = ItemsOf(r) /\ isChain = (r \in Chains)
    BY <1>1 DEF RoleInv, PartsInv, ItemsAre
  <1>3. r \in Profiles
    BY ProfileAssumption
  <1>4. Len(items) > 1 /\ items[Len(items)] = p
    BY ItemPlaces
  <1>5. Len(Way[r]) > 1
    BY <1>2, <1>3, <1>4, ItemPlaces, WayTypes
  <1>6. r = p
    BY <1>2, <1>3, <1>4, <1>5, ItemPlaces
  <1> QED BY <1>2, <1>6

LEMMA Products ==
    ASSUME NEW n \in Nat, NEW x \in Nat, NEW y \in Nat
    PROVE  /\ n * x \in Nat /\ n * 0 = 0 /\ n * 1 = n /\ 0 * x = 0
           /\ x <= y => n * x <= n * y
           /\ (n + 1) * x = n * x + x
  <1>1. n * x \in Nat /\ n * 0 = 0 /\ n * 1 = n /\ 0 * x = 0 /\ (n + 1) * x = n * x + x
    OBVIOUS
  <1>2. ASSUME x <= y PROVE n * x <= n * y
    <2>1. PICK d \in Nat : y = x + d
      <3>1. y - x \in Nat /\ y = x + (y - x)
        BY <1>2
      <3> QED BY <3>1
    <2>2. n * y = n * x + n * d /\ n * d \in Nat /\ n * x \in Nat
      BY <2>1
    <2> QED BY <2>2
  <1> QED BY <1>1, <1>2

(* Sets of places are compared by what they have.                          *)
LEMMA PlacesIn ==
    ASSUME items \in Seq(Profiles), NEW K \in SUBSET DOMAIN items, NEW L \in SUBSET K
    PROVE  /\ Cardinality(L) <= Cardinality(K)
           /\ L # {} => 1 <= Cardinality(L)
           /\ L = {} => Cardinality(L) = 0
  <1>1. DOMAIN items = 1..Len(items) /\ Len(items) \in Nat
    OBVIOUS
  <1>2. IsFiniteSet(DOMAIN items)
    BY <1>1, FS_Interval
  <1>3. IsFiniteSet(K)
    BY <1>2, FS_Subset
  <1>4. IsFiniteSet(L) /\ Cardinality(L) <= Cardinality(K)
    BY <1>3, FS_Subset
  <1>5. Cardinality(L) \in Nat /\ (Cardinality(L) = 0 <=> L = {})
    BY <1>4, FS_CardinalityType, FS_EmptySet
  <1> QED BY <1>4, <1>5

(* A product added is at most that of more places, at least that of one.  *)
LEMMA Sums ==
    ASSUME NEW u \in Nat, NEW n \in Nat, NEW x \in Nat, NEW y \in Nat, x <= y
    PROVE  /\ u + n * x \in Nat /\ u <= u + n * x /\ u + n * x <= u + n * y
           /\ 1 <= x => u + n <= u + n * x
           /\ n = 0 => u + n <= u + n * x
  <1> DEFINE v == n * x
             w == n * y
  <1>1. v \in Nat /\ w \in Nat /\ v <= w /\ (1 <= x => n <= v)
    BY Products
  <1> HIDE DEF v, w
  <1>2. u + v \in Nat /\ u <= u + v /\ u + v <= u + w /\ (1 <= x => u + n <= u + v)
        /\ (n = 0 => u + n <= u + v)
    BY <1>1
  <1> QED BY <1>2 DEF v, w

(* What an update adds to p.                                               *)
LEMMA Added ==
    ASSUME TypeInv, got # None, NEW C \in SUBSET DOMAIN items, CreditOf(C, got),
           NEW p \in Profiles
    PROVE  /\ Cardinality(At(C, p)) \in Nat /\ Cardinality(At(Tails, p)) \in Nat
           /\ uplink[p] \in Nat
           /\ uplink'[p] = uplink[p] + got * (Cardinality(At(C, p))
                               + IF C = {} THEN 0 ELSE Cardinality(At(Tails, p)))
  <1>1. At(C, p) \in SUBSET DOMAIN items /\ At(Tails, p) \in SUBSET DOMAIN items
    BY DEF At, Tails
  <1>2. items \in Seq(Profiles) /\ uplink[p] \in Nat
    BY ByTypes DEF TypeInv, LooperTypes, CreditTypes
  <1>3. Cardinality(At(C, p)) \in Nat /\ Cardinality(At(Tails, p)) \in Nat
    BY <1>1, <1>2, PlacesCount
  <1>4. uplink'[p] = uplink[p] + got * (Cardinality(At(C, p))
                        + IF C = {} THEN 0 ELSE Cardinality(At(Tails, p)))
    BY DEF CreditOf
  <1> QED BY <1>2, <1>3, <1>4

(* An update for the items' instance credits a profile of one part what was*)
(* carried, unless it is left out, and at none of its places twice.        *)
LEMMA CreditsItsOwn ==
    ASSUME TypeInv, RoleInv, got # None, UpdateAll(got), items = ItemsOf(from),
           NEW p \in Profiles \ mixed
    PROVE  /\ uplink[p] <= uplink'[p] /\ uplink'[p] <= uplink[p] + got * Places(from, p)
           /\ p \in CarriersOf(from) \ missed' => uplink[p] + got <= uplink'[p]
  <1> USE ProfileAssumption
  <1>1. from \in Profiles /\ BuiltAs(from) /\ got \in Nat /\ items \in Seq(Profiles)
    BY ByTypes DEF TypeInv, HandedInv, RoleInv, PartsInv, GotTypes, LooperTypes
  <1>2. PICK first, turns :
           /\ CreditOf(Proxies(Timely(first, turns)), got)
           /\ Passed(Timely(first, turns), got)
    BY DEF UpdateAll
  <1> DEFINE timely == Timely(first, turns)
             C == Proxies(timely)
             a == Cardinality(At(C, p))
             b == Cardinality(At(Tails, p))
             all == {i \in DOMAIN items : items[i] = p}
  <1>3. /\ a \in Nat /\ b \in Nat /\ uplink[p] \in Nat
        /\ uplink'[p] = uplink[p] + got * (a + IF C = {} THEN 0 ELSE b)
    <2>1. C \in SUBSET DOMAIN items
      BY DEF Proxies, Timely
    <2> HIDE DEF C
    <2>2. CreditOf(C, got) /\ p \in Profiles
      BY <1>2 DEF C
    <2> QED BY <2>1, <2>2, Added
  <1>4. Places(from, p) = IF p \in CarriersOf(from) THEN Cardinality(all) ELSE 0
    BY DEF Places
  <1>5. timely \subseteq DOMAIN items /\ C \subseteq timely
        /\ all \in SUBSET DOMAIN items /\ Cardinality(all) \in Nat
    <2>1. all \in SUBSET DOMAIN items
      OBVIOUS
    <2> QED BY <1>1, <2>1, PlacesCount DEF Timely, Proxies
  <1>6. got # 0 => (p \in missed' <=> p \in missed \/ p \in LeftOut(timely))
    BY <1>2 DEF Passed
  <1>7. ToSet(items) = OutsOf(from) \cup TailOf(from)
        /\ ToSet(items) = {items[i] : i \in DOMAIN items}
    BY <1>1, ItemPlaces DEF ToSet
  <1>8. CarriersOf(from) = IF from \in Chains THEN ToSet(items) ELSE OutsOf(from)
    BY DEF CarriersOf
  <1>9. /\ p \in isChainTail => tag[p] = "tail"
        /\ p \in OutsOf(from) => tag[p] = "proxy" /\ p \notin isChainTail
        /\ p \in TailOf(from) => p \in isChainTail
    <2>1. p \in isChainTail => tag[p] = "tail"
      BY DEF RoleInv, TailsInv
    <2>2. p \in OutsOf(from) => tag[p] = "proxy"
      BY <1>1 DEF BuiltAs
    <2>3. p \in TailOf(from) => p \in isChainTail
      BY <1>1 DEF BuiltAs
    <2> QED BY <2>1, <2>2, <2>3
  <1>10. At(C, p) = IF tag[p] = "proxy" THEN At(timely, p) ELSE {}
    BY DEF At, Proxies
  <1>11. At(Tails, p) = IF isChain /\ p \in isChainTail THEN all ELSE {}
    BY DEF At, Tails
  <1>12. At(timely, p) \in SUBSET all
    BY <1>5 DEF At
  <1> HIDE DEF timely, C, all, a, b
  <1>13. CASE p \in OutsOf(from)
    <2>1. At(C, p) = At(timely, p) /\ At(Tails, p) = {}
      BY <1>9, <1>10, <1>11, <1>13
    <2>2. b = 0 /\ a <= Cardinality(all) /\ (At(timely, p) # {} => 1 <= a)
      BY <1>1, <1>5, <1>12, <2>1, PlacesIn, FS_EmptySet DEF a, b
    <2>3. uplink'[p] = uplink[p] + got * a
      <3>1. a + (IF C = {} THEN 0 ELSE b) = a
        BY <1>3, <2>2
      <3> QED BY <1>3, <3>1
    <2>4. p \in ToSet(items) /\ p \in CarriersOf(from) /\ Places(from, p) = Cardinality(all)
      BY <1>4, <1>7, <1>8, <1>13
    <2>5. p \notin missed' => got = 0 \/ At(timely, p) # {}
      BY <1>6, <1>9, <1>13, <2>4 DEF LeftOut
    <2>6. /\ uplink[p] <= uplink'[p] /\ uplink'[p] <= uplink[p] + got * Places(from, p)
          /\ 1 <= a \/ got = 0 => uplink[p] + got <= uplink'[p]
      <3>1. /\ uplink[p] \in Nat /\ got \in Nat /\ a \in Nat
            /\ Cardinality(all) \in Nat /\ a <= Cardinality(all)
        BY <1>1, <1>3, <1>5, <2>2
      <3>2. /\ uplink[p] <= uplink[p] + got * a
            /\ uplink[p] + got * a <= uplink[p] + got * Cardinality(all)
            /\ 1 <= a \/ got = 0 => uplink[p] + got <= uplink[p] + got * a
        BY <3>1, Sums
      <3> QED BY <2>3, <2>4, <3>2
    <2> QED BY <2>2, <2>5, <2>6
  <1>14. CASE p \in TailOf(from) \ OutsOf(from)
    <2>1. isChain = (from \in Chains) /\ Len(Way[from]) > 1
      BY <1>1, <1>14, ChainOfItems, ItemPlaces
    <2>2. At(C, p) = {} /\ a = 0
      BY <1>9, <1>10, <1>14, FS_EmptySet DEF a
    <2>3. CASE from \in Chains
      <3>1. At(Tails, p) = all /\ b = Cardinality(all)
        BY <1>9, <1>11, <1>14, <2>1, <2>3 DEF b
      <3>2. p \in CarriersOf(from) /\ p \in ToSet(items) /\ Places(from, p) = b
        BY <1>4, <1>7, <1>8, <1>14, <2>3, <3>1
      <3>3. 1 <= b
        <4>1. all # {}
          BY <1>7, <3>2 DEF all
        <4> QED BY <1>1, <1>5, <3>1, <4>1, PlacesIn
      <3>4. Proxies(DOMAIN items) # {}
        <4>1. from \in OutsOf(from) /\ from \notin mixed
          BY <2>1, <2>3 DEF OutsOf, RoleInv, TailsInv
        <4>2. tag[from] = "proxy" /\ from \in ToSet(items)
          BY <1>1, <1>7, <4>1 DEF BuiltAs
        <4> QED BY <1>7, <4>2 DEF Proxies
      <3>5. p \notin missed' => got = 0 \/ C # {}
        BY <1>6, <1>9, <1>14, <3>2, <3>4 DEF LeftOut, C
      <3>7. CASE C = {}
        <4>1. uplink'[p] = uplink[p] + got * 0
          <5>1. a + (IF C = {} THEN 0 ELSE b) = 0
            BY <2>2, <3>7
          <5> QED BY <1>3, <5>1
        <4>2. 0 \in Nat /\ 0 <= b
          BY <1>3
        <4>3. /\ uplink[p] <= uplink'[p] /\ uplink'[p] <= uplink[p] + got * b
              /\ got = 0 => uplink[p] + got <= uplink'[p]
          <5>1. uplink[p] \in Nat /\ got \in Nat /\ b \in Nat /\ 0 \in Nat /\ 0 <= b
            BY <1>1, <1>3, <4>2
          <5>2. /\ uplink[p] <= uplink[p] + got * 0
                /\ uplink[p] + got * 0 <= uplink[p] + got * b
                /\ got = 0 => uplink[p] + got <= uplink[p] + got * 0
            BY <5>1, Sums
          <5> QED BY <4>1, <5>2
        <4> QED BY <3>2, <3>5, <3>7, <4>3
      <3>8. CASE C # {}
        <4>1. uplink'[p] = uplink[p] + got * b
          <5>1. a + (IF C = {} THEN 0 ELSE b) = b
            BY <1>3, <2>2, <3>8
          <5> QED BY <1>3, <5>1
        <4>2. b <= b
          BY <1>3
        <4>3. /\ uplink[p] <= uplink'[p] /\ uplink'[p] <= uplink[p] + got * b
              /\ uplink[p] + got <= uplink'[p]
          <5>1. uplink[p] \in Nat /\ got \in Nat /\ b \in Nat /\ b <= b
            BY <1>1, <1>3, <4>2
          <5>2. /\ uplink[p] <= uplink[p] + got * b
                /\ uplink[p] + got * b <= uplink[p] + got * b
                /\ uplink[p] + got <= uplink[p] + got * b
            BY <3>3, <5>1, Sums
          <5> QED BY <4>1, <5>2
        <4> QED BY <3>2, <4>3
      <3> QED BY <3>7, <3>8
    <2>4. CASE from \notin Chains
      <3>1. b = 0
        BY <1>11, <2>1, <2>4, FS_EmptySet DEF b
      <3>2. uplink'[p] = uplink[p] + got * 0
        <4>1. a + (IF C = {} THEN 0 ELSE b) = 0
          BY <2>2, <3>1
        <4> QED BY <1>3, <4>1
      <3>3. p \notin CarriersOf(from) /\ Places(from, p) = 0
        BY <1>4, <1>8, <1>14, <2>4
      <3>4. got * 0 = 0
        BY <1>1
      <3> QED BY <1>3, <3>2, <3>3, <3>4
    <2> QED BY <2>3, <2>4
  <1>15. CASE p \notin ToSet(items)
    <2>1. all = {}
      BY <1>7, <1>15 DEF all
    <2>2. a = 0 /\ b = 0
      BY <1>10, <1>11, <1>12, <2>1, FS_EmptySet DEF a, b
    <2>3. uplink'[p] = uplink[p] + got * 0
      <3>1. a + (IF C = {} THEN 0 ELSE b) = 0
        BY <2>2
      <3> QED BY <1>3, <3>1
    <2>4. p \notin CarriersOf(from) /\ Places(from, p) = 0
      BY <1>4, <1>7, <1>8, <1>15
    <2>5. got * 0 = 0
      BY <1>1
    <2> QED BY <1>3, <2>3, <2>4, <2>5
  <1> QED BY <1>7, <1>13, <1>14, <1>15

(* An update changes nothing of others than the items, and without traffic *)
(* nothing at all; a late one is remembered.                               *)
LEMMA Credits ==
    ASSUME TypeInv, RoleInv, got # None, Credit,
           NEW p \in Profiles \ (mixed \cup astray')
    PROVE  /\ uplink[p] <= uplink'[p] /\ uplink'[p] <= uplink[p] + got * Places(from, p)
           /\ p \in CarriersOf(from) \ missed' => uplink[p] + got <= uplink'[p]
  <1>1. UpdateAll(got)
    BY DEF Credit
  <1>2. CASE items = ItemsOf(from)
    BY <1>1, <1>2, CreditsItsOwn
  <1>3. CASE items # ItemsOf(from)
    <2>1. PICK first, turns :
             /\ CreditOf(Proxies(Timely(first, turns)), got)
             /\ Passed(Timely(first, turns), got)
      BY <1>1 DEF UpdateAll
    <2> DEFINE C == Proxies(Timely(first, turns))
               a == Cardinality(At(C, p))
               b == Cardinality(At(Tails, p))
    <2>2. C \in SUBSET DOMAIN items
      BY DEF Proxies, Timely
    <2>3. CreditOf(C, got) /\ p \in Profiles
      BY <2>1
    <2> HIDE DEF C
    <2>4. /\ a \in Nat /\ b \in Nat /\ uplink[p] \in Nat
          /\ uplink'[p] = uplink[p] + got * (a + IF C = {} THEN 0 ELSE b)
      BY <2>2, <2>3, Added
    <2>5. got \in Nat /\ from \in Profiles /\ items \in Seq(Profiles)
      BY ProfileAssumption, ByTypes DEF TypeInv, HandedInv, GotTypes, LooperTypes
    <2>6. Places(from, p) \in Nat
      BY <2>5, PlacesTypes
    <2>7. CASE got = 0
      <3>1. a + (IF C = {} THEN 0 ELSE b) \in Nat
        BY <2>4
      <3>2. got * (a + IF C = {} THEN 0 ELSE b) = 0 /\ got * Places(from, p) = 0
        BY <2>6, <2>7, <3>1
      <3> QED BY <2>4, <2>7, <3>2
    <2>8. CASE got # 0
      <3>1. p \notin ToSet(items) /\ p \notin CarriersOf(from)
        BY <1>3, <2>1, <2>8 DEF Passed
      <3>2. At(C, p) = {} /\ At(Tails, p) = {}
        BY <2>2, <3>1 DEF At, Tails, ToSet
      <3>3. a = 0 /\ b = 0
        BY <3>2, FS_EmptySet
      <3>4. got * (a + IF C = {} THEN 0 ELSE b) = 0
        <4>1. a + (IF C = {} THEN 0 ELSE b) = 0
          BY <3>3
        <4> QED BY <2>5, <4>1
      <3>5. Places(from, p) = 0 /\ got * 0 = 0
        BY <2>5, <3>1 DEF Places
      <3> QED BY <2>4, <3>1, <3>4, <3>5
    <2> QED BY <2>7, <2>8
  <1> QED BY <1>2, <1>3

(* In the window an update counts once: of the places that count only the  *)
(* first has the tag "proxy".                                              *)
LEMMA CreditsTotal ==
    ASSUME TypeInv, RoleInv, got # None, Credit, mixed = {}
    PROVE  proxy' <= proxy + got
  <1>1. PICK first, turns : CreditOf(Proxies(Timely(first, turns)), got)
    BY DEF Credit, UpdateAll
  <1> DEFINE C == Proxies(Timely(first, turns))
             rated == {i \in C : items[i] \notin ignoreForRate}
  <1>2. proxy' = proxy + got * Cardinality(rated)
    BY <1>1 DEF CreditOf
  <1>3. got \in Nat /\ proxy \in Nat
    BY ByTypes DEF TypeInv, GotTypes, CreditTypes
  <1>4. \A i \in C : i \in DOMAIN items /\ tag[items[i]] = "proxy"
    BY DEF Proxies, Timely
  <1> HIDE DEF C
  <1>5. ASSUME NEW i \in rated PROVE i = 1
    <2>1. i \in DOMAIN items /\ tag[items[i]] = "proxy" /\ items[i] \notin ignoreForRate
      BY <1>4
    <2>2. PICK r \in Startable : items = ItemsOf(r) /\ BuiltAs(r)
      <3>1. items # <<>>
        BY <2>1
      <3> QED BY <3>1 DEF RoleInv, PartsInv, ItemsAre
    <2>3. r \in Profiles
      BY ProfileAssumption
    <2>4. items[i] \notin TailOf(r)
      BY <2>1, <2>2 DEF BuiltAs, RoleInv, TailsInv
    <2>5. i = 1 \/ (Len(Way[r]) > 1 /\ items[i] = r)
      BY <2>1, <2>2, <2>3, <2>4, ItemPlaces
    <2> QED BY <2>1, <2>2, <2>5 DEF BuiltAs
  <1>6. Cardinality(rated) \in Nat /\ Cardinality(rated) <= 1
    <2>1. IsFiniteSet({1}) /\ Cardinality({1}) = 1
      BY FS_Singleton
    <2>2. rated \subseteq {1}
      BY <1>5
    <2> HIDE DEF rated
    <2>3. IsFiniteSet(rated) /\ Cardinality(rated) <= 1
      BY <2>1, <2>2, FS_Subset
    <2> QED BY <2>3, FS_CardinalityType
  <1> HIDE DEF rated
  <1>7. 1 \in Nat /\ got * 1 = got
    BY <1>3
  <1>8. proxy + got * Cardinality(rated) <= proxy + got * 1
    BY <1>3, <1>6, Sums
  <1> QED BY <1>2, <1>7, <1>8

(* What the histories except stays excepted.                               *)
LEMMA HistoriesGrow ==
    [Next]_vars => mixed \subseteq mixed' /\ missed \subseteq missed' /\ astray \subseteq astray'
  <1> USE DEF data, credit
  <1>1. ASSUME NEW p, BuildChain(p) PROVE mixed \subseteq mixed'
    BY <1>1 DEF BuildChain
  <1>2. ASSUME Credit PROVE missed \subseteq missed' /\ astray \subseteq astray'
    BY <1>2 DEF Credit, UpdateAll, Passed
  <1> QED BY <1>1, <1>2 DEF Next, Loop, Window, User, Carry, Tick, vars, LoopCheck,
          LoopQuery, LoopCredit, Start, Started, StopBegin, StopQuery, StopCredit,
          StopSave, StopUnlock, StopCore, TestBuild, DeleteProfile

-----------------------------------------------------------------------------
(* What is owed *)

(* Under way to p: what the core has not handed out before the last query  *)
(* of a stop, and what waits to be credited.                               *)
Pending(p) ==
    IF /\ core # None /\ window \in {"start", "running", "stop"}
       /\ p \in CarriersOf(core)
    THEN pending ELSE 0
Waiting(p) == IF got # None /\ p \in CarriersOf(from) THEN got ELSE 0

Plain == Profiles \ (mixed \cup missed \cup astray)

(* What was carried for p is credited to it or under way.                  *)
OwedInv == \A p \in Plain : owed[p] <= uplink[p] + Pending(p) + Waiting(p)

LEMMA UnderWayTypes ==
    ASSUME TypeInv, NEW p \in Profiles
    PROVE  /\ owed[p] \in Nat /\ uplink[p] \in Nat /\ disk[p] \in Nat
           /\ pending \in Nat /\ Pending(p) \in Nat /\ Waiting(p) \in Nat
  <1>1. /\ owed[p] \in Nat /\ uplink[p] \in Nat /\ disk[p] \in Nat
        /\ pending \in Nat /\ (got # None => got \in Nat)
    BY ByTypes DEF TypeInv, HandedInv, CreditTypes, KeptTypes, GotTypes
  <1> QED BY <1>1 DEF Pending, Waiting

LEMMA NextOwed == TypeInv /\ RoleInv /\ OwedInv /\ [Next]_vars => OwedInv'
  <1> SUFFICES ASSUME TypeInv, RoleInv, OwedInv, [Next]_vars, NEW p \in Plain'
               PROVE  owed'[p] <= uplink'[p] + Pending(p)' + Waiting(p)'
    BY DEF OwedInv
  <1> USE DEF data, credit, looper, handed, ledger, saving, catalog
  <1>1. p \in Plain /\ p \in Profiles \ (mixed \cup astray') /\ p \notin missed'
    BY HistoriesGrow DEF Plain
  <1>2. /\ owed[p] \in Nat /\ uplink[p] \in Nat /\ pending \in Nat
        /\ Pending(p) \in Nat /\ Waiting(p) \in Nat
        /\ owed[p] <= uplink[p] + Pending(p) + Waiting(p)
    BY <1>1, UnderWayTypes DEF OwedInv
  <1>3. ASSUME owed' = owed, uplink' = uplink, UNCHANGED handed,
               Pending(p)' = Pending(p)
        PROVE  owed'[p] <= uplink'[p] + Pending(p)' + Waiting(p)'
    <2>1. Waiting(p)' = Waiting(p)
      BY <1>3 DEF Waiting
    <2> QED BY <1>2, <1>3, <2>1
  <1>4. ASSUME owed' = owed, uplink' = uplink, UNCHANGED <<handed, window, core, pending>>
        PROVE  owed'[p] <= uplink'[p] + Pending(p)' + Waiting(p)'
    BY <1>3, <1>4 DEF Pending
  <1>5. CASE LoopCheck \/ Tick
    BY <1>4, <1>5 DEF LoopCheck, Tick
  <1>6. ASSUME Query, owed' = owed, uplink' = uplink, mutex = "free"
        PROVE  owed'[p] <= uplink'[p] + Pending(p)' + Waiting(p)'
    <2>1. got = None /\ Waiting(p) = 0
      BY <1>6 DEF TypeInv, HandedInv, Waiting
    <2>2. Pending(p)' = 0
      BY <1>6 DEF Query, Pending
    <2>3. Pending(p) <= Waiting(p)' /\ Waiting(p)' \in Nat
      <3>1. pending # None
        BY <1>2, ProfileAssumption
      <3> QED BY <1>2, <1>6, <3>1 DEF Query, Pending, Waiting
    <2> QED BY <1>2, <1>6, <2>1, <2>2, <2>3
  <1>7. CASE LoopQuery
    BY <1>6, <1>7 DEF LoopQuery
  <1>8. ASSUME Credit, owed' = owed, Pending(p)' = Pending(p)
        PROVE  owed'[p] <= uplink'[p] + Pending(p)' + Waiting(p)'
    <2>1. Waiting(p)' = 0
      BY <1>8 DEF Credit, Waiting
    <2>2. CASE got = None
      <3>1. uplink' = uplink /\ Waiting(p) = 0
        BY <1>8, <2>2 DEF Credit, Waiting
      <3> QED BY <1>2, <1>8, <2>1, <3>1
    <2>3. CASE got # None
      <3>1. /\ uplink[p] <= uplink'[p]
            /\ p \in CarriersOf(from) => uplink[p] + got <= uplink'[p]
        BY <1>1, <1>8, <2>3, Credits
      <3>2. uplink[p] + Waiting(p) <= uplink'[p]
        BY <1>2, <2>3, <3>1 DEF Waiting
      <3>3. uplink'[p] \in Nat
        <4>1. TypeInv'
          BY NextTypes
        <4> QED BY <1>1, <4>1, ByTypes DEF TypeInv, CreditTypes
      <3> QED BY <1>2, <1>8, <2>1, <3>2, <3>3
    <2> QED BY <2>2, <2>3
  <1>9. CASE LoopCredit
    BY <1>8, <1>9 DEF LoopCredit, Pending
  <1>10. ASSUME NEW q \in Profiles, Start(q)
         PROVE  owed'[p] <= uplink'[p] + Pending(p)' + Waiting(p)'
    BY <1>3, <1>10 DEF Start, Pending
  <1>11. CASE Started \/ StopBegin \/ StopUnlock \/ StopCore
    BY <1>3, <1>11 DEF Started, StopBegin, StopUnlock, StopCore, Pending
  <1>12. CASE StopQuery
    BY <1>6, <1>12 DEF StopQuery
  <1>13. CASE StopCredit
    BY <1>8, <1>13 DEF StopCredit, Pending
  <1>14. CASE StopSave
    <2>1. window = "save" /\ window' \in {"save", "crashed"}
          /\ owed' = owed /\ uplink' = uplink /\ UNCHANGED handed
      BY <1>14 DEF StopSave
    <2> QED BY <1>3, <2>1 DEF Pending
  <1>15. CASE Carry
    <2>1. /\ core # None /\ pending' = pending + 1 /\ uplink' = uplink
          /\ UNCHANGED <<window, core, handed>>
          /\ owed'[p] = IF window \in {"start", "running"} /\ p \in CarriersOf(core)
                        THEN owed[p] + 1 ELSE owed[p]
      BY <1>1, <1>15 DEF Carry
    <2>2. Waiting(p)' = Waiting(p)
      BY <2>1 DEF Waiting
    <2>3. CASE window \in {"start", "running"} /\ p \in CarriersOf(core)
      <3>1. Pending(p)' = Pending(p) + 1
        BY <2>1, <2>3 DEF Pending
      <3> QED BY <1>2, <2>1, <2>2, <2>3, <3>1
    <2>4. CASE ~(window \in {"start", "running"} /\ p \in CarriersOf(core))
      <3>1. Pending(p) <= Pending(p)' /\ Pending(p)' \in Nat
        BY <1>2, <2>1 DEF Pending
      <3> QED BY <1>2, <2>1, <2>2, <2>4, <3>1
    <2> QED BY <2>3, <2>4
  <1>16. ASSUME NEW q \in Profiles, TestBuild(q) \/ DeleteProfile(q)
         PROVE  owed'[p] <= uplink'[p] + Pending(p)' + Waiting(p)'
    BY <1>4, <1>16 DEF TestBuild, DeleteProfile
  <1>17. CASE UNCHANGED vars
    BY <1>4, <1>17 DEF vars
  <1> QED BY <1>5, <1>7, <1>9, <1>10, <1>11, <1>12, <1>13, <1>14, <1>15, <1>16, <1>17
          DEF Next, Loop, Window, User

(* It is saved, unless it runs and its record has not been written yet.    *)
Unsaved(p) ==
    /\ core # None /\ p \in CarriersOf(core)
    /\ window \in {"start", "running", "stop", "credit", "save", "crashed"}
    /\ window = "save" => \A i \in 1..saved : items[i] # p
SavedInv == \A p \in Plain : owed[p] <= disk[p] \/ Unsaved(p)

LEMMA NextSaved == TypeInv /\ RoleInv /\ OwedInv /\ SavedInv /\ [Next]_vars => SavedInv'
  <1> SUFFICES ASSUME TypeInv, RoleInv, OwedInv, SavedInv, [Next]_vars, NEW p \in Plain'
               PROVE  owed'[p] <= disk'[p] \/ Unsaved(p)'
    BY DEF SavedInv
  <1> USE DEF data, credit, looper, handed, ledger, saving, catalog
  <1>1. p \in Plain /\ p \in Profiles
    BY HistoriesGrow DEF Plain
  <1>2. owed[p] <= disk[p] \/ Unsaved(p)
    BY <1>1 DEF SavedInv
  <1>3. ASSUME owed' = owed, disk' = disk, Unsaved(p) => Unsaved(p)'
        PROVE  owed'[p] <= disk'[p] \/ Unsaved(p)'
    BY <1>2, <1>3
  <1>4. ASSUME owed' = owed, disk' = disk, UNCHANGED <<window, core, items, saved>>
        PROVE  owed'[p] <= disk'[p] \/ Unsaved(p)'
    BY <1>3, <1>4 DEF Unsaved
  <1>5. CASE Loop \/ Tick
    BY <1>4, <1>5 DEF Loop, LoopCheck, LoopQuery, LoopCredit, Tick
  <1>6. ASSUME NEW q \in Profiles, Start(q) PROVE owed'[p] <= disk'[p] \/ Unsaved(p)'
    BY <1>3, <1>6 DEF Start, Unsaved
  <1>7. CASE Started \/ StopBegin \/ StopQuery
    BY <1>3, <1>7 DEF Started, StopBegin, StopQuery, Unsaved
  <1>8. CASE StopCredit
    <2>1. window' = "save" /\ saved' = 0 /\ UNCHANGED <<owed, disk, core>>
      BY <1>8 DEF StopCredit
    <2> QED BY <1>3, <2>1 DEF Unsaved
  <1>9. CASE StopSave
    <2>1. /\ window = "save" /\ saved < Len(items)
          /\ UNCHANGED <<owed, core, items>>
      BY <1>9 DEF StopSave
    <2>2. saved \in Nat /\ items \in Seq(Profiles) /\ disk \in [Profiles -> Nat]
      BY ByTypes DEF TypeInv, KeptTypes, LooperTypes
    <2>3. CASE items[saved + 1] \in profiles
      <3>1. /\ disk' = [disk EXCEPT ![items[saved + 1]] = uplink[items[saved + 1]]]
            /\ saved' = saved + 1 /\ window' = window
        BY <1>9, <2>3 DEF StopSave
      <3>2. CASE items[saved + 1] = p
        <4>1. owed[p] <= uplink[p]
          <5>1. owed[p] <= uplink[p] + Pending(p) + Waiting(p)
            BY <1>1 DEF OwedInv
          <5>2. Pending(p) = 0 /\ Waiting(p) = 0
            BY <2>1 DEF Pending, Waiting, TypeInv, HandedInv
          <5>3. owed[p] \in Nat /\ uplink[p] \in Nat
            BY <1>1, UnderWayTypes
          <5> QED BY <5>1, <5>2, <5>3
        <4> QED BY <1>1, <2>1, <2>2, <3>1, <3>2, <4>1
      <3>3. CASE items[saved + 1] # p
        <4>1. disk'[p] = disk[p]
          BY <1>1, <2>2, <3>1, <3>3
        <4>2. Unsaved(p) => Unsaved(p)'
          <5>1. \A i \in 1..saved + 1 : i \in 1..saved \/ i = saved + 1
            BY <2>2
          <5> QED BY <2>1, <3>1, <3>3, <5>1 DEF Unsaved
        <4> QED BY <1>2, <2>1, <4>1, <4>2
      <3> QED BY <3>2, <3>3
    <2>4. CASE items[saved + 1] \notin profiles
      <3>1. window' = "crashed" /\ UNCHANGED <<disk, saved>>
        BY <1>9, <2>4 DEF StopSave
      <3> QED BY <1>3, <2>1, <3>1 DEF Unsaved
    <2> QED BY <2>3, <2>4
  <1>10. CASE StopUnlock
    <2>1. window = "save" /\ saved = Len(items) /\ UNCHANGED <<owed, disk>>
      BY <1>10 DEF StopUnlock
    <2>2. ASSUME Unsaved(p) PROVE FALSE
      <3>1. p \in CarriersOf(core) /\ \A i \in 1..saved : items[i] # p
        BY <2>1, <2>2 DEF Unsaved
      <3>2. core \in Profiles /\ items = ItemsOf(core)
        BY <2>1, ProfileAssumption DEF RoleInv, RunInv
      <3>3. CarriersOf(core) \subseteq ToSet(items)
        BY <3>2, ItemPlaces DEF CarriersOf
      <3>4. items \in Seq(Profiles)
        BY ByTypes DEF TypeInv, LooperTypes
      <3>5. ToSet(items) = {items[i] : i \in 1..Len(items)}
        BY <3>4 DEF ToSet
      <3> QED BY <2>1, <3>1, <3>3, <3>5
    <2> QED BY <1>2, <2>1, <2>2
  <1>11. CASE StopCore
    <2>1. window = "core" /\ UNCHANGED <<owed, disk>>
      BY <1>11 DEF StopCore
    <2> QED BY <1>3, <2>1 DEF Unsaved
  <1>12. CASE Carry
    <2>1. /\ core # None /\ UNCHANGED <<disk, window, core, items, saved>>
          /\ owed'[p] = IF window \in {"start", "running"} /\ p \in CarriersOf(core)
                        THEN owed[p] + 1 ELSE owed[p]
      BY <1>1, <1>12 DEF Carry
    <2>2. CASE window \in {"start", "running"} /\ p \in CarriersOf(core)
      BY <2>1, <2>2 DEF Unsaved
    <2>3. CASE ~(window \in {"start", "running"} /\ p \in CarriersOf(core))
      BY <1>2, <2>1, <2>3 DEF Unsaved
    <2> QED BY <2>2, <2>3
  <1>13. ASSUME NEW q \in Profiles, TestBuild(q) \/ DeleteProfile(q)
         PROVE  owed'[p] <= disk'[p] \/ Unsaved(p)'
    BY <1>4, <1>13 DEF TestBuild, DeleteProfile
  <1>14. CASE UNCHANGED vars
    BY <1>4, <1>14 DEF vars
  <1> QED BY <1>5, <1>6, <1>7, <1>8, <1>9, <1>10, <1>11, <1>12, <1>13, <1>14
          DEF Next, Window, User

(* What was carried for a profile until the user stopped it is in its      *)
(* record when profile_stop is through, whichever of the loop and the stop *)
(* asked the core for it, whatever was built, tested and deleted meanwhile *)
(* and whatever other chains the profile is in.                            *)
THEOREM StopSavesAll == Spec => []StopSaves
  <1>1. Init => TypeInv /\ RoleInv /\ OwedInv /\ SavedInv
    <2>1. Init => OwedInv /\ SavedInv
      BY DEF Init, OwedInv, SavedInv, Plain, Pending, Waiting
    <2> QED BY <2>1, InitTypes, InitRoles
  <1>2. TypeInv /\ RoleInv /\ OwedInv /\ SavedInv /\ [Next]_vars
          => (TypeInv /\ RoleInv /\ OwedInv /\ SavedInv)'
    BY NextTypes, NextRoles, NextOwed, NextSaved
  <1>3. SavedInv => StopSaves
    BY DEF SavedInv, StopSaves, Plain, Unsaved
  <1> QED BY <1>1, <1>2, <1>3, PTL DEF Spec

-----------------------------------------------------------------------------
(* Nothing twice *)

(* What is credited to p or under way was carried for it.                  *)
PendingAt(p) == IF core = None THEN 0 ELSE pending * Places(core, p)
WaitingAt(p) == IF got = None THEN 0 ELSE got * Places(from, p)
RanInv ==
    \A p \in Profiles \ (mixed \cup astray) :
        uplink[p] + PendingAt(p) + WaitingAt(p) <= ran[p]

(* And in the window, as often as it was.                                  *)
Waits    == IF got = None THEN 0 ELSE got
TotalInv == mixed = {} => proxy + pending + Waits <= carried

LEMMA TotalTypes ==
    TypeInv => proxy \in Nat /\ pending \in Nat /\ carried \in Nat /\ Waits \in Nat
  <1>1. TypeInv => proxy \in Nat /\ pending \in Nat /\ carried \in Nat
    BY ByTypes DEF TypeInv, HandedInv, CreditTypes
  <1>2. TypeInv => got = None \/ got \in Nat
    BY ByTypes DEF TypeInv, GotTypes
  <1> QED BY <1>1, <1>2 DEF Waits

LEMMA CountTypes ==
    ASSUME TypeInv, NEW p \in Profiles
    PROVE  /\ ran[p] \in Nat /\ uplink[p] \in Nat /\ pending \in Nat
           /\ PendingAt(p) \in Nat /\ WaitingAt(p) \in Nat
           /\ core # None => core \in Profiles /\ Places(core, p) \in Nat
  <1>1. /\ ran[p] \in Nat /\ uplink[p] \in Nat /\ pending \in Nat
        /\ got # None => got \in Nat /\ from \in Profiles
        /\ core # None => core \in Profiles
    <2>1. ran[p] \in Nat /\ uplink[p] \in Nat /\ pending \in Nat
      BY ByTypes DEF TypeInv, HandedInv, CreditTypes
    <2>2. got # None => got \in Nat
      BY ByTypes DEF TypeInv, GotTypes
    <2>3. /\ got # None => from \in Profiles
          /\ core # None => core \in Profiles
      BY ProfileAssumption DEF TypeInv, HandedInv
    <2> QED BY <2>1, <2>2, <2>3
  <1>2. core # None => Places(core, p) \in Nat /\ pending * Places(core, p) \in Nat
    BY <1>1, PlacesTypes, Products
  <1>3. got # None => got * Places(from, p) \in Nat
    BY <1>1, PlacesTypes, Products
  <1> QED BY <1>1, <1>2, <1>3 DEF PendingAt, WaitingAt

LEMMA NextRan == TypeInv /\ RoleInv /\ RanInv /\ [Next]_vars => RanInv'
  <1> SUFFICES ASSUME TypeInv, RoleInv, RanInv, [Next]_vars,
                      NEW p \in Profiles \ (mixed' \cup astray')
               PROVE  uplink'[p] + PendingAt(p)' + WaitingAt(p)' <= ran'[p]
    BY DEF RanInv
  <1> USE DEF data, credit, looper, handed, ledger, saving, catalog
  <1>1. p \in Profiles \ (mixed \cup astray')
    BY HistoriesGrow
  <1>2. /\ ran[p] \in Nat /\ uplink[p] \in Nat /\ pending \in Nat
        /\ PendingAt(p) \in Nat /\ WaitingAt(p) \in Nat
        /\ uplink[p] + PendingAt(p) + WaitingAt(p) <= ran[p]
    BY <1>1, CountTypes, HistoriesGrow DEF RanInv
  <1>3. ASSUME UNCHANGED <<uplink, ran, handed>>, PendingAt(p)' = PendingAt(p)
        PROVE  uplink'[p] + PendingAt(p)' + WaitingAt(p)' <= ran'[p]
    <2>1. WaitingAt(p)' = WaitingAt(p)
      BY <1>3 DEF WaitingAt
    <2> QED BY <1>2, <1>3, <2>1
  <1>4. ASSUME UNCHANGED <<uplink, ran, handed, core, pending>>
        PROVE  uplink'[p] + PendingAt(p)' + WaitingAt(p)' <= ran'[p]
    BY <1>3, <1>4 DEF PendingAt
  <1>5. ASSUME UNCHANGED <<uplink, ran, handed>>, pending' = 0, core' \in Startable \cup {None}
        PROVE  uplink'[p] + PendingAt(p)' + WaitingAt(p)' <= ran'[p]
    <2>1. PendingAt(p)' = 0
      <3>1. ASSUME core' # None PROVE pending' * Places(core', p) = 0
        <4>1. Places(core', p) \in Nat
          BY <1>5, <3>1, PlacesTypes, ProfileAssumption
        <4> QED BY <1>5, <4>1
      <3> QED BY <3>1 DEF PendingAt
    <2>2. WaitingAt(p)' = WaitingAt(p)
      BY <1>5 DEF WaitingAt
    <2> QED BY <1>2, <1>5, <2>1, <2>2
  <1>6. ASSUME Query, UNCHANGED <<uplink, ran, core>>, mutex = "free"
        PROVE  uplink'[p] + PendingAt(p)' + WaitingAt(p)' <= ran'[p]
    <2>1. WaitingAt(p) = 0
      BY <1>6 DEF TypeInv, HandedInv, WaitingAt
    <2>2. PendingAt(p)' = 0
      <3>1. core # None => 0 * Places(core, p) = 0
        BY <1>1, CountTypes
      <3> QED BY <1>6, <3>1 DEF Query, PendingAt
    <2>3. WaitingAt(p)' = PendingAt(p)
      <3>1. pending # None
        BY <1>2, ProfileAssumption
      <3> QED BY <1>6, <3>1 DEF Query, PendingAt, WaitingAt
    <2> QED BY <1>2, <1>6, <2>1, <2>2, <2>3
  <1>7. ASSUME Credit, UNCHANGED <<ran, core, pending>>
        PROVE  uplink'[p] + PendingAt(p)' + WaitingAt(p)' <= ran'[p]
    <2>1. WaitingAt(p)' = 0 /\ PendingAt(p)' = PendingAt(p)
      BY <1>7 DEF Credit, WaitingAt, PendingAt
    <2>2. CASE got = None
      <3>1. uplink' = uplink
        BY <1>7, <2>2 DEF Credit
      <3> QED BY <1>2, <1>7, <2>1, <3>1
    <2>3. CASE got # None
      <3>1. uplink'[p] <= uplink[p] + got * Places(from, p)
        BY <1>1, <1>7, <2>3, Credits
      <3>2. WaitingAt(p) = got * Places(from, p)
        BY <2>3 DEF WaitingAt
      <3>3. uplink'[p] \in Nat
        <4>1. TypeInv'
          BY NextTypes
        <4> QED BY <1>1, <4>1, ByTypes DEF TypeInv, CreditTypes
      <3>4. uplink'[p] <= uplink[p] + WaitingAt(p)
        BY <3>1, <3>2
      <3> QED BY <1>2, <1>7, <2>1, <3>3, <3>4
    <2> QED BY <2>2, <2>3
  <1>8. CASE LoopCheck \/ Tick
    BY <1>4, <1>8 DEF LoopCheck, Tick
  <1>9. CASE LoopQuery \/ StopQuery
    BY <1>6, <1>9 DEF LoopQuery, StopQuery
  <1>10. CASE LoopCredit \/ StopCredit
    BY <1>7, <1>10 DEF LoopCredit, StopCredit
  <1>11. ASSUME NEW q \in Profiles, Start(q)
         PROVE  uplink'[p] + PendingAt(p)' + WaitingAt(p)' <= ran'[p]
    BY <1>5, <1>11 DEF Start
  <1>12. CASE Started \/ StopBegin \/ StopSave \/ StopUnlock
    BY <1>4, <1>12 DEF Started, StopBegin, StopSave, StopUnlock
  <1>13. CASE StopCore
    BY <1>5, <1>13 DEF StopCore
  <1>14. CASE Carry
    <2>1. /\ core # None /\ pending' = pending + 1 /\ UNCHANGED <<uplink, core, handed>>
          /\ ran'[p] = ran[p] + Places(core, p)
      BY <1>1, <1>14 DEF Carry
    <2>2. WaitingAt(p)' = WaitingAt(p)
      BY <2>1 DEF WaitingAt
    <2>3. Places(core, p) \in Nat
      BY <1>1, <2>1, CountTypes
    <2>4. PendingAt(p)' = PendingAt(p) + Places(core, p)
      <3>1. (pending + 1) * Places(core, p) = pending * Places(core, p) + Places(core, p)
        BY <1>2, <2>3, Products
      <3> QED BY <2>1, <3>1 DEF PendingAt
    <2> QED BY <1>2, <2>1, <2>2, <2>3, <2>4
  <1>15. ASSUME NEW q \in Profiles, TestBuild(q) \/ DeleteProfile(q)
         PROVE  uplink'[p] + PendingAt(p)' + WaitingAt(p)' <= ran'[p]
    BY <1>4, <1>15 DEF TestBuild, DeleteProfile
  <1>16. CASE UNCHANGED vars
    BY <1>4, <1>16 DEF vars
  <1> QED BY <1>8, <1>9, <1>10, <1>11, <1>12, <1>13, <1>14, <1>15, <1>16
          DEF Next, Loop, Window, User

LEMMA NextTotal == TypeInv /\ RoleInv /\ TotalInv /\ [Next]_vars => TotalInv'
  <1> SUFFICES ASSUME TypeInv, RoleInv, TotalInv, [Next]_vars, mixed' = {}
               PROVE  proxy' + pending' + Waits' <= carried'
    BY DEF TotalInv
  <1> USE DEF data, credit, looper, handed, ledger, saving, catalog
  <1>1. mixed = {}
    BY HistoriesGrow
  <1>2. /\ proxy \in Nat /\ pending \in Nat /\ carried \in Nat /\ Waits \in Nat
        /\ proxy + pending + Waits <= carried
    BY <1>1, TotalTypes DEF TotalInv
  <1>3. ASSUME UNCHANGED <<proxy, carried, handed>>, pending' \in {pending, 0}
        PROVE  proxy' + pending' + Waits' <= carried'
    <2>1. Waits' = Waits
      BY <1>3 DEF Waits
    <2>2. proxy' = proxy /\ carried' = carried /\ (pending' = pending \/ pending' = 0)
      BY <1>3
    <2> QED BY <1>2, <2>1, <2>2
  <1>4. ASSUME Query, UNCHANGED <<proxy, carried>>, mutex = "free"
        PROVE  proxy' + pending' + Waits' <= carried'
    <2>1. got = None /\ Waits = 0
      BY <1>4 DEF TypeInv, HandedInv, Waits
    <2>2. pending' = 0 /\ (Waits' = 0 \/ Waits' = pending)
      BY <1>4 DEF Query, Waits
    <2>3. proxy' = proxy /\ carried' = carried
      BY <1>4
    <2> QED BY <1>2, <2>1, <2>2, <2>3
  <1>5. ASSUME Credit, UNCHANGED <<carried, pending>>
        PROVE  proxy' + pending' + Waits' <= carried'
    <2>1. Waits' = 0
      BY <1>5 DEF Credit, Waits
    <2>2. CASE got = None
      <3>1. proxy' = proxy
        BY <1>5, <2>2 DEF Credit
      <3> QED BY <1>2, <1>5, <2>1, <3>1
    <2>3. CASE got # None
      <3>1. proxy' <= proxy + Waits
        BY <1>1, <1>5, <2>3, CreditsTotal DEF Waits
      <3>2. proxy' \in Nat
        BY NextTypes, ByTypes DEF TypeInv, CreditTypes
      <3>3. carried' = carried /\ pending' = pending
        BY <1>5
      <3>4. proxy' + pending <= carried
        <4>1. ASSUME NEW a \in Nat, NEW b \in Nat, NEW c \in Nat, NEW d \in Nat,
                     NEW e \in Nat, a + b + c <= d, e <= a + c
              PROVE  e + b <= d
          BY <4>1
        <4> QED BY <1>2, <3>1, <3>2, <4>1
      <3>5. proxy' + pending' + Waits' = proxy' + pending
        BY <1>2, <2>1, <3>2, <3>3
      <3> QED BY <3>3, <3>4, <3>5
    <2> QED BY <2>2, <2>3
  <1>6. CASE LoopCheck \/ Tick
    BY <1>3, <1>6 DEF LoopCheck, Tick
  <1>7. CASE LoopQuery \/ StopQuery
    BY <1>4, <1>7 DEF LoopQuery, StopQuery
  <1>8. CASE LoopCredit \/ StopCredit
    BY <1>5, <1>8 DEF LoopCredit, StopCredit
  <1>9. ASSUME NEW q \in Profiles, Start(q)
        PROVE  proxy' + pending' + Waits' <= carried'
    BY <1>3, <1>9 DEF Start
  <1>10. CASE Started \/ StopBegin \/ StopSave \/ StopUnlock \/ StopCore
    BY <1>3, <1>10 DEF Started, StopBegin, StopSave, StopUnlock, StopCore
  <1>11. CASE Carry
    <2>1. /\ pending' = pending + 1 /\ carried' = carried + 1
          /\ proxy' = proxy /\ Waits' = Waits
      BY <1>11 DEF Carry, Waits
    <2> QED BY <1>2, <2>1
  <1>12. ASSUME NEW q \in Profiles, TestBuild(q) \/ DeleteProfile(q)
         PROVE  proxy' + pending' + Waits' <= carried'
    BY <1>3, <1>12 DEF TestBuild, DeleteProfile
  <1>13. CASE UNCHANGED vars
    BY <1>3, <1>13 DEF vars
  <1> QED BY <1>6, <1>7, <1>8, <1>9, <1>10, <1>11, <1>12, <1>13
          DEF Next, Loop, Window, User

(* Nothing is counted twice: what UpdateAll credits to a profile, whether  *)
(* the loop or the last query of a stop got it, was carried for it; and in *)
(* the window what a chain or a front proxy carries counts once.           *)
THEOREM NoneIsCountedTwice == Spec => []NoneTwice
  <1>1. Init => TypeInv /\ RoleInv /\ RanInv /\ TotalInv
    <2>1. Init => RanInv
      BY DEF Init, RanInv, PendingAt, WaitingAt
    <2>2. Init => TotalInv
      BY DEF Init, TotalInv, Waits
    <2> QED BY <2>1, <2>2, InitTypes, InitRoles
  <1>2. TypeInv /\ RoleInv /\ RanInv /\ TotalInv /\ [Next]_vars
          => (TypeInv /\ RoleInv /\ RanInv /\ TotalInv)'
    BY NextTypes, NextRoles, NextRan, NextTotal
  <1>3. TypeInv /\ RanInv /\ TotalInv => NoneTwice
    <2> SUFFICES ASSUME TypeInv, RanInv, TotalInv PROVE NoneTwice
      OBVIOUS
    <2>1. ASSUME NEW p \in Profiles \ (mixed \cup astray) PROVE uplink[p] <= ran[p]
      <3>1. /\ ran[p] \in Nat /\ uplink[p] \in Nat
            /\ PendingAt(p) \in Nat /\ WaitingAt(p) \in Nat
        BY CountTypes
      <3>2. uplink[p] + PendingAt(p) + WaitingAt(p) <= ran[p]
        BY DEF RanInv
      <3> QED BY <3>1, <3>2
    <2>2. mixed = {} => proxy <= carried
      <3>1. proxy \in Nat /\ pending \in Nat /\ carried \in Nat /\ Waits \in Nat
        BY TotalTypes
      <3> QED BY <3>1 DEF TotalInv
    <2> QED BY <2>1, <2>2 DEF NoneTwice
  <1> QED BY <1>1, <1>2, <1>3, PTL DEF Spec

=============================================================================
