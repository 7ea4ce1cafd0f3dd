--------------------------- MODULE ProfileManager ---------------------------
(***************************************************************************)
(* The catalogue of proxy profiles and groups: class ProfileManager        *)
(* (gharqad/dataStore/Database.cpp), its groups (Group.cpp) and the LMDB   *)
(* file behind them.                                                       *)
(*                                                                         *)
(* The catalogue lives twice.  In memory: profiles (id -> entity, of which *)
(* only the group id matters here), groups (id -> list of profile ids) and *)
(* the two id orders, whose last() gives the next id.  On disk: one record *)
(* per profile and one per group.  A group is mostly written by the caller *)
(* itself; a profile is written and dropped by a thread started with       *)
(* runOnNewThread, so those writes run later, in any order, or never when  *)
(* the program ends first.                                                 *)
(*                                                                         *)
(* A group's list is a set here: AddProfile refuses an id it already holds *)
(* and the position only matters to the table view.  An entity is named by *)
(* its id; a write pending for an entity that has left the catalogue keeps *)
(* the value the object had (stales, gstales).                             *)
(***************************************************************************)
EXTENDS Integers, FiniteSets, Sequences

CONSTANTS
    MaxId,      \* profile ids are 0..MaxId: a bound on what AddProfile may allot
    MaxGid,     \* group ids are 0..MaxGid: the same bound for AddGroup
    MaxJobs,    \* bound on pending thread writes of one kind for one record
    KeyBase,    \* values of one byte of a database key: 256 in the code
    None,       \* null pointer, id -1919, absent record
    Corrupt     \* a profile record the loader rejects (ent->isValid() fails)

Id    == 0 .. MaxId
Gid   == 0 .. MaxGid
Lists == SUBSET Id

ASSUME BoundsAssumption ==
    /\ MaxId \in Nat /\ MaxGid \in Nat /\ MaxJobs \in Nat
    /\ KeyBase \in Nat /\ KeyBase > 1

ASSUME SentinelAssumption ==
    /\ None \notin Id \cup Gid
    /\ \A l \in Lists : None # l
    /\ Corrupt \notin Id \cup Gid \cup {None}

VARIABLES
    up,         \* is the program running
    profiles,   \* id -> group of the entity, or None
    idOrder,    \* profilesIdOrder
    groups,     \* group id -> set of profile ids it lists, or None
    gidOrder,   \* groupsIdOrder
    started,    \* dataStore->started_id
    starting,   \* id of the entity a profile_start thread holds
    dProfiles,  \* disk: id -> saved group, None or Corrupt
    dGroups,    \* disk: group id -> saved list, or None
    saves,      \* ids whose entity a thread still has to save
    stales,     \* id -> gid -> saves pending for entities no longer listed
    drops,      \* id -> record deletions pending in threads
    gsaves,     \* group id -> saves of the live group pending in threads
    gstales     \* group id -> list -> saves pending for deleted group objects

(***************************************************************************)
(* History variables: they record what has gone wrong before, so that the  *)
(* invariants can say that nothing else does.  No action reads them.       *)
(***************************************************************************)
VARIABLES
    foreign,    \* <<i, g>>: g's list held i without owning it when it was loaded
    stranded,   \* profiles that outlived their group
    moved,      \* profiles moved to another group and not saved since
    raced,      \* ids with a save and a drop pending at the same time
    clobbered   \* group ids a deleted group's object was saved over

memory  == <<profiles, idOrder, groups, gidOrder>>
disk    == <<dProfiles, dGroups>>
threads == <<saves, stales, drops, gsaves, gstales>>
history == <<foreign, stranded, moved, raced, clobbered>>
vars    == <<up, memory, started, starting, disk, threads, history>>

-----------------------------------------------------------------------------
(* Ids and their order *)

Listed(f) == {x \in DOMAIN f : f[x] # None}

(* Keys are little endian, the database compares them byte by byte: the    *)
(* low byte first (ids of at most two bytes).                              *)
KeyLess(i, j) == \/ i % KeyBase < j % KeyBase
                 \/ i % KeyBase = j % KeyBase /\ i < j

(* query_lmdb: the records found, in the order of their keys.              *)
InKeyOrder(s, S) == /\ s \in [1 .. Cardinality(S) -> S]
                    /\ \A x \in S : \E k \in DOMAIN s : s[k] = x
                    /\ \A j, k \in DOMAIN s : j < k => KeyLess(s[j], s[k])

Query(S) == {s \in [1 .. Cardinality(S) -> S] : InKeyOrder(s, S)}

(* The list s without the members of D, in the order of s: p gives the     *)
(* positions that stay.                                                    *)
Kept(s, D) == {k \in DOMAIN s : s[k] \notin D}

Positions(s, D) ==
    {p \in UNION {[1 .. n -> Kept(s, D)] : n \in 0 .. Len(s)} :
        /\ \A k \in Kept(s, D) : \E j \in DOMAIN p : p[j] = k
        /\ \A j, k \in DOMAIN p : j < k => p[j] < p[k]}

Without(s, D) == {[k \in DOMAIN p |-> s[p[k]]] : p \in Positions(s, D)}

(* Mutant: the number of ids in use taken for the next id.                   *)
NewProfileID_Counts == Cardinality(Listed(profiles))
NewProfileID == IF Listed(profiles) = {} THEN 0 ELSE idOrder[Len(idOrder)] + 1
NewGroupID   == IF Listed(groups) = {} THEN 0 ELSE gidOrder[Len(gidOrder)] + 1

-----------------------------------------------------------------------------
(* Writes that threads have pending *)

SavePending(i) == i \in saves \/ \E g \in Gid : stales[i][g] > 0
Settled(i)     == ~SavePending(i) /\ drops[i] = 0

(* An entity leaves the catalogue: a thread that still holds it will write *)
(* the group it had.                                                       *)
Detached(D) ==
    [i \in Id |-> [g \in Gid |->
        stales[i][g] + (IF i \in D \cap saves /\ profiles[i] = g THEN 1 ELSE 0)]]

(* Both a save and a drop of the same record are under way.                *)
Racing == {i \in Id : SavePending(i) /\ drops[i] > 0}

RoomToDrop(D) == \A i \in D : /\ drops[i] < MaxJobs
                              /\ profiles[i] \in Gid /\ i \in saves
                                    => stales[i][profiles[i]] < MaxJobs

-----------------------------------------------------------------------------
(* Operations on profiles *)

(* Mutant: nothing is added to an empty list.                                *)
WithProfiles_OnlyNonempty(l, S) == IF l = {} THEN {} ELSE l \cup S

(* Group::AddProfile for each id of S: an id that is there is not added again. *)
WithProfiles(l, S) == l \cup S

(* AddProfile, that is AddProfileBatch for one new entity: the next id, the *)
(* group's list and record at once, the profile's record by a thread.       *)
AddProfile(g) ==
    LET i == NewProfileID IN
    /\ up
    /\ groups[g] # None
    /\ i \in Id
    /\ RoomToDrop({i} \cap saves)
    /\ profiles' = [profiles EXCEPT ![i] = g]
    /\ idOrder' = Append(idOrder, i)
    /\ groups' = [groups EXCEPT ![g] = WithProfiles(@, {i})]
    /\ dGroups' = [dGroups EXCEPT ![g] = groups'[g]]
    /\ stales' = Detached({i})
    /\ saves' = saves \cup {i}
    /\ moved' = moved \ {i}
    /\ UNCHANGED <<up, gidOrder, started, starting, dProfiles, drops, gsaves,
                   gstales, foreign, stranded, clobbered>>
    /\ raced' = raced \cup Racing'

(* Mutant: the profile being started is spared like the started one.         *)
Deletable_SparesStarting(S) ==
    {i \in S : profiles[i] # None /\ i # started /\ i # starting}

(* The ids of a request that BatchDeleteProfiles really deletes.           *)
Deletable(S) == {i \in S : profiles[i] # None /\ i # started}

(* What is left of the groups' lists: an id goes from the list of its own  *)
(* group only.                                                             *)
GroupsWithout(D) ==
    [g \in Gid |-> IF groups[g] = None THEN None
                   ELSE groups[g] \ {i \in D : profiles[i] = g}]

(* The groups that a batch takes profiles from.                              *)
ChangedGroups(D) == {g \in Listed(groups) : \E i \in D : profiles[i] = g}

(* The part BatchDeleteProfiles and DeleteGroup share: D leaves the        *)
(* catalogue, the drops of its records are left to a thread.               *)
Erase(D) ==
    /\ RoomToDrop(D)
    /\ profiles' = [i \in Id |-> IF i \in D THEN None ELSE profiles[i]]
    /\ idOrder' \in Without(idOrder, D)
    /\ stales' = Detached(D)
    /\ saves' = saves \ D
    /\ drops' = [i \in Id |-> IF i \in D THEN drops[i] + 1 ELSE drops[i]]
    /\ moved' = moved \ D
    /\ raced' = raced \cup Racing'

BatchDeleteProfiles(S) ==
    LET D == Deletable(S) IN
    /\ up
    /\ Erase(D)
    /\ groups' = GroupsWithout(D)
    /\ dGroups' = [g \in Gid |-> IF g \in ChangedGroups(D) THEN groups'[g]
                                 ELSE dGroups[g]]
    /\ stranded' = stranded \ D
    /\ UNCHANGED <<up, gidOrder, started, starting, dProfiles, gsaves, gstales,
                   foreign, clobbered>>

(* The ids of a request that MoveProfileBatch really moves to group g.     *)
Movable(S, g) == {i \in S : /\ profiles[i] # None
                            /\ profiles[i] # g
                            /\ groups[profiles[i]] # None}

(* The groups that gain and lose are saved by a thread.  The moved entities *)
(* are not: the set `ments` that the thread walks is never filled.          *)
MoveProfileBatch(S, g) ==
    LET M == Movable(S, g)
        touched == {g} \cup {profiles[i] : i \in M} IN
    /\ up
    /\ groups[g] # None
    /\ M # {}
    /\ \A h \in touched : gsaves[h] < MaxJobs
    /\ profiles' = [i \in Id |-> IF i \in M THEN g ELSE profiles[i]]
    /\ groups' = [GroupsWithout(M) EXCEPT ![g] = WithProfiles(@, M)]
    /\ gsaves' = [h \in Gid |-> IF h \in touched THEN gsaves[h] + 1
                                ELSE gsaves[h]]
    /\ stranded' = stranded \ M
    /\ moved' = moved \cup M
    /\ UNCHANGED <<up, idOrder, gidOrder, started, starting, disk, saves,
                   stales, drops, gstales, foreign, raced, clobbered>>

(* Mutant: a record that exists is not written again.                        *)
SaveProfile_NewOnly(i) ==
    /\ up
    /\ profiles[i] # None
    /\ dProfiles' = [dProfiles EXCEPT ![i] = IF @ = None THEN profiles[i] ELSE @]
    /\ moved' = moved \ {i}
    /\ UNCHANGED <<up, memory, started, starting, dGroups, threads, foreign,
                   stranded, raced, clobbered>>

(* ent->Save() by a caller that has just looked the entity up: a test       *)
(* result, an edited profile, the traffic at profile_stop.                  *)
SaveProfile(i) ==
    /\ up
    /\ profiles[i] # None
    /\ dProfiles' = [dProfiles EXCEPT ![i] = profiles[i]]
    /\ moved' = moved \ {i}
    /\ UNCHANGED <<up, memory, started, starting, dGroups, threads, foreign,
                   stranded, raced, clobbered>>

-----------------------------------------------------------------------------
(* Operations on groups *)

AddGroup ==
    LET g == NewGroupID IN
    /\ up
    /\ g \in Gid
    /\ groups' = [groups EXCEPT ![g] = {}]
    /\ gidOrder' = Append(gidOrder, g)
    /\ dGroups' = [dGroups EXCEPT ![g] = {}]
    /\ UNCHANGED <<up, profiles, idOrder, started, starting, dProfiles,
                   threads, history>>

(* The listed profiles go first, the started one stays in memory.  A save   *)
(* of the group that a thread still holds will write the list it had.       *)
DeleteGroup(g) ==
    LET D == Deletable(groups[g])
        last == groups[g] \ {i \in D : profiles[i] = g} IN
    /\ up
    /\ Cardinality(Listed(groups)) > 1
    /\ groups[g] # None
    /\ gstales[g][last] + gsaves[g] <= MaxJobs
    /\ Erase(D)
    /\ groups' = [GroupsWithout(D) EXCEPT ![g] = None]
    /\ gidOrder' \in Without(gidOrder, {g})
    /\ dGroups' = [h \in Gid |-> IF h \in ChangedGroups(D) \cup {g}
                                 THEN groups'[h] ELSE dGroups[h]]
    /\ gstales' = [gstales EXCEPT ![g][last] = @ + gsaves[g]]
    /\ gsaves' = [gsaves EXCEPT ![g] = 0]
    /\ stranded' = (stranded \ D) \cup {i \in Id : profiles'[i] = g}
    /\ foreign' = {x \in foreign : x[2] # g}
    /\ UNCHANGED <<up, started, starting, dProfiles, clobbered>>

(* group->Save() after a reordering or an edit of its settings.            *)
SaveGroup(g) ==
    /\ up
    /\ groups[g] # None
    /\ dGroups' = [dGroups EXCEPT ![g] = groups[g]]
    /\ UNCHANGED <<up, memory, started, starting, dProfiles, threads, history>>

-----------------------------------------------------------------------------
(* Threads *)

RunSave(i) ==
    /\ i \in saves
    /\ saves' = saves \ {i}
    /\ dProfiles' = [dProfiles EXCEPT ![i] = profiles[i]]
    /\ moved' = moved \ {i}
    /\ UNCHANGED <<up, memory, started, starting, dGroups, stales, drops,
                   gsaves, gstales, foreign, stranded, raced, clobbered>>

RunStaleSave(i, g) ==
    /\ stales[i][g] > 0
    /\ stales' = [stales EXCEPT ![i][g] = @ - 1]
    /\ dProfiles' = [dProfiles EXCEPT ![i] = g]
    /\ UNCHANGED <<up, memory, started, starting, dGroups, saves, drops,
                   gsaves, gstales, history>>

(* Mutant: only the bean of the profile is dropped.                          *)
RunDrop_BeansOnly(i) ==
    /\ drops[i] > 0
    /\ drops' = [drops EXCEPT ![i] = @ - 1]
    /\ UNCHANGED <<up, memory, started, starting, disk, saves, stales,
                   gsaves, gstales, history>>

RunDrop(i) ==
    /\ drops[i] > 0
    /\ drops' = [drops EXCEPT ![i] = @ - 1]
    /\ dProfiles' = [dProfiles EXCEPT ![i] = None]
    /\ UNCHANGED <<up, memory, started, starting, dGroups, saves, stales,
                   gsaves, gstales, history>>

RunGroupSave(g) ==
    /\ gsaves[g] > 0
    /\ gsaves' = [gsaves EXCEPT ![g] = @ - 1]
    /\ dGroups' = [dGroups EXCEPT ![g] = groups[g]]
    /\ UNCHANGED <<up, memory, started, starting, dProfiles, saves, stales,
                   drops, gstales, history>>

RunStaleGroupSave(g, l) ==
    /\ gstales[g][l] > 0
    /\ gstales' = [gstales EXCEPT ![g][l] = @ - 1]
    /\ dGroups' = [dGroups EXCEPT ![g] = l]
    /\ clobbered' = clobbered \cup {g}
    /\ UNCHANGED <<up, memory, started, starting, dProfiles, saves, stales,
                   drops, gsaves, foreign, stranded, moved, raced>>

-----------------------------------------------------------------------------
(* The started profile: what the life cycle of a connection does to          *)
(* started_id, which is all the catalogue reads of it.                       *)

(* profile_start looks the entity up, stops what runs and hands the entity   *)
(* to a thread.                                                              *)
ProfileStart(i) ==
    /\ up
    /\ starting = None
    /\ profiles[i] # None /\ groups[profiles[i]] # None
    /\ starting' = i
    /\ started' \in {started, None}
    /\ UNCHANGED <<up, memory, disk, threads, history>>

(* The thread's answer from the core: UpdateStartedId, or an error.          *)
ProfileStarted(ok) ==
    /\ starting # None
    /\ started' = IF ok THEN starting ELSE started
    /\ starting' = None
    /\ UNCHANGED <<up, memory, disk, threads, history>>

ProfileStop ==
    /\ started # None
    /\ started' = None
    /\ UNCHANGED <<up, memory, starting, disk, threads, history>>

-----------------------------------------------------------------------------
(* The program ends, is killed, and starts again *)

Exit ==
    /\ up
    /\ up' = FALSE
    /\ profiles' = [i \in Id |-> None] /\ idOrder' = << >>
    /\ groups' = [g \in Gid |-> None] /\ gidOrder' = << >>
    /\ started' = None /\ starting' = None
    /\ saves' = {}
    /\ stales' = [i \in Id |-> [g \in Gid |-> 0]]
    /\ drops' = [i \in Id |-> 0]
    /\ gsaves' = [g \in Gid |-> 0]
    /\ gstales' = [g \in Gid |-> [l \in Lists |-> 0]]
    /\ foreign' = {} /\ stranded' = {} /\ moved' = {}
    /\ raced' = {} /\ clobbered' = {}
    /\ UNCHANGED disk

(* While the program is down a record may become one this version cannot     *)
(* read, for example because a later version wrote it.                       *)
CorruptRecord(i) ==
    /\ ~up
    /\ dProfiles[i] \in Gid
    /\ dProfiles' = [dProfiles EXCEPT ![i] = Corrupt]
    /\ UNCHANGED <<up, memory, started, starting, dGroups, threads, history>>

(* LoadManager.  A profile is an orphan when its group is missing, or has a  *)
(* list without it; a group with an empty list takes all its profiles back   *)
(* and is saved.  The clean-up of the corrupt ids does nothing, for they     *)
(* were never put into `profiles`.                                           *)
Readable == {i \in Id : dProfiles[i] \in Gid}
Emptied  == {g \in Gid : dGroups[g] = {}}
Orphans  == {i \in Readable :
                \/ dGroups[dProfiles[i]] = None
                \/ /\ dProfiles[i] \notin Emptied
                   /\ i \notin dGroups[dProfiles[i]]}

LoadedGroups ==
    LET found == [g \in Gid |-> IF g \in Emptied
                                THEN WithProfiles({}, {i \in Readable : dProfiles[i] = g})
                                ELSE dGroups[g]] IN
    IF Listed(dGroups) = {} THEN [found EXCEPT ![0] = {}] ELSE found

LoadManager ==
    /\ ~up
    /\ up' = TRUE
    /\ RoomToDrop(Orphans)
    /\ profiles' = [i \in Id |-> IF i \in Readable \ Orphans
                                 THEN dProfiles[i] ELSE None]
    /\ idOrder' \in Query(Listed(dProfiles) \ Orphans)
    /\ groups' = LoadedGroups
    /\ gidOrder' \in Query(Listed(groups'))
    /\ dGroups' = groups'
    /\ drops' = [i \in Id |-> IF i \in Orphans THEN 1 ELSE 0]
    /\ foreign' = {x \in Id \X Gid : /\ groups'[x[2]] # None
                                     /\ x[1] \in groups'[x[2]]
                                     /\ profiles'[x[1]] # x[2]}
    /\ UNCHANGED <<started, starting, dProfiles, saves, stales, gsaves,
                   gstales, stranded, moved, raced, clobbered>>

-----------------------------------------------------------------------------
Init ==
    /\ up = FALSE
    /\ profiles = [i \in Id |-> None] /\ idOrder = << >>
    /\ groups = [g \in Gid |-> None] /\ gidOrder = << >>
    /\ started = None /\ starting = None
    /\ dProfiles = [i \in Id |-> None]
    /\ dGroups = [g \in Gid |-> None]
    /\ saves = {}
    /\ stales = [i \in Id |-> [g \in Gid |-> 0]]
    /\ drops = [i \in Id |-> 0]
    /\ gsaves = [g \in Gid |-> 0]
    /\ gstales = [g \in Gid |-> [l \in Lists |-> 0]]
    /\ foreign = {} /\ stranded = {} /\ moved = {}
    /\ raced = {} /\ clobbered = {}

UserStep ==
    \/ \E g \in Gid : AddProfile(g) \/ DeleteGroup(g) \/ SaveGroup(g)
    \/ \E S \in SUBSET Id : BatchDeleteProfiles(S)
    \/ \E S \in SUBSET Id, g \in Gid : MoveProfileBatch(S, g)
    \/ \E i \in Id : SaveProfile(i) \/ ProfileStart(i)
    \/ AddGroup
    \/ \E ok \in BOOLEAN : ProfileStarted(ok)
    \/ ProfileStop

ThreadStep ==
    \/ \E i \in Id : RunSave(i) \/ RunDrop(i)
    \/ \E i \in Id, g \in Gid : RunStaleSave(i, g)
    \/ \E g \in Gid : RunGroupSave(g)
    \/ \E g \in Gid, l \in Lists : RunStaleGroupSave(g, l)

SystemStep == Exit \/ LoadManager \/ \E i \in Id : CorruptRecord(i)

Next == UserStep \/ ThreadStep \/ SystemStep

Spec == Init /\ [][Next]_vars

-----------------------------------------------------------------------------
(* Properties *)

(* Every variable keeps its type.                                            *)
TypeOK ==
    /\ up \in BOOLEAN
    /\ profiles \in [Id -> Gid \cup {None}]
    /\ idOrder \in Seq(Id)
    /\ groups \in [Gid -> {None} \cup Lists]
    /\ gidOrder \in Seq(Gid)
    /\ started \in Id \cup {None}
    /\ starting \in Id \cup {None}
    /\ dProfiles \in [Id -> Gid \cup {None, Corrupt}]
    /\ dGroups \in [Gid -> {None} \cup Lists]
    /\ saves \in SUBSET Id
    /\ stales \in [Id -> [Gid -> Nat]]
    /\ drops \in [Id -> Nat]
    /\ gsaves \in [Gid -> Nat]
    /\ gstales \in [Gid -> [Lists -> Nat]]
    /\ foreign \in SUBSET (Id \X Gid)
    /\ stranded \in SUBSET Id
    /\ moved \in SUBSET Id
    /\ raced \in SUBSET Id
    /\ clobbered \in SUBSET Gid

(* In the list s, every member of S is followed by greater ids only.         *)
GreaterFollow(s, S) ==
    \A x \in S : \E k \in DOMAIN s :
        s[k] = x /\ \A j \in DOMAIN s : j > k => s[j] > x

(* last() of profilesIdOrder and groupsIdOrder is the greatest id in use.    *)
OrdersGrow == /\ GreaterFollow(idOrder, Listed(profiles))
              /\ GreaterFollow(gidOrder, Listed(groups))

DownIsEmpty == ~up => Listed(profiles) = {} /\ Listed(groups) = {}

(* "sort by id" (Database.hpp) says profilesIdOrder is sorted, and           *)
(* NewProfileID counts on it: LoadManager takes the order of the keys.       *)
SortedById ==
    \A j, k \in DOMAIN idOrder :
        j < k /\ {idOrder[j], idOrder[k]} \subseteq Listed(profiles)
            => idOrder[j] <= idOrder[k]

(* NewProfileID (Database.cpp) takes last() + 1 of an order that deletions,  *)
(* a load by key order and ids left by unreadable records all shape: it      *)
(* must still never hand out the id of a profile in the catalogue, whose     *)
(* entity AddProfileBatch would replace without a word.                      *)
NewProfileIdIsFresh == Listed(profiles) # {} => NewProfileID \notin Listed(profiles)

(* The same for NewGroupID and AddGroup.                                     *)
NewGroupIdIsFresh == Listed(groups) # {} => NewGroupID \notin Listed(groups)

(* What last() + 1 returns is nobody's id, for both.                         *)
NewIdsFresh == NewProfileIdIsFresh /\ NewGroupIdIsFresh

(* A profile's group exists and lists it, through adding, moving, deleting,  *)
(* group ids being used again, and the repairs of LoadManager.  The one      *)
(* exception is a profile that outlived its group (DeleteGroup leaves the    *)
(* started profile behind, and a new group may get the same id).             *)
ListedInOwnGroup ==
    \A i \in Listed(profiles) \ stranded :
        groups[profiles[i]] # None /\ i \in groups[profiles[i]]

(* No operation makes a group list a profile of another group, nor an id     *)
(* without a profile: such entries are only ever what LoadManager found.     *)
ListsOnlyItsOwn ==
    \A g \in Listed(groups) : \A i \in groups[g] :
        profiles[i] # g => <<i, g>> \in foreign

(* The catalogue is consistent in memory: the types, and what the profiles,  *)
(* the groups and the orders of ids say of each other.                       *)
CatalogueInv == /\ TypeOK /\ DownIsEmpty /\ OrdersGrow
                /\ ListedInOwnGroup /\ ListsOnlyItsOwn

(* Once its threads are done, a profile is in the catalogue exactly when its *)
(* record is in the database, except when a save and a drop of the same id   *)
(* were under way together (AddProfileBatch and BatchDeleteProfiles write    *)
(* from threads of their own, in no order).                                  *)
ProfileRecordsAgree ==
    up => \A i \in Id \ raced :
            Settled(i) => (profiles[i] # None <=> dProfiles[i] \in Gid)

(* Once its threads are done, a group's record holds its list, and there is  *)
(* none for a deleted group, except when MoveProfileBatch's thread saved a   *)
(* group object after DeleteGroup.                                           *)
GroupRecordsAgree ==
    up => \A g \in Gid \ clobbered : gsaves[g] = 0 => dGroups[g] = groups[g]

(* While the program is down nobody has a profile left to save.              *)
DownIsQuiet == ~up => saves = {} /\ \A i \in Id, g \in Gid : stales[i][g] = 0

(* What is under way for a record.  A save is of an entity that is there.    *)
(* But for the ids above nobody saves an entity that has left, a drop is of  *)
(* one that has, and a record nobody is about to write is what it was saved  *)
(* as, except the group id of a moved profile.                               *)
WritesInv ==
    /\ \A i \in saves : profiles[i] # None
    /\ up => \A i \in Id \ raced :
          /\ \A g \in Gid : stales[i][g] = 0
          /\ drops[i] > 0 => profiles[i] = None
          /\ profiles[i] # None /\ i \notin saves =>
                /\ dProfiles[i] \in Gid
                /\ i \notin moved => dProfiles[i] = profiles[i]
          /\ profiles[i] = None /\ drops[i] = 0 => dProfiles[i] \notin Gid

(* The database follows the catalogue: records of profiles and of groups,    *)
(* with what the threads still have to write.                                *)
RecordsFollow == /\ DownIsQuiet /\ WritesInv
                 /\ ProfileRecordsAgree /\ GroupRecordsAgree

(* If the program ended now, LoadManager would bring the profile back into   *)
(* its group: true of every profile whose writes are done, except after the  *)
(* races above, a move (whose group id no one saves), or the loss of its     *)
(* group.                                                                    *)
SurvivesRestart ==
    up => \A i \in Listed(profiles) \ (raced \cup moved \cup stranded) :
            LET g == profiles[i] IN
            Settled(i) /\ gsaves[g] = 0 /\ g \notin clobbered
                => dProfiles[i] = g /\ i \in Readable \ Orphans

(* DeleteGroup deletes by the group's list, not by the profiles' group ids:  *)
(* still no profile keeps the id of a deleted group, except the started one  *)
(* and those that had outlived an earlier group of that id.                  *)
DeleteGroupLeavesOnlyStarted ==
    [][up' => \A g \in Gid : groups[g] # None /\ groups'[g] = None =>
            \A i \in Id \ (stranded \cup {started}) : profiles'[i] # g]_vars
=============================================================================
