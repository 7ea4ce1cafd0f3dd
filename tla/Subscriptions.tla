---------------------------- MODULE Subscriptions ----------------------------
(***************************************************************************)
(* The update of subscriptions (configs/sub/GroupUpdater.cpp: Update,      *)
(* AsyncUpdate, serialUpdateSubscription, UI_update_all_groups), what the  *)
(* window does after it (ui/mainwindow.cpp: post_update_job) and the       *)
(* filters it compares with (dataStore/ProfileFilter.cpp), on a catalogue  *)
(* of which only the lists and the identities are kept.                    *)
(*                                                                         *)
(* An update runs in a thread of its own: it looks its group up, downloads,*)
(* adds all that it got behind the group's list, finds out what the group  *)
(* had already, rewrites the list in the order of the download and deletes *)
(* what the list has left out.  Nothing keeps two updates of one group     *)
(* apart, or an update and the user.                                       *)
(*                                                                         *)
(* A profile is an object, which keeps its id after it was deleted; what   *)
(* it connects to is one of Servers.                                       *)
(***************************************************************************)
EXTENDS Integers, Sequences, SequencesExt, FiniteSetsExt

CONSTANTS
    Servers,        \* what profiles can be equal in
    AddressOf,      \* server -> what is left of it when compared by address
    Invalid,        \* those that IsValid refuses
    Groups,         \* the groups
    Order,          \* groupsTabOrder
    Skipped,        \* groups that are archived
    Catalogues,     \* the groups and servers of the profiles there may be at first
    Downloads,      \* what a download may bring
    SubClear,       \* sub_clear
    RmDuplicates,   \* sub_rm_duplicates
    RmInvalid,      \* sub_rm_invalid
    Updates,        \* bound: threads of updates at one time
    MaxEnts,        \* bound: objects made for profiles
    None            \* no profile

ASSUME ServerAssumption ==
    Invalid \subseteq Servers /\ AddressOf \in [Servers -> Servers]
ASSUME OrderAssumption ==
    /\ Order \in Seq(Groups) /\ Order # <<>> /\ ToSet(Order) = Groups
    /\ Skipped \subseteq Groups
ASSUME DownloadAssumption ==
    /\ Downloads \subseteq Seq(Servers)
    /\ Catalogues \subseteq Seq([gid : Groups, server : Servers])
    /\ \A c \in Catalogues : Len(c) <= MaxEnts
ASSUME OptionAssumption == {SubClear, RmDuplicates, RmInvalid} \subseteq BOOLEAN
ASSUME EntAssumption == MaxEnts \in Nat \ {0} /\ None \notin 0..MaxEnts

Ids == 0..MaxEnts

VARIABLES
    ents,       \* the objects made for profiles: their id, group and server
    profiles,   \* id -> the object, or 0
    list,       \* group -> the ids in its `profiles`
    groups,     \* the groups that are there
    onDisk,     \* the groups that have a record in the database
    started,    \* started_id
    update,     \* thread -> where its update is
    updating,   \* UI_update_all_groups_Updating
    nextOrder   \* where the update of all groups goes on
VARIABLES
    disturbed,  \* history: updates that were not alone with the catalogue
    updated     \* history: groups that the update of all groups has been at

catalogue == <<ents, profiles, list, groups, onDisk>>
round     == <<updating, nextOrder, updated>>
vars == <<catalogue, started, update, round, disturbed>>

Exists(id) == id \in Ids /\ profiles[id] # 0

ServerOf(e) == ents[e].server
IdOf(e)     == ents[e].id

(* What is left of a list without the ids in D.                            *)
Without(s, D) ==
    LET left[i \in 0..Len(s)] ==
          IF i = 0 THEN <<>>
          ELSE IF s[i] \in D THEN left[i - 1] ELSE Append(left[i - 1], s[i])
    IN  left[Len(s)]

(* GetProfileEnts.                                                         *)
ProfileEnts(g) ==
    LET ids == Without(list[g], {id \in ToSet(list[g]) : ~Exists(id)})
    IN  [i \in DOMAIN ids |-> profiles[ids[i]]]

(* BatchDeleteProfiles: the profiles it deletes are taken from the list of *)
(* the group they belong to, if that is there.                             *)
Deletable(ids) == {id \in ids : Exists(id) /\ id # started}

BatchDeleteProfiles(ids) ==
    LET D == Deletable(ids)
        GroupsOf == {ents[profiles[id]].gid : id \in D} \cap groups
        Of(g) == {id \in D : ents[profiles[id]].gid = g}
    IN  /\ profiles' = [id \in Ids |-> IF id \in D THEN 0 ELSE profiles[id]]
        /\ list' = [g \in Groups |-> IF g \in GroupsOf
                                     THEN Without(list[g], Of(g)) ELSE list[g]]
        /\ onDisk' = onDisk \cup GroupsOf
        /\ UNCHANGED <<ents, groups>>

(* What BatchDeleteProfiles(group->profiles) reaches of the list s: it     *)
(* walks over the list's memory while RemoveProfile closes the gap in it,  *)
(* and reads what the gap has left behind the list's end.                  *)
Walked(s) ==
    LET Visit(at, i) ==
          IF at.mem[i] \notin Deletable(ToSet(s)) THEN at
          ELSE LET left == Without(SubSeq(at.mem, 1, at.size), {at.mem[i]})
               IN  [mem  |-> left \o SubSeq(at.mem, Len(left) + 1, Len(s)),
                    size |-> Len(left), found |-> at.found \cup {at.mem[i]}]
        all == [mem |-> s, size |-> Len(s), found |-> {}]
    IN  FoldLeftDomain(Visit, all, s).found

UpdateAt(u, r) == update' = [update EXCEPT ![u] = r]

(* Whoever changes the catalogue disturbs the other updates, and an update *)
(* that begins while another one is under way is disturbed.                *)
Busy == {u \in Updates : update[u].at # "none"}
Alone(u) == disturbed' = IF Busy = {} THEN disturbed \ {u} ELSE disturbed \cup {u}
Disturb(u) == disturbed' = disturbed \cup (Busy \ {u})

-----------------------------------------------------------------------------
(* Which updates are begun *)

ShouldSkip(i) == Order[i] \notin groups \/ Order[i] \in Skipped

(* The first place from k on with a group to update.                       *)
NextToUpdate(k) == Min({i \in k..Len(Order) : ~ShouldSkip(i)} \cup {Len(Order) + 1})

Begun(g, inRound) == [at |-> "begin", g |-> g, inRound |-> inRound]
Ended == [at |-> "none"]

(* Mutant: the round ends one place too early.                             *)
SerialUpdate_OneTooFew(u, k) ==
    LET i == NextToUpdate(k)
    IN  IF i >= Len(Order)
        THEN UpdateAt(u, Ended) /\ updating' = FALSE /\ UNCHANGED <<nextOrder, updated>>
        ELSE /\ UpdateAt(u, Begun(Order[i], TRUE)) /\ updating' = TRUE
             /\ nextOrder' = NextToUpdate(i + 1)
             /\ updated' = updated \cup {Order[i]}

(* Mutant: the place to go on at is moved on twice.                        *)
SerialUpdate_TwoOn(u, k) ==
    LET i == NextToUpdate(k)
    IN  IF i > Len(Order)
        THEN UpdateAt(u, Ended) /\ updating' = FALSE /\ UNCHANGED <<nextOrder, updated>>
        ELSE /\ UpdateAt(u, Begun(Order[i], TRUE)) /\ updating' = TRUE
             /\ nextOrder' = NextToUpdate(i + 1) + 1
             /\ updated' = updated \cup {Order[i]}

(* serialUpdateSubscription at place k.                                    *)
SerialUpdate(u, k) ==
    LET i == NextToUpdate(k)
    IN  IF i > Len(Order)
        THEN UpdateAt(u, Ended) /\ updating' = FALSE /\ UNCHANGED <<nextOrder, updated>>
        ELSE /\ UpdateAt(u, Begun(Order[i], TRUE)) /\ updating' = TRUE
             /\ nextOrder' = NextToUpdate(i + 1)
             /\ updated' = updated \cup {Order[i]}

(* UI_update_all_groups, by the user or by the timer.                      *)
UpdateAll(u) ==
    /\ ~updating /\ update[u] = Ended
    /\ LET i == NextToUpdate(1)
       IN  /\ i <= Len(Order)
           /\ UpdateAt(u, Begun(Order[i], TRUE)) /\ updating' = TRUE
           /\ nextOrder' = NextToUpdate(i + 1)
           /\ updated' = {Order[i]}
    /\ Alone(u)
    /\ UNCHANGED <<catalogue, started>>

(* The update of one group, from its button.                               *)
UpdateGroup(u, g) ==
    /\ g \in groups /\ update[u] = Ended
    /\ UpdateAt(u, Begun(g, FALSE))
    /\ Alone(u)
    /\ UNCHANGED <<catalogue, started, round>>

(* The thread is at its end and calls `finish`.                            *)
Finish(u) ==
    /\ update[u].at = "finish"
    /\ IF update[u].inRound THEN SerialUpdate(u, nextOrder)
                            ELSE UpdateAt(u, Ended) /\ UNCHANGED round
    /\ UNCHANGED <<catalogue, started, disturbed>>

-----------------------------------------------------------------------------
(* Update *)

ToFinish(u) == UpdateAt(u, [at |-> "finish", inRound |-> update[u].inRound])

(* The group is looked up; an archived one is left alone.  (Without a group*)
(* AddProfileBatch does nothing, and the update changes nothing.)          *)
LookUp(u) ==
    /\ update[u].at = "begin"
    /\ IF update[u].g \in groups \ Skipped
       THEN UpdateAt(u, [update[u] EXCEPT !.at = "download"]) ELSE ToFinish(u)
    /\ UNCHANGED <<catalogue, started, round, disturbed>>

(* Mutant: an error leaves the thread without `finish`.                    *)
DownloadFails_NoFinish(u) ==
    /\ update[u].at = "download"
    /\ UpdateAt(u, Ended)
    /\ UNCHANGED <<catalogue, started, round, disturbed>>

DownloadFails(u) ==
    /\ update[u].at = "download"
    /\ ToFinish(u)
    /\ UNCHANGED <<catalogue, started, round, disturbed>>

(* The answer is there: the profiles of the group are kept in mind, the    *)
(* group is saved, and with sub_clear its profiles are deleted.            *)
Downloaded(u) ==
    /\ update[u].at = "download"
    /\ LET g == update[u].g
       IN  /\ \E d \in Downloads :
                 UpdateAt(u, [at |-> "add", g |-> g, inRound |-> update[u].inRound,
                              old |-> ProfileEnts(g), got |-> d])
           /\ IF SubClear
              THEN /\ BatchDeleteProfiles(Walked(list[g])) /\ Disturb(u)
              ELSE /\ onDisk' = onDisk \cup {g}
                   /\ UNCHANGED <<ents, profiles, list, groups, disturbed>>
    /\ UNCHANGED <<started, round>>

NewProfileID == Max({-1} \cup {id \in Ids : profiles[id] # 0}) + 1

Made == DOMAIN ents

(* AddProfileBatch of what was downloaded; when GetGroup does not find the *)
(* group any more, the new objects stay without an id.                     *)
AddProfileBatch(u) ==
    /\ update[u].at = "add"
    /\ LET g     == update[u].g
           got   == update[u].got
           first == Len(ents)
           there == g \in groups
           Id(i) == IF there THEN NewProfileID + i - 1 ELSE -1
           new   == [i \in DOMAIN got |-> first + i]
           ids   == [i \in DOMAIN got |-> Id(i)]
       IN  /\ first + Len(got) <= MaxEnts
           /\ ents' = ents \o [i \in DOMAIN got |->
                                 [id |-> Id(i), gid |-> g, server |-> got[i]]]
           /\ UpdateAt(u, [at |-> "apply", g |-> g, inRound |-> update[u].inRound,
                           old |-> update[u].old, got |-> got, new |-> new])
           /\ IF there
              THEN /\ profiles' = [id \in Ids |->
                         IF id \in ToSet(ids) THEN new[id - Id(1) + 1] ELSE profiles[id]]
                   /\ list' = [list EXCEPT ![g] = @ \o Without(ids, ToSet(@))]
                   /\ onDisk' = onDisk \cup {g}
                   /\ Disturb(u)
              ELSE UNCHANGED <<profiles, list, onDisk, disturbed>>
    /\ UNCHANGED <<groups, started, round>>

(* Common(src, dst, outSrc, outDst), for what dst holds in place i: the    *)
(* last object of src with the same server, if there is one.               *)
CommonOf(src, server) ==
    LET Same == {i \in DOMAIN src : ServerOf(src[i]) = server}
    IN  IF Same = {} THEN 0 ELSE src[Max(Same)]

(* Mutant: an object that equals an old one is not recognised.             *)
Apply_AllNew(u) ==
    /\ update[u].at = "apply"
    /\ LET g   == update[u].g
           new == update[u].new
       IN  IF SubClear
           THEN UpdateAt(u, [at |-> "post", g |-> g, inRound |-> update[u].inRound])
                /\ UNCHANGED <<catalogue, disturbed>>
           ELSE /\ list' = [list EXCEPT ![g] = [i \in DOMAIN new |-> IdOf(new[i])]]
                /\ onDisk' = onDisk \cup {g}
                /\ UpdateAt(u, [at |-> "cleanup", g |-> g, inRound |-> update[u].inRound,
                                old |-> update[u].old, got |-> update[u].got,
                                all |-> ProfileEnts(g)])
                /\ Disturb(u)
                /\ UNCHANGED <<ents, profiles, groups>>
    /\ UNCHANGED <<started, round>>

(* Mutant: the old profiles keep their places, the new ones come last.     *)
Apply_NotSorted(u) ==
    /\ update[u].at = "apply"
    /\ LET g   == update[u].g
           old == update[u].old
           all == ProfileEnts(g)
           Kept(e) == ServerOf(e) \in ToSet(update[u].got)
           IsNew(e) == e \in ToSet(all) \ ToSet(old)
                       /\ CommonOf(old, ServerOf(e)) = 0
           left == SelectSeq(old, Kept) \o SelectSeq(update[u].new, IsNew)
       IN  IF SubClear
           THEN UpdateAt(u, [at |-> "post", g |-> g, inRound |-> update[u].inRound])
                /\ UNCHANGED <<catalogue, disturbed>>
           ELSE /\ list' = [list EXCEPT ![g] = [i \in DOMAIN left |-> IdOf(left[i])]]
                /\ onDisk' = onDisk \cup {g}
                /\ UpdateAt(u, [at |-> "cleanup", g |-> g, inRound |-> update[u].inRound,
                                old |-> old, got |-> update[u].got, all |-> all])
                /\ Disturb(u)
                /\ UNCHANGED <<ents, profiles, groups>>
    /\ UNCHANGED <<started, round>>

(* The list is written anew in the order of the download: an object that   *)
(* the group has got from it stands back for an old one that it equals.    *)
Apply(u) ==
    /\ update[u].at = "apply"
    /\ LET g   == update[u].g
           old == update[u].old
           new == update[u].new
           all == ProfileEnts(g)
           Kept(e) == LET same == CommonOf(old, ServerOf(e))
                      IN  IF e \in ToSet(all) \ ToSet(old) /\ same # 0
                          THEN same ELSE e
       IN  IF SubClear
           THEN UpdateAt(u, [at |-> "post", g |-> g, inRound |-> update[u].inRound])
                /\ UNCHANGED <<catalogue, disturbed>>
           ELSE /\ list' = [list EXCEPT ![g] = [i \in DOMAIN new |-> IdOf(Kept(new[i]))]]
                /\ onDisk' = onDisk \cup {g}
                /\ UpdateAt(u, [at |-> "cleanup", g |-> g, inRound |-> update[u].inRound,
                                old |-> old, got |-> update[u].got, all |-> all])
                /\ Disturb(u)
                /\ UNCHANGED <<ents, profiles, groups>>
    /\ UNCHANGED <<started, round>>

Post(u) == UpdateAt(u, [at |-> "post", g |-> update[u].g,
                        inRound |-> update[u].inRound])

(* Every profile that the group had is deleted if the list is without it.  *)
Cleanup(u) ==
    /\ update[u].at = "cleanup"
    /\ BatchDeleteProfiles({IdOf(e) : e \in ToSet(update[u].all)}
                             \ ToSet(list[update[u].g]))
    /\ Post(u) /\ Disturb(u)
    /\ UNCHANGED <<started, round>>

-----------------------------------------------------------------------------
(* post_update_job, without the URL test that may follow it *)

(* What Uniq(by_address, keep first) leaves out.                           *)
Duplicates(es) == {es[i] : i \in {i \in DOMAIN es : \E k \in 1..i - 1 :
                     AddressOf[ServerOf(es[k])] = AddressOf[ServerOf(es[i])]}}

RemoveDuplicates(u) ==
    /\ update[u].at = "post"
    /\ UpdateAt(u, [update[u] EXCEPT !.at = "invalid"])
    /\ IF RmDuplicates
       THEN /\ BatchDeleteProfiles(
                 {IdOf(e) : e \in Duplicates(ProfileEnts(update[u].g))})
            /\ Disturb(u)
       ELSE UNCHANGED <<catalogue, disturbed>>
    /\ UNCHANGED <<started, round>>

(* The last of the jobs unlocks what the thread waits for; where there is  *)
(* no profile there is no job, and the thread waits for ever.              *)
RemoveInvalid(u) ==
    /\ update[u].at = "invalid"
    /\ LET es == ProfileEnts(update[u].g)
       IN  IF RmInvalid /\ es = <<>>
           THEN UpdateAt(u, [at |-> "stuck"]) /\ UNCHANGED <<catalogue, disturbed>>
           ELSE /\ ToFinish(u)
                /\ IF RmInvalid
                   THEN /\ BatchDeleteProfiles(
                             {IdOf(e) : e \in {e \in ToSet(es) : ServerOf(e) \in Invalid}})
                        /\ Disturb(u)
                   ELSE UNCHANGED <<catalogue, disturbed>>
    /\ UNCHANGED <<started, round>>

-----------------------------------------------------------------------------
(* The user *)

UserStart(id) ==
    /\ Exists(id) /\ started # id /\ started' = id
    /\ UNCHANGED <<catalogue, update, round, disturbed>>

UserStop ==
    /\ started # None /\ started' = None
    /\ UNCHANGED <<catalogue, update, round, disturbed>>

DeleteProfile(id) ==
    /\ Deletable({id}) # {}
    /\ BatchDeleteProfiles({id})
    /\ disturbed' = disturbed \cup Busy
    /\ UNCHANGED <<started, update, round>>

(* DeleteGroup: with what it lists, but for the profile that runs.         *)
DeleteGroup(g) ==
    /\ g \in groups /\ Cardinality(groups) > 1
    /\ LET D == Deletable(ToSet(list[g]))
       IN  /\ profiles' = [id \in Ids |-> IF id \in D THEN 0 ELSE profiles[id]]
           /\ list' = [list EXCEPT ![g] = Without(@, D)]
    /\ groups' = groups \ {g} /\ onDisk' = onDisk \ {g}
    /\ disturbed' = disturbed \cup Busy
    /\ UNCHANGED <<ents, started, update, round>>

-----------------------------------------------------------------------------

(* Each group lists what the database had for it.                          *)
Init ==
    /\ \E all \in Catalogues :
          LET loaded == [i \in DOMAIN all |-> i - 1]
              NotOf(g) == {i - 1 : i \in {i \in DOMAIN all : all[i].gid # g}}
          IN  /\ ents = [i \in DOMAIN all |->
                   [id |-> i - 1, gid |-> all[i].gid, server |-> all[i].server]]
              /\ profiles = [id \in Ids |-> IF id < Len(all) THEN id + 1 ELSE 0]
              /\ list = [g \in Groups |-> Without(loaded, NotOf(g))]
    /\ groups = Groups /\ onDisk = Groups /\ started = None
    /\ update = [u \in Updates |-> Ended]
    /\ updating = FALSE /\ nextOrder = 1
    /\ disturbed = {} /\ updated = {}

Step(u) ==
    \/ LookUp(u) \/ DownloadFails(u) \/ Downloaded(u)
    \/ AddProfileBatch(u) \/ Apply(u) \/ Cleanup(u)
    \/ RemoveDuplicates(u) \/ RemoveInvalid(u) \/ Finish(u)

Threads == \E u \in Updates : Step(u)

User ==
    \/ \E u \in Updates : UpdateAll(u) \/ \E g \in Groups : UpdateGroup(u, g)
    \/ \E id \in Ids : UserStart(id) \/ DeleteProfile(id)
    \/ \E g \in Groups : DeleteGroup(g)
    \/ UserStop

Next == Threads \/ User
Spec == Init /\ [][Next]_vars

(* A thread goes on; a download ends, with an error after its timeout.     *)
Fairness == \A u \in Updates : WF_vars(Step(u))
FairSpec == Spec /\ Fairness

-----------------------------------------------------------------------------
(* Properties *)

(* Where an update may be, with what it has then.                          *)
UpdateStates ==
    {Ended, [at |-> "stuck"]}
    \cup [at : {"finish"}, inRound : BOOLEAN]
    \cup [at : {"begin", "download", "post", "invalid"}, g : Groups, inRound : BOOLEAN]
    \cup [at : {"add"}, g : Groups, inRound : BOOLEAN,
          old : Seq(Made), got : Seq(Servers)]
    \cup [at : {"apply"}, g : Groups, inRound : BOOLEAN,
          old : Seq(Made), got : Seq(Servers), new : Seq(Made)]
    \cup [at : {"cleanup"}, g : Groups, inRound : BOOLEAN,
          old : Seq(Made), got : Seq(Servers), all : Seq(Made)]

(* The types; an id leads to the object that has it, in a group there was, *)
(* and ids are given as objects are made; there is always a group          *)
(* (DeleteGroup refuses the last one).                                     *)
TypeOK ==
    /\ ents \in Seq([id : Ids \cup {-1}, gid : Groups, server : Servers])
    /\ profiles \in [Ids -> {0} \cup Made]
    /\ \A id \in Ids : Exists(id) => IdOf(profiles[id]) = id /\ id < Len(ents)
    /\ list \in [Groups -> Seq(Ids \cup {-1})]
    /\ groups \subseteq Groups /\ groups # {} /\ onDisk \subseteq Groups
    /\ started \in Ids \cup {None}
    /\ update \in [Updates -> UpdateStates]
    /\ updating \in BOOLEAN /\ nextOrder \in 1..Len(Order) + 1
    /\ disturbed \subseteq Updates /\ updated \subseteq Groups

(* An update of u that nobody disturbed ends its cleanup in this step.     *)
CleansUp(u) ==
    /\ update[u].at = "cleanup" /\ update'[u].at = "post"
    /\ u \notin disturbed

(* After an update that was alone the group lists, in the order of the     *)
(* download, exactly what the download had: all its entries exist.         *)
RemoteOrder ==
    [][\A u \in Updates : CleansUp(u) =>
         LET ids == list'[update[u].g]
         IN  /\ \A i \in DOMAIN ids : profiles'[ids[i]] # 0
             /\ [i \in DOMAIN ids |-> ents'[profiles'[ids[i]]].server]
                  = update[u].got]_vars

(* Of all the profiles that the group had, with the ones just added, none  *)
(* is left outside its list but the one that runs, which the deletion      *)
(* leaves alone: what is not listed is deleted.                            *)
NoneStranded ==
    [][\A u \in Updates : CleansUp(u) =>
         \A e \in ToSet(update[u].all) :
            \/ IdOf(e) \in ToSet(list'[update[u].g]) \cup {started}
            \/ profiles'[IdOf(e)] = 0]_vars

(* A profile that is still offered keeps its id, so that what refers to it *)
(* by id (the running profile, a chain, the statistics) stays right: if    *)
(* the download has a server that the group had, a profile the group had   *)
(* is listed for it; and what is not offered any more is gone.             *)
KeepsProfiles ==
    [][\A u \in Updates : CleansUp(u) =>
         LET listed == ToSet(list'[update[u].g])
             old    == ToSet(update[u].old)
         IN  \A e \in old :
                IF ServerOf(e) \in ToSet(update[u].got)
                THEN \E k \in old : ServerOf(k) = ServerOf(e) /\ IdOf(k) \in listed
                ELSE IdOf(e) = started \/ profiles'[IdOf(e)] = 0]_vars

(* Whatever the group had is kept under its id, or gone altogether.        *)
KeptOrGone == KeepsProfiles /\ NoneStranded

(* When the update of all groups ends, it has been at every group that is  *)
(* there and not archived.                                                 *)
RoundVisitsAll ==
    [][updating /\ ~updating' => groups \ Skipped \subseteq updated]_vars

(* The update of all groups ends: until then the timer and the user are    *)
(* refused another one (UI_update_all_groups_Updating).  Only a group that *)
(* is found without profiles by sub_rm_invalid keeps its thread for good.  *)
Stuck     == \E u \in Updates : update[u].at = "stuck"
RoundEnds == updating ~> (~updating \/ Stuck)

(* With sub_clear "all is new profile".                                    *)
ClearClears ==
    [][\A u \in Updates :
         SubClear /\ update[u].at = "add" /\ update'[u].at = "apply"
         /\ u \notin disturbed
         => ToSet(list'[update[u].g]) \subseteq
              {ents'[e].id : e \in ToSet(update'[u].new)} \cup {started}]_vars
=============================================================================
