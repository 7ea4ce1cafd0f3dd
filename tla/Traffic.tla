------------------------------- MODULE Traffic -------------------------------
(***************************************************************************)
(* The traffic statistics: the loop that asks the core for what its        *)
(* outbounds have carried and credits it to the profiles                   *)
(* (stats/traffic/TrafficLooper.cpp), with what starting, stopping, testing*)
(* and deleting a profile do to it (ui/mainwindow_rpc.cpp,                 *)
(* configs/ConfigBuilder.cpp).                                             *)
(*                                                                         *)
(* The counters of a profile are one object of its own.  Every build of a  *)
(* configuration writes into it under which tag the profile is found and   *)
(* which part in a chain it has, a build for a test as well as the one that*)
(* starts it.                                                              *)
(*                                                                         *)
(* One direction of the traffic is kept, and of the outbounds the one that *)
(* carries it, "proxy"; the item "direct" has no profile.                  *)
(***************************************************************************)
EXTENDS Naturals, Sequences, SequencesExt, FiniteSetsExt

CONSTANTS
    Profiles,       \* the profiles
    Chains,         \* those of the type "chain"
    Way,            \* profile -> the profiles of its outbounds, the one called "proxy" first
    Startable,      \* profiles that the user starts
    Tested,         \* profiles that the user has tested
    Deleted,        \* profiles that the user may delete
    MaxCarried,     \* bound: what the core carries
    None            \* no profile

ASSUME ProfileAssumption ==
    /\ Chains \cup Startable \cup Tested \cup Deleted \subseteq Profiles
    /\ None \notin Profiles \cup Nat
    /\ Way \in [Profiles -> Seq(Profiles \ Chains)]
    /\ \A p \in Profiles : Way[p] # <<>>
    /\ \A p \in Profiles \ Chains : \E i \in DOMAIN Way[p] : Way[p][i] = p
ASSUME BoundAssumption == MaxCarried \in Nat

VARIABLES
    profiles,       \* the profiles that are there
    started,        \* started_id
    tag,            \* profile -> the tag in its traffic_data
    isChainTail,    \* those with the flag isChainTail
    ignoreForRate,  \* those with the flag ignoreForRate
    stamped,        \* those whose last_update has been set
    now,            \* those whose last_update is this very millisecond
    uplink,         \* profile -> what was credited to it
    disk,           \* profile -> what its record says
    proxy,          \* the total of the window
    items, isChain, loop_enabled, \* of the looper
    mutex,          \* who holds loop_mutex
    loop,           \* where the loop's thread is
    window,         \* where starting or stopping a profile is
    saved,          \* how many items a stop has saved
    core,           \* the profile of the core's instance, or None
    pending,        \* what the core has not handed out
    got,            \* what it has handed out to the holder of the mutex
    carried         \* bound: what the core has carried

\* Histories.  What was carried for each profile, and how much of it before
\* the user stopped it; and why these may not be what is credited and saved.
VARIABLES
    ran,            \* profile -> what was carried for it, at each of its places
    owed,           \* profile -> what of this was carried until a stop began
    from,           \* the profile whose instance handed out what was got
    early,          \* those deleted while they were being started
    mixed,          \* those that builds have made "proxy" as well as a tail
    missed,         \* those left out by an update, for its time
    astray          \* those of an update that was not for the items' instance

data    == <<tag, isChainTail, ignoreForRate, mixed>>
credit  == <<stamped, now, uplink, proxy, missed, astray>>
looper  == <<items, isChain, loop_enabled>>
handed  == <<got, from>>
ledger  == <<carried, ran, owed>>
saving  == <<disk, saved>>
catalog == <<profiles, started, early>>
vars == <<catalog, data, credit, saving, looper, mutex, loop, window, core, pending,
          handed, ledger>>

-----------------------------------------------------------------------------
(* BuildChain: what a build of p writes *)

TailOf(p) == {Way[p][i] : i \in 2..Len(Way[p])}

(* A way of several ends with the counters of p itself, that count with    *)
(* the outbound but not in the window.                                     *)
ItemsOf(p) == IF Len(Way[p]) > 1 THEN Append(Way[p], p) ELSE Way[p]
OutsOf(p)  == IF Len(Way[p]) > 1 THEN {Way[p][1], p} ELSE {Way[p][1]}

BuildChain(p) ==
    /\ tag' = [q \in Profiles |->
                 IF q = p /\ Len(Way[p]) > 1 THEN "proxy"
                 ELSE IF q \in TailOf(p) THEN "tail"
                 ELSE IF q = Way[p][1] THEN "proxy" ELSE tag[q]]
    /\ isChainTail' = isChainTail \cup TailOf(p)
    /\ ignoreForRate' = IF Len(Way[p]) > 1 THEN ignoreForRate \cup {p}
                        ELSE ignoreForRate
    /\ mixed' = mixed \cup {q \in isChainTail' : tag[q] = "proxy" \/ q \in OutsOf(p)}

CanBuild(p) == {p} \cup ToSet(Way[p]) \subseteq profiles

(* A test of p: BuildTestConfig builds it, whether it runs or not.         *)
TestBuild(p) ==
    /\ p \in Tested /\ CanBuild(p)
    /\ BuildChain(p)
    /\ UNCHANGED <<catalog, credit, saving, looper, mutex, loop, window, core,
                   pending, handed, ledger>>

-----------------------------------------------------------------------------
(* What is carried for p is for p itself; with a chain, for all in it.     *)

CarriersOf(p) == IF p \in Chains THEN ToSet(ItemsOf(p)) ELSE OutsOf(p)
Places(p, q)  == IF q \in CarriersOf(p)
                 THEN Cardinality({i \in DOMAIN ItemsOf(p) : ItemsOf(p)[i] = q})
                 ELSE 0

-----------------------------------------------------------------------------
(* UpdateAll, with n carried since the last time *)

Before(i) == {k \in 1..i - 1 : items[k] = items[i]}

(* The clock turns before the places in `turns'.  The item at place i was  *)
(* updated within the same millisecond: there is no interval.              *)
NoInterval(i, turns) ==
    IF Before(i) = {} THEN items[i] \in now /\ turns \cap 1..i = {}
    ELSE \E k \in Before(i) : turns \cap k + 1..i = {}

(* The places with an interval.  The time of the last update is not        *)
(* initialized: of those without one, only those in `first' have it.       *)
Timely(first, turns) ==
    {i \in DOMAIN items : /\ ~NoInterval(i, turns)
                          /\ items[i] \in stamped \cup first \/ Before(i) # {}}

Proxies(places) == {i \in places : tag[items[i]] = "proxy"}

(* Mutant: all items of a chain count as its others.                       *)
Tails_All == IF isChain THEN DOMAIN items ELSE {}

Tails == IF isChain THEN {i \in DOMAIN items : items[i] \in isChainTail} ELSE {}

At(places, p) == {i \in places : items[i] = p}

(* The places in C are credited n; with a chain, if there is one, so are   *)
(* the places of its tails.                                                *)
CreditOf(C, n) ==
    /\ uplink' = [p \in Profiles |->
          uplink[p] + n * (Cardinality(At(C, p))
             + IF C = {} THEN 0 ELSE Cardinality(At(Tails, p)))]
    /\ proxy' = proxy + n * Cardinality({i \in C : items[i] \notin ignoreForRate})

Stamp(turns) ==
    /\ stamped' = stamped \cup ToSet(items)
    /\ now' = {items[i] : i \in {k \in DOMAIN items : turns \cap k + 1..Len(items) = {}}}
               \cup IF turns = {} THEN now ELSE {}

(* Those that nothing is credited to, for there is no interval: it is the  *)
(* one of the outbound that the tails of a chain wait for.                 *)
LeftOut(timely) ==
    {p \in ToSet(items) :
        IF p \in isChainTail THEN Proxies(timely) = {} /\ Proxies(DOMAIN items) # {}
        ELSE At(timely, p) = {}}

(* History: what is left out, and what was not carried for these items.    *)
Passed(timely, n) ==
    /\ missed' = missed \cup IF n = 0 THEN {} ELSE LeftOut(timely)
    /\ astray' = astray \cup
          IF n = 0 \/ items = ItemsOf(from) THEN {}
          ELSE ToSet(items) \cup CarriersOf(from)

UpdateAll(n) ==
    \E first \in SUBSET (ToSet(items) \ stamped), turns \in SUBSET DOMAIN items :
        /\ CreditOf(Proxies(Timely(first, turns)), n)
        /\ Stamp(turns)
        /\ Passed(Timely(first, turns), n)

(* Time passes: more than the millisecond, and for a loop that sleeps the  *)
(* second.                                                                 *)
Tick ==
    /\ now # {} \/ loop = "sleep"
    /\ now' = {} /\ loop' = IF loop = "sleep" THEN "awake" ELSE loop
    /\ UNCHANGED <<catalog, data, stamped, uplink, proxy, missed, astray, saving,
                   looper, mutex, window, core, pending, handed, ledger>>

-----------------------------------------------------------------------------
(* The loop's thread and QueryStats *)

(* The core hands out what was carried since it was last asked; without an *)
(* instance it knows no tag.                                               *)
Query == /\ got' = IF core = None THEN None ELSE pending
         /\ from' = core /\ pending' = 0

Credit == /\ IF got = None THEN UNCHANGED credit ELSE UpdateAll(got)
          /\ got' = None /\ from' = None

(* After a second's sleep: is a profile running?                           *)
LoopCheck ==
    /\ loop = "awake" /\ loop' = IF loop_enabled THEN "lock" ELSE "sleep"
    /\ UNCHANGED <<catalog, data, credit, saving, looper, mutex, window, core,
                   pending, handed, ledger>>

LoopQuery ==
    /\ loop = "lock" /\ mutex = "free"
    /\ mutex' = "loop" /\ loop' = "credit" /\ Query
    /\ UNCHANGED <<catalog, data, credit, saving, looper, window, core, ledger>>

(* Mutant: the mutex is kept.                                              *)
LoopCredit_NoUnlock ==
    /\ loop = "credit" /\ Credit
    /\ loop' = "sleep"
    /\ UNCHANGED <<catalog, data, saving, looper, mutex, window, core, pending, ledger>>

LoopCredit ==
    /\ loop = "credit" /\ Credit
    /\ mutex' = "free" /\ loop' = "sleep"
    /\ UNCHANGED <<catalog, data, saving, looper, window, core, pending, ledger>>

-----------------------------------------------------------------------------
(* profile_start and profile_stop *)

(* StartEntity: the configuration is built and the core starts it.         *)
Start(p) ==
    /\ window = "stopped" /\ p \in Startable /\ CanBuild(p)
    /\ BuildChain(p)
    /\ core' = p /\ pending' = 0 /\ window' = "start"
    /\ UNCHANGED <<catalog, credit, saving, looper, mutex, loop, handed, ledger>>

(* The rest of profile_start_stage2, without the mutex of the looper.      *)
Started ==
    /\ window = "start" /\ window' = "running"
    /\ items' = ItemsOf(core) /\ isChain' = (core \in Chains)
    /\ loop_enabled' = TRUE /\ started' = core
    /\ UNCHANGED <<profiles, early, data, credit, saving, mutex, loop, core, pending,
                   handed, ledger>>

(* Mutant: the core is stopped before it is asked for the last time.       *)
StopBegin_CoreFirst ==
    /\ window = "running" /\ window' = "stop"
    /\ loop_enabled' = FALSE
    /\ core' = None /\ pending' = 0
    /\ UNCHANGED <<catalog, data, credit, saving, items, isChain, mutex, loop, handed,
                   ledger>>

StopBegin ==
    /\ window = "running" /\ window' = "stop"
    /\ loop_enabled' = FALSE
    /\ UNCHANGED <<catalog, data, credit, saving, items, isChain, mutex, loop, core,
                   pending, handed, ledger>>

StopQuery ==
    /\ window = "stop" /\ mutex = "free"
    /\ mutex' = "window" /\ window' = "credit" /\ Query
    /\ UNCHANGED <<catalog, data, credit, saving, looper, loop, core, ledger>>

(* The last update is credited.                                            *)
StopCredit ==
    /\ window = "credit" /\ Credit
    /\ window' = "save" /\ saved' = 0
    /\ UNCHANGED <<catalog, data, disk, looper, mutex, loop, core, pending, ledger>>

(* The next item's profile is saved: it must be there.                     *)
StopSave ==
    /\ window = "save" /\ saved < Len(items)
    /\ IF items[saved + 1] \in profiles
       THEN /\ disk' = [disk EXCEPT ![items[saved + 1]] = uplink[items[saved + 1]]]
            /\ saved' = saved + 1 /\ UNCHANGED window
       ELSE window' = "crashed" /\ UNCHANGED saving
    /\ UNCHANGED <<catalog, data, credit, looper, mutex, loop, core, pending, handed,
                   ledger>>

StopUnlock ==
    /\ window = "save" /\ saved = Len(items)
    /\ window' = "core" /\ mutex' = "free" /\ saved' = 0
    /\ UNCHANGED <<catalog, data, credit, disk, looper, loop, core, pending, handed,
                   ledger>>

(* The thread of the stop: the core stops; only a stop that the user asked *)
(* for clears started_id.                                                  *)
StopCore ==
    /\ window = "core" /\ window' = "stopped"
    /\ core' = None /\ pending' = 0
    /\ started' \in {started, None}
    /\ UNCHANGED <<profiles, early, data, credit, saving, looper, mutex, loop, handed,
                   ledger>>

-----------------------------------------------------------------------------

Carry ==
    /\ core # None /\ carried < MaxCarried
    /\ carried' = carried + 1 /\ pending' = pending + 1
    /\ ran' = [p \in Profiles |-> ran[p] + Places(core, p)]
    /\ owed' = [p \in Profiles |->
          IF window \in {"start", "running"} /\ p \in CarriersOf(core) THEN owed[p] + 1
          ELSE owed[p]]
    /\ UNCHANGED <<catalog, data, credit, saving, looper, mutex, loop, window, core,
                   handed>>

(* Mutant: nothing keeps the profile that runs.                            *)
DeleteProfile_Unguarded(p) ==
    /\ p \in profiles \cap Deleted
    /\ profiles' = profiles \ {p}
    /\ early' = IF p = core /\ window = "start" THEN early \cup {p} ELSE early
    /\ UNCHANGED <<started, data, credit, saving, looper, mutex, loop, window, core,
                   pending, handed, ledger>>

(* BatchDeleteProfiles.                                                    *)
DeleteProfile(p) ==
    /\ p \in profiles \cap Deleted /\ p # started
    /\ profiles' = profiles \ {p}
    /\ early' = IF p = core /\ window = "start" THEN early \cup {p} ELSE early
    /\ UNCHANGED <<started, data, credit, saving, looper, mutex, loop, window, core,
                   pending, handed, ledger>>

Init ==
    /\ profiles = Profiles /\ started = None
    /\ tag = [p \in Profiles |-> "none"]
    /\ isChainTail = {} /\ ignoreForRate = {} /\ stamped = {} /\ now = {}
    /\ uplink = [p \in Profiles |-> 0] /\ disk = uplink /\ proxy = 0
    /\ items = <<>> /\ isChain = FALSE /\ loop_enabled = FALSE
    /\ mutex = "free" /\ loop = "sleep" /\ window = "stopped" /\ saved = 0
    /\ core = None /\ pending = 0 /\ got = None /\ from = None
    /\ carried = 0 /\ ran = uplink /\ owed = uplink
    /\ early = {} /\ mixed = {} /\ missed = {} /\ astray = {}

Loop   == LoopCheck \/ LoopQuery \/ LoopCredit
Window == \/ \E p \in Profiles : Start(p)
          \/ Started \/ StopBegin \/ StopQuery \/ StopCredit \/ StopSave
          \/ StopUnlock \/ StopCore
User   == \E p \in Profiles : TestBuild(p) \/ DeleteProfile(p)

(* A null profile ends the program.                                        *)
Next == window # "crashed" /\ (Loop \/ Window \/ User \/ Carry \/ Tick)
Spec == Init /\ [][Next]_vars

-----------------------------------------------------------------------------
(* Properties *)

(* Every variable keeps its type.                                          *)
TypeOK ==
    /\ started \in Profiles \cup {None} /\ core \in Profiles \cup {None}
    /\ tag \in [Profiles -> {"none", "proxy", "tail"}]
    /\ isChainTail \cup ignoreForRate \cup stamped \cup profiles \subseteq Profiles
    /\ now \subseteq stamped
    /\ uplink \in [Profiles -> Nat] /\ disk \in [Profiles -> Nat] /\ proxy \in Nat
    /\ items \in Seq(Profiles) /\ {isChain, loop_enabled} \subseteq BOOLEAN
    /\ mutex \in {"free", "loop", "window"}
    /\ (mutex = "loop") = (loop = "credit")
    /\ (mutex = "window") = (window \in {"credit", "save", "crashed"})
    /\ got \in Nat \cup {None} /\ pending \in 0..MaxCarried
    /\ saved \in 0..Len(items)

(* What was carried for a profile until the user stopped it is in its      *)
(* record when the stop is through: for the profile that ran, and for a    *)
(* chain and each of its members.  Excepted are profiles of two parts, for *)
(* which builds overwrite each other; those that an update has left out for*)
(* its time; and those that a late loop's update went to, or should have.  *)
StopSaves ==
    window = "stopped" =>
        \A p \in Profiles \ (mixed \cup missed \cup astray) : owed[p] <= disk[p]

(* Nothing is counted twice: a profile has no more than what was carried   *)
(* for it, at each of its places (a profile with a front proxy has two, and*)
(* the second is credited when the clock turns between them); the total of *)
(* the window no more than what was carried.                               *)
NoneTwice ==
    /\ \A p \in Profiles \ (mixed \cup astray) : uplink[p] <= ran[p]
    /\ mixed = {} => proxy <= carried

(* The items' profiles are looked up by their ids when they are saved and  *)
(* a null one makes the window fail.  The one that was started is there, if*)
(* it was not deleted before started_id named it: what fails is a profile  *)
(* of a chain, or a front proxy, that was deleted while it was in use.     *)
StopFindsItems ==
    window \in {"running", "stop", "credit", "save", "crashed"} =>
        \A p \in ToSet(items) \ profiles : p \in early \/ p # started
=============================================================================
