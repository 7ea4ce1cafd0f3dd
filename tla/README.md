# Verification of the client's catalogue, the core's control path, the tests and the updates

This directory holds TLA+ models of SagerNet/NekoBox ("gharqad"): the desktop
client of `src/src` (C++, Qt) and its core `src/core/server` (Go, sing-box behind
a Thrift server). The models are read from the source; every definition that
stands for code is listed with its lines in `PROJECT.json` under `map`.

## 1. The system

The program is two processes. The client keeps a catalogue of proxy profiles in
an LMDB file, starts and watches the core, and sends it the configuration of the
profile the user wants to run. The core runs at most one sing-box instance for
the user and short-lived ones for tests.

| Component | Where | State | Operations | Correct when |
|---|---|---|---|---|
| Profile catalogue | `dataStore/Database.cpp`, `Group.cpp` | `profiles`, `groups`, the id orders, one record each in LMDB | load, add, move, delete, save; writes in threads | profiles and groups name each other, new ids are fresh, records follow the catalogue, settled profiles survive a restart |
| Starting and stopping | `ui/mainwindow_rpc.cpp`, `ui/mainwindow.cpp` | `running`, `started_id`, `mu_starting`, `mu_stopping` | `profile_start`, `profile_stop`, `StopVPNProcess`, `prepare_exit` | what the window shows is what the core runs; a stop is honoured; nothing blocks for good |
| Core supervision | `sys/Process.cpp` | `core_running`, `restarting`, `start_profile_when_core_is_up`, the restart timer | signals of the QProcess, `Restart`, `Kill` | the core comes back with the right profile, or not at all |
| Core RPC server | `core/server/server.go`, `internal/` | `BoxInstance`, `ExtraProcess`, `testCtx` | `Start`, `Stop`, `Test`, `StopTest`, ... | no instance or extra process runs that nobody can stop; a nil is never closed |
| Url and speed tests | `mainwindow_rpc.cpp`, `test_utils.go` | `speedtestRunning`, `stopSpeedtest`, a counter, `URLReporter` | URL, speed and IP tests, their pollers, stopping them | one test at a time, results reach their own profile |
| Subscription updater | `configs/sub/GroupUpdater.cpp` | `UI_update_all_groups_Updating` | download, parse, replace the profiles of a group | the group lists what was downloaded, in that order, profiles keep their ids, nothing is stranded, the update of all groups ends |
| Auto tester | `stats/autotester/ProxyAutoTester.cpp` | pool, offset, failure count, timers | rotate, test, give up, switch | testing goes on, every proxy gets its turn, only a proxy that works is started |
| Traffic and connections | `stats/traffic`, `stats/connectionLister` | the items of the running profile | a loop under `loop_mutex` | what was carried until a stop is saved by it, and nothing is counted twice |
| Profile filter | `dataStore/ProfileFilter.cpp` | none | `Uniq`, `Common`, `OnlyInSrc` | duplicates go, nothing else does |
| Routing profiles | `dataStore/Database.cpp`, `ui/setting/dialog_manage_routes.cpp` | `routes`, `routesIdOrder`, `current_route_id`, their records | a dialog that edits a copy of the list, downloads, updates | ids are not shared, the chosen one exists, records follow |
| Builder, settings, links, updaters, GUI | see `PROJECT.json` | data | conversions, files, windows | see section 7 |

How they interact. The GUI thread runs the user's clicks and tasks posted with
`runOnUiThread`. The thread `DS_cores` owns the QProcess. `profile_start` and
`profile_stop` hand their work to new threads, each of which opens its own
connection to the core; the Go server answers every connection in a goroutine and
takes no lock. The catalogue is changed by the GUI thread, while threads started
with `runOnNewThread` write and drop its records later. An update of a
subscription changes it from a thread of its own. The auto tester runs its cycles
and checks in threads, asks the core about the running instance and posts starts to
the GUI thread. The traffic loop asks the core once a second and writes to counters
that belong to the profiles, into which every build of a configuration writes, too.

What is hard: the order of those writes, a program that ends between two of
them, ids that are used again, handlers of the core that interleave at every
global, a core that dies during a start or a stop, mutexes that one thread locks
and another unlocks, flags read before a wait and used after it, lists that are
changed while they are walked, and objects that a download or a dialog still holds
when the catalogue has let go of them. The hazards
are listed one by one in `PROJECT.json`.

## 2. The modules

| Module | What it models |
|---|---|
| `ProfileManager` | the catalogue: memory, database, the threads between them, the end and the start of the program |
| `MCProfileManager` | the same with a bounded number of user operations and exits |
| `ProfileManagerProofs` | the inductive invariant `CatalogueInv` and its consequences; `WritesInv`: why records follow and survive; `RoutesInd`: why routing profiles and their ids agree |
| `CoreServer` | `Start` and `Stop` in the core for any number of connections, extra processes, panics and death |
| `CoreContract` | what the client counts on: a server whose `Start` and `Stop` are atomic |
| `MCCoreServer` | symmetry sets |
| `CoreServerProofs` | the inductive invariant `InstanceInv`, and that the handlers implement `CoreContract` |
| `ProfileLifecycle` | `profile_start`, `profile_stop`, the watch over the core process, composed with `CoreServer` through INSTANCE |
| `MCProfileLifecycle` | the same with a bounded number of clicks and faults |
| `ProfileLifecycleProofs` | that the client uses the core in turn, what the window shows, and that stops are honoured |
| `UrlTest` | url tests: the coordinating thread, the jobs of the pool, their pollers, stopping, and `Test`, `StopTest`, `QueryURLTest` in the core |
| `MCUrlTest` | small groups with a bounded number of profiles, stops, faults and tests of the running profile |
| `UrlTestProofs` | `LockInv`: why the lock keeps tests apart; `StopInv`: why a stop reaches what it is for; `ResultsInv`: why answers stand |
| `AutoTester`, `MCAutoTester` | the background tester: its timers, threads, pool and failover; a bounded number of events from outside |
| `AutoTesterProofs` | the flag of a cycle never stays behind, the pool is bounded, only proxies that worked are started |
| `Lists` | what is left of a list when elements are taken out |
| `Subscriptions`, `MCSubscriptions` | updates of groups, the update of all groups and what the user does meanwhile; small lists and downloads |
| `SubscriptionsProofs` | `RoundInv`: why a round is whole; `AloneInv`: what an undisturbed update finds at each stage; and, of the filter, `KeptInv`: nothing is lost for a wrong order, `FirstInv`: the first of each address is kept |
| `Traffic`, `MCTraffic` | the traffic loop and the clock against starts, stops, tests and deletions; a single profile, a chain and a front proxy, with members in common |
| `TrafficProofs` | the types; `KeptInv`: the started profile is there when it is saved; `OwedInv`, `SavedInv`: a stop saves what was carried; `RanInv`, `TotalInv`: nothing is counted twice |
| `SpeedTest`, `MCSpeedTest` | speed tests: the session, its calls, pollers and stops, and the core that measures |
| `SpeedTestProofs` | `ResultInv`: a result belongs to its profile; `SavedInv`: the call for all in common saves each |
| `ProfileFilter`, `MCProfileFilter` | `Uniq` over an ordered map whose order is none |
| `Routes`, `MCRoutes` | routing profiles, their dialog, downloads, the update thread and the next start |

`ProfileLifecycle` is composed with `CoreServer` by INSTANCE. The others model the
part of a neighbour that they touch: `Subscriptions` keeps a catalogue of lists and
identities, `Traffic` the stages of a start and a stop, `AutoTester` the three
values it reads of the window, `SpeedTest` and `UrlTest` the core's side of a test.

### ProfileManager

The variables have the names of the code: `profiles` maps an id to the group id
of its entity, `groups` a group id to the ids it lists, `idOrder` and `gidOrder`
are the lists whose `last()` gives the next id. `dProfiles` and `dGroups` are the
records in LMDB. `saves`, `stales`, `drops`, `gsaves` and `gstales` count the
writes that threads still have to do; a write for an object that has left the
catalogue keeps the value the object had (`stales`, `gstales`). An action is one
call made by the GUI thread, with everything it does at once; the writes it
leaves to a thread are the actions `RunSave`, `RunDrop`, `RunGroupSave` and their
stale forms, which run in any order. `Exit` forgets memory and threads at any
point, so every pair of writes can be cut in two. `LoadManager` is one action,
with the orphans, the repairs and the default group.

The position of a profile in its group is left out (a group's list is a set,
which `Group::AddProfile` keeps without duplicates). The contents of a profile
are left out except whether the loader accepts them (`Corrupt`).

Four history variables record what the code allows and the properties except:
`foreign` (entries LoadManager found in the wrong group), `stranded` (profiles
that outlived their group), `moved` (profiles moved and not saved since), `raced`
(ids with a save and a drop pending together) and `clobbered` (groups a deleted
object was saved over). Each is necessary: without it the property fails.

### CoreServer

`pc[c]` is the place of the handler of connection `c`; between two places any
other handler may run, which is where the Go code reads or writes a global.
`open` holds the instances nobody has begun to close. The history variables
`overlapped`, `refused` and `spoiled` say whether two calls ever overlapped,
whether a `Start` met a running instance and whether a `Start` failed around its
extra process.

`CoreContract` is the abstract specification: one instance at most, calls that take
effect at one moment between call and answer, and a core that takes its instance
along when it ends. It promises this to clients that call in turn and start nothing
over a running instance, until the first call of another kind (`Ask`, `StartsNone`),
and again from the next core on (`Crash`). `CoreServer` implements it (`Contract`,
`KeepsContract`) with `running <- open`, the places of a handler mapped to what its
client knows (`Phase`), and `trusted <- ~(overlapped \/ refused)`: the checks and
assignments between which other handlers may run, the extra process and its
failures are steps the contract does not see.

### ProfileLifecycle

`uiQueue` holds the tasks posted to the GUI thread, `uiWait` what it blocks on,
`startJob` and `stopJob` the thread of a start and of a stop (the mutexes
`mu_starting` and `mu_stopping` are held as long as those jobs exist), `coresAt`
where `DS_cores` is in its handler of the core's exit. The core's side is an
instance of `CoreServer` with the two connections "starter" and "stopper" and no
extra process. `profileOf` remembers for which profile an instance was created.

### UrlTest

A session is one click of `urltest_current_group` that found `speedtestRunning`
free. `coord[s]` is the place of its coordinating thread, `tested[s]` its list of
profiles (first the selection, then what `BuildTestConfig` keeps of it, in the
order of the tags), `counter[s]` the counter on the thread's stack. A job is a
session with a profile that has a full configuration, or with `Group`, the one
configuration for all others; `job[j]` is the place of its pool thread, `left[j]`
the url tests the core has still to end, then the answers still to write, and
`aborted[j]` whether the context of its call is cancelled. `poller[j]` is the
thread that `runURLTest` starts beside the call, `results` the global
`URLReporter` it empties, `ctxDone` whether `testCtx` is cancelled, and `stopping`
where `stopTests` is in its call of `StopTest`. `Show` is every write of a
result that stays: the answer of a job, the mark of an invalid profile, the
result of `url_test_current`.

A latency is abstracted to the profile and the session it was measured for
(session 0 is `url_test_current`), which is what can be mixed up. The names of
tags are their numbers; a full configuration's default outbound has the tag
`FullTag`, and with `FullTag` = 1 it is the tag of the group's first profile too.
A job is counted in two steps, `Count` and `Check`, as `counter++` and
`counter.load()` are two.

The history variables are `unlocks` (how often a session's end unlocked),
`answer` (the last result written for good), `overrun` (profiles a poller could
still write to at that moment), `stopped` and `passed` (the sessions a stop was
for, and the calls on their way to the core at that time).

### AutoTester

`cycle[c]` and `check[h]` are the places of the threads of a test cycle and of a
health check, `posted` the starts they left to the GUI thread. `RunTestCycle` is
called by the timer, by `Start` and by nobody else; it takes the next `Count`
proxies from `currentTestOffset` on (`ProxiesToTest`, `OffsetAfter`). A cycle's
thread answers in `CycleAnswered`, writes one result after the other
(`CycleResult`, `CycleKeep`), and ends in `CycleEnd`, which prunes the pool and may
post an automatic start. A check asks about the instance that runs
(`CheckHealthy`, `CheckUnhealthy`), and after `RetryCount` bad answers gives the
proxy up (`GiveUp`) and posts the next one (`Failover`). `SaveSettings` is `Reset`
with `Start`, or `Stop`. None of the members has a lock: a step is one statement or
one call on the pool's list. What is left of a list when elements are taken out is
chosen from `OnlyAt` of `Lists`, a set of one list. The bounds `Cycles` and `Checks` are the threads at
one time; the code has none.

### Subscriptions

`update[u]` is the place of an update's thread and what it holds: the group, the
download, the objects of before and the new ones. `LookUp`, `Downloaded`,
`AddProfileBatch`, `Apply` (the filters and the new list), `Cleanup` (deleting what
the list has left out), `RemoveDuplicates`, `RemoveInvalid` and `Finish` are the
stages between which the user and another update may run. A profile is an object
with an id, a group and a server; `profiles` maps ids to objects, so that a group
may list an id that leads nowhere and a thread may hold an object that is not in the
catalogue. The objects are numbered as they are made: `ents` is the sequence of them, and
a place in it is the object. `UpdateAll` and `SerialUpdate` are the update of all
groups, one after the other, which goes on from the end of a group's thread.

`Catalogues` are what the database may have at first, as sequences of groups and servers;
a group lists those of its own, and the ids are numbered in that order (an id is only
compared, and exceeded by the next new one; updates and deletions soon mix the order).
`Without` is what is left of a list, a recursive function as the code's filters
are loops. Servers are compared as a whole or by `AddressOf`, as the two kinds of keys are.
The history `disturbed` holds the updates that did not have the catalogue to
themselves; `RemoteOrder`, `KeptOrGone` and `ClearClears` speak
of the others.

### Traffic

The counters of a profile are one object; `tag`, `isChainTail` and `ignoreForRate`
are what builds write into it (`BuildChain`), for a start (`Start`) as for a test
(`TestBuild`). `Way` gives the outbounds of a profile, the one called "proxy" first: a
chain's members, or a profile with its landing and front proxies. `items` are the
looper's items, `pending` what the core has not handed out and `got` what it handed out
to the holder of `loop_mutex`. A start and a stop are cut where another thread may come
in: before the items are set (`Started`), at the mutex (`StopQuery`), after the core has
answered (`StopCredit`), at each item that is saved (`StopSave`), where the mutex is given
back (`StopUnlock`) and before the core is stopped (`StopCore`). A dereference of a
profile that is gone ends the window (`crashed`).

`UpdateAll` walks the items as the code does. An item that was updated in this very
millisecond (`now`) has no interval and is passed over (TrafficLooper.cpp:82); the clock
may turn before any of the places (`turns`), and between updates (`Tick`). `last_update` is
not initialized: an item without one (`stamped`) may be passed over, too (`first`). What
"proxy" carried is credited to the items of that tag, and to the tails if one of them
was not passed over.

The histories. `ran[p]` is what was carried for `p`, once for each of its places among the
items, and `owed[p]` what was carried for it until a stop began; it was carried for the
chain that runs and all its members, or for the profile that runs, with the outbound
called "proxy". `mixed` are the profiles that builds have made "proxy" as well as a tail, `missed`
those that an update left out for its time, `astray` those of an update that was not for the
items' instance (`from`), and `early` those deleted between the build of their
configuration and the moment `started_id` names them.

### SpeedTest

`session` is the place of the one thread that holds `speedtestRunning`, with the
calls it has left: one for each full configuration, and one for all others in
common, in any order. `call` is the core's side: what it has still to measure, the
outbound it is at, what it has. `Fetched` and `FetchFails` are the two outcomes of
fetching the servers, `Tick` the running measurement that `current` stores for the
pollers, `Measured` its end. `poller[n]` is the thread beside the n-th call, which
checks, asks and posts to the GUI thread; `RunPosted` shows what was posted, and only
`Answer` and `Save` write what stays. A speed is the profile it was measured for and
whether it is final. Tags are the numbers that `BuildTestConfig` counts, with the
gaps that full configurations leave. A poller looks the tag up in the map of its own
call, and a tag that is not in there leads to the profile with the id 0 (`Polled`, `Zero`).

### ProfileFilter

A profile is a type, an address and the rest of its settings. `Less` is
`operator<` as it is written, which is no weak order: the map is therefore modelled
as the search tree it is, `Find` as the search that `std::map` makes in it. With
two nodes no rotation has happened, which is why lists of up to three profiles are
exact and longer ones are not modelled. `FilterInit`, `FilterNext` and `FilterSpec` are
named for the filter, so that one module can hold the proofs about it and about the
updates that use it.

### Routes

A routing profile is an object of `chain`, shared by the map `routes`, the list
of the dialog and the update thread; `records` and `savedId` are on disk. The dialog
is not modal, so `Download`, `SelectRoute` and `UpdateProfiles` run while it is
open; the editor it opens is. `Accept` is `UpdateRouteChains` with the dialog's list
and the choice of the current profile, `Accepted` the saving of that choice after the
message box in between. `Restart` is the end of the program at any point with
`LoadManager` after it. The history `unsaved` holds objects that an update changed
and nothing has saved since, `torn` says that the program ended inside an accept. The
definitions that every module has are named for the routes here (`RoutesInit`,
`RoutesNext`, `RoutesSpec`, `routesVars`), so that one module can hold the proofs about
both parts of class `ProfileManager`.

## 3. What the runs check

| Run | Question | Bounds | States |
|---|---|---|---|
| `catalogue` | do profiles and groups agree, do ids stay fresh, do records follow and settled profiles survive, what does DeleteGroup leave | 2 ids, 1 group id besides the default group, 5 user operations, 2 exits, 1 pending write of a kind per record | 119 000 |
| `pm_id_order` | is the order loaded from the database sorted by id (no: finding) | 2 ids, `KeyBase` = 2 | |
| `core_server` | what do `BoxInstance` and `ExtraProcess` mean for interleaved clients, do the handlers implement atomic calls | 3 connections, 3 instances, 2 extra processes, unbounded calls | 133 000 |
| `lifecycle` | do the window and the core agree, is the core called in turn, is a stop honoured, does every start end and the GUI thread come back | 2 profiles, 2 clicks, 2 faults, 3 of both together | 591 000 |
| `urltest` | does the lock keep url tests apart, does the counter outlive the jobs, do answers stand, are stops honoured, does every test end | 2 sessions, 3 profiles tested in all, the jobs of a group and of a full configuration, a skipped profile, a list of which nothing is left, a pool of 2; 1 event from outside, in sessions without the full configuration | 81 000 |
| `autotest` | does testing never stop for good, is the pool bounded, are only working proxies started, is every proxy tested again and again, does the tester settle on one that passes | 3 proxies, one of a skipped type, whose tests go either way, `Count` 1, `PoolSize` 1, `RetryCount` 2, 2 cycles and 1 check at a time, 3 events from outside | 120 000 |
| `subs` | does an update leave what was downloaded, with the ids of before and nothing stranded; does the update of all groups visit every group and end | 3 groups, one archived, 3 servers of which two share an address, 2 updates at a time, 2 events from the user, 14 objects | 112 000 |
| `subs_clear` | does `sub_clear` clear the group (no: finding) | 1 group, 1 update, lists of up to three | |
| `traffic` | is what was carried saved by a stop, is nothing counted twice, is the started profile there | a single profile, a chain of it and another one, a profile with the latter as its front proxy, 2 units carried, 4 events | 391 000 |
| `speed` | is every speed saved for its own profile, for all that a call was for; does every session and poller end | a left-out, a full and two plain profiles, one of them with the id 0, 2 calls, 1 stop | 287 000 |
| `filter` | is whatever is left out kept in another profile, is the first of each address kept, in order | all lists of up to 3 profiles over 3 types, 3 addresses and 2 bodies | 24 000 |
| `routes` | do ids, the choice and the records agree | 3 objects, 2 downloads, 1 restart | 692 000 |

Some of the properties join named parts that say one thing together, and are to be
read part by part in the module: `CatalogueInv` (the types, `OrdersGrow`,
`ListedInOwnGroup`, `ListsOnlyItsOwn`), `NewIdsFresh` (profiles and groups),
`RecordsFollow` (`ProfileRecordsAgree`, `GroupRecordsAgree`), `InstanceInv`,
`WindowInv`, `NothingHangs` (`StartEnds`, `UiComesBack`), `ResultsInv` (`TypeOK`, `BegunInv`, `ShownInv`,
`AnswerStands`), `StopInv` (`StopReaches`, `StopHonoured`), `TestsEnd`
(sessions and pollers), `PoolInv`, `KeptOrGone` (`NoneStranded`, `KeepsProfiles`),
`NoneTwice` (the profiles, the window's total) and `RoutesInv`.

The bounds. Two profiles and a second group are enough for a move, a
stranded profile, a reused id and a foreign entry; the operations are counted so
that an id can be added, deleted and used again while the first
writes are pending, with an exit at any point, and an exit during the next start. The
catalogue was also explored with three ids and two group ids (319 000 states in one
session) without a new result. `KeyBase` stands for 256: the code's keys have four
bytes, so the order of two-byte ids shows everything the order of longer ones does. Two
clicks and two faults let a user stop cross a queued start while the core dies
and is restarted. Three connections let a `Start` and a `Stop` cross a third
call. The life cycle of one profile was also explored with three clicks (about
4 million states) without a new result. Two sessions are enough for a result left
over from an earlier test and for a lock released under another session, and
`MaxTested` bounds the profiles they test together; two jobs, one of them the
group's, for a counter read late; an event from outside is a stop,
a test of the running profile, a configuration that cannot be built, a call of
`Test` that fails, or the end of the core. Events from outside meet sessions without
a full configuration only, to keep the run within two minutes; both together were
explored once, in 2.1 million states, without a new result.

In the auto tester one proxy that passes beside one that fails is what it takes to
fail over, a second cycle is what a saved setting leaves behind, and `Count` 1 with
a skipped type makes the rotation pass over proxies. Two updates, or one update and
two steps of the user, cross every stage of `Subscriptions`; the third server shares
its address with the second, so that the two comparisons differ. Three groups let the
round skip one and go on after an error. In `Traffic` two units, one before and one
after a change, show both a double and a missing credit; four events are a start, a stop,
another start and its stop, or tests and a deletion between them, and five
were explored once (1.5 million states) without a new result. The three profiles share their
members, so that one is an outbound in one and a tail in another. Two calls are a session
with two of them or two sessions, the second with other tags. Three routing profiles
are an original, a clone and an edited copy; their ids have one byte, for which the
order of the keys is the order of the ids.

Deadlock is checked in `core_server`. The other configurations switch it off
because the bounded user, who clicks for a start or a test, really stops, because
`ProfileFilter` ends with the list, and because `ProfileLifecycle` and `Traffic` end
when the program dereferences a null pointer (`Ended`, `crashed`).

Every property of a passing run has a mutant: a plausible bug, written beside the
definition it would replace (`X_Something` before `X`), with which TLC reports
that property violated.

### What the exceptions in the properties say

The properties hold with exceptions, and every exception is a behaviour of the
code that the model reaches:

* a profile moved to another group is saved without its new group id
  (`MoveProfileBatch` walks the set `ments`, which nothing fills), so the next
  start may delete it as an orphan (`moved`);
* the started profile outlives its group, since `DeleteGroup` skips it and the
  stop before it keeps `started_id` (`stranded`);
* a save and a drop of one id in two threads may finish in either order (`raced`);
* a `Start` that finds an instance running forgets it in its deferred function
  (`refused`), and an extra process outlives a failed `Start` (`spoiled`);
* a stop queued by `profile_start` that finds `mu_stopping` taken does nothing,
  and `Start` reaches a core that is not empty (`crossed`);
* a core that dies after answering a start leaves a profile shown that nothing
  runs (`lostCore`); an exit handled during a stop reads state the stop is about
  to change (`exitMet`): the profile is restarted, or `running` is dereferenced
  after it became null;
* after two exits in ten seconds `restarting` stays locked, and after a failed
  start `failed_to_start` stays set: later exits are ignored (`ExitsIgnored`);
* two jobs of a url test may both see the counter complete and both unlock
  `speedtestRunning`, the second time under the next session (`unlocks`); a third
  session that is let in that way resets `stopSpeedtest`, and takes back the stop of
  the second (`UnlockedOnce` in `StopHonoured`, three sessions);
* a poller that took a result before its job had the answer writes it after the
  answer (`overrun`);
* a call of `Test` between the look at `stopSpeedtest` and the core's look at
  `testCtx` runs on after a stop (`passed`), and a stop during `BuildTestConfig` is
  lost, for the flag is reset afterwards: only sessions that wait for their jobs
  count as `stopped`;
* an update that was not alone with the catalogue may list what it or another one
  deletes (`disturbed`), and leaves the running profile alone even when it is not
  offered any more (`started`);
* builds of different profiles write into the same counters: one that has been made an
  outbound "proxy" as well as a tail is credited twice or not at all (`mixed`, and the
  window's total then, too);
* an item that is updated twice in one millisecond, or compares with a last update that was
  never set, is passed over, and what the core has handed out for it is lost (`missed`);
* a traffic loop that was late credits what the next instance carried to the items
  of the one before (`astray`);
* a profile deleted while it is being started (`early`), or a member of the running
  chain (`p # started` in `StopFindsItems`), is missing when it is saved;
* the rules brought by an update are not saved with it (`unsaved`), and a program
  that ends inside an accept may have chosen a routing profile that is gone (`torn`);
* while a cycle writes its results the pool may be longer than its limit
  (`PoolIsBounded` speaks of the other moments);
* with `sub_rm_invalid`, the update of a group without profiles waits for a job that
  nobody has, and the update of all groups with it (`Stuck`).

### Findings

Two statements of the source are refuted by runs of their own, and quoted with
their lines in `PROJECT.json`:

* `Database.hpp:145` says of `profilesIdOrder` "sort by id". `LoadManager` takes
  it from the database in the byte order of little-endian keys, so that 256 comes
  before 1 (`pm_id_order`).
* "Clear servers before update", says the setting behind `sub_clear`. The deletion
  walks the list that it shortens, and leaves every other profile (`subs_clear`).

What else the models do that a reader of the code may not expect. No run is spent on
these; the properties except them by the history variables above or speak of what
holds nevertheless:

* corrupt records are never cleared: the ids go to `BatchDeleteProfiles`, which
  ignores ids without an entity (`Database.cpp:545`);
* a lock that two jobs of a url test have both released is free while the next test
  is under way, and lets a further one in (`unlocks`);
* the tester's retry count is not bound to a proxy; saving the settings opens a second
  cycle beside the first; an automatic start may replace the profile a user has just
  started; a tester that is enabled at the start of the program never runs, for its
  timers are started from a thread they do not belong to;
* two updates of one group may leave ids without profiles, a server that is offered
  twice is listed twice under one id, and a group removed during its update comes back
  at the next start;
* `isChainTail` outlives the chain it was set for, and traffic may be credited twice; a
  test rewrites the tag of the running profile, and its traffic is not credited;
* a stop that waited for the loop updates right after it, and if that is the same
  millisecond, what was carried in between is handed out and dropped; a profile with a front
  proxy has two places among the items, and is credited twice if the clock turns between
  them and once if not;
* the speed of a full configuration is measured, shown for the profile with the id 0
  meanwhile, and not saved; a late poll may overwrite a result in the window, though not
  the saved one;
* the order of the filter's keys is no weak order, so that a duplicate may stay; all
  chains have one key, and all but one of them go as duplicates;
* a routing profile that is downloaded while the dialog is open is dropped when the
  dialog is accepted, and an update of routing profiles is not saved.

## 4. Fairness

Fairness is used by `lifecycle`, `urltest`, `autotest`, `subs` and `speed`. In `ProfileLifecycle`,
`Fairness` asks weak fairness of the classes of steps that run on threads of the program: the event loop of the GUI
thread, the threads of `profile_start` and `profile_stop`, the event loop of
`DS_cores`, and the handlers of the core. They are never disabled by anybody else
for good, and the operating system schedules them. Nothing is asked of the user, of faults, of
the core coming up, or of extra processes. A core that hangs without dying is not
covered: the client sets no timeout on its calls, and the model's core always
answers or dies.

In `UrlTest` it is asked of every coordinating thread, of every job with the part
of the core that serves it, of every poller and of a stop once it has begun. All
of them are threads of their own, or queued in a pool whose other jobs end; a url
test ends because the core gives it a timeout. Weak fairness is enough for
a coordinator that waits for the lock, since only a bounded number of clicks
competes for it: with a user who clicked for ever at the right moments,
`TestsEnd` would need a fair mutex. Nothing is asked of clicks, stops and
faults.

In `AutoTester` weak fairness is asked of the two timers, which repeat, of every
thread of a cycle and of a check, whose calls end at the latest with the timeout of
the test they carry, and of the GUI thread's queue. In `Subscriptions` it is asked
of the threads of updates: a download ends, if only with an error after its timeout;
a thread that is `Stuck` has no step to take, and `RoundEnds` excepts it. In `SpeedTest` it is asked
of the session, of the core's measurement, which has timeouts, of every poller and
of the GUI thread's queue; the ticks of a measurement are not fair. Nothing is asked
of the user, of faults or of the core coming up: `AllAreTested` and `SettlesOnPassing`
say what must happen once the core stays up and the settings stay as they are.

## 5. What is proved

The theorems are checked by TLAPS for every value of the constants that satisfies
the assumptions named in the modules.

`ProfileManagerProofs`

* `TypeCorrect`: `Spec => []TypeOK`, from `BoundsAssumption` and
  `SentinelAssumption` alone.
* `CatalogueInvariant` (`CatalogueInv`), if `MaxId < KeyBase` and `MaxGid < KeyBase` (ids
  of one byte, the case in which the key order is the id order; `pm_id_order` shows
  that the assumption is needed), and its parts `CatalogueCorrect`
  (`ListedInOwnGroup`), `ListsAreOwn` (`ListsOnlyItsOwn`) and `OrdersKeepGrowing`
  (`OrdersGrow`).
* `NewIdsAreFresh` (`NewIdsFresh`): `NewProfileID` and `NewGroupID` never
  return an id in use, under the same assumption.
* `DeleteGroupIsComplete`: the action property `DeleteGroupLeavesOnlyStarted`.
* `RecordsFollowCatalogue` (`RecordsFollow`) and `ProfilesSurviveRestart`
  (`SurvivesRestart`), under the same assumption.

The argument. Neither property is inductive by itself: that a new id is fresh
needs that `last()` is the greatest id in use, which must survive the erasing of
ids in the middle of the order and the reload from the database; and a new group
may get the id of a deleted one, which is harmless only because profiles that
kept that id are all in `stranded`. `CatalogueInv` therefore joins `TypeOK`,
`DownIsEmpty` (nothing in memory while the program is down), `OrdersGrow` (every
id in use is followed by greater ones only), `ListedInOwnGroup` and
`ListsOnlyItsOwn`. One lemma per operation shows that it is kept;
`WithoutFollow`, `AppendFollow`, `QueryFollow` and `LastIsGreatest` are the facts
about sequences they rest on.

That the records follow is no invariant either, for a record may lag behind by
any number of writes. `WritesInv` says what may be under way for an id that has
not raced: no save of an entity that has left, no drop of one that is there, and
what a record says that nobody is about to write. `EraseWrites`, `AddWrites`,
`MoveWrites`, `LoadWrites` and `ThreadWrites` keep it, one for each way in which
memory and disk change. A program that is down has no writer (`DownIsQuiet`), and
what its records then say is what the next `LoadManager` makes of them.

* `RoutesAgree` (`RoutesInv`) and `ChosenRouteExists` (`CurrentExists`), for `Routes`:
  any number of objects and texts, dialogs, downloads, updates and restarts. They rest on
  `BoundAssumption` alone.

An accept gives ids by walking through the dialog's list, each unknown object getting
the id after the one before it (`NewIds`, a recursive function). That these ascend, so
that `last()` stays the greatest id, needs that the list comes in the order of its ids
with the unknown ones at its end: `InIdOrder`, which `DialogInv` carries through the
dialog, together with whose copy is edited. `NewIdsFollow` shows that the recursion has
a value, by giving one in closed form; `NewIdsAscend` that it ascends, for the least
place at which it would not. `UpdateRouteChainsDoes` is what the properties need to
know of an accept. `ChoiceInv` adds that the choice saved, and the one in the dialog,
are of profiles that are there. A download whose new object the dialog does not
know is dropped by the accept (`AcceptKeeps`): it is lost, but nothing else refers to it.

`CoreServerProofs`

* `ServerInvariant` (`InstanceInv`), for any number of connections. It joins the
  types, `BoxIsOpen` (no overlap of calls leaves a closed instance in `BoxInstance`
  except while a `Stop` is about to clear it), `NothingRunsUnseen` and
  `StopFindsInstance` with `OneAtATime`: while calls do not overlap there is one
  handler, no instance before `Create`, and none open when `Stop` clears the global.
  `ServerTypeCorrect`, `BoxInstanceIsOpen`, `SequentialUseIsSafe` and
  `StopClosesAnInstance` are its parts.
* `ServerKeepsContract` (`KeepsContract`): `CoreServer` implements `CoreContract`. One
  lemma for `Start` and one for `Stop` map each step, while the promise stands, to a
  step or a stutter of the contract (`StartContract`, `StopContract`), with the
  invariant for what the handler finds (`StartFindsRight`); the death of the core is
  `Crash`.
* `ExtraStopsWithBox` (`ExtraGoesWithBox`): its invariant `ExtraInv` adds where each
  handler may stand while an extra process is running. Every property that
  `core_server` checks is thereby proved.

`ProfileLifecycleProofs`

* `UsesTheServer` (`Spec => Core!Spec`) and `ServerKeepsItsContract`: every step of the
  client and its core is a step of `CoreServer` or leaves it alone, so that what is
  proved of the server for any clients, its contract with it, holds within the program.
  The theorems of `CoreServerProofs` are cited through INSTANCE.
* `WindowInvariant` (`WindowInv`), for any number of profiles, instances, clicks and
  faults, and its parts `WindowAgrees` (`WindowAndCoreAgree`), `CoreUsedInTurn`
  (`CoreIsUsedInTurn`), `StopsHaveProfile` (`StopHasProfile`) and `UserStopsHold`
  (`UserStopHonoured`). Every safety property that `lifecycle` checks is thereby proved.

The argument. What is shown and what runs agree at rest only; the invariant has to
follow a start and a stop through three threads, a queue and a process. It is built
in layers, one lemma each, and each uses those before it: what the threads have in the
GUI thread's queue and that a stop or an unlock is there once (`QueueInv`); which
thread waits for which (`JobsInv`); the call that each has with the core
(`CallsInv`); what `DS_cores` knows of the process (`ProcessInv`); that a start under
way finds nothing running, and meets no stop (`TurnInv`, unless `crossed`); that what
is shown is what runs, or that the stop that clears it is still to come (`ShownInv`,
unless the core was lost or its exit met a call); that `DS_cores` has a profile to
stop when it reaches the lock (`StopInv`); and that nothing queued will start what the
user stopped (`UnwantedInv`). Each action is first reduced to what it does to the
variables of a layer (`StartCallDoes`, `StopAnsweredDoes`, `DieDoes` ...).

`UrlTestProofs`

* `LockIsSound`: `Spec => []LockInv`, for any number of sessions, profiles and pool
  threads, with stops, failing calls and a core that ends at any point. It
  rests on `BoundAssumption` and `FiniteAssumption` alone.
* `UrlTestsTakeTurns` and `CounterOutlivesJobs`: its consequences `TestsInTurn` and
  `CounterIsAlive`.
* `StopsReachTests` (`StopInv`): a stop reaches every test it is for.
* `AnswersStand` (`ResultsInv`): what a profile shows when all is over is what the last
  test that answered for it found. Every safety property that `urltest` checks is
  thereby proved.

The argument. `OneTestAtATime` says nothing of who may unlock, so it is not
inductive. `LockInv` says who holds the lock (`Holds`: a session that is built or
whose jobs have not unlocked, or a coordinator on its way out, and only one of
them), that nothing was done for a session before its jobs are handed out
(`NotBegun`), and that the counter of a session with jobs is the number of them
that have counted. A job that unlocks first has then seen a counter equal to
the number of all jobs, so none is left to test or to count
(`FS_Subset`: a subset as large as the whole is the whole). The steps of
pollers, stops, answers and failures are all `Quiet`: they move no coordinator
and no counter. The condition `UnlockedOnce` cannot be dropped: without it TLC shows
a test under way with the lock free for the next click.

For a stop, `StopReaches` says of each job of a stopped session which of the three
gates it has still to pass: the flag, the core's look at `testCtx`, or the
cancellation that is about to come. The one step that opens a gate again is a
session's build, which resets `stopSpeedtest`, and `LockInv` says that no other
session has a job in the queue then (`BuildStops`). For the results, `ShownInv`
distinguishes for each profile whether an answer is still to come (`Pending`) and
whether a poller could still write over it (`Awaited`), and `BegunInv` that nobody polls
for a job that has not begun. The lists of a session are put in order by a CHOOSE, which
needs that a finite set of numbers can be (`OrderExists`): an induction over data, for
which the least counterexample takes the place of the library's induction
(`LeastNat`, from the well-foundedness of the strict subset order on finite sets).

`AutoTesterProofs`

* `FlagNeverStays` (`FlagIsCleared`), for any number of proxies, cycles and checks.
  `FlagInv` adds only that the threads are a function; one lemma covers every move
  of a cycle (it clears the flag or is still there), one `RunTestCycle`.
* `PoolStaysSmall` (`PoolInv`): the types, with lists that name no proxy twice
  (`OnlyAtType`), and the pool's limit except while a cycle writes its results.
* `StartsWhatWorks` (`StartsWorking`): whatever a step posts exists and has passed its
  last test, as it comes first in a pool that the same step has pruned (`PostsFirst`).

`TrafficProofs`

* `StartedProfileIsSaved` (`StopFindsItems`), for any profiles and chains. It is not
  inductive: it speaks from the moment `started_id` is set. `KeptInv` carries the
  profile from the build of its configuration (`StartingKept`) to that moment and
  on (`StartedKept`).
* `TypeCorrect` (`TypeOK`), with `HandedInv`: the mutex has a holder when something was
  handed out, and the core hands out no more than it carried.
* `StopSavesAll` (`StopSaves`) and `NoneIsCountedTwice` (`NoneTwice`), for any profiles with
  any members in common, tests and deletions; they rest on `ProfileAssumption` and
  `BoundAssumption` alone. Every property that `traffic` checks is thereby proved.

The argument. `RoleInv` says what an update finds: the outbounds of what the core runs, and of
what the items are for, still have the tag that their own build wrote, and their tails are
tails (`BuiltAs`), whatever was built since, unless they are `mixed`; no chain is a tail
(`TailsInv`); and from a start to the end of its stop the items are those of what runs
(`RunInv`). From this follows what one update adds to a profile (`CreditsItsOwn`): at least
what was handed out if it is for a carrier that was not passed over, and at most that for each of its
places. What is owed is then followed on its way (`OwedInv`): carried and not handed out,
handed out and not credited, or credited. `SavedInv` adds the record: it has what is owed, or
the save of that item is still to come. That an item's save finds all of it needs that
nobody else can credit or hand out anything between the stop's last query and the
mutex's release, which is `TypeOK`. The other way round, `RanInv` and `TotalInv` say that what is
credited and what is under way come to no more than what was carried; the window counts at most one place,
for the others that have the tag are the profile's own second ones, which `ignoreForRate` takes out
(`CreditsTotal`).

`SpeedTestProofs`

* `SpeedsAreOwn` (`OwnResult`), for any lists with full configurations and left-out
  profiles anywhere. `ResultInv` says that the map from tags to profiles and the
  outbounds of a call agree where both are defined (`CallsMatch`), and that what the
  core has measured lies under the tags it was given (`CoreMeasures`).
* `CommonSpeedsAreSaved` (`SavedInCommon`): the call for all in common that was not
  stopped leaves every profile it was for with a saved speed. `SavedInv` says that each
  of its tags is an outbound and a profile (`NamesInv`), and that the core has a result
  of every outbound it has no longer to do (`Answered`).

`SubscriptionsProofs`

* `UpdateTypes` (`TypeOK`), for any groups, catalogues, downloads and threads. An id leads
  to the object that has it, because a new id is greater than all in use
  (`NewIdIsFree`), and to be in the catalogue is to be found under it.
* `RoundIsWhole` (`RoundVisitsAll`): before the place where the round goes on, it has
  been at every group that is there and not archived (`RoundInv`). Groups may go
  meanwhile, but none comes back, and nobody else can begin a round.
* `DownloadIsListed` (`RemoteOrder`) and `KeptOrDeleted` (`KeptOrGone`), for the updates
  that nobody disturbed. Every safety property that `subs` checks is thereby proved.
* `NoneIsLost` (`OneIsKept`), for the filter and any keys: whatever the order makes of
  the tree, its nodes are profiles that are kept, and a search that succeeds has compared
  the keys both ways. The length of the lists stays bounded by `MaxList`, beyond which
  the tree would rotate.
* `FirstsAreKept` (`KeepsFirstOfEach`): for servers of one type the order is that of
  the addresses (`LessIsByAddress`), a search finds what is there, and the first
  of each address is kept, in order (`FirstInv`).

The argument. Both properties of an update speak of its last step, and what that step
finds was made by three steps before it, between which any other thread may have run.
`AloneInv` says what an update finds at each stage if nobody has disturbed it: its group
(`Started`), its profiles as they were (`Remembered`), these and the ones that were added
for the download, which are none of them (`Added`), and for each entry of the download a
profile that equals it, an old one if there was one (`Applied`). A step of another
update or of the user either leaves what is listed alone (`FindsTheSame`) or puts every
update under way into `disturbed` (`OthersKeep`, `OutsideKeeps`), so that one lemma
for each step has to look at that step's own update only. `CleanupLeaves` then needs that
a deletion does not touch a list that has none of the ids deleted (`Deletes`). With
`SubClear` the invariant holds as well, but says nothing: the update has no cleanup.

Only model-checked: every liveness property (`NothingHangs`, `TestsEnd`, `AllAreTested`,
`SettlesOnPassing`, `RoundEnds`, and the ends of speed tests), for liveness under
fairness and ENABLED are out of the prover's reach. Every safety property of a passing
run is proved. What refutes a statement of the source (`pm_id_order`, `subs_clear`) needs
no more than its counterexample.

The library's theorems on induction over data take an operator as a parameter, which
these provers cannot instantiate. Where the models define something by recursion, the
proofs give the function in closed form (`NewIdsFollow`) or extend it at the least place
at which it would have no value (`WithoutExists`), and what it computes is shown for the
least place at which it would not (`NewIdsAscend`, `WithoutDoes`): a least number exists
by the well-foundedness of the strict subset order on finite sets (`LeastNat`). Where a
list is only described by what is in it, the models do without (`OnlyAt`, `Kept`, `Index`).

## 6. The plan

Done, in order of importance: `ProfileManager`, `CoreServer`, `ProfileLifecycle`
composed with it, `UrlTest`, `Subscriptions`, `AutoTester`, `Traffic`, `SpeedTest`,
`ProfileFilter` and `Routes`, with proofs for all of them; `CoreContract`, implemented
by `CoreServer`.

What would come next:

1. More abstract specifications: the catalogue as a set of profiles with a crash that
   may lose the unsettled ones, refined by `ProfileManager`; the window over
   `CoreContract` instead of `CoreServer`, refined by `ProfileLifecycle` while its calls
   are in turn.
2. `Subscriptions` on top of `ProfileManager` instead of its own small catalogue, so
   that an update also meets the threads that write.
3. `UrlTest` composed with `ProfileLifecycle`: the test of the running profile, whose
   answer may find no profile running.
4. `ProfileFilter` for lists of any length: a search tree with the rotations of
   `std::map`, and what `Uniq` keeps when the order is none.

## 7. Not modelled

The reasons are in `PROJECT.json` for each component: the beans and link formats, the
settings store and most of the configuration builder convert data; the speed test
library measures; the switches for system proxy, TUN and DNS and the updaters call
the operating system and the network; the windows display.

Within the modelled components:

* catalogue: the tab order of groups, extra core paths, the import of the older
  file layout;
* life cycle and core: the connection table, the calls of the RPC client that only
  carry data, `IPTest`, the ruleset cache;
* tests: profiles that are deleted while they are tested, the measured values, the
  menus that a test disables; of the speed tests the one of the running profile, the
  modes for the country only and for a simple download;
* subscriptions: what parsing makes of a download, the group made for pasted links,
  the url test after an update;
* traffic: rates, the other direction, outbounds without a profile, statistics that are
  switched off, a `QueryStats` that fails or a core that dies, and counters that the user
  resets or that something else saves;
* routes: the conversion of rules.

Two threads inside one call on a shared container (the tester's pool, the items of
the looper, a routing profile that is copied while it is updated) are a data race
whose outcome the code does not define; the models take such a call as one step.
