----------------------------- MODULE AutoTester -----------------------------
(***************************************************************************)
(* The background tester of proxies (stats/autotester/ProxyAutoTester.cpp) *)
(* with what starts it (ui/mainwindow_rpc.cpp: setup_rpc; ui/mainwindow.cpp*)
(* when the settings are saved).                                           *)
(*                                                                         *)
(* A timer of the UI thread opens test cycles.  A cycle picks the next     *)
(* proxies of the group in rotation and tests them from a thread of its    *)
(* own, which keeps those that work in a pool and starts one when no       *)
(* profile runs.  A second timer opens health checks: each asks the core,  *)
(* from a thread of its own, about the instance that runs, counts the bad  *)
(* answers and, when they are too many, gives the proxy up and starts the  *)
(* next one of the pool.  Both only post the start to the UI thread.       *)
(*                                                                         *)
(* None of the members has a lock.  One step here is one statement, or one *)
(* call on the list of the pool.                                           *)
(***************************************************************************)
EXTENDS Naturals, Sequences, FiniteSets, SequencesExt, Lists

CONSTANTS
    Proxies,        \* the profiles of the current group
    Skipped,        \* those of the types "custom" and "chain"
    LeftOut,        \* those that BuildTestConfig leaves out: extra cores, invalid ones
    Outcomes,       \* proxy -> the results a test of it may have
    None,           \* no profile
    Count,          \* auto_test_proxy_count: proxies of a cycle
    PoolSize,       \* auto_test_working_pool_size
    RetryCount,     \* auto_test_failure_retry_count
    Cycles, Checks  \* bounds: threads at one time

ASSUME ProxyAssumption ==
    /\ Skipped \cup LeftOut \subseteq Proxies /\ None \notin Proxies
    /\ Outcomes \in [Proxies -> (SUBSET BOOLEAN) \ {{}}]
ASSUME FiniteAssumption == IsFiniteSet(Proxies)
ASSUME CountAssumption ==
    /\ Count \in Nat \ {0} /\ PoolSize \in Nat \ {0} /\ RetryCount \in Nat \ {0}
ASSUME ThreadAssumption == Cycles \cap Checks = {}

VARIABLES
    list,               \* the profiles of the group that are left, in order
    enabled,            \* auto_test_enable
    timers,             \* are testTimer and healthCheckTimer running
    coreRunning,        \* core_running
    started,            \* started_id
    working,            \* proxy -> is_working
    workingProxyPool,
    currentTestOffset,
    activeProxyFailureCount, \* as far as RetryCount
    isTestingInProgress,
    cycle,              \* thread -> where its test cycle is
    check,              \* thread -> where its health check is
    posted              \* the starts posted to the UI thread

core     == <<coreRunning, started>>
world    == <<list, enabled, timers, core>>
pool     == <<working, workingProxyPool>>
rotation == <<currentTestOffset, isTestingInProgress>>
threads  == <<cycle, check>>
vars == <<world, pool, rotation, activeProxyFailureCount, threads, posted>>

Idle   == [at |-> "idle"]
Exists == ToSet(list)

CycleAt(c, r) == cycle' = [cycle EXCEPT ![c] = r]
CheckAt(h, r) == check' = [check EXCEPT ![h] = r]
Post(p, kind) == posted' = Append(posted, [id |-> p, kind |-> kind])

(* The list s after removeAll of p.                                        *)
Without(s, p) == OnlyAt(s, {i \in DOMAIN s : s[i] # p})

-----------------------------------------------------------------------------
(* The rotation *)

Testable(p) == p \notin Skipped

(* getProxiesToTest: the group from `from` on, once round.                 *)
Round(from) == [i \in DOMAIN list |-> list[((from + i - 1) % Len(list)) + 1]]

FirstOf(s, n) == SubSeq(s, 1, IF n < Len(s) THEN n ELSE Len(s))

Start(from) == IF list = <<>> THEN 0 ELSE from % Len(list)

ProxiesToTest(from) ==
    LET round == Round(Start(from))
    IN  {FirstOf(s, Count) :
            s \in OnlyAt(round, {i \in DOMAIN round : Testable(round[i])})}

(* Mutant: the offset is moved past the whole round.                       *)
OffsetAfter_Round(from, next) ==
    IF list = <<>> THEN from ELSE (Start(from) + Len(list)) % Len(list)

OffsetAfter(from, next) ==
    IF list = <<>> THEN from ELSE (Start(from) + Len(next)) % Len(list)

(* RunTestCycle, entered with auto_test_enable = on, the offset `from` and *)
(* isTestingInProgress clear: a timeout has looked, and Reset has cleared  *)
(* it.                                                                     *)
RunTestCycle(on, from) ==
    IF ~on \/ ~coreRunning
    THEN /\ isTestingInProgress' = FALSE /\ currentTestOffset' = from
         /\ UNCHANGED cycle
    ELSE \E next \in ProxiesToTest(from) :
            /\ currentTestOffset' = OffsetAfter(from, next)
            /\ isTestingInProgress' = (next # <<>>)
            /\ IF next = <<>> THEN UNCHANGED cycle
               ELSE \E c \in Cycles :
                       /\ cycle[c] = Idle
                       /\ CycleAt(c, [at |-> "testing", todo |-> next])

(* onTestTimerTimeout, when it does something.                             *)
TestTimer ==
    /\ timers /\ posted = <<>>
    /\ enabled /\ coreRunning /\ ~isTestingInProgress
    /\ RunTestCycle(enabled, currentTestOffset)
    /\ UNCHANGED <<world, pool, activeProxyFailureCount, check, posted>>

-----------------------------------------------------------------------------
(* A test cycle's thread *)

(* Mutant: the pool is not cut.                                            *)
Prune_Uncut(s) ==
    OnlyAt(s, {i \in DOMAIN s : s[i] \in Exists /\ working[s[i]]})

(* Mutant: what a check has found meanwhile is not looked at.              *)
Prune_Unchecked(s) ==
    OnlyAt(s, {i \in DOMAIN s : i <= PoolSize /\ s[i] \in Exists})

(* pruneWorkingPool: what it leaves of the pool s, which it cuts first.    *)
Prune(s) ==
    OnlyAt(s, {i \in DOMAIN s : /\ i <= PoolSize
                                /\ s[i] \in Exists /\ working[s[i]]})

(* GetNextWorkingProxy, after it has pruned the pool to s.                 *)
GetNextWorkingProxy(s) == IF s = <<>> THEN None ELSE Head(s)

(* Mutant: a cycle that ends early leaves the flag set.                    *)
EndEarly_FlagStays(c) ==
    /\ cycle[c].at = "testing"
    /\ CycleAt(c, Idle)
    /\ UNCHANGED <<world, pool, rotation, activeProxyFailureCount, check, posted>>

(* Every early return of performTest.                                      *)
EndEarly(c) ==
    /\ cycle[c].at = "testing"
    /\ CycleAt(c, Idle)
    /\ isTestingInProgress' = FALSE
    /\ UNCHANGED <<world, pool, currentTestOffset, activeProxyFailureCount, check, posted>>

(* The proxies of s that get a result.                                     *)
InConfig(s) == ToSet(s) \cap (Exists \ LeftOut)

(* Nothing is left to test, or the core does not answer.                   *)
CycleFails(c) == /\ EndEarly(c)
                 /\ ~coreRunning \/ InConfig(cycle[c].todo) = {}

(* BuildTestConfig reports an error, or the call fails.                    *)
CallFails(c) == EndEarly(c)

CycleAnswered(c) ==
    /\ cycle[c].at = "testing" /\ coreRunning
    /\ InConfig(cycle[c].todo) # {}
    /\ CycleAt(c, [at |-> "results", todo |-> cycle[c].todo])
    /\ UNCHANGED <<world, pool, rotation, activeProxyFailureCount, check, posted>>

(* A result, if there is one, is written to the profile, if that is left.  *)
CycleResult(c) ==
    /\ cycle[c].at = "results" /\ cycle[c].todo # <<>>
    /\ LET p == Head(cycle[c].todo)
       IN  IF p \in LeftOut \/ p \notin Exists
           THEN /\ CycleAt(c, [at |-> "results", todo |-> Tail(cycle[c].todo)])
                /\ UNCHANGED working
           ELSE \E ok \in Outcomes[p] :
                  /\ working' = [working EXCEPT ![p] = ok]
                  /\ CycleAt(c, [at |-> "keep", ok |-> ok, todo |-> cycle[c].todo])
    /\ UNCHANGED <<world, workingProxyPool, rotation, activeProxyFailureCount,
                   check, posted>>

(* updateWorkingPool.                                                      *)
CycleKeep(c) ==
    /\ cycle[c].at = "keep"
    /\ LET p == Head(cycle[c].todo)
       IN  \E rest \in Without(workingProxyPool, p) :
              workingProxyPool' = IF cycle[c].ok THEN <<p>> \o rest ELSE rest
    /\ CycleAt(c, [at |-> "results", todo |-> Tail(cycle[c].todo)])
    /\ UNCHANGED <<world, working, rotation, activeProxyFailureCount, check, posted>>

(* The end of a cycle: when no profile runs, it starts the first of the    *)
(* pool.                                                                   *)
CycleEnd(c) ==
    /\ cycle[c].at = "results" /\ cycle[c].todo = <<>>
    /\ CycleAt(c, Idle)
    /\ isTestingInProgress' = FALSE
    /\ workingProxyPool' \in Prune(workingProxyPool)
    /\ LET next == GetNextWorkingProxy(workingProxyPool')
       IN  IF started = None /\ next # None
           THEN Post(next, "auto") ELSE UNCHANGED posted
    /\ UNCHANGED <<world, working, currentTestOffset, activeProxyFailureCount, check>>

-----------------------------------------------------------------------------
(* A health check's thread *)

(* onHealthCheckTimerTimeout.                                              *)
CheckActiveProxyHealth(h) ==
    /\ timers /\ posted = <<>>
    /\ coreRunning /\ started \in Exists
    /\ check[h] = Idle
    /\ CheckAt(h, [at |-> "testing", id |-> started])
    /\ UNCHANGED <<world, pool, rotation, activeProxyFailureCount, cycle, posted>>

(* The answer is about the instance that runs when the core is asked.      *)
CheckHealthy(h) ==
    /\ check[h].at = "testing"
    /\ coreRunning /\ started # None /\ TRUE \in Outcomes[started]
    /\ activeProxyFailureCount' = 0
    /\ working' = [working EXCEPT ![check[h].id] = TRUE]
    /\ CheckAt(h, Idle)
    /\ UNCHANGED <<world, workingProxyPool, rotation, cycle, posted>>

UpTo(n) == IF n < RetryCount THEN n ELSE RetryCount

CheckUnhealthy(h) ==
    /\ check[h].at = "testing"
    /\ coreRunning /\ started # None => FALSE \in Outcomes[started]
    /\ activeProxyFailureCount' = UpTo(activeProxyFailureCount + 1)
    /\ IF activeProxyFailureCount' >= RetryCount
       THEN CheckAt(h, [check[h] EXCEPT !.at = "failed"])
       ELSE CheckAt(h, Idle)
    /\ UNCHANGED <<world, pool, rotation, cycle, posted>>

(* HandleProxyFailure, first half: the proxy is given up.                  *)
GiveUp(h) ==
    /\ check[h].at = "failed"
    /\ working' = [working EXCEPT ![check[h].id] = FALSE]
    /\ workingProxyPool' \in Without(workingProxyPool, check[h].id)
    /\ CheckAt(h, [check[h] EXCEPT !.at = "failover"])
    /\ UNCHANGED <<world, rotation, activeProxyFailureCount, cycle, posted>>

(* Mutant: the comparison with started_id is the wrong way round.          *)
Failover_Other(h) ==
    /\ check[h].at = "failover"
    /\ CheckAt(h, Idle)
    /\ IF started # check[h].id
       THEN /\ workingProxyPool' \in Prune(workingProxyPool)
            /\ LET next == GetNextWorkingProxy(workingProxyPool')
               IN  IF next = None THEN UNCHANGED <<posted, activeProxyFailureCount>>
                   ELSE Post(next, "failover") /\ activeProxyFailureCount' = 0
       ELSE UNCHANGED <<workingProxyPool, posted, activeProxyFailureCount>>
    /\ UNCHANGED <<world, working, rotation, cycle>>

(* Its second half: when the proxy still is the active one, the first of   *)
(* the pool is to be started.                                              *)
Failover(h) ==
    /\ check[h].at = "failover"
    /\ CheckAt(h, Idle)
    /\ IF started = check[h].id
       THEN /\ workingProxyPool' \in Prune(workingProxyPool)
            /\ LET next == GetNextWorkingProxy(workingProxyPool')
               IN  IF next = None THEN UNCHANGED <<posted, activeProxyFailureCount>>
                   ELSE Post(next, "failover") /\ activeProxyFailureCount' = 0
       ELSE UNCHANGED <<workingProxyPool, posted, activeProxyFailureCount>>
    /\ UNCHANGED <<world, working, rotation, cycle>>

-----------------------------------------------------------------------------
(* The UI thread *)

(* A posted profile_start; a profile that is gone is not started.          *)
RunPosted ==
    /\ posted # <<>>
    /\ posted' = Tail(posted)
    /\ started' = IF Head(posted).id \in Exists THEN Head(posted).id ELSE started
    /\ UNCHANGED <<list, enabled, timers, coreRunning, pool, rotation,
                   activeProxyFailureCount, threads>>

(* profile_start stops what runs, and the core then rejects the profile.   *)
StartFails ==
    /\ posted # <<>>
    /\ posted' = Tail(posted)
    /\ started' = IF Head(posted).id \in Exists THEN None ELSE started
    /\ UNCHANGED <<list, enabled, timers, coreRunning, pool, rotation,
                   activeProxyFailureCount, threads>>

(* The user starts or stops a profile.                                     *)
UserStart(p) ==
    /\ p \in Exists
    /\ started' = p
    /\ UNCHANGED <<list, enabled, timers, coreRunning, pool, rotation,
                   activeProxyFailureCount, threads, posted>>

UserStop ==
    /\ started # None
    /\ started' = None
    /\ UNCHANGED <<list, enabled, timers, coreRunning, pool, rotation,
                   activeProxyFailureCount, threads, posted>>

(* A profile is deleted, which is not the started one.                     *)
DeleteProfile(p) ==
    /\ p \in Exists /\ p # started
    /\ list' \in Without(list, p)
    /\ UNCHANGED <<enabled, timers, core, pool, rotation,
                   activeProxyFailureCount, threads, posted>>

(* The settings are saved: Reset and Start, or Stop.  Both stop the timers *)
(* and clear the flag, and leave the threads alone.                        *)
SaveSettings(on) ==
    /\ enabled' = on /\ timers' = on
    /\ IF on
       THEN /\ workingProxyPool' = <<>> /\ activeProxyFailureCount' = 0
            /\ RunTestCycle(on, 0)
       ELSE /\ isTestingInProgress' = FALSE
            /\ UNCHANGED <<workingProxyPool, activeProxyFailureCount,
                           currentTestOffset, cycle>>
    /\ UNCHANGED <<list, core, working, check, posted>>

(* The core's process starts running, or it ends.                          *)
CoreStateChanged ==
    /\ coreRunning' = ~coreRunning
    /\ UNCHANGED <<list, enabled, timers, started, pool, rotation,
                   activeProxyFailureCount, threads, posted>>

-----------------------------------------------------------------------------
(* After setup_rpc, which runs in DS_cores before the core is started: the *)
(* timers belong to the UI thread and QTimer::start refuses to start them  *)
(* from another, and RunTestCycle finds the core not running.              *)
Init ==
    /\ list \in SetToSeqs(Proxies)
    /\ enabled \in BOOLEAN /\ timers = FALSE
    /\ coreRunning = FALSE /\ started = None
    /\ working = [p \in Proxies |-> FALSE] /\ workingProxyPool = <<>>
    /\ currentTestOffset = 0 /\ isTestingInProgress = FALSE
    /\ activeProxyFailureCount = 0
    /\ cycle = [c \in Cycles |-> Idle] /\ check = [h \in Checks |-> Idle]
    /\ posted = <<>>

RunCycle(c) == \/ CycleFails(c) \/ CycleAnswered(c) \/ CycleResult(c)
               \/ CycleKeep(c) \/ CycleEnd(c)
RunCheck(h) == CheckHealthy(h) \/ CheckUnhealthy(h) \/ GiveUp(h) \/ Failover(h)

Inside ==
    \/ TestTimer \/ RunPosted
    \/ \E c \in Cycles : RunCycle(c)
    \/ \E h \in Checks : CheckActiveProxyHealth(h) \/ RunCheck(h)

Outside ==
    \/ StartFails \/ UserStop \/ CoreStateChanged
    \/ \E p \in Proxies : UserStart(p) \/ DeleteProfile(p)
    \/ \E on \in BOOLEAN : SaveSettings(on)
    \/ \E c \in Cycles : CallFails(c)

Next == Inside \/ Outside

(* The timers are repeated, a thread runs on until it ends, a call of the  *)
(* core ends at the latest after the timeout of the test, and the UI       *)
(* thread gets to what is posted to it.                                    *)
Fairness ==
    /\ WF_vars(TestTimer) /\ WF_vars(RunPosted)
    /\ \A c \in Cycles : WF_vars(RunCycle(c))
    /\ \A h \in Checks : WF_vars(CheckActiveProxyHealth(h)) /\ WF_vars(RunCheck(h))

Spec     == Init /\ [][Next]_vars
FairSpec == Spec /\ Fairness

-----------------------------------------------------------------------------
(* Properties *)

Posts == [id : Proxies, kind : {"auto", "failover"}]
CycleStates ==
    {Idle} \cup [at : {"testing", "results"}, todo : Seq(Proxies)]
           \cup [at : {"keep"}, ok : BOOLEAN, todo : Seq(Proxies) \ {<<>>}]
CheckStates == {Idle} \cup [at : {"testing", "failed", "failover"}, id : Proxies]

(* Every variable keeps its type.                                          *)
TypeOK ==
    /\ list \in Seq(Proxies)
    /\ enabled \in BOOLEAN /\ timers \in BOOLEAN /\ coreRunning \in BOOLEAN
    /\ started \in Proxies \cup {None}
    /\ working \in [Proxies -> BOOLEAN] /\ workingProxyPool \in Seq(Proxies)
    /\ currentTestOffset \in Nat /\ isTestingInProgress \in BOOLEAN
    /\ activeProxyFailureCount \in 0..RetryCount
    /\ cycle \in [Cycles -> CycleStates] /\ check \in [Checks -> CheckStates]
    /\ posted \in Seq(Posts)

(* The flag that turns test cycles away is set only while the thread of a  *)
(* cycle is there to clear it: testing never stops for good.  (Every way   *)
(* out of performTest, and what Stop does to a cycle under way.)           *)
FlagIsCleared == isTestingInProgress => \E c \in Cycles : cycle[c] # Idle

(* While no cycle writes its results, no more proxies than                 *)
(* auto_test_working_pool_size are kept, each once ("Maximum number of     *)
(* verified working proxies to maintain", dialog_basic_settings.ui).       *)
PoolIsBounded ==
    /\ \A i, j \in DOMAIN workingProxyPool :
          workingProxyPool[i] = workingProxyPool[j] => i = j
    /\ (\A c \in Cycles : cycle[c].at \in {"idle", "testing"})
          => Len(workingProxyPool) <= PoolSize

(* The types, and the size of the pool.                                    *)
PoolInv == TypeOK /\ PoolIsBounded

(* A start that the tester posts is of a profile that is there and whose   *)
(* last test it passed, also when a health check gave it up while a cycle  *)
(* was writing results (GetNextWorkingProxy).                              *)
StartsWorking ==
    [][Len(posted') > Len(posted)
          => LET p == Last(posted').id IN p \in Exists /\ working[p]]_vars

(* Once the settings were saved with the tester on, every proxy that is    *)
(* left in the group is tested again and again, whatever stands between it *)
(* and the next one (the offset of getProxiesToTest).                      *)
Picked(p) == \E c \in Cycles : cycle[c].at = "testing" /\ p \in ToSet(cycle[c].todo)
AllAreTested == \A p \in Proxies \ Skipped :
    <>[](timers /\ coreRunning /\ p \in Exists) => []<>Picked(p)

(* When some proxies always pass their tests, and the others in the end    *)
(* fail theirs, the tester in the end has one started that passes, and     *)
(* leaves it started (HandleProxyFailure, the automatic start).            *)
Passing == {p \in Proxies \ (Skipped \cup LeftOut) : Outcomes[p] = {TRUE}}
SettlesOnPassing ==
    (/\ \E p \in Passing : <>[](timers /\ coreRunning /\ p \in Exists)
     /\ \A p \in Proxies \ Passing : <>[]~working[p])
        => <>[](started \in Passing)
=============================================================================
