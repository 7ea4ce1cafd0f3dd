------------------------------ MODULE UrlTest -------------------------------
(***************************************************************************)
(* The url tests of the window (mainwindow_rpc.cpp: urltest_current_group, *)
(* runURLTest, stopTests, url_test_current) and the part of the core that  *)
(* serves them (core/server/server.go: Test, StopTest, QueryURLTest;       *)
(* test_utils.go: URLTestReporter, BatchURLTest).                          *)
(*                                                                         *)
(* A click opens a session: under speedtestRunning a coordinating thread   *)
(* builds the configurations, hands jobs to parallelCoreCallPool - one for *)
(* every profile with a full configuration, one for all the others - and   *)
(* waits for the job that counts last to unlock.  A job calls Test of the  *)
(* core, while a poller thread of its own takes what the core has measured *)
(* so far from URLReporter, a global list, and writes it to the profiles;  *)
(* the job then writes the answer of Test.                                 *)
(*                                                                         *)
(* A measured latency is abstracted to whose it is: the profile and the    *)
(* session it was measured for.                                            *)
(***************************************************************************)
EXTENDS Integers, Sequences, FiniteSets, Functions

CONSTANTS
    Profiles,       \* the profiles of the group
    Full,           \* those with a full configuration of their own
    ExtraCore,      \* those of type "extracore", which are skipped
    Invalid,        \* those whose configuration the core rejects
    Started,        \* those the user starts, apart from the tests
    FullTag,        \* the tag of a full configuration's default outbound
    Group,          \* the job for all the others
    None,           \* no result, no profile
    Lists,          \* the lists of profiles that are tested together
    MaxSessions,    \* bound on the clicks that open a session
    PoolSize        \* threads of parallelCoreCallPool

ASSUME KindAssumption ==
    Full \cup ExtraCore \cup Invalid \cup Started \subseteq Profiles
ASSUME FiniteAssumption == IsFiniteSet(Full)
ASSUME TagAssumption == FullTag \in Nat
ASSUME SentinelAssumption == Group \notin Profiles /\ None \notin Profiles
ASSUME ListAssumption ==
    \A ps \in Lists : ps \in Seq(Profiles) /\ IsInjective(ps)
ASSUME BoundAssumption == MaxSessions \in Nat \ {0} /\ PoolSize \in Nat \ {0}

Sessions == 1..MaxSessions
Jobs     == Sessions \X (Full \cup {Group})

VARIABLES
    speedtestRunning,   \* is the mutex locked
    stopSpeedtest,      \* the flag of stopTests
    coord,              \* session -> where its coordinator is
    tested,             \* session -> its profiles, in the order of ++index
    counter,            \* session -> counter, on the coordinator's stack
    job,                \* job -> where its pool thread is
    left,               \* job -> the profiles still to test, or to write
    aborted,            \* job -> the context of its call of Test is cancelled
    poller,             \* job -> where its poller is, and what it has taken
    latency,            \* profile -> the result in latencyInt
    stopping,           \* where stopTests is
    current,            \* the profile whose result url_test_current is to show
    results,            \* URLReporter.results
    ctxDone             \* is testCtx cancelled

(***************************************************************************)
(* History variables, read by no action.                                   *)
(***************************************************************************)
VARIABLES
    unlocks,            \* session -> how often its jobs' end unlocked
    answer,             \* profile -> the last result written for good
    overrun,            \* profiles a poller still had a write for at that time
    stopped, passed     \* sessions stopped, their jobs on the way to the core

sessions == <<coord, tested, counter>>
window  == <<speedtestRunning, stopSpeedtest, sessions>>
calls   == <<left, aborted>>
jobs    == <<job, calls>>
server  == <<results, ctxDone>>
judged  == <<answer, overrun>>
history == <<unlocks, judged, stopped, passed>>
vars == <<window, jobs, poller, latency, stopping, current, server, history>>

(* A job's pool thread, from its start to the unlock.                      *)
Busy == {j \in Jobs : job[j] \notin {"none", "queued"}}

(* The tag that the result for p has in a job's call of Test: in the group *)
(* BuildTestConfig numbers the profiles it keeps.                          *)
TagOf(j, p) ==
    IF j[2] = Group
    THEN CHOOSE i \in DOMAIN tested[j[1]] : tested[j[1]][i] = p
    ELSE FullTag

Tested(s) == Range(tested[s])

InOrder(f) == \A i, k \in DOMAIN f : i < k => f[i] < f[k]

(* What is left of a list when only the places in K are kept.              *)
Kept(list, K) ==
    LET place == CHOOSE f \in [1..Cardinality(K) -> K] : InOrder(f)
    IN  [i \in 1..Cardinality(K) |-> list[place[i]]]

(* The profiles whose result a job's call of Test answers.                 *)
Items(j) == IF j[2] = Group THEN Tested(j[1]) \ Full ELSE {j[2]}

JobsOf(s) == {j \in Jobs : /\ j[1] = s
                           /\ Items(j) # {} /\ Items(j) \subseteq Tested(s)}

(* tag2entID, which only the job of the group passes to runURLTest.        *)
EntOf(j, tag) ==
    IF j[2] = Group /\ tag \in DOMAIN tested[j[1]]
                    /\ tested[j[1]][tag] \notin Full
    THEN tested[j[1]][tag] ELSE None

(* Mutant: the job of the group is not counted in.                         *)
TestCount_FullOnly(s) == Cardinality({j \in JobsOf(s) : j[2] # Group})

TestCount(s) == Cardinality(JobsOf(s))

CoordAt(s, p) == coord' = [coord EXCEPT ![s] = p]
JobAt(j, p)   == job' = [job EXCEPT ![j] = p]

(* The end of session s unlocks speedtestRunning.                          *)
Unlock(s) ==
    /\ speedtestRunning' = FALSE
    /\ unlocks' = [unlocks EXCEPT ![s] = @ + 1]

(* Writes to profile p that a poller has still to make, or may.            *)
Awaited(p) == \E j \in Jobs :
    \/ poller[j].at = "query" /\ p \in Items(j) /\ j[2] = Group
    \/ \E i \in DOMAIN poller[j].batch : EntOf(j, poller[j].batch[i].tag) = p

(* ps show their results, for good.                                        *)
Show(ps, r) ==
    /\ latency' = [p \in Profiles |-> IF p \in ps THEN r[p] ELSE latency[p]]
    /\ answer'  = [p \in Profiles |-> IF p \in ps THEN r[p] ELSE answer[p]]
    /\ overrun' = (overrun \ ps) \cup {p \in ps : Awaited(p)}

OwnResult(s) == [p \in Profiles |-> [of |-> p, by |-> s]]

-----------------------------------------------------------------------------
(* urltest_current_group: the click, and its coordinating thread *)

(* A lock that is taken turns the click away.                              *)
UrlTest(s, profiles) ==
    /\ coord[s] = "none" /\ \A t \in 1..(s - 1) : coord[t] # "none"
    /\ profiles # << >>
    /\ ~speedtestRunning
    /\ speedtestRunning' = TRUE
    /\ CoordAt(s, "build")
    /\ tested' = [tested EXCEPT ![s] = profiles]
    /\ UNCHANGED <<stopSpeedtest, counter, jobs, poller, latency, stopping,
                   current, server, history>>

Testable(p) == p \notin ExtraCore \cup Invalid

WhatIsTestable(ps) == Kept(ps, {i \in DOMAIN ps : Testable(ps[i])})

(* BuildTestConfig leaves out what cannot be tested, and marks the invalid *)
(* profiles as unavailable ...                                             *)
MarkInvalid(s, ps) == Show(ps \cap (Invalid \ ExtraCore), OwnResult(s))

(* ... up to one that it cannot configure, where it gives up.              *)
BuildFails(s) ==
    /\ coord[s] = "build"
    /\ \E n \in 1..Len(tested[s]) :
          MarkInvalid(s, Range(SubSeq(tested[s], 1, n - 1)))
    /\ CoordAt(s, "over")
    /\ Unlock(s)
    /\ UNCHANGED <<stopSpeedtest, tested, counter, jobs, poller, stopping,
                   current, server, stopped, passed>>

(* Mutant: without a job, nobody unlocks.                                  *)
Build_NoUnlock(s) ==
    /\ coord[s] = "build"
    /\ MarkInvalid(s, Tested(s))
    /\ stopSpeedtest' = FALSE
    /\ CoordAt(s, "wait")
    /\ tested' = [tested EXCEPT ![s] = WhatIsTestable(@)]
    /\ job' = [j \in Jobs |-> IF j \in JobsOf(s)' THEN "queued" ELSE job[j]]
    /\ UNCHANGED <<speedtestRunning, unlocks, counter, calls, poller,
                   stopping, current, server, stopped, passed>>

(* The jobs for the rest go to the pool.                                   *)
Build(s) ==
    /\ coord[s] = "build"
    /\ MarkInvalid(s, Tested(s))
    /\ stopSpeedtest' = FALSE
    /\ CoordAt(s, "wait")
    /\ tested' = [tested EXCEPT ![s] = WhatIsTestable(@)]
    /\ job' = [j \in Jobs |-> IF j \in JobsOf(s)' THEN "queued" ELSE job[j]]
    /\ IF TestCount(s)' = 0 THEN Unlock(s)
                          ELSE UNCHANGED <<speedtestRunning, unlocks>>
    /\ UNCHANGED <<counter, calls, poller, stopping, current, server,
                   stopped, passed>>

(* Mutant: the coordinator does not wait for the jobs.                     *)
Finished_NoWait(s) ==
    /\ coord[s] = "wait"
    /\ CoordAt(s, "finished")
    /\ UNCHANGED <<speedtestRunning, stopSpeedtest, tested, counter, jobs,
                   poller, latency, stopping, current, server, history>>

(* The coordinator waits for the lock, and gives it back.                  *)
Finished(s) ==
    /\ coord[s] = "wait" /\ ~speedtestRunning
    /\ speedtestRunning' = TRUE
    /\ CoordAt(s, "finished")
    /\ UNCHANGED <<stopSpeedtest, tested, counter, jobs, poller, latency,
                   stopping, current, server, history>>

GiveBack(s) ==
    /\ coord[s] = "finished"
    /\ speedtestRunning' = FALSE
    /\ CoordAt(s, "report")
    /\ UNCHANGED <<stopSpeedtest, tested, counter, jobs, poller, latency,
                   stopping, current, server, history>>

(* The callback and the message; with the thread goes its stack, where     *)
(* counter is.                                                             *)
Report(s) ==
    /\ coord[s] = "report"
    /\ CoordAt(s, "over")
    /\ UNCHANGED <<speedtestRunning, stopSpeedtest, tested, counter, jobs,
                   poller, latency, stopping, current, server, history>>

-----------------------------------------------------------------------------
(* A job in the pool: runURLTest, then the counter *)

(* Mutant: the flag is not looked at.                                      *)
RunJob_NoFlag(j) ==
    /\ job[j] = "queued" /\ Cardinality(Busy) < PoolSize
    /\ JobAt(j, "calling")
    /\ poller' = [poller EXCEPT ![j].at = "sleep"]
    /\ UNCHANGED <<window, calls, latency, stopping, current, server, history>>

(* A stopped session's jobs test nothing.                                  *)
RunJob(j) ==
    /\ job[j] = "queued" /\ Cardinality(Busy) < PoolSize
    /\ IF stopSpeedtest
       THEN JobAt(j, "count") /\ UNCHANGED poller
       ELSE /\ JobAt(j, "calling")
            /\ poller' = [poller EXCEPT ![j].at = "sleep"]
    /\ UNCHANGED <<window, calls, latency, stopping, current, server, history>>

(* Test ends without an answer: the core is down, or takes the             *)
(* configuration for wrong.  What the poller wrote stays.                  *)
CallFails(j) ==
    /\ job[j] = "calling"
    /\ JobAt(j, "count")
    /\ answer' = [p \in Profiles |-> IF p \in Items(j) THEN None ELSE answer[p]]
    /\ UNCHANGED <<window, calls, poller, latency, stopping, current, server,
                   unlocks, overrun, stopped, passed>>

(* Test has created its instance and goes into BatchURLTest with testCtx.  *)
CallTests(j) ==
    /\ job[j] = "calling"
    /\ JobAt(j, "testing")
    /\ left' = [left EXCEPT ![j] = Items(j)]
    /\ aborted' = [aborted EXCEPT ![j] = ctxDone]
    /\ UNCHANGED <<window, poller, latency, stopping, current, server, history>>

(* A url test ends.  One that was cut off before it began is not reported. *)
TestEnds(j, p) ==
    /\ job[j] = "testing" /\ p \in left[j]
    /\ left' = [left EXCEPT ![j] = @ \ {p}]
    /\ \/ results' = Append(results,
                             [tag |-> TagOf(j, p), of |-> p, by |-> j[1]])
       \/ aborted[j] /\ UNCHANGED results
    /\ UNCHANGED <<window, job, aborted, poller, latency, stopping, current,
                   ctxDone, history>>

(* The job has the answer, and lets its poller go.                         *)
CallAnswered(j) ==
    /\ job[j] = "testing" /\ left[j] = {}
    /\ JobAt(j, "writing")
    /\ left' = [left EXCEPT ![j] = Items(j)]
    /\ aborted' = [aborted EXCEPT ![j] = FALSE]
    /\ UNCHANGED <<window, poller, latency, stopping, current, server, history>>

WriteAnswer(j, p) ==
    /\ job[j] = "writing" /\ p \in left[j]
    /\ Show({p}, OwnResult(j[1]))
    /\ left' = [left EXCEPT ![j] = @ \ {p}]
    /\ JobAt(j, IF left[j] = {p} THEN "count" ELSE "writing")
    /\ UNCHANGED <<window, aborted, poller, stopping, current, server, unlocks,
                   stopped, passed>>

Count(j) ==
    /\ job[j] = "count"
    /\ JobAt(j, "check")
    /\ counter' = [counter EXCEPT ![j[1]] = @ + 1]
    /\ UNCHANGED <<speedtestRunning, stopSpeedtest, coord, tested, calls,
                   poller, latency, stopping, current, server, history>>

(* The counter is read again, when another job may have counted too.  Once *)
(* the coordinator is gone, what is read is whatever its stack holds.      *)
Check(j) ==
    LET s == j[1]
        last == counter[s] = TestCount(s)
    IN  /\ job[j] = "check"
        /\ JobAt(j, "none")
        /\ \/ (last \/ coord[s] = "over") /\ Unlock(s)
           \/ /\ ~last \/ coord[s] = "over"
              /\ UNCHANGED <<speedtestRunning, unlocks>>
        /\ UNCHANGED <<stopSpeedtest, sessions, calls, poller, latency,
                       stopping, current, server, judged, stopped, passed>>

-----------------------------------------------------------------------------
(* The poller of a job *)

(* Mutant: the poller goes on while there are results.                     *)
Poll_UntilEmpty(j) ==
    /\ poller[j].at = "sleep"
    /\ poller' = [poller EXCEPT ![j].at =
           IF job[j] \in {"calling", "testing"} \/ results # << >>
           THEN "query" ELSE "none"]
    /\ UNCHANGED <<window, jobs, latency, stopping, current, server, history>>

(* The job lets it go when its call of Test returns.                       *)
Poll(j) ==
    /\ poller[j].at = "sleep"
    /\ poller' = [poller EXCEPT ![j].at =
           IF job[j] \in {"calling", "testing"} THEN "query" ELSE "none"]
    /\ UNCHANGED <<window, jobs, latency, stopping, current, server, history>>

(* QueryURLTest empties the reporter.  Results whose tag names no profile  *)
(* of this job are dropped.                                                *)
QueryURLTest(j) ==
    LET mine == Kept(results,
                     {i \in DOMAIN results : EntOf(j, results[i].tag) # None})
    IN  /\ poller[j].at = "query"
        /\ results' = << >>
        /\ poller' = [poller EXCEPT ![j] =
               [at |-> IF mine = << >> THEN "sleep" ELSE "write",
                batch |-> mine]]
        /\ UNCHANGED <<window, jobs, latency, stopping, current, ctxDone,
                       history>>

PollWrite(j) ==
    LET r == Head(poller[j].batch)
    IN  /\ poller[j].at = "write"
        /\ latency' = [latency EXCEPT ![EntOf(j, r.tag)] =
                          [of |-> r.of, by |-> r.by]]
        /\ poller' = [poller EXCEPT ![j] =
               [at |-> IF Len(@.batch) = 1 THEN "sleep" ELSE "write",
                batch |-> Tail(@.batch)]]
        /\ UNCHANGED <<window, jobs, stopping, current, server, history>>

-----------------------------------------------------------------------------
(* stopTests: the flag, then the call of StopTest, which the UI thread     *)
(* waits for *)

StopTests ==
    /\ stopping = "no"
    /\ stopSpeedtest' = TRUE
    /\ stopping' = "cancel"
    /\ stopped' = stopped \cup {s \in Sessions : coord[s] = "wait"}
    /\ passed' = passed \cup {j \in Jobs : job[j] = "calling"}
    /\ UNCHANGED <<speedtestRunning, sessions, jobs, poller, latency,
                   current, server, unlocks, judged>>

(* cancelTests() reaches every test that runs with the context ...         *)
StopCancels ==
    /\ stopping = "cancel"
    /\ ctxDone' = TRUE
    /\ aborted' = [j \in Jobs |-> job[j] = "testing"]
    /\ stopping' = "renew"
    /\ UNCHANGED <<window, job, left, poller, latency, current, results,
                   history>>

(* ... and a new one takes its place.                                      *)
StopRenews ==
    /\ stopping = "renew"
    /\ ctxDone' = FALSE
    /\ stopping' = "no"
    /\ UNCHANGED <<window, jobs, poller, latency, current, results, history>>

-----------------------------------------------------------------------------
(* url_test_current, and the end of the core *)

(* The running instance's default outbound has the tag "proxy", the first. *)
CurrentTested(p) ==
    /\ current = None
    /\ results' = Append(results, [tag |-> 1, of |-> p, by |-> 0])
    /\ current' = p
    /\ UNCHANGED <<window, jobs, poller, latency, stopping, ctxDone, history>>

(* The result goes to the profile that is running by then.                 *)
CurrentShown(p) ==
    /\ current # None
    /\ Show({p}, [q \in {p} |-> [of |-> current, by |-> 0]])
    /\ current' = None
    /\ UNCHANGED <<window, jobs, poller, stopping, server, unlocks, stopped,
                   passed>>

(* The core ends and is started again: the calls under way fail.           *)
CoreExits ==
    LET lost == {j \in Jobs : job[j] \in {"calling", "testing"}}
    IN  /\ results' = << >> /\ ctxDone' = FALSE
        /\ job' = [j \in Jobs |-> IF j \in lost THEN "count" ELSE job[j]]
        /\ left' = [j \in Jobs |-> IF j \in lost THEN {} ELSE left[j]]
        /\ aborted' = [j \in Jobs |-> FALSE]
        /\ answer' = [p \in Profiles |->
               IF \E j \in lost : p \in Items(j) THEN None ELSE answer[p]]
        /\ stopping' = "no"
        /\ UNCHANGED <<window, poller, latency, current, unlocks, overrun,
                       stopped, passed>>

-----------------------------------------------------------------------------
Init ==
    /\ speedtestRunning = FALSE /\ stopSpeedtest = FALSE
    /\ coord = [s \in Sessions |-> "none"]
    /\ tested = [s \in Sessions |-> << >>]
    /\ counter = [s \in Sessions |-> 0]
    /\ job = [j \in Jobs |-> "none"]
    /\ left = [j \in Jobs |-> {}] /\ aborted = [j \in Jobs |-> FALSE]
    /\ poller = [j \in Jobs |-> [at |-> "none", batch |-> << >>]]
    /\ latency = [p \in Profiles |-> None]
    /\ stopping = "no" /\ current = None
    /\ results = << >> /\ ctxDone = FALSE
    /\ unlocks = [s \in Sessions |-> 0]
    /\ answer = [p \in Profiles |-> None] /\ overrun = {}
    /\ stopped = {} /\ passed = {}

Coordinate(s) == Build(s) \/ Finished(s) \/ GiveBack(s) \/ Report(s)

RunTest(j) == \/ RunJob(j) \/ CallTests(j) \/ CallAnswered(j)
              \/ Count(j) \/ Check(j)
              \/ \E p \in Items(j) : TestEnds(j, p) \/ WriteAnswer(j, p)

RunPoller(j) == Poll(j) \/ QueryURLTest(j) \/ PollWrite(j)

StopStep == StopCancels \/ StopRenews

Click == \E s \in Sessions, ps \in Lists : UrlTest(s, ps)

FaultStep == \/ \E s \in Sessions : BuildFails(s)
             \/ \E j \in Jobs : CallFails(j)
             \/ CoreExits

Next == \/ Click
        \/ \E s \in Sessions : Coordinate(s)
        \/ \E j \in Jobs : RunTest(j) \/ RunPoller(j)
        \/ StopTests \/ StopStep
        \/ \E p \in Started : CurrentTested(p) \/ CurrentShown(p)
        \/ FaultStep

(* The threads run and the core answers, for every url test has a timeout: *)
(* what the user does and what goes wrong is never certain to happen.      *)
Fairness ==
    /\ \A s \in Sessions : WF_vars(Coordinate(s))
    /\ \A j \in Jobs : WF_vars(RunTest(j)) /\ WF_vars(RunPoller(j))
    /\ WF_vars(StopStep)

Spec == Init /\ [][Next]_vars /\ Fairness

-----------------------------------------------------------------------------
(* Properties *)

Result   == [of : Profiles, by : 0..MaxSessions]
Reported == [tag : Nat, of : Profiles, by : 0..MaxSessions]

(* What a poller has taken and has still to write: results for its job.    *)
PollerTypes ==
    \A j \in Jobs :
        /\ poller[j] \in [at : {"none", "sleep", "query", "write"},
                          batch : Seq(Reported)]
        /\ poller[j].at = "write" <=> poller[j].batch # << >>
        /\ \A i \in DOMAIN poller[j].batch :
               EntOf(j, poller[j].batch[i].tag) # None

(* Every variable keeps its type.                                          *)
TypeOK ==
    /\ speedtestRunning \in BOOLEAN /\ stopSpeedtest \in BOOLEAN
    /\ coord \in [Sessions -> {"none", "build", "wait", "finished", "report",
                              "over"}]
    /\ tested \in [Sessions -> Seq(Profiles)]
    /\ counter \in [Sessions -> 0..Cardinality(Jobs)]
    /\ job \in [Jobs -> {"none", "queued", "calling", "testing", "writing",
                        "count", "check"}]
    /\ left \in [Jobs -> SUBSET Profiles] /\ aborted \in [Jobs -> BOOLEAN]
    /\ DOMAIN poller = Jobs /\ PollerTypes
    /\ latency \in [Profiles -> Result \cup {None}]
    /\ answer \in [Profiles -> Result \cup {None}]
    /\ stopping \in {"no", "cancel", "renew"} /\ ctxDone \in BOOLEAN
    /\ current \in Profiles \cup {None}
    /\ results \in Seq(Reported)

(* Jobs of session s are still to test, to write or to count.              *)
Testing(s) == \E j \in JobsOf(s) : job[j] \notin {"none", "check"}

InTest(s) == coord[s] = "build" \/ Testing(s)

(* As the message of a click that is turned away says, a url test that     *)
(* "did not exit completely" lets no other begin: while one is prepared or *)
(* has jobs, speedtestRunning is locked and there is no other.             *)
OneTestAtATime ==
    \A s \in Sessions :
        InTest(s) => speedtestRunning /\ \A t \in Sessions \ {s} : ~InTest(t)

UnlockedOnce == \A s \in Sessions : unlocks[s] <= 1

(* That is so unless two jobs of a session both saw the counter complete,  *)
(* and both unlocked.                                                      *)
TestsInTurn == UnlockedOnce => OneTestAtATime

(* A job counts in a variable on the coordinator's stack: the coordinator  *)
(* outlives the jobs that are still to count, with the same exception.     *)
CounterIsAlive ==
    UnlockedOnce => \A s \in Sessions : Testing(s) => coord[s] = "wait"

-----------------------------------------------------------------------------
(* Why the lock keeps tests apart: an inductive invariant *)

(* Who has locked speedtestRunning and not unlocked it: a session that is  *)
(* built or tested, or a coordinator on its way out.                       *)
Holds(s) == \/ coord[s] \in {"build", "finished"}
            \/ coord[s] = "wait" /\ unlocks[s] = 0

Counted(s) == {j \in JobsOf(s) : job[j] \in {"none", "check"}}

LockTypes ==
    /\ speedtestRunning \in BOOLEAN
    /\ coord \in [Sessions -> {"none", "build", "wait", "finished", "report",
                              "over"}]
    /\ DOMAIN tested = Sessions
    /\ counter \in [Sessions -> Nat]
    /\ unlocks \in [Sessions -> Nat]
    /\ job \in [Jobs -> {"none", "queued", "calling", "testing", "writing",
                        "count", "check"}]

(* Nothing has been done for a session whose jobs are not handed out, and  *)
(* only a session's own jobs are.                                          *)
NotBegun ==
    /\ \A s \in Sessions : coord[s] \in {"none", "build"} =>
           /\ unlocks[s] = 0 /\ counter[s] = 0
           /\ \A j \in Jobs : j[1] = s => job[j] = "none"
    /\ \A j \in Jobs : job[j] # "none" => j \in JobsOf(j[1])

(* A session that was unlocked for is no longer tested, and the one that   *)
(* is tested has its jobs counted and holds the lock, alone.               *)
LockIsHeld ==
    /\ \A s \in Sessions :
           coord[s] \in {"finished", "report", "over"} => unlocks[s] = 1
    /\ \A s \in Sessions : Testing(s) => coord[s] = "wait" /\ unlocks[s] = 0
    /\ \A s \in Sessions : coord[s] = "wait" /\ unlocks[s] = 0 =>
           counter[s] = Cardinality(Counted(s))
    /\ \A s \in Sessions :
           Holds(s) => speedtestRunning /\ \A t \in Sessions \ {s} : ~Holds(t)

LockInv == LockTypes /\ NotBegun /\ (UnlockedOnce => LockIsHeld)

-----------------------------------------------------------------------------
Resting == /\ \A s \in Sessions : coord[s] \in {"none", "over"}
           /\ \A j \in Jobs : job[j] = "none" /\ poller[j].at = "none"

(* When all is over, a profile shows what the last test that was answered  *)
(* for it measured, and none of the results that pollers took from         *)
(* URLReporter for it: those of earlier tests and of url_test_current      *)
(* under the same tag.  The exception is a poller with a write to make at  *)
(* the time of the answer.                                                 *)
AnswerStands ==
    Resting => \A p \in Profiles \ overrun :
                  answer[p] # None => latency[p] = answer[p]

(* Why, in every state: a profile shows its answer and no poller has       *)
(* anything for it, or a job is to answer for it once more.                *)
Pending(p) ==
    \E j \in Jobs : /\ p \in Items(j)
                    /\ \/ job[j] \in {"calling", "testing"}
                       \/ job[j] = "writing" /\ p \in left[j]

ShownInv ==
    \A p \in Profiles \ overrun :
        \/ answer[p] = None
        \/ Pending(p)
        \/ latency[p] = answer[p] /\ ~Awaited(p)

(* A job's poller is there from the job's start, and the counter counts    *)
(* jobs.                                                                   *)
BegunInv ==
    /\ \A j \in Jobs : coord[j[1]] \in {"none", "build"} \/ job[j] = "queued"
                       => poller[j].at = "none"
    /\ \A s \in Sessions : coord[s] \notin {"none", "build"} =>
                             counter[s] <= Cardinality(Counted(s))

(* The types, and the results that stand when all is over.                 *)
ResultsInv == TypeOK /\ BegunInv /\ ShownInv /\ AnswerStands

(* Once StopTest has returned, no test of a stopped session runs on, but   *)
(* for those whose call was between runURLTest's look at the flag and the  *)
(* core's at testCtx; unless a lock that was opened twice let in another   *)
(* session, whose start takes the flag back.                               *)
StopHonoured ==
    UnlockedOnce /\ stopping = "no" =>
        \A j \in Jobs : job[j] = "testing" /\ j[1] \in stopped
                        => aborted[j] \/ j \in passed

(* Why: the flag stays up for the jobs of a stopped session in the queue,  *)
(* and the call of StopTest reaches those that are tested.                 *)
StopReaches ==
    /\ \A s \in stopped : coord[s] \notin {"none", "build"}
    /\ UnlockedOnce => \A j \in Jobs : j[1] \in stopped =>
          /\ job[j] = "queued" => stopSpeedtest
          /\ job[j] = "calling" => j \in passed
          /\ job[j] = "testing" =>
                 aborted[j] \/ j \in passed \/ stopping = "cancel"

(* A stop reaches all the tests it is for, now or when it is through.      *)
StopInv == StopReaches /\ StopHonoured

(* Every url test comes to an end, and its lock is free for the next one.  *)
SessionsEnd ==
    \A s \in Sessions : coord[s] = "build" ~> coord[s] = "over"

(* A poller does not outlive its call for good.                            *)
PollersEnd == \A j \in Jobs : poller[j].at # "none" ~> poller[j].at = "none"

(* Every url test ends, with all its threads.                              *)
TestsEnd == SessionsEnd /\ PollersEnd
=============================================================================
