----------------------- MODULE ProfileLifecycleProofs -----------------------
(***************************************************************************)
(* What holds of starting and stopping for any number of profiles and of   *)
(* sing-box instances, and for any number of clicks, crashes and restarts. *)
(***************************************************************************)
EXTENDS ProfileLifecycle, TLAPS

(* What is proved of the server for any clients.                           *)
Server == INSTANCE CoreServerProofs
            WITH Clients <- {"starter", "stopper"}, Procs <- {}, Dud <- "dud"

-----------------------------------------------------------------------------
(* The server within the program *)

(* The server's module and its proofs speak of the same steps and types.   *)
LEMMA SameServer ==
    /\ Core!Init <=> Server!Init
    /\ [Core!Next]_(Core!coreVars) <=> [Server!Next]_(Server!coreVars)
    /\ Core!TypeOK <=> Server!TypeOK
    /\ Core!TypeOK' <=> Server!TypeOK'
  <1>1. Core!Init <=> Server!Init
    BY DEF Core!Init, Server!Init
  <1>2. [Core!Next]_(Core!coreVars) <=> [Server!Next]_(Server!coreVars)
    BY DEF Core!Next, Server!Next, Core!CallStart, Server!CallStart,
           Core!CallStop, Server!CallStop, Core!Call, Server!Call,
           Core!Return, Server!Return, Core!Goto, Server!Goto, Core!Serving,
           Server!Serving, Core!Handling, Server!Handling, Core!Answered,
           Server!Answered, Core!Start, Server!Start, Core!StartCheck,
           Server!StartCheck, Core!StartExtraConfigFails,
           Server!StartExtraConfigFails, Core!StartExtraFails,
           Server!StartExtraFails, Core!StartExtra, Server!StartExtra,
           Core!StartCreateFails, Server!StartCreateFails, Core!StartCreate,
           Server!StartCreate, Core!Fail, Server!Fail, Core!Stop, Server!Stop,
           Core!StopCheck, Server!StopCheck, Core!StopClose, Server!StopClose,
           Core!StopReset, Server!StopReset, Core!StopRecovered,
           Server!StopRecovered, Core!Panic, Server!Panic, Core!Die,
           Server!Die, Core!Boot, Server!Boot, Core!ExtraExit,
           Server!ExtraExit, Core!coreVars, Server!coreVars, Core!globals,
           Server!globals, Core!calls, Server!calls, Core!history,
           Server!history
  <1>3. /\ Core!TypeOK <=> Server!TypeOK
        /\ Core!TypeOK' <=> Server!TypeOK'
    BY DEF Core!TypeOK, Server!TypeOK, Core!Handling, Server!Handling,
           Core!Answered, Server!Answered
  <1> QED BY <1>1, <1>2, <1>3

(* Every step of the program is a step of the server or leaves it alone.   *)
LEMMA CoreStep == [Next]_vars => [Core!Next]_(Core!coreVars)
  <1> USE DEF core, Core!coreVars, Core!globals, Core!calls, Core!history
  <1>1. ASSUME UserStep PROVE UNCHANGED Core!coreVars
    BY <1>1 DEF UserStep, UserStart, UserStop, GroupStop, StopVPNProcess,
                PrepareExit, Click
  <1>2. ASSUME UiStep PROVE UNCHANGED Core!coreVars
    BY <1>2 DEF UiStep, UiStopForStart, UiUnlock, UiCoreStarted, UiCrashed
  <1>3. ASSUME StartStep PROVE [Core!Next]_(Core!coreVars)
    BY <1>3 DEF StartStep, StartCall, StartAnswered, Core!Next
  <1>4. ASSUME StopStep PROVE [Core!Next]_(Core!coreVars)
    BY <1>4 DEF StopStep, StopCall, StopSegfault, StopAnswered, StopFinish,
                Core!Next
  <1>5. ASSUME ProcessEnds PROVE [Core!Next]_(Core!coreVars)
    BY <1>5 DEF ProcessEnds, Core!Next
  <1>6. ASSUME CoresStep PROVE [Core!Next]_(Core!coreVars)
    BY <1>5, <1>6
       DEF CoresStep, CoreLaunched, ReadHello, CoresTask, CoreExited,
           CoresCheck, CoresLock, RestartTooSoon, PlanRestart, Restart,
           KillCore, KillDone
  <1>7. ASSUME CoreHandles PROVE [Core!Next]_(Core!coreVars)
    BY <1>7 DEF CoreHandles, Core!Next, Core!Start, Core!Stop
  <1>8. ASSUME CorePanics \/ CoreListens PROVE [Core!Next]_(Core!coreVars)
    BY <1>8 DEF CorePanics, CoreListens, Core!Next
  <1>9. ASSUME FaultStep PROVE [Core!Next]_(Core!coreVars)
    BY <1>5, <1>9 DEF FaultStep, CoreDies, CoreFailsToStart, ExtraExits
  <1> QED BY <1>1, <1>2, <1>3, <1>4, <1>6, <1>7, <1>8, <1>9 DEF Next, vars

(* The program starts with a server that is down, and what it does to it   *)
(* is what the server allows.                                              *)
THEOREM UsesTheServer == Spec => Core!Spec
  <1>1. Init => Core!Init
    BY DEF Init
  <1> QED BY <1>1, CoreStep, PTL DEF Spec, Core!Spec

(* Within the program, too, the server keeps its contract.                 *)
THEOREM ServerKeepsItsContract == Spec => Server!KeepsContract
  <1>1. Server!SentinelAssumption
    BY NoneAssumption DEF Server!SentinelAssumption
  <1>2. Server!Spec => Server!KeepsContract
    BY <1>1, Server!ServerKeepsContract
  <1> QED BY <1>2, UsesTheServer, SameServer, PTL DEF Core!Spec, Server!Spec

-----------------------------------------------------------------------------
(* Types *)

(* The server's variables keep their types, by the server's own proof.     *)
LEMMA CoreType == Core!TypeOK /\ [Next]_vars => Core!TypeOK'
  <1>1. Server!SentinelAssumption
    BY NoneAssumption DEF Server!SentinelAssumption
  <1>2. Server!TypeOK /\ [Server!Next]_(Server!coreVars) => Server!TypeOK'
    BY <1>1, Server!NextType
  <1> QED BY <1>2, CoreStep, SameServer

(* The records of the queue and of the two threads.                        *)
LEMMA TaskTypes ==
    \A k \in {"stop", "unlock", "start", "crashed"}, i \in Ids \cup {None} :
        Task(k, i) \in Tasks /\ Task(k, i).kind = k /\ Task(k, i).id = i
  BY DEF Task, Tasks

LEMMA StartJobTypes ==
    /\ NoStart \in StartJobs
    /\ \A i \in Ids : [at |-> "waiting", id |-> i] \in StartJobs
    /\ \A j \in StartJobs :
          /\ j.id \in Ids \cup {None}
          /\ [j EXCEPT !.at = "ready"] \in StartJobs
          /\ [j EXCEPT !.at = "calling"] \in StartJobs
  BY DEF StartJobs, NoStart

LEMMA StopJobTypes ==
    /\ NoStop \in StopJobs
    /\ \A c, m \in BOOLEAN :
          [at |-> "begun", crash |-> c, manual |-> m] \in StopJobs
    /\ \A j \in StopJobs :
          /\ [j EXCEPT !.at = "calling"] \in StopJobs
          /\ [j EXCEPT !.at = "finishing"] \in StopJobs
          /\ [j EXCEPT !.at = "segfault"] \in StopJobs
          /\ [j EXCEPT !.at = "done"] \in StopJobs
  BY DEF StopJobs, NoStop

(* Moving a thread on changes nothing else of it.                          *)
LEMMA StartMoves ==
    \A j \in StartJobs : \A p \in {"ready", "calling"} :
        [j EXCEPT !.at = p].at = p /\ [j EXCEPT !.at = p].id = j.id
  BY DEF StartJobs

LEMMA StopMoves ==
    ASSUME NEW j \in StopJobs,
           NEW p \in {"calling", "finishing", "segfault", "done"}
    PROVE  /\ [j EXCEPT !.at = p].at = p
           /\ [j EXCEPT !.at = p].crash = j.crash
           /\ [j EXCEPT !.at = p].manual = j.manual
  BY DEF StopJobs

(* A task is appended to the queue, or taken off its head.                 *)
LEMMA Queues ==
    ASSUME NEW T, NEW q \in Seq(T)
    PROVE  /\ \A t \in T : Append(q, t) \in Seq(T)
           /\ q # << >> => Head(q) \in T /\ Tail(q) \in Seq(T)
  OBVIOUS

(* profile_start and profile_stop keep the types of what they change.      *)
LEMMA StartType ==
    ASSUME WindowTypes, WatchTypes, NEW i \in Ids, NEW q \in Seq(Tasks),
           profile_start(i, q)
    PROVE  /\ uiQueue' \in Seq(Tasks) /\ coresQueue' \in Seq(Ids)
           /\ startJob' \in StartJobs
  <1>1. Append(q, Task("stop", None)) \in Seq(Tasks)
    BY TaskTypes
  <1>2. [at |-> "waiting", id |-> i] \in StartJobs
    BY StartJobTypes
  <1>3. startJob \in StartJobs /\ coresQueue \in Seq(Ids)
    BY DEF WindowTypes, WatchTypes
  <1>4. Append(coresQueue, i) \in Seq(Ids)
    BY <1>3
  <1> QED BY <1>1, <1>2, <1>3, <1>4 DEF profile_start

LEMMA StopType ==
    ASSUME WindowTypes,
           \/ profile_stop(TRUE, "no") \/ profile_stop(TRUE, "handshake")
           \/ profile_stop(FALSE, "no") \/ profile_stop(FALSE, "stop")
    PROVE  /\ stopJob' \in StopJobs
           /\ uiWait' \in {"no", "stop", "handshake", "kill", "killing"}
  <1>1. \A m \in BOOLEAN :
            [at |-> "begun", crash |-> FALSE, manual |-> m] \in StopJobs
    BY StopJobTypes
  <1>2. CASE StopTaken
    BY <1>1, <1>2 DEF profile_stop
  <1>3. CASE ~StopTaken
    BY <1>3 DEF profile_stop, WindowTypes
  <1> QED BY <1>2, <1>3

(* The steps that leave the window and its threads alone.                  *)
QuietStep == \/ CoreLaunched \/ CoresTask \/ CoreExited \/ CoresCheck
             \/ RestartTooSoon \/ PlanRestart \/ Restart
             \/ CoreHandles \/ CorePanics \/ CoreListens
             \/ CoreDies \/ CoreFailsToStart

LEMMA Quiet == QuietStep => UNCHANGED <<window, ui, jobs>>
  BY DEF QuietStep, CoreLaunched, CoresTask, CoreExited, CoresCheck,
         RestartTooSoon, PlanRestart, Restart, CoreHandles, CorePanics,
         CoreListens, CoreDies, CoreFailsToStart, window, ui, jobs

(* Taking a task off the queue leaves tasks.                               *)
LEMMA Popped ==
    ASSUME WindowTypes, uiQueue # << >>
    PROVE  /\ Tail(uiQueue) \in Seq(Tasks) /\ Head(uiQueue) = uiQueue[1]
           /\ 1 \in DOMAIN uiQueue
           /\ \A k \in DOMAIN Tail(uiQueue) :
                 /\ k + 1 \in DOMAIN uiQueue /\ k + 1 # 1
                 /\ Tail(uiQueue)[k] = uiQueue[k + 1]
  <1>1. uiQueue \in Seq(Tasks)
    BY DEF WindowTypes
  <1> QED BY <1>1

(* The profile of a queued start is one.                                   *)
LEMMA QueuedStart ==
    ASSUME WindowTypes, QueueInv, NextTask("start")
    PROVE  Tail(uiQueue) \in Seq(Tasks) /\ Head(uiQueue).id \in Ids
  BY Popped DEF NextTask, QueueInv

(* Every step keeps the window's types.                                    *)
LEMMA WindowType ==
    ASSUME WindowTypes, WatchTypes, QueueInv, [Next]_vars PROVE WindowTypes'
  <1> USE DEF window, ui, jobs
  <1>1. CASE UNCHANGED <<window, ui, jobs>>
    BY <1>1 DEF WindowTypes
  <1>2. ASSUME NEW i \in Ids, UserStart(i) PROVE WindowTypes'
    <2>1. uiQueue \in Seq(Tasks)
      BY DEF WindowTypes
    <2>2. uiQueue' \in Seq(Tasks) /\ startJob' \in StartJobs
      BY <1>2, <2>1, StartType DEF UserStart
    <2> QED BY <1>2, <2>2 DEF UserStart, Click, WindowTypes
  <1>3. CASE UserStop \/ GroupStop \/ PrepareExit \/ UiCrashed
    <2>1. /\ stopJob' \in StopJobs
          /\ uiWait' \in {"no", "stop", "handshake", "kill", "killing"}
      BY <1>3, StopType DEF UserStop, GroupStop, PrepareExit, UiCrashed
    <2>2. uiQueue' \in Seq(Tasks)
      BY <1>3, Popped
         DEF UserStop, GroupStop, PrepareExit, UiCrashed, NextTask, WindowTypes
    <2>3. /\ UNCHANGED <<running, started_id, startJob>>
          /\ prepare_exit' \in {prepare_exit, TRUE}
      BY <1>3 DEF UserStop, GroupStop, PrepareExit, UiCrashed, Click
    <2> QED BY <2>1, <2>2, <2>3 DEF WindowTypes
  <1>4. CASE StopVPNProcess
    BY <1>4 DEF StopVPNProcess, Click, WindowTypes
  <1>5. CASE UiStopForStart
    <2>1. /\ stopJob' \in StopJobs
          /\ uiWait' \in {"no", "stop", "handshake", "kill", "killing"}
      BY <1>5, StopType DEF UiStopForStart
    <2>2. startJob' \in StartJobs
      BY <1>5, StartJobTypes DEF UiStopForStart, WindowTypes
    <2>3. uiQueue' \in Seq(Tasks) /\ UNCHANGED window
      BY <1>5, Popped DEF UiStopForStart, NextTask
    <2> QED BY <2>1, <2>2, <2>3 DEF WindowTypes
  <1>6. CASE UiUnlock
    <2>1. uiQueue' \in Seq(Tasks) /\ stopJob' \in StopJobs
      BY <1>6, Popped, StopJobTypes DEF UiUnlock, NextTask
    <2> QED BY <1>6, <2>1 DEF UiUnlock, WindowTypes
  <1>7. CASE UiCoreStarted
    <2>1. uiQueue' \in Seq(Tasks) /\ startJob' \in StartJobs
      BY <1>7, QueuedStart, StartType DEF UiCoreStarted
    <2> QED BY <1>7, <2>1 DEF UiCoreStarted, WindowTypes
  <1>8. CASE StartCall
    <2>1. startJob' \in StartJobs
      BY <1>8, StartJobTypes DEF StartCall, WindowTypes
    <2> QED BY <1>8, <2>1 DEF StartCall, WindowTypes
  <1>9. CASE StartAnswered
    <2>1. startJob' \in StartJobs /\ startJob.id \in Ids \cup {None}
      BY <1>9, StartJobTypes DEF StartAnswered, WindowTypes
    <2> QED BY <1>9, <2>1 DEF StartAnswered, WindowTypes
  <1>10. CASE StopCall \/ StopSegfault \/ StopAnswered
    <2>1. stopJob' \in StopJobs
      BY <1>10, StopJobTypes DEF StopCall, StopSegfault, StopAnswered, WindowTypes
    <2>2. UNCHANGED <<window, ui, startJob>>
      BY <1>10 DEF StopCall, StopSegfault, StopAnswered
    <2> QED BY <2>1, <2>2 DEF WindowTypes
  <1>11. CASE StopFinish
    <2>1. stopJob' \in StopJobs
      BY <1>11, StopJobTypes DEF StopFinish, WindowTypes
    <2>2. startJob' \in StartJobs
      BY <1>11, StartJobTypes DEF StopFinish, WindowTypes
    <2>3. uiQueue' \in Seq(Tasks)
      BY <1>11, TaskTypes, Queues DEF StopFinish, WindowTypes
    <2> QED BY <1>11, <2>1, <2>2, <2>3 DEF StopFinish, WindowTypes
  <1>12. CASE ReadHello \/ ExtraExits
    <2>1. /\ uiQueue \in Seq(Tasks)
          /\ Task("start", whenUp) \in Tasks /\ Task("crashed", None) \in Tasks
      BY TaskTypes DEF WindowTypes, WatchTypes
    <2>2. uiQueue' \in Seq(Tasks)
      BY <1>12, <2>1 DEF ReadHello, ExtraExits
    <2>3. UNCHANGED <<window, uiWait, jobs>>
      BY <1>12 DEF ReadHello, ExtraExits
    <2> QED BY <2>2, <2>3 DEF WindowTypes
  <1>13. CASE CoresLock
    <2>1. stopJob' \in StopJobs
      BY <1>13, StopJobTypes DEF CoresLock, WindowTypes
    <2> QED BY <1>13, <2>1 DEF CoresLock, WindowTypes
  <1>14. CASE KillCore \/ KillDone
    BY <1>14 DEF KillCore, KillDone, WindowTypes
  <1>15. CASE QuietStep
    BY <1>1, <1>15, Quiet
  <1> QED
    BY <1>1, <1>2, <1>3, <1>4, <1>5, <1>6, <1>7, <1>8, <1>9, <1>10, <1>11,
       <1>12, <1>13, <1>14, <1>15
    DEF Next, vars, UserStep, UiStep, StartStep, StopStep, CoresStep, FaultStep,
        QuietStep

(* Every step keeps the types of the watch over the core.                  *)
LEMMA WatchType ==
    ASSUME WindowTypes, WatchTypes, QueueInv, [Next]_vars PROVE WatchTypes'
  <1> USE DEF process, watch
  <1>1. CASE UNCHANGED <<process, watch>>
    BY <1>1 DEF WatchTypes
  <1>2. CASE (\E i \in Ids : UserStart(i)) \/ UiCoreStarted
    <2>1. uiQueue \in Seq(Tasks)
      BY DEF WindowTypes
    <2>2. coresQueue' \in Seq(Ids)
      BY <1>2, <2>1, StartType, QueuedStart DEF UserStart, UiCoreStarted
    <2>3. UNCHANGED <<process, whenUp, coresAt, restarting, coreTimer,
                      restartDue, failed_to_start>>
      BY <1>2 DEF UserStart, UiCoreStarted, Click
    <2> QED BY <2>2, <2>3 DEF WatchTypes
  <1>3. CASE StopFinish
    BY <1>3 DEF StopFinish, WatchTypes
  <1>4. CASE CoreLaunched
    BY <1>4 DEF CoreLaunched, WatchTypes
  <1>5. CASE ReadHello
    BY <1>5 DEF ReadHello, WatchTypes
  <1>6. CASE CoresTask
    <2>1. Head(coresQueue) \in Ids /\ Tail(coresQueue) \in Seq(Ids)
      BY <1>6 DEF CoresTask, WatchTypes
    <2> QED BY <1>6, <2>1 DEF CoresTask, WatchTypes
  <1>7. CASE CoreExited
    BY <1>7 DEF CoreExited, ExitHandled, ExitIgnored, WatchTypes
  <1>8. CASE CoresCheck \/ CoresLock
    BY <1>8 DEF CoresCheck, CoresLock, WatchTypes
  <1>9. CASE RestartTooSoon
    BY <1>9 DEF RestartTooSoon, WatchTypes
  <1>10. CASE PlanRestart
    BY <1>10 DEF PlanRestart, WatchTypes, WindowTypes
  <1>11. CASE Restart
    BY <1>11 DEF Restart, WatchTypes
  <1>12. CASE CoreFailsToStart
    BY <1>12 DEF CoreFailsToStart, ExitHandled, WatchTypes
  <1>13. CASE ProcessEnds /\ UNCHANGED watch
    BY <1>13 DEF ProcessEnds, WatchTypes
  <1>14. CASE CorePanics \/ CoreListens
    BY <1>14 DEF CorePanics, CoreListens, WatchTypes
  <1>15. ASSUME \/ UserStop \/ GroupStop \/ StopVPNProcess \/ PrepareExit
                \/ UiStopForStart \/ UiUnlock \/ UiCrashed
                \/ StartStep \/ StopCall \/ StopSegfault \/ StopAnswered
                \/ KillDone \/ CoreHandles \/ ExtraExits
         PROVE  UNCHANGED <<process, watch>>
    BY <1>15
       DEF UserStop, GroupStop, StopVPNProcess, PrepareExit, Click,
           UiStopForStart, UiUnlock, UiCrashed, StartStep, StartCall,
           StartAnswered, StopCall, StopSegfault, StopAnswered, KillDone,
           CoreHandles, ExtraExits
  <1>16. ASSUME KillCore \/ CoreDies
         PROVE  (ProcessEnds \/ UNCHANGED process) /\ UNCHANGED watch
    BY <1>16 DEF KillCore, CoreDies
  <1> QED
    BY <1>1, <1>2, <1>3, <1>4, <1>5, <1>6, <1>7, <1>8, <1>9, <1>10, <1>11,
       <1>12, <1>13, <1>14, <1>15, <1>16
    DEF Next, vars, UserStep, UiStep, StopStep, CoresStep, FaultStep

(* A profile is created for an instance only by the thread of              *)
(* profile_start.                                                          *)
LEMMA ProfileOfType ==
    ASSUME TypeOK, [Next]_vars PROVE profileOf' \in [Boxes -> Ids \cup {None}]
  <1> USE DEF core
  <1>1. profileOf \in [Boxes -> Ids \cup {None}] /\ startJob.id \in Ids \cup {None}
    BY StartJobTypes DEF TypeOK, WindowTypes
  <1>2. CASE CoreHandles
    BY <1>1, <1>2 DEF CoreHandles
  <1>3. ASSUME ~CoreHandles PROVE UNCHANGED profileOf
    BY <1>3
       DEF Next, vars, UserStep, UserStart, UserStop, GroupStop, StopVPNProcess,
           PrepareExit, Click, UiStep, UiStopForStart, UiUnlock, UiCoreStarted,
           UiCrashed, StartStep, StartCall, StartAnswered, StopStep, StopCall,
           StopSegfault, StopAnswered, StopFinish, CoresStep, CoreLaunched,
           ReadHello, CoresTask, CoreExited, CoresCheck, CoresLock,
           RestartTooSoon, PlanRestart, Restart, KillCore, KillDone, ProcessEnds,
           CorePanics, CoreListens, FaultStep, CoreDies, CoreFailsToStart,
           ExtraExits
  <1> QED BY <1>1, <1>2, <1>3

(* Every step keeps the types.                                             *)
LEMMA NextType == TypeOK /\ QueueInv /\ [Next]_vars => TypeOK'
  BY CoreType, WindowType, WatchType, ProfileOfType DEF TypeOK

-----------------------------------------------------------------------------
(* The queue of the UI thread *)

(* What QueueInv says of a queue, of where the two threads are and of what *)
(* the UI thread waits for.                                                *)
Fits(q, start, wait, stop) ==
    /\ \A k \in DOMAIN q :
        /\ q[k].kind = "start" => q[k].id \in Ids
        /\ q[k].kind = "stop" => start = "waiting" /\ wait # "handshake"
        /\ q[k].kind = "unlock" => stop = "done"
    /\ \A k, l \in DOMAIN q :
        q[k].kind = q[l].kind /\ q[k].kind \in {"stop", "unlock"} => k = l

LEMMA QueueFits ==
    /\ QueueInv <=> Fits(uiQueue, startJob.at, uiWait, stopJob.at)
    /\ QueueInv' <=> Fits(uiQueue', startJob'.at, uiWait', stopJob'.at)
  BY DEF QueueInv, Fits

(* What is left of a queue when its head is taken fits, if what the tasks  *)
(* speak of has not changed; a stop or an unlock was the only one.         *)
LEMMA PopFits ==
    ASSUME NEW q \in Seq(Tasks), q # << >>, NEW start, NEW wait, NEW stop,
           NEW start2, NEW wait2, NEW stop2, Fits(q, start, wait, stop),
           Head(q).kind = "stop" \/ (start2 = start /\ wait2 # "handshake"),
           Head(q).kind = "unlock" \/ stop2 = stop \/ stop # "done"
    PROVE  Fits(Tail(q), start2, wait2, stop2)
  <1> DEFINE r == Tail(q)
  <1>1. /\ Head(q) = q[1] /\ 1 \in DOMAIN q
        /\ \A k \in DOMAIN r : /\ k \in Nat /\ k + 1 \in DOMAIN q /\ k + 1 # 1
                               /\ r[k] = q[k + 1]
    OBVIOUS
  <1> HIDE DEF r
  <1>2. ASSUME NEW k \in DOMAIN r
        PROVE  /\ r[k].kind = "start" => r[k].id \in Ids
               /\ r[k].kind = "stop" => start2 = "waiting" /\ wait2 # "handshake"
               /\ r[k].kind = "unlock" => stop2 = "done"
    BY <1>1 DEF Fits
  <1>3. ASSUME NEW k \in DOMAIN r, NEW l \in DOMAIN r,
               r[k].kind = r[l].kind, r[k].kind \in {"stop", "unlock"}
        PROVE  k = l
    <2>1. k + 1 = l + 1
      BY <1>1, <1>3 DEF Fits
    <2> QED BY <1>1, <2>1
  <1>4. Fits(r, start2, wait2, stop2)
    BY <1>2, <1>3 DEF Fits
  <1> QED BY <1>4 DEF r

(* A queue with one more task fits, if a stop or an unlock is the first of *)
(* its kind.                                                               *)
LEMMA PushFits ==
    ASSUME NEW q \in Seq(Tasks), NEW t \in Tasks, NEW start, NEW wait, NEW stop,
           NEW start2, NEW wait2, NEW stop2, Fits(q, start, wait, stop),
           \/ start2 = start /\ wait2 \in {wait, "no"}
           \/ start # "waiting" \/ wait = "handshake",
           stop2 = stop \/ stop # "done",
           t.kind = "start" => t.id \in Ids,
           t.kind = "stop" =>
               start # "waiting" /\ start2 = "waiting" /\ wait2 # "handshake",
           t.kind = "unlock" => stop # "done" /\ stop2 = "done"
    PROVE  Fits(Append(q, t), start2, wait2, stop2)
  <1> DEFINE r == Append(q, t)
  <1>1. \A k \in DOMAIN r : \/ k \in DOMAIN q /\ r[k] = q[k]
                            \/ k = Len(q) + 1 /\ r[k] = t
    OBVIOUS
  <1> HIDE DEF r
  <1>2. ASSUME NEW k \in DOMAIN r
        PROVE  /\ r[k].kind = "start" => r[k].id \in Ids
               /\ r[k].kind = "stop" => start2 = "waiting" /\ wait2 # "handshake"
               /\ r[k].kind = "unlock" => stop2 = "done"
    BY <1>1 DEF Fits
  <1>3. ASSUME NEW k \in DOMAIN r, NEW l \in DOMAIN r,
               r[k].kind = r[l].kind, r[k].kind \in {"stop", "unlock"}
        PROVE  k = l
    BY <1>1, <1>3 DEF Fits
  <1>4. Fits(r, start2, wait2, stop2)
    BY <1>2, <1>3 DEF Fits
  <1> QED BY <1>4 DEF r

(* What the tasks do not speak of may change.                              *)
LEMMA StayFits ==
    ASSUME NEW q, NEW start, NEW wait, NEW stop,
           NEW start2, NEW wait2, NEW stop2, Fits(q, start, wait, stop),
           \/ start2 = start /\ (wait2 = wait \/ wait2 # "handshake")
           \/ start # "waiting" \/ wait = "handshake",
           stop2 = stop \/ stop # "done"
    PROVE  Fits(q, start2, wait2, stop2)
  BY DEF Fits

(* profile_start queues one stop, when there is none.                      *)
LEMMA StartFits ==
    ASSUME NEW q \in Seq(Tasks), NEW i \in Ids, profile_start(i, q),
           Fits(q, startJob.at, "no", stopJob.at)
    PROVE  Fits(uiQueue', startJob'.at, "no", stopJob.at)
  <1>1. CASE uiQueue' = q /\ UNCHANGED startJob
    BY <1>1
  <1>2. CASE /\ startJob.at = "none"
             /\ uiQueue' = Append(q, Task("stop", None))
             /\ startJob' = [at |-> "waiting", id |-> i]
    <2>1. startJob'.at = "waiting"
      BY <1>2
    <2>2. /\ Task("stop", None) \in Tasks
          /\ Task("stop", None).kind = "stop"
      BY TaskTypes
    <2> QED BY <1>2, <2>1, <2>2, PushFits
  <1> QED BY <1>1, <1>2 DEF profile_start, StartRefused, mu_starting

(* Every step keeps the queue and the locks in step.                       *)
LEMMA NextQueue ==
    ASSUME TypeOK, QueueInv, JobsInv, [Next]_vars PROVE QueueInv'
  <1> USE DEF window, ui, jobs
  <1>0. /\ Fits(uiQueue, startJob.at, uiWait, stopJob.at)
        /\ uiQueue \in Seq(Tasks)
        /\ WindowTypes
    BY QueueFits DEF TypeOK, WindowTypes
  <1> SUFFICES Fits(uiQueue', startJob'.at, uiWait', stopJob'.at)
    BY QueueFits
  <1>1. CASE UNCHANGED <<ui, jobs>>
    BY <1>0, <1>1
  <1>2. ASSUME NEW i \in Ids, UserStart(i)
        PROVE  Fits(uiQueue', startJob'.at, uiWait', stopJob'.at)
    BY <1>0, <1>2, StartFits DEF UserStart, Click
  <1>3. CASE UserStop \/ GroupStop \/ PrepareExit \/ StopVPNProcess
    <2>1. /\ UNCHANGED <<uiQueue, startJob>> /\ uiWait' # "handshake"
          /\ stopJob'.at = stopJob.at \/ stopJob.at # "done"
      BY <1>3
         DEF UserStop, GroupStop, PrepareExit, StopVPNProcess, Click,
             profile_stop, StopTaken, mu_stopping
    <2> QED BY <1>0, <2>1, StayFits
  <1>4. CASE UiStopForStart
    <2>1. /\ uiQueue # << >> /\ Head(uiQueue).kind = "stop"
          /\ uiQueue' = Tail(uiQueue)
          /\ stopJob'.at = stopJob.at \/ stopJob.at # "done"
      BY <1>4
         DEF UiStopForStart, NextTask, profile_stop, StopTaken, mu_stopping
    <2> QED BY <1>0, <2>1, PopFits
  <1>5. CASE UiUnlock
    <2>1. /\ uiQueue # << >> /\ Head(uiQueue).kind = "unlock"
          /\ uiQueue' = Tail(uiQueue)
          /\ UNCHANGED <<startJob, uiWait>> /\ uiWait = "no"
      BY <1>5 DEF UiUnlock, NextTask
    <2> QED BY <1>0, <2>1, PopFits
  <1>6. CASE UiCoreStarted
    <2>1. /\ uiQueue # << >> /\ Head(uiQueue).kind = "start" /\ uiWait = "no"
          /\ UNCHANGED <<stopJob, uiWait>>
          /\ profile_start(Head(uiQueue).id, Tail(uiQueue))
      BY <1>6 DEF UiCoreStarted, NextTask
    <2>2. Fits(Tail(uiQueue), startJob.at, "no", stopJob.at)
      BY <1>0, <2>1, PopFits
    <2>3. Tail(uiQueue) \in Seq(Tasks) /\ Head(uiQueue).id \in Ids
      BY <1>0, <1>6, QueuedStart DEF UiCoreStarted
    <2> QED BY <2>1, <2>2, <2>3, StartFits
  <1>7. CASE UiCrashed
    <2>1. /\ uiQueue # << >> /\ Head(uiQueue).kind = "crashed"
          /\ uiQueue' = Tail(uiQueue) /\ UNCHANGED startJob
          /\ stopJob'.at = stopJob.at \/ stopJob.at # "done"
          /\ uiWait' # "handshake"
      BY <1>7 DEF UiCrashed, NextTask, profile_stop, StopTaken, mu_stopping
    <2> QED BY <1>0, <2>1, PopFits
  <1>8. CASE StartStep
    <2>1. /\ startJob.at # "waiting" /\ UNCHANGED <<uiQueue, uiWait, stopJob>>
      BY <1>8 DEF StartStep, StartCall, StartAnswered
    <2> QED BY <1>0, <2>1, StayFits
  <1>9. CASE StopCall \/ StopSegfault \/ StopAnswered
    <2>1. stopJob.at # "done" /\ UNCHANGED <<uiQueue, uiWait, startJob>>
      BY <1>9 DEF StopCall, StopSegfault, StopAnswered
    <2> QED BY <1>0, <2>1, StayFits
  <1>10. CASE StopFinish
    <2>1. /\ stopJob.at = "finishing" /\ stopJob'.at = "done"
          /\ uiQueue' = Append(uiQueue, Task("unlock", None))
      BY <1>10 DEF StopFinish, TypeOK, WindowTypes, StopJobs
    <2>2. \/ uiWait = "handshake"
          \/ startJob' = startJob /\ uiWait' \in {uiWait, "no"}
      BY <1>10 DEF StopFinish
    <2>3. Task("unlock", None) \in Tasks /\ Task("unlock", None).kind = "unlock"
      BY TaskTypes
    <2> QED BY <1>0, <2>1, <2>2, <2>3, PushFits
  <1>11. CASE ReadHello
    <2>1. CASE UNCHANGED <<ui, jobs>>
      BY <1>0, <2>1
    <2>2. CASE whenUp # None /\ uiQueue' = Append(uiQueue, Task("start", whenUp))
      <3>1. /\ Task("start", whenUp) \in Tasks
            /\ Task("start", whenUp).kind = "start"
            /\ Task("start", whenUp).id \in Ids
        BY <2>2, TaskTypes DEF TypeOK, WatchTypes
      <3>2. UNCHANGED <<uiWait, jobs>>
        BY <1>11 DEF ReadHello
      <3> QED BY <1>0, <2>2, <3>1, <3>2, PushFits
    <2> QED BY <1>11, <2>1, <2>2 DEF ReadHello
  <1>12. CASE ExtraExits
    <2>1. /\ Task("crashed", None) \in Tasks
          /\ Task("crashed", None).kind = "crashed"
      BY TaskTypes
    <2>2. /\ UNCHANGED <<uiWait, jobs>>
          /\ uiQueue' = Append(uiQueue, Task("crashed", None))
      BY <1>12 DEF ExtraExits
    <2> QED BY <1>0, <2>1, <2>2, PushFits
  <1>13. CASE CoresLock
    <2>1. /\ stopJob'.at = stopJob.at \/ stopJob.at # "done"
          /\ UNCHANGED <<ui, startJob>>
      BY <1>13 DEF CoresLock, mu_stopping
    <2> QED BY <1>0, <2>1, StayFits
  <1>14. CASE KillCore \/ KillDone
    <2>1. UNCHANGED <<uiQueue, jobs>> /\ uiWait' # "handshake"
      BY <1>14 DEF KillCore, KillDone
    <2> QED BY <1>0, <2>1, StayFits
  <1>15. CASE QuietStep
    BY <1>1, <1>15, Quiet
  <1> QED
    BY <1>1, <1>2, <1>3, <1>4, <1>5, <1>6, <1>7, <1>8, <1>9, <1>10, <1>11,
       <1>12, <1>13, <1>14, <1>15
    DEF Next, vars, UserStep, UiStep, StopStep, CoresStep, FaultStep, QuietStep

-----------------------------------------------------------------------------
(* What the steps of the threads and of the core change of each other *)

LEMMA Threads ==
    ASSUME TypeOK
    PROVE  /\ startJob \in StartJobs /\ stopJob \in StopJobs
           /\ pc \in [{"starter", "stopper"} ->
                        {"idle"} \cup Core!Handling \cup Core!Answered]
           /\ needExtra \in [{"starter", "stopper"} -> BOOLEAN]
  BY DEF TypeOK, WindowTypes, Core!TypeOK

(* The thread of profile_start calls the core, or ends.                    *)
LEMMA StartCallDoes ==
    ASSUME TypeOK, StartCall
    PROVE  /\ startJob.at = "ready"
           /\ UNCHANGED <<running, started_id, uiQueue, uiWait, stopJob, alive,
                          BoxInstance, refused, profileOf>>
           /\ pc'["stopper"] = pc["stopper"]
           /\ \/ /\ startJob'.at = "none"
                 /\ UNCHANGED <<pc, needExtra, overlapped>>
              \/ /\ startJob'.at = "calling" /\ startJob'.id = startJob.id
                 /\ alive /\ pc["starter"] = "idle" /\ pc'["starter"] = "start"
                 /\ \A c \in {"starter", "stopper"} : ~needExtra[c] => ~needExtra'[c]
                 /\ Core!Serving = {} => overlapped' = overlapped
  <1>1. startJob.at = "ready"
    BY DEF StartCall
  <1>2. UNCHANGED <<running, started_id, uiQueue, uiWait, stopJob, alive,
                    BoxInstance, refused, profileOf>>
    BY DEF StartCall, window, ui, core, Core!CallStart, Core!Call, Core!globals
  <1>3. CASE startJob' = NoStart /\ UNCHANGED core
    BY <1>1, <1>2, <1>3 DEF NoStart, core
  <1>4. CASE /\ Core!CallStart("starter", FALSE)
             /\ startJob' = [startJob EXCEPT !.at = "calling"]
    <2>1. startJob'.at = "calling" /\ startJob'.id = startJob.id
      BY <1>4, Threads, StartMoves
    <2>2. /\ alive /\ pc["starter"] = "idle"
          /\ pc' = [pc EXCEPT !["starter"] = "start"]
          /\ needExtra' = [needExtra EXCEPT !["starter"] = FALSE]
          /\ overlapped' = (overlapped \/ Core!Serving # {})
      BY <1>4 DEF Core!CallStart, Core!Call, Core!Goto
    <2>3. pc'["starter"] = "start" /\ pc'["stopper"] = pc["stopper"]
      BY <2>2, Threads
    <2>4. \A c \in {"starter", "stopper"} : ~needExtra[c] => ~needExtra'[c]
      BY <2>2, Threads
    <2>5. Core!Serving = {} => overlapped' = overlapped
      BY <2>2 DEF TypeOK, Core!TypeOK
    <2> QED BY <1>1, <1>2, <2>1, <2>2, <2>3, <2>4, <2>5
  <1> QED BY <1>3, <1>4 DEF StartCall

(* It reads the answer and ends.                                           *)
LEMMA StartAnsweredDoes ==
    ASSUME TypeOK, StartAnswered
    PROVE  /\ startJob.at = "calling" /\ startJob'.at = "none"
           /\ UNCHANGED <<uiQueue, uiWait, stopJob, alive, BoxInstance, refused,
                          overlapped, profileOf>>
           /\ pc'["starter"] = "idle" /\ pc'["stopper"] = pc["stopper"]
           /\ \A c \in {"starter", "stopper"} : ~needExtra[c] => ~needExtra'[c]
           /\ \/ /\ pc["starter"] = "ok"
                 /\ running' = startJob.id /\ started_id' = startJob.id
              \/ /\ pc["starter"] # "ok" /\ UNCHANGED <<running, started_id>>
  <1>1. /\ startJob.at = "calling" /\ startJob'.at = "none"
        /\ UNCHANGED <<uiQueue, uiWait, stopJob, alive, BoxInstance, refused,
                       overlapped, profileOf>>
    BY DEF StartAnswered, NoStart, ui, Core!Return, Core!globals, Core!history
  <1>2. pc'["starter"] = "idle" /\ pc'["stopper"] = pc["stopper"]
    BY Threads DEF StartAnswered, Core!Return, Core!Goto
  <1>3. \A c \in {"starter", "stopper"} : ~needExtra[c] => ~needExtra'[c]
    BY Threads DEF StartAnswered, Core!Return
  <1>4. \/ /\ pc["starter"] = "ok"
           /\ running' = startJob.id /\ started_id' = startJob.id
        \/ /\ pc["starter"] # "ok" /\ UNCHANGED <<running, started_id>>
    BY DEF StartAnswered
  <1> QED BY <1>1, <1>2, <1>3, <1>4

(* The thread of profile_stop calls the core, or has nobody to call.       *)
LEMMA StopCallDoes ==
    ASSUME TypeOK, StopCall
    PROVE  /\ stopJob.at = "begun"
           /\ stopJob'.crash = stopJob.crash /\ stopJob'.manual = stopJob.manual
           /\ UNCHANGED <<running, started_id, uiQueue, uiWait, startJob, alive,
                          BoxInstance, refused, profileOf>>
           /\ pc'["starter"] = pc["starter"]
           /\ \/ /\ stopJob'.at = "finishing"
                 /\ stopJob.crash \/ ~core_running \/ ~alive
                 /\ UNCHANGED <<pc, needExtra, overlapped>>
              \/ /\ stopJob'.at = "calling" /\ ~stopJob.crash
                 /\ alive /\ pc["stopper"] = "idle" /\ pc'["stopper"] = "stop"
                 /\ \A c \in {"starter", "stopper"} : ~needExtra[c] => ~needExtra'[c]
                 /\ Core!Serving = {} => overlapped' = overlapped
  <1>1. stopJob.at = "begun"
    BY DEF StopCall
  <1>2. UNCHANGED <<running, started_id, uiQueue, uiWait, startJob, alive,
                    BoxInstance, refused, profileOf>>
    BY DEF StopCall, window, ui, core, Core!CallStop, Core!Call, Core!globals
  <1>3. CASE /\ stopJob.crash \/ ~core_running \/ ~alive
             /\ stopJob' = [stopJob EXCEPT !.at = "finishing"]
             /\ UNCHANGED core
    <2>1. stopJob'.at = "finishing"
      BY <1>3, Threads, StopMoves
    <2>2. stopJob'.crash = stopJob.crash /\ stopJob'.manual = stopJob.manual
      BY <1>3, Threads, StopMoves
    <2> QED BY <1>1, <1>2, <1>3, <2>1, <2>2 DEF core
  <1>4. CASE /\ Core!CallStop("stopper") /\ ~stopJob.crash
             /\ stopJob' = [stopJob EXCEPT !.at = "calling"]
    <2>1. stopJob'.at = "calling"
      BY <1>4, Threads, StopMoves
    <2>2. stopJob'.crash = stopJob.crash /\ stopJob'.manual = stopJob.manual
      BY <1>4, Threads, StopMoves
    <2>3. /\ alive /\ pc["stopper"] = "idle"
          /\ pc' = [pc EXCEPT !["stopper"] = "stop"]
          /\ needExtra' = [needExtra EXCEPT !["stopper"] = FALSE]
          /\ overlapped' = (overlapped \/ Core!Serving # {})
      BY <1>4 DEF Core!CallStop, Core!Call, Core!Goto
    <2>4. pc'["stopper"] = "stop" /\ pc'["starter"] = pc["starter"]
      BY <2>3, Threads
    <2>5. \A c \in {"starter", "stopper"} : ~needExtra[c] => ~needExtra'[c]
      BY <2>3, Threads
    <2>6. Core!Serving = {} => overlapped' = overlapped
      BY <2>3 DEF TypeOK, Core!TypeOK
    <2> QED BY <1>1, <1>2, <1>4, <2>1, <2>2, <2>3, <2>4, <2>5, <2>6
  <1> QED BY <1>3, <1>4 DEF StopCall

(* It reads the answer.                                                    *)
LEMMA StopAnsweredDoes ==
    ASSUME TypeOK, StopAnswered
    PROVE  /\ stopJob.at = "calling" /\ stopJob'.at = "finishing"
           /\ stopJob'.crash = stopJob.crash /\ stopJob'.manual = stopJob.manual
           /\ UNCHANGED <<running, started_id, uiQueue, uiWait, startJob, alive,
                          BoxInstance, refused, overlapped, profileOf>>
           /\ pc["stopper"] \in Core!Answered
           /\ pc'["stopper"] = "idle" /\ pc'["starter"] = pc["starter"]
           /\ \A c \in {"starter", "stopper"} : ~needExtra[c] => ~needExtra'[c]
  <1>1. /\ stopJob.at = "calling"
        /\ UNCHANGED <<running, started_id, uiQueue, uiWait, startJob, alive,
                       BoxInstance, refused, overlapped, profileOf>>
    BY DEF StopAnswered, window, ui, Core!Return, Core!globals, Core!history
  <1>2. /\ pc["stopper"] \in Core!Answered
        /\ pc'["stopper"] = "idle" /\ pc'["starter"] = pc["starter"]
    BY Threads DEF StopAnswered, Core!Return, Core!Goto
  <1>3. \A c \in {"starter", "stopper"} : ~needExtra[c] => ~needExtra'[c]
    BY Threads DEF StopAnswered, Core!Return
  <1>4. stopJob'.at = "finishing"
    BY Threads, StopMoves DEF StopAnswered
  <1>5. stopJob'.crash = stopJob.crash /\ stopJob'.manual = stopJob.manual
    BY Threads, StopMoves DEF StopAnswered
  <1> QED BY <1>1, <1>2, <1>3, <1>4, <1>5

(* It ends the program where it finds no profile.                          *)
LEMMA StopSegfaultDoes ==
    ASSUME TypeOK, StopSegfault
    PROVE  /\ stopJob.at = "begun" /\ stopJob'.at = "segfault" /\ running = None
           /\ stopJob'.crash = stopJob.crash /\ stopJob'.manual = stopJob.manual
           /\ UNCHANGED <<window, ui, startJob, process, watch, core, history>>
  <1>1. /\ stopJob.at = "begun" /\ running = None
        /\ UNCHANGED <<window, ui, startJob, process, watch, core, history>>
    BY DEF StopSegfault
  <1>2. stopJob'.at = "segfault"
    BY Threads, StopMoves DEF StopSegfault
  <1>3. stopJob'.crash = stopJob.crash /\ stopJob'.manual = stopJob.manual
    BY Threads, StopMoves DEF StopSegfault
  <1> QED BY <1>1, <1>2, <1>3

(* It clears what runs and lets those go on who waited for it.             *)
LEMMA StopFinishDoes ==
    ASSUME TypeOK, StopFinish
    PROVE  /\ stopJob.at = "finishing" /\ stopJob'.at = "done"
           /\ stopJob'.crash = stopJob.crash /\ stopJob'.manual = stopJob.manual
           /\ running' = None
           /\ started_id' = IF stopJob.manual THEN None ELSE started_id
           /\ startJob'.id = startJob.id
           /\ startJob'.at = IF uiWait = "handshake" THEN "ready" ELSE startJob.at
           /\ uiWait' # "handshake"
           /\ coresAt' = IF coresAt = "wait" THEN "limit" ELSE coresAt
           /\ UNCHANGED core
  <1>1. /\ stopJob.at = "finishing" /\ running' = None
        /\ started_id' = IF stopJob.manual THEN None ELSE started_id
        /\ uiWait' # "handshake"
        /\ coresAt' = IF coresAt = "wait" THEN "limit" ELSE coresAt
        /\ UNCHANGED core
    BY DEF StopFinish
  <1>2. stopJob'.at = "done"
    BY Threads, StopMoves DEF StopFinish
  <1>3. stopJob'.crash = stopJob.crash /\ stopJob'.manual = stopJob.manual
    BY Threads, StopMoves DEF StopFinish
  <1>4. /\ startJob'.id = startJob.id
        /\ startJob'.at = IF uiWait = "handshake" THEN "ready" ELSE startJob.at
    BY Threads, StartMoves DEF StopFinish
  <1> QED BY <1>1, <1>2, <1>3, <1>4

(* A handler of the core takes one of its steps.                           *)
LEMMA CoreHandlesDoes ==
    ASSUME TypeOK, CallsInv, CoreHandles
    PROVE  /\ UNCHANGED <<alive, needExtra, overlapped>>
           /\ \/ /\ pc["starter"] = "start" /\ BoxInstance # None
                 /\ pc'["starter"] = "error" /\ pc'["stopper"] = pc["stopper"]
                 /\ BoxInstance' = None /\ UNCHANGED profileOf
              \/ /\ pc["starter"] = "start" /\ BoxInstance = None
                 /\ pc'["starter"] = "create" /\ pc'["stopper"] = pc["stopper"]
                 /\ UNCHANGED <<BoxInstance, refused, profileOf>>
              \/ /\ pc["starter"] = "create"
                 /\ pc'["starter"] = "error" /\ pc'["stopper"] = pc["stopper"]
                 /\ BoxInstance' = None /\ UNCHANGED <<refused, profileOf>>
              \/ /\ pc["starter"] = "create"
                 /\ pc'["starter"] = "ok" /\ pc'["stopper"] = pc["stopper"]
                 /\ BoxInstance' # None /\ profileOf'[BoxInstance'] = startJob.id
                 /\ UNCHANGED refused
              \/ /\ pc["stopper"] = "stop" /\ BoxInstance = None
                 /\ pc'["stopper"] = "ok" /\ pc'["starter"] = pc["starter"]
                 /\ UNCHANGED <<BoxInstance, refused, profileOf>>
              \/ /\ pc["stopper"] \in {"stop", "close"} /\ BoxInstance # None
                 /\ pc'["stopper"] \in {"close", "reset"}
                 /\ pc'["starter"] = pc["starter"]
                 /\ UNCHANGED <<BoxInstance, refused, profileOf>>
              \/ /\ pc["stopper"] = "reset"
                 /\ pc'["stopper"] = "ok" /\ pc'["starter"] = pc["starter"]
                 /\ BoxInstance' = None /\ UNCHANGED <<refused, profileOf>>
  <1> USE Threads DEF Core!Goto, Core!Fail, Core!history, Core!globals
  <1>1. CASE Core!StartCheck("starter") /\ UNCHANGED profileOf
    <2>1. ~needExtra["starter"]
      BY DEF CallsInv
    <2> QED BY <1>1, <2>1 DEF Core!StartCheck
  <1>2. CASE Core!StartCreateFails("starter") /\ UNCHANGED profileOf
    BY <1>2 DEF Core!StartCreateFails
  <1>3. CASE /\ Core!StartCreate("starter")
             /\ profileOf' = [profileOf EXCEPT ![BoxInstance'] = startJob.id]
    <2>1. BoxInstance' \in Boxes /\ profileOf \in [Boxes -> Ids \cup {None}]
      BY <1>3 DEF Core!StartCreate, TypeOK
    <2>2. BoxInstance' # None /\ profileOf'[BoxInstance'] = startJob.id
      BY <1>3, <2>1, NoneAssumption
    <2> QED BY <1>3, <2>2 DEF Core!StartCreate
  <1>4. CASE Core!StopCheck("stopper") /\ UNCHANGED profileOf
    BY <1>4 DEF Core!StopCheck
  <1>5. CASE Core!StopClose("stopper") /\ UNCHANGED profileOf
    BY <1>5 DEF Core!StopClose
  <1>6. CASE Core!StopReset("stopper") /\ UNCHANGED profileOf
    BY <1>6 DEF Core!StopReset
  <1> QED BY <1>1, <1>2, <1>3, <1>4, <1>5, <1>6 DEF CoreHandles

(* The core ends, and with it every call of the two threads.               *)
LEMMA DieDoes ==
    ASSUME TypeOK, Core!Die
    PROVE  /\ alive /\ ~alive' /\ BoxInstance' = None /\ Core!Serving' = {}
           /\ \A c \in {"starter", "stopper"} :
                 /\ pc'[c] = pc[c] \/ (pc[c] # "idle" /\ pc'[c] = "broken")
                 /\ ~needExtra'[c]
           /\ ~overlapped' /\ ~refused'
  <1>1. \A c \in {"starter", "stopper"} :
            pc'[c] = IF pc[c] \in Core!Handling THEN "broken" ELSE pc[c]
    BY DEF Core!Die
  <1>2. Core!Serving' = {}
    BY <1>1 DEF Core!Serving, Core!Handling
  <1>3. \A c \in {"starter", "stopper"} :
            pc'[c] = pc[c] \/ (pc[c] # "idle" /\ pc'[c] = "broken")
    BY <1>1 DEF Core!Handling
  <1>4. alive /\ ~alive' /\ BoxInstance' = None
    BY DEF Core!Die
  <1>5. \A c \in {"starter", "stopper"} : ~needExtra'[c]
    BY DEF Core!Die
  <1>6. ~overlapped' /\ ~refused'
    BY DEF Core!Die
  <1> QED BY <1>2, <1>3, <1>4, <1>5, <1>6

-----------------------------------------------------------------------------
(* The two threads *)

(* Every step of the threads and of those who wait for them.               *)
LEMMA NextJobs ==
    ASSUME TypeOK, QueueInv, JobsInv, [Next]_vars PROVE JobsInv'
  <1> USE DEF JobsInv, Stopping, mu_starting, mu_stopping
  <1>0. /\ startJob \in StartJobs /\ stopJob \in StopJobs /\ WindowTypes
    BY DEF TypeOK, WindowTypes
  <1>1. CASE UNCHANGED <<startJob, stopJob, coresAt, uiWait>>
    BY <1>1
  <1>2. ASSUME NEW i \in Ids, profile_start(i, uiQueue) \/ profile_start(i, Tail(uiQueue)),
               uiWait = "no", UNCHANGED <<uiWait, stopJob, coresAt>>
        PROVE  JobsInv'
    BY <1>2 DEF profile_start
  <1>3. ASSUME \/ profile_stop(TRUE, "no")
               \/ profile_stop(FALSE, "no") \/ profile_stop(FALSE, "stop"),
               uiWait = "no", UNCHANGED <<startJob, coresAt>>
        PROVE  JobsInv'
    BY <1>3 DEF profile_stop, StopTaken
  <1>4. CASE UiStopForStart
    <2>1. /\ startJob.at = "waiting" /\ uiWait = "no" /\ UNCHANGED coresAt
          /\ profile_stop(TRUE, "handshake")
      BY <1>0, <1>4, Popped DEF UiStopForStart, NextTask, QueueInv, watch
    <2>2. CASE StopTaken
      <3>1. UNCHANGED startJob
        BY <1>4, <2>2 DEF UiStopForStart
      <3> QED BY <2>1, <2>2, <3>1 DEF profile_stop, StopTaken
    <2>3. CASE ~StopTaken
      <3>1. startJob'.at = "ready" /\ startJob'.id = startJob.id
        BY <1>0, <1>4, <2>3, StartMoves DEF UiStopForStart
      <3> QED BY <2>1, <2>3, <3>1 DEF profile_stop
    <2> QED BY <2>2, <2>3
  <1>5. CASE UiUnlock
    <2>1. /\ stopJob.at = "done" /\ stopJob' = NoStop
          /\ UNCHANGED <<startJob, uiWait, coresAt>>
      BY <1>0, <1>5, Popped DEF UiUnlock, NextTask, QueueInv, watch
    <2> QED BY <2>1 DEF NoStop
  <1>6. CASE StartStep
    <2>1. /\ startJob.at \in {"ready", "calling"}
          /\ startJob'.at = "none" \/ startJob'.id = startJob.id
          /\ UNCHANGED <<stopJob, uiWait, coresAt>>
      BY <1>6, StartCallDoes, StartAnsweredDoes
         DEF StartStep, StartCall, StartAnswered, watch
    <2> QED BY <2>1
  <1>7. CASE StopCall \/ StopSegfault \/ StopAnswered
    <2>1. /\ stopJob.at \in {"begun", "calling"}
          /\ stopJob'.at \in {"calling", "finishing", "segfault"}
          /\ stopJob'.at = "calling" => ~stopJob.crash
          /\ stopJob'.crash = stopJob.crash /\ stopJob'.manual = stopJob.manual
      BY <1>7, StopCallDoes, StopSegfaultDoes, StopAnsweredDoes
    <2>2. UNCHANGED <<startJob, uiWait, coresAt>>
      BY <1>7 DEF StopCall, StopSegfault, StopAnswered, ui, watch
    <2> QED BY <2>1, <2>2
  <1>8. CASE StopFinish
    BY <1>8, StopFinishDoes
  <1>9. CASE CoresLock
    <2>1. CASE mu_stopping
      BY <1>9, <2>1 DEF CoresLock, ui
    <2>2. CASE ~mu_stopping
      <3>1. /\ stopJob'.at = "begun" /\ stopJob'.crash /\ ~stopJob'.manual
            /\ stopJob.at = "none" /\ coresAt' = "wait"
            /\ UNCHANGED <<uiWait, startJob>>
        BY <1>9, <2>2 DEF CoresLock, ui
      <3> QED BY <3>1
    <2> QED BY <2>1, <2>2
  <1>10. CASE StopVPNProcess \/ KillCore \/ KillDone
    BY <1>10 DEF StopVPNProcess, Click, KillCore, KillDone, jobs, watch
  <1>11. CASE ReadHello \/ ExtraExits
    BY <1>1, <1>11 DEF ReadHello, ExtraExits, jobs, watch
  <1>12. CASE QuietStep
    <2>1. UNCHANGED <<startJob, stopJob, uiWait>>
      BY <1>12, Quiet DEF ui, jobs
    <2>2. coresAt' = coresAt \/ (coresAt' # "wait" /\ coresAt # "wait")
      BY <1>12
         DEF QuietStep, CoreLaunched, CoresTask, CoreExited, CoresCheck,
             RestartTooSoon, PlanRestart, Restart, CoreHandles, CorePanics,
             CoreListens, CoreDies, CoreFailsToStart, ExitHandled, ExitIgnored,
             watch
    <2> QED BY <2>1, <2>2
  <1>13. CASE UserStep
    BY <1>2, <1>3, <1>10, <1>13
    DEF UserStep, UserStart, UserStop, GroupStop, PrepareExit, Click, watch
  <1>14. CASE UiCoreStarted
    <2>1. /\ Head(uiQueue).id \in Ids /\ uiWait = "no"
          /\ profile_start(Head(uiQueue).id, Tail(uiQueue))
          /\ UNCHANGED <<uiWait, stopJob, coresAt>>
      BY <1>0, <1>14, QueuedStart DEF UiCoreStarted, NextTask
    <2> QED BY <1>2, <2>1
  <1>15. CASE UiCrashed
    BY <1>3, <1>15 DEF UiCrashed, NextTask, watch
  <1>16. CASE UNCHANGED vars
    BY <1>1, <1>16 DEF vars, ui, jobs, watch
  <1> QED
    BY <1>4, <1>5, <1>6, <1>7, <1>8, <1>9, <1>10, <1>11, <1>12, <1>13, <1>14,
       <1>15, <1>16
    DEF Next, UiStep, StopStep, CoresStep, FaultStep, QuietStep

(* What the user and the tasks of the UI thread can do to the two threads. *)
LEMMA UiDoes ==
    ASSUME TypeOK, QueueInv, UserStep \/ UiStep
    PROVE  /\ UNCHANGED <<running, started_id, process, core, coresAt, restarting,
                          restartDue, failed_to_start, lostCore>>
           /\ prepare_exit => prepare_exit'
           /\ crossed => crossed'
           /\ exitMet => exitMet'
           /\ \/ startJob' = startJob
              \/ startJob.at = "none" /\ startJob'.at = "waiting"
              \/ /\ startJob.at = "waiting" /\ startJob'.at = "ready"
                 /\ stopJob' = stopJob
                 /\ crossed' \/ (stopJob.at = "none" /\ running = None)
           /\ \/ stopJob' = stopJob
              \/ /\ stopJob.at = "none" /\ running # None
                 /\ stopJob'.at = "begun" /\ ~stopJob'.crash
              \/ /\ stopJob.at = "done" /\ stopJob'.at = "none" /\ ~stopJob'.crash
                 /\ coresAt \in {"check", "lock"} => exitMet'
  <1> USE DEF watch, window, process, core, history, jobs
  <1>1. CASE \E i \in Ids : UserStart(i)
    BY <1>1
    DEF UserStart, Click, profile_start, StartRefused, mu_starting
  <1>2. CASE UserStop
    BY <1>2 DEF UserStop, Click, profile_stop, StopTaken, mu_stopping
  <1>3. CASE GroupStop
    BY <1>3 DEF GroupStop, Click, profile_stop, StopTaken, mu_stopping
  <1>4. CASE StopVPNProcess
    BY <1>4 DEF StopVPNProcess, Click
  <1>5. CASE PrepareExit
    BY <1>5 DEF PrepareExit, Click, profile_stop, StopTaken, mu_stopping
  <1>6. CASE UiStopForStart
    <2>1. startJob.at = "waiting"
      BY <1>6, Popped DEF UiStopForStart, NextTask, QueueInv, TypeOK
    <2>2. UNCHANGED <<window, process, watch, core, lostCore, exitMet>>
      BY <1>6 DEF UiStopForStart
    <2>3. crossed => crossed'
      BY <1>6 DEF UiStopForStart
    <2>4. CASE StopTaken
      <3>1. startJob' = startJob
        BY <1>6, <2>4 DEF UiStopForStart
      <3>2. /\ stopJob.at = "none" /\ running # None
            /\ stopJob'.at = "begun" /\ ~stopJob'.crash
        BY <1>6, <2>4 DEF UiStopForStart, profile_stop, StopTaken, mu_stopping
      <3> QED BY <2>2, <2>3, <3>1, <3>2
    <2>5. CASE ~StopTaken
      <3>1. startJob'.at = "ready"
        BY <1>6, <2>5, Threads, StartMoves DEF UiStopForStart
      <3>2. stopJob' = stopJob
        BY <1>6, <2>5 DEF UiStopForStart, profile_stop
      <3>3. crossed' \/ (stopJob.at = "none" /\ running = None)
        BY <1>6, <2>5 DEF UiStopForStart, StopTaken, mu_stopping
      <3> QED BY <2>1, <2>2, <2>3, <3>1, <3>2, <3>3
    <2> QED BY <2>4, <2>5
  <1>7. CASE UiUnlock
    <2>1. stopJob.at = "done"
      BY <1>7, Popped DEF UiUnlock, NextTask, QueueInv, TypeOK
    <2> QED BY <1>7, <2>1 DEF UiUnlock, NoStop
  <1>8. CASE UiCoreStarted
    BY <1>8 DEF UiCoreStarted, profile_start, StartRefused, mu_starting
  <1>9. CASE UiCrashed
    BY <1>9 DEF UiCrashed, profile_stop, StopTaken, mu_stopping
  <1> QED BY <1>1, <1>2, <1>3, <1>4, <1>5, <1>6, <1>7, <1>8, <1>9
          DEF UserStep, UiStep

(* The core process ends, in whatever state it is, or is found to have     *)
(* ended.                                                                  *)
LEMMA EndDoes ==
    ASSUME TypeOK, ProcessInv, CoreDies \/ KillCore \/ CorePanics
    PROVE  /\ UNCHANGED <<window, uiQueue, jobs, core_running, watch, crossed,
                          exitMet, unwanted, profileOf>>
           /\ uiWait' = uiWait \/ uiWait' = "killing"
           /\ lostCore => lostCore'
           /\ \/ UNCHANGED <<proc, core>>
              \/ /\ proc \in {"launched", "booting", "listening"}
                 /\ proc' = "exited"
                 /\ startJob.at = "calling" => lostCore'
                 /\ \/ proc # "listening" /\ UNCHANGED core
                    \/ proc = "listening" /\ Core!Die
  <1>1. CASE CorePanics
    <2>1. Core!Die /\ alive
      BY <1>1 DEF CorePanics, Core!Panic, Core!Die
    <2>2. proc = "listening"
      BY <2>1 DEF ProcessInv
    <2> QED BY <1>1, <2>1, <2>2 DEF CorePanics, ui
  <1>2. ASSUME ProcessEnds
        PROVE  /\ UNCHANGED <<core_running, profileOf>>
               /\ lostCore => lostCore'
               /\ proc \in {"launched", "booting", "listening"}
               /\ proc' = "exited"
               /\ startJob.at = "calling" => lostCore'
               /\ \/ proc # "listening" /\ UNCHANGED core
                  \/ proc = "listening" /\ Core!Die
    BY <1>2 DEF ProcessEnds, core
  <1>3. CASE CoreDies
    BY <1>2, <1>3 DEF CoreDies, ui
  <1>4. CASE KillCore
    BY <1>2, <1>4 DEF KillCore, process, core
  <1> QED BY <1>1, <1>3, <1>4

-----------------------------------------------------------------------------
(* The calls and the process *)

(* The steps of DS_cores other than killing the core, the failure to start *)
(* and the end of an extra process.                                        *)
WatchStep == \/ CoreLaunched \/ ReadHello \/ CoresTask \/ CoreExited
             \/ CoresCheck \/ CoresLock \/ RestartTooSoon \/ PlanRestart
             \/ Restart \/ KillDone \/ CoreFailsToStart \/ ExtraExits

LEMMA WatchDoes ==
    ASSUME TypeOK, WatchStep
    PROVE  /\ UNCHANGED <<window, startJob, core, crossed, lostCore, unwanted>>
           /\ exitMet => exitMet'
           /\ \/ UNCHANGED stopJob
              \/ /\ CoresLock /\ stopJob.at = "none"
                 /\ stopJob'.at = "begun" /\ stopJob'.crash /\ ~stopJob'.manual
  <1> USE DEF WatchStep, CoreLaunched, ReadHello, CoresTask, CoreExited,
              CoresCheck, CoresLock, RestartTooSoon, PlanRestart, Restart,
              KillDone, CoreFailsToStart, ExtraExits
  <1>1. UNCHANGED <<window, startJob, core, crossed, lostCore, unwanted>>
    BY DEF window, jobs, core, history
  <1>2. exitMet => exitMet'
    BY DEF history
  <1>3. CASE CoresLock
    BY <1>1, <1>2, <1>3 DEF mu_stopping
  <1>4. CASE ~CoresLock
    <2>1. UNCHANGED stopJob
      BY <1>4 DEF jobs
    <2> QED BY <1>1, <1>2, <2>1
  <1> QED BY <1>3, <1>4

(* Every step is one of these.                                             *)
LEMMA Steps ==
    ASSUME [Next]_vars
    PROVE  \/ UserStep \/ UiStep
           \/ StartCall \/ StartAnswered
           \/ StopCall \/ StopSegfault \/ StopAnswered \/ StopFinish
           \/ CoreHandles \/ CoreListens
           \/ CoreDies \/ KillCore \/ CorePanics
           \/ WatchStep \/ UNCHANGED vars
  BY DEF Next, StartStep, StopStep, CoresStep, FaultStep, WatchStep

(* Every step keeps the threads in step with their calls.                  *)
LEMMA NextCalls ==
    ASSUME TypeOK, QueueInv, JobsInv, CallsInv, ProcessInv, [Next]_vars
    PROVE  CallsInv'
  <1> USE DEF CallsInv
  <1>1. CASE UserStep \/ UiStep
    BY <1>1, UiDoes DEF core
  <1>2. CASE StartCall
    BY <1>2, StartCallDoes
  <1>3. CASE StartAnswered
    BY <1>3, StartAnsweredDoes
  <1>4. CASE StopCall
    BY <1>4, StopCallDoes
  <1>5. CASE StopAnswered
    BY <1>5, StopAnsweredDoes
  <1>6. CASE StopSegfault
    BY <1>6, StopSegfaultDoes DEF core
  <1>7. CASE StopFinish
    BY <1>7, StopFinishDoes DEF core, JobsInv
  <1>8. CASE CoreHandles
    BY <1>8, CoreHandlesDoes DEF CoreHandles, jobs
  <1>9. CASE CoreListens
    BY <1>9 DEF CoreListens, Core!Boot, Core!calls, jobs
  <1>10. CASE CoreDies \/ KillCore \/ CorePanics
    BY <1>10, EndDoes, DieDoes DEF jobs, core
  <1>11. CASE WatchStep
    BY <1>11, WatchDoes DEF core
  <1>12. CASE UNCHANGED vars
    BY <1>12 DEF vars, jobs, core
  <1> QED BY <1>1, <1>2, <1>3, <1>4, <1>5, <1>6, <1>7, <1>8, <1>9, <1>10,
             <1>11, <1>12, Steps

(* Every step keeps what DS_cores knows of the process.                    *)
LEMMA NextProcess ==
    ASSUME TypeOK, QueueInv, CallsInv, ProcessInv, [Next]_vars
    PROVE  ProcessInv'
  <1> USE DEF ProcessInv
  <1>0. Core!Serving = {c \in {"starter", "stopper"} : pc[c] \in Core!Handling}
    BY DEF Core!Serving
  <1>1. CASE UNCHANGED <<process, alive, BoxInstance, pc, coresAt, restarting, restartDue>>
    BY <1>1 DEF process, Core!Serving
  <1>2. CASE UserStep \/ UiStep
    BY <1>1, <1>2, UiDoes DEF core
  <1>3. CASE StartCall
    <2>1. UNCHANGED <<process, watch>>
      BY <1>3 DEF StartCall
    <2> QED BY <1>1, <1>3, <2>1, StartCallDoes DEF process, watch, Core!Serving
  <1>4. CASE StopCall
    <2>1. UNCHANGED <<process, watch>>
      BY <1>4 DEF StopCall
    <2> QED BY <1>1, <1>4, <2>1, StopCallDoes DEF process, watch, Core!Serving
  <1>5. CASE StartAnswered
    <2>1. UNCHANGED <<process, watch>>
      BY <1>5 DEF StartAnswered
    <2>2. Core!Serving = {} => Core!Serving' = {}
      BY <1>5, StartAnsweredDoes DEF Core!Serving, Core!Handling
    <2> QED BY <1>5, <2>1, <2>2, StartAnsweredDoes DEF process, watch
  <1>6. CASE StopAnswered
    <2>1. UNCHANGED <<process, watch>>
      BY <1>6 DEF StopAnswered
    <2>2. Core!Serving = {} => Core!Serving' = {}
      BY <1>6, StopAnsweredDoes DEF Core!Serving, Core!Handling
    <2> QED BY <1>6, <2>1, <2>2, StopAnsweredDoes DEF process, watch
  <1>7. CASE StopSegfault
    BY <1>1, <1>7, StopSegfaultDoes DEF core, watch
  <1>8. CASE StopFinish
    BY <1>8, StopFinishDoes DEF StopFinish, process, core, Core!Serving
  <1>9. CASE CoreHandles
    <2>1. UNCHANGED <<process, watch>>
      BY <1>9 DEF CoreHandles
    <2>2. alive
      BY <1>9, CoreHandlesDoes DEF Core!Serving, Core!Handling
    <2> QED BY <1>9, <2>1, <2>2, CoreHandlesDoes DEF process, watch
  <1>10. CASE CoreListens
    BY <1>10 DEF CoreListens, Core!Boot, watch
  <1>11. CASE CoreDies \/ KillCore \/ CorePanics
    <2>1. UNCHANGED <<core_running, watch>>
      BY <1>11, EndDoes
    <2>2. CASE UNCHANGED <<proc, core>>
      BY <2>1, <2>2 DEF core, watch, Core!Serving
    <2>3. CASE /\ proc \in {"launched", "booting", "listening"}
               /\ proc' = "exited"
               /\ \/ proc # "listening" /\ UNCHANGED core
                  \/ proc = "listening" /\ Core!Die
      BY <2>1, <2>3, DieDoes DEF core, watch, Core!Serving
    <2> QED BY <1>11, <2>2, <2>3, EndDoes
  <1>12. CASE WatchStep
    <2>1. UNCHANGED <<alive, BoxInstance>> /\ Core!Serving' = Core!Serving
      BY <1>12, WatchDoes DEF core, Core!Serving
    <2>2. CASE CoreLaunched
      BY <2>1, <2>2 DEF CoreLaunched, watch
    <2>3. CASE CoreExited
      BY <2>1, <2>3 DEF CoreExited, ExitHandled, ExitIgnored
    <2>4. CASE CoreFailsToStart
      BY <2>1, <2>4 DEF CoreFailsToStart, ExitHandled
    <2>5. CASE Restart
      BY <2>1, <2>5 DEF Restart, CoresLoop
    <2>6. CASE CoresCheck \/ CoresLock
      BY <2>1, <2>6 DEF CoresCheck, CoresLock, process
    <2>7. CASE RestartTooSoon \/ PlanRestart
      BY <2>1, <2>7 DEF RestartTooSoon, PlanRestart, process
    <2>8. CASE ReadHello \/ CoresTask \/ KillDone \/ ExtraExits
      BY <2>1, <2>8 DEF ReadHello, CoresTask, KillDone, ExtraExits, process, watch
    <2> QED BY <1>12, <2>2, <2>3, <2>4, <2>5, <2>6, <2>7, <2>8 DEF WatchStep
  <1>13. CASE UNCHANGED vars
    BY <1>1, <1>13 DEF vars, core, watch
  <1> QED BY <1>2, <1>3, <1>4, <1>5, <1>6, <1>7, <1>8, <1>9, <1>10, <1>11,
             <1>12, <1>13, Steps

-----------------------------------------------------------------------------
(* Taking turns with the core *)

(* A stop for a crash meets a core that is down.                           *)
LEMMA CrashStop ==
    ASSUME JobsInv, ProcessInv, stopJob.crash, stopJob.at \in {"begun", "finishing"}
    PROVE  ~alive /\ BoxInstance = None /\ proc = "off"
  BY DEF JobsInv, ProcessInv, Stopping

(* While no start goes on without its stop, calls meet nobody and a Start  *)
(* finds nothing running.                                                  *)
LEMMA NextTurn ==
    ASSUME TypeOK, QueueInv, JobsInv, CallsInv, ProcessInv, TurnInv, [Next]_vars
    PROVE  TurnInv'
  <1>1. SUFFICES ASSUME ~crossed' PROVE TurnInv'
    BY DEF TurnInv
  <1> DEFINE Idle == startJob.at \in {"ready", "calling"} =>
                        /\ running = None
                        /\ stopJob.at \in {"none", "done"} \/ stopJob.crash
             Cleared == stopJob.at = "finishing" \/ pc["stopper"] \in {"ok", "broken"} =>
                           BoxInstance = None
             Known == BoxInstance # None => running # None \/ pc["starter"] = "ok"
             Turns == ~overlapped /\ ~refused
  <1>2. SUFFICES Idle' /\ Cleared' /\ Known' /\ Turns'
    BY DEF TurnInv
  <1>3. ASSUME ~crossed PROVE Idle /\ Cleared /\ Known /\ Turns
    BY <1>3 DEF TurnInv
  <1>4. CASE UserStep \/ UiStep
    BY <1>1, <1>3, <1>4, UiDoes DEF core
  <1>5. CASE StartCall
    <2>1. ~crossed /\ startJob.at = "ready"
      BY <1>1, <1>5 DEF StartCall, history
    <2>2. stopJob.at # "calling" /\ pc["starter"] = "idle" /\ pc["stopper"] = "idle"
      BY <1>3, <2>1 DEF JobsInv, CallsInv
    <2>3. Core!Serving = {}
      BY <2>2 DEF Core!Serving, Core!Handling
    <2> QED BY <1>3, <1>5, <2>1, <2>2, <2>3, StartCallDoes
  <1>6. CASE StartAnswered
    <2>1. ~crossed /\ startJob.id \in Ids
      BY <1>1, <1>6
         DEF StartAnswered, history, JobsInv, mu_starting
    <2> QED BY <1>3, <1>6, <2>1, StartAnsweredDoes, NoneAssumption
  <1>7. CASE StopCall
    <2>1. ~crossed /\ stopJob.at = "begun"
      BY <1>1, <1>7 DEF StopCall, history
    <2>2. CASE stopJob'.at = "calling"
      <3>1. ~stopJob.crash /\ pc["stopper"] = "idle"
        BY <1>7, <2>2, StopCallDoes
      <3>2. startJob.at \notin {"ready", "calling"} /\ pc["starter"] = "idle"
        BY <1>3, <2>1, <3>1 DEF CallsInv
      <3>3. Core!Serving = {}
        BY <3>1, <3>2 DEF Core!Serving, Core!Handling
      <3> QED BY <1>3, <1>7, <2>1, <2>2, <3>1, <3>2, <3>3, StopCallDoes
    <2>3. CASE stopJob'.at = "finishing"
      <3>1. BoxInstance = None
        BY <1>7, <2>1, <2>3, StopCallDoes, CrashStop DEF ProcessInv
      <3> QED BY <1>3, <1>7, <2>1, <2>3, <3>1, StopCallDoes
    <2> QED BY <1>7, <2>2, <2>3, StopCallDoes
  <1>8. CASE StopAnswered
    <2>1. ~crossed
      BY <1>1, <1>8 DEF StopAnswered, history
    <2>2. pc["stopper"] \in {"ok", "broken"}
      BY <1>8, StopAnsweredDoes DEF CallsInv, Core!Answered
    <2> QED BY <1>3, <1>8, <2>1, <2>2, StopAnsweredDoes
  <1>9. CASE StopSegfault
    BY <1>1, <1>3, <1>9, StopSegfaultDoes DEF window, core, history
  <1>10. CASE StopFinish
    <2>1. ~crossed /\ BoxInstance = None
      BY <1>1, <1>3, <1>10, StopFinishDoes DEF StopFinish, history
    <2> QED BY <1>3, <1>10, <2>1, StopFinishDoes DEF core
  <1>11. CASE CoreHandles
    <2>1. ~crossed /\ UNCHANGED <<running, startJob, stopJob>>
      BY <1>1, <1>11 DEF CoreHandles, window, jobs, history
    <2>2. pc["starter"] \in {"start", "create"} => BoxInstance = None
      BY <1>3, <2>1 DEF CallsInv
    <2>3. pc["starter"] \in {"start", "create"} =>
              stopJob.at # "finishing" /\ pc["stopper"] = "idle"
      <3>1. alive
        BY <1>11, CoreHandlesDoes DEF ProcessInv, Core!Serving, Core!Handling
      <3> QED BY <1>3, <2>1, <3>1, CrashStop DEF CallsInv, JobsInv
    <2>4. pc["stopper"] # "idle" => stopJob.at = "calling" /\ pc["starter"] = "idle"
      BY <1>3, <2>1 DEF CallsInv, JobsInv
    <2> QED BY <1>3, <1>11, <2>1, <2>2, <2>3, <2>4, CoreHandlesDoes
  <1>12. CASE CoreListens
    BY <1>1, <1>3, <1>12
    DEF CoreListens, Core!Boot, Core!globals, Core!calls, Core!history, window,
        jobs, history
  <1>13. CASE CoreDies \/ KillCore \/ CorePanics
    <2>1. ~crossed /\ UNCHANGED <<running, startJob, stopJob>>
      BY <1>1, <1>13, EndDoes DEF window, jobs
    <2>2. CASE UNCHANGED core
      BY <1>3, <2>1, <2>2 DEF core
    <2>3. CASE Core!Die
      BY <1>3, <2>1, <2>3, DieDoes
    <2> QED BY <1>13, <2>2, <2>3, EndDoes
  <1>14. CASE WatchStep
    BY <1>1, <1>3, <1>14, WatchDoes DEF window, core
  <1>15. CASE UNCHANGED vars
    BY <1>1, <1>3, <1>15 DEF vars, window, jobs, core, history
  <1> QED BY <1>4, <1>5, <1>6, <1>7, <1>8, <1>9, <1>10, <1>11, <1>12, <1>13,
             <1>14, <1>15, Steps

-----------------------------------------------------------------------------
(* What the window shows *)

(* While no exit crosses a start or a stop, what the window shows is what  *)
(* the core runs, or somebody is about to clear it.                        *)
LEMMA NextShown ==
    ASSUME TypeOK, QueueInv, JobsInv, CallsInv, ProcessInv, TurnInv, ShownInv,
           [Next]_vars
    PROVE  ShownInv'
  <1>1. SUFFICES ASSUME ~crossed', ~lostCore', ~exitMet' PROVE ShownInv'
    BY DEF ShownInv
  <1> DEFINE Limit == coresAt = "limit" => running = None
             Up == startJob.at = "calling" => proc = "listening"
             Made == pc["starter"] = "ok" =>
                        /\ BoxInstance # None
                        /\ profileOf[BoxInstance] = startJob.id
             Cleared == \/ coresAt \in {"check", "lock", "wait"}
                        \/ coresAt = "idle" /\ ExitsIgnored
             Shown == \/ BoxInstance # None /\ profileOf[BoxInstance] = running
                      \/ stopJob.at \in {"calling", "finishing"}
             Follows == running # None => \/ proc = "exited"
                                          \/ proc = "listening" /\ Shown
                                          \/ proc = "off" /\ ~restartDue /\ Cleared
  <1>2. SUFFICES Limit' /\ Up' /\ Made' /\ Follows'
    BY DEF ShownInv
  <1>3. ASSUME ~crossed, ~lostCore, ~exitMet
        PROVE  Limit /\ Up /\ Made /\ Follows
    BY <1>3 DEF ShownInv
  <1>4. ASSUME ~crossed PROVE startJob.at \in {"ready", "calling"} => running = None
    BY <1>4 DEF TurnInv
  <1>5. CASE UserStep \/ UiStep
    <2>1. ~crossed /\ ~lostCore /\ ~exitMet
      BY <1>1, <1>5, UiDoes
    <2>2. UNCHANGED <<running, process, core, coresAt, restarting, restartDue,
                      failed_to_start>>
      BY <1>5, UiDoes
    <2>3. ExitsIgnored => ExitsIgnored'
      BY <1>5, UiDoes DEF ExitsIgnored
    <2>4. startJob' # startJob => startJob.at # "calling" /\ startJob'.at # "calling"
      BY <1>5, UiDoes
    <2>5. Limit' /\ Up'
      BY <1>3, <2>1, <2>2, <2>4 DEF process
    <2>6. Made'
      BY <1>3, <2>1, <2>2, <2>4 DEF CallsInv, core
    <2>7. stopJob.at \in {"calling", "finishing"} => stopJob' = stopJob
      BY <1>5, UiDoes
    <2>8. Follows'
      BY <1>3, <2>1, <2>2, <2>3, <2>7 DEF process, core
    <2> QED BY <2>5, <2>6, <2>8
  <1>6. CASE StartCall
    <2>1. /\ ~crossed /\ ~lostCore /\ ~exitMet
          /\ UNCHANGED <<running, stopJob, process, watch, prepare_exit>>
      BY <1>1, <1>6 DEF StartCall, window, history
    <2>2. Limit' /\ Follows'
      BY <1>3, <1>6, <2>1, StartCallDoes DEF process, watch, ExitsIgnored
    <2>3. Up'
      BY <1>6, <2>1, StartCallDoes DEF process, ProcessInv
    <2>4. Made'
      BY <1>6, StartCallDoes DEF CallsInv
    <2> QED BY <2>2, <2>3, <2>4
  <1>7. CASE StartAnswered
    <2>1. /\ ~crossed /\ ~lostCore /\ ~exitMet
          /\ UNCHANGED <<stopJob, process, watch, prepare_exit>>
      BY <1>1, <1>7 DEF StartAnswered, window, history
    <2>2. Up' /\ Made'
      BY <1>7, StartAnsweredDoes
    <2>3. Limit' /\ Follows'
      BY <1>3, <1>7, <2>1, StartAnsweredDoes
         DEF process, watch, ExitsIgnored, ProcessInv
    <2> QED BY <2>2, <2>3
  <1>8. CASE StopCall \/ StopSegfault \/ StopAnswered
    <2>1. /\ ~crossed /\ ~lostCore /\ ~exitMet
          /\ UNCHANGED <<running, startJob, process, watch, prepare_exit>>
      BY <1>1, <1>8 DEF StopCall, StopSegfault, StopAnswered, window, history
    <2>2. UNCHANGED <<BoxInstance, profileOf>> /\ pc'["starter"] = pc["starter"]
      BY <1>8, StopCallDoes, StopSegfaultDoes, StopAnsweredDoes DEF core
    <2>3. stopJob.at \in {"calling", "finishing"} =>
              stopJob'.at \in {"calling", "finishing"}
      BY <1>8, StopCallDoes, StopSegfaultDoes, StopAnsweredDoes
    <2> QED BY <1>3, <2>1, <2>2, <2>3 DEF process, watch, ExitsIgnored
  <1>9. CASE StopFinish
    <2>1. ~crossed /\ ~lostCore /\ ~exitMet /\ UNCHANGED process
      BY <1>1, <1>9 DEF StopFinish, history
    <2> QED BY <1>3, <1>9, <2>1, StopFinishDoes DEF process, core
  <1>10. CASE CoreHandles
    <2>1. /\ ~crossed /\ ~lostCore /\ ~exitMet
          /\ UNCHANGED <<running, startJob, stopJob, process, watch, prepare_exit>>
      BY <1>1, <1>10 DEF CoreHandles, window, jobs, history
    <2>2. Limit' /\ Up'
      BY <1>3, <2>1 DEF process, watch
    <2>3. alive /\ proc = "listening"
      BY <1>10, CoreHandlesDoes DEF ProcessInv, Core!Serving, Core!Handling
    <2>4. CASE pc["starter"] # "idle" /\ pc["stopper"] = "idle"
      <3>1. running = None
        BY <1>4, <2>1, <2>4 DEF CallsInv
      <3>2. Made'
        BY <1>10, <2>1, <2>4, CoreHandlesDoes
      <3> QED BY <2>1, <2>2, <3>1, <3>2
    <2>5. CASE pc["stopper"] # "idle"
      <3>1. stopJob.at = "calling" /\ pc["starter"] = "idle"
        BY <2>1, <2>5 DEF CallsInv, TurnInv, JobsInv
      <3>2. Made'
        BY <1>10, <3>1, CoreHandlesDoes
      <3>3. Follows'
        BY <2>1, <2>3, <3>1 DEF process
      <3> QED BY <2>2, <3>2, <3>3
    <2> QED BY <1>10, <2>4, <2>5, CoreHandlesDoes
  <1>11. CASE CoreListens
    <2>1. /\ ~crossed /\ ~lostCore /\ ~exitMet /\ proc = "booting"
          /\ UNCHANGED <<running, startJob, watch, pc>>
      BY <1>1, <1>11
         DEF CoreListens, Core!Boot, Core!calls, window, jobs, history
    <2>2. running = None /\ startJob.at # "calling" /\ pc["starter"] = "idle"
      BY <1>3, <2>1 DEF CallsInv
    <2> QED BY <2>1, <2>2
  <1>12. CASE CoreDies \/ KillCore \/ CorePanics
    <2>1. /\ ~crossed /\ ~lostCore /\ ~exitMet
          /\ UNCHANGED <<window, jobs, watch, profileOf>>
      BY <1>1, <1>12, EndDoes
    <2>2. CASE UNCHANGED <<proc, core>>
      BY <1>3, <2>1, <2>2 DEF window, jobs, watch, core, ExitsIgnored
    <2>3. CASE proc' = "exited" /\ startJob.at # "calling"
      <3>1. pc["starter"] = "idle"
        BY <2>3 DEF CallsInv
      <3>2. pc'["starter"] = "idle"
        BY <1>12, <3>1, EndDoes, DieDoes DEF core
      <3> QED BY <1>3, <2>1, <2>3, <3>2 DEF window, jobs, watch
    <2> QED BY <1>1, <1>12, <2>2, <2>3, EndDoes
  <1>13. CASE WatchStep
    <2>1. /\ ~crossed /\ ~lostCore /\ ~exitMet
          /\ UNCHANGED <<window, startJob, core>>
      BY <1>1, <1>13, WatchDoes
    <2>2. Made'
      BY <1>3, <2>1 DEF core
    <2>3. UNCHANGED <<running, prepare_exit, BoxInstance, profileOf>>
      BY <2>1 DEF window, core
    <2>4. stopJob.at \in {"calling", "finishing"} => UNCHANGED stopJob
      BY <1>13, WatchDoes
    <2>5. CASE CoreLaunched
      BY <1>3, <2>1, <2>2, <2>3, <2>5 DEF CoreLaunched, watch
    <2>6. CASE CoreExited
      BY <1>3, <2>1, <2>2, <2>3, <2>6
      DEF CoreExited, ExitHandled, ExitIgnored, ExitsIgnored, ProcessInv
    <2>7. CASE CoreFailsToStart
      BY <1>3, <2>1, <2>2, <2>3, <2>7 DEF CoreFailsToStart, ExitHandled
    <2>8. CASE CoresCheck
      BY <1>3, <2>1, <2>2, <2>3, <2>8 DEF CoresCheck, process, jobs
    <2>9. CASE CoresLock
      BY <1>1, <1>3, <2>1, <2>2, <2>3, <2>9 DEF CoresLock, process, ProcessInv
    <2>10. CASE RestartTooSoon \/ PlanRestart
      BY <1>3, <2>1, <2>2, <2>3, <2>10
      DEF RestartTooSoon, PlanRestart, process
    <2>11. CASE Restart
      BY <1>3, <2>1, <2>2, <2>3, <2>11 DEF Restart, CoresLoop, ProcessInv
    <2>12. CASE ReadHello \/ CoresTask \/ KillDone \/ ExtraExits
      <3>1. UNCHANGED <<proc, coresAt, restarting, restartDue, failed_to_start,
                        stopJob>>
        BY <2>12
           DEF ReadHello, CoresTask, KillDone, ExtraExits, process, watch, jobs
      <3> QED BY <1>3, <2>1, <2>2, <2>3, <3>1 DEF ExitsIgnored
    <2> QED BY <1>13, <2>5, <2>6, <2>7, <2>8, <2>9, <2>10, <2>11, <2>12
            DEF WatchStep
  <1>14. CASE UNCHANGED vars
    <2>1. ~crossed /\ ~lostCore /\ ~exitMet
      BY <1>1, <1>14 DEF vars, history
    <2> QED BY <1>3, <1>14, <2>1
            DEF vars, window, jobs, process, watch, core, ExitsIgnored
  <1> QED BY <1>5, <1>6, <1>7, <1>8, <1>9, <1>10, <1>11, <1>12, <1>13, <1>14,
             Steps

-----------------------------------------------------------------------------
(* Stops that have a profile, and stops of the user *)

(* What the core and the end of its process leave alone.                   *)
LEMMA CoreSideDoes ==
    ASSUME TypeOK, ProcessInv,
           CoreHandles \/ CoreListens \/ CoreDies \/ KillCore \/ CorePanics
    PROVE  UNCHANGED <<running, started_id, uiQueue, startJob, stopJob, whenUp,
                       coresQueue, coresAt, exitMet, unwanted>>
  <1>1. CASE CoreHandles \/ CoreListens
    BY <1>1 DEF CoreHandles, CoreListens, window, ui, jobs, watch, history
  <1>2. CASE CoreDies \/ KillCore \/ CorePanics
    BY <1>2, EndDoes DEF window, jobs, watch
  <1> QED BY <1>1, <1>2

(* A stop begins with a profile to stop, and its thread still finds it.    *)
LEMMA NextStop ==
    ASSUME TypeOK, QueueInv, JobsInv, ProcessInv, StopInv, [Next]_vars
    PROVE  StopInv'
  <1> USE DEF StopInv, StopHasProfile, mu_stopping
  <1>1. CASE UserStep \/ UiStep
    BY <1>1, UiDoes
  <1>2. CASE StartCall
    BY <1>2, StartCallDoes DEF StartCall, watch, history
  <1>3. CASE StartAnswered
    <2>1. startJob.id # None
      BY <1>3, NoneAssumption DEF StartAnswered, JobsInv, mu_starting
    <2>2. UNCHANGED <<stopJob, coresAt, exitMet>>
      BY <1>3 DEF StartAnswered, watch, history
    <2> QED BY <1>3, <2>1, <2>2, StartAnsweredDoes
  <1>4. CASE StopCall \/ StopSegfault \/ StopAnswered
    <2>1. stopJob'.at \in {"calling", "finishing", "segfault"}
      BY <1>4, StopCallDoes, StopSegfaultDoes, StopAnsweredDoes
    <2> QED BY <2>1
  <1>5. CASE StopFinish
    BY <1>5, StopFinishDoes
  <1>6. CASE CoreHandles \/ CoreListens \/ CoreDies \/ KillCore \/ CorePanics
    BY <1>6, CoreSideDoes
  <1>7. CASE WatchStep
    <2>1. UNCHANGED running /\ (exitMet => exitMet')
      BY <1>7, WatchDoes DEF window
    <2>2. CASE CoresLock
      BY <2>1, <2>2 DEF CoresLock
    <2>3. CASE CoresCheck
      BY <2>1, <2>3 DEF CoresCheck, jobs
    <2>4. CASE ~CoresLock /\ ~CoresCheck
      <3>1. UNCHANGED stopJob
        BY <1>7, <2>4, WatchDoes
      <3>2. coresAt' = coresAt \/ coresAt' # "lock"
        BY <1>7, <2>4
           DEF WatchStep, CoreLaunched, ReadHello, CoresTask, CoreExited,
               RestartTooSoon, PlanRestart, Restart, KillDone, CoreFailsToStart,
               ExtraExits, ExitHandled, ExitIgnored, watch
      <3> QED BY <2>1, <3>1, <3>2
    <2> QED BY <2>2, <2>3, <2>4
  <1>8. CASE UNCHANGED vars
    BY <1>8 DEF vars, window, jobs, watch, history
  <1> QED BY <1>1, <1>2, <1>3, <1>4, <1>5, <1>6, <1>7, <1>8, Steps

(* No start is queued.                                                     *)
NoStarts(q) == \A k \in DOMAIN q : q[k].kind # "start"

LEMMA PendingStarts ==
    /\ StartPending <=> \/ whenUp # None \/ coresQueue # << >>
                        \/ startJob.at # "none" \/ ~NoStarts(uiQueue)
    /\ StartPending' <=> \/ whenUp' # None \/ coresQueue' # << >>
                         \/ startJob'.at # "none" \/ ~NoStarts(uiQueue')
  BY DEF StartPending, NoStarts, mu_starting

LEMMA NoStartsMoves ==
    ASSUME NEW q \in Seq(Tasks), NoStarts(q)
    PROVE  /\ q # << >> => Head(q).kind # "start" /\ NoStarts(Tail(q))
           /\ \A t \in Tasks : t.kind # "start" => NoStarts(Append(q, t))
  BY DEF NoStarts

(* What the user has stopped is forgotten when that stop ends, and nothing *)
(* in between starts it.                                                   *)
LEMMA NextUnwanted ==
    ASSUME TypeOK, QueueInv, JobsInv, ProcessInv, UnwantedInv, [Next]_vars
    PROVE  UnwantedInv'
  <1> DEFINE Forgotten == started_id = None \/ (Stopping /\ stopJob.manual)
  <1>0. /\ uiQueue \in Seq(Tasks) /\ WindowTypes
        /\ Task("unlock", None) \in Tasks /\ Task("unlock", None).kind = "unlock"
        /\ Task("crashed", None) \in Tasks /\ Task("crashed", None).kind = "crashed"
    BY TaskTypes DEF TypeOK, WindowTypes
  <1>1. SUFFICES ASSUME unwanted', ~exitMet' PROVE ~StartPending' /\ Forgotten'
    BY DEF UnwantedInv
  <1>2. ASSUME unwanted, ~exitMet
        PROVE  /\ ~StartPending /\ Forgotten
               /\ whenUp = None /\ coresQueue = << >> /\ startJob.at = "none"
               /\ NoStarts(uiQueue)
    BY <1>2, PendingStarts DEF UnwantedInv
  <1>3. ASSUME unwanted, ~exitMet, NoStarts(uiQueue'), startJob'.at = startJob.at,
               UNCHANGED <<whenUp, coresQueue>>
        PROVE  ~StartPending'
    BY <1>2, <1>3, PendingStarts
  <1>4. CASE \E i \in Ids : UserStart(i)
    BY <1>1, <1>4 DEF UserStart
  <1>5. CASE UserStop
    <2>1. /\ UNCHANGED <<uiQueue, startJob, whenUp, coresQueue, started_id, exitMet>>
          /\ profile_stop(TRUE, "no")
          /\ unwanted \/ (StopTaken /\ ~StartPending)
      BY <1>1, <1>5 DEF UserStop, Click, watch
    <2>2. ~StartPending'
      BY <1>1, <1>2, <2>1, PendingStarts
    <2>3. CASE StopTaken
      <3>1. stopJob'.at = "begun" /\ stopJob'.manual
        BY <2>1, <2>3 DEF profile_stop
      <3> QED BY <2>2, <3>1 DEF Stopping
    <2>4. CASE ~StopTaken
      BY <1>1, <1>2, <2>1, <2>2, <2>4 DEF profile_stop, Stopping
    <2> QED BY <2>3, <2>4
  <1>6. CASE GroupStop \/ PrepareExit \/ UiCrashed
    <2>1. UNCHANGED <<startJob, whenUp, coresQueue, started_id, exitMet, unwanted>>
      BY <1>6 DEF GroupStop, PrepareExit, UiCrashed, Click, watch, history, window
    <2>2. \/ uiQueue' = uiQueue
          \/ uiQueue # << >> /\ uiQueue' = Tail(uiQueue)
      BY <1>6 DEF GroupStop, PrepareExit, UiCrashed, NextTask
    <2>3. ~StartPending'
      BY <1>0, <1>1, <1>2, <1>3, <2>1, <2>2, NoStartsMoves
    <2>4. stopJob' = stopJob \/ stopJob.at = "none"
      BY <1>6
         DEF GroupStop, PrepareExit, UiCrashed, profile_stop, StopTaken, mu_stopping
    <2> QED BY <1>1, <1>2, <2>1, <2>3, <2>4 DEF Stopping
  <1>7. CASE StopVPNProcess \/ UNCHANGED vars
    <2>1. UNCHANGED <<startJob, stopJob, whenUp, coresQueue, started_id, uiQueue,
                      exitMet, unwanted>>
      BY <1>7 DEF StopVPNProcess, Click, vars, window, ui, jobs, watch, history
    <2> QED BY <1>1, <1>2, <1>3, <2>1 DEF Stopping
  <1>8. CASE UiStopForStart
    <2>1. startJob.at = "waiting"
      BY <1>0, <1>8, Popped DEF UiStopForStart, NextTask, QueueInv
    <2> QED BY <1>1, <1>2, <1>8, <2>1 DEF UiStopForStart
  <1>9. CASE UiUnlock
    <2>1. stopJob.at = "done"
      BY <1>0, <1>9, Popped DEF UiUnlock, NextTask, QueueInv
    <2>2. /\ UNCHANGED <<startJob, whenUp, coresQueue, started_id, unwanted>>
          /\ uiQueue # << >> /\ uiQueue' = Tail(uiQueue)
          /\ exitMet => exitMet'
      BY <1>9 DEF UiUnlock, NextTask, watch, window
    <2>3. ~StartPending'
      BY <1>0, <1>1, <1>2, <1>3, <2>2, NoStartsMoves
    <2> QED BY <1>1, <1>2, <2>1, <2>2, <2>3 DEF Stopping
  <1>10. CASE UiCoreStarted
    <2>1. /\ uiQueue # << >> /\ Head(uiQueue).kind = "start"
          /\ UNCHANGED <<unwanted, exitMet>>
      BY <1>10 DEF UiCoreStarted, NextTask, history
    <2> QED BY <1>0, <1>1, <1>2, <2>1, NoStartsMoves
  <1>11. CASE StartCall \/ StartAnswered
    BY <1>1, <1>2, <1>11 DEF StartCall, StartAnswered, history
  <1>12. CASE StopCall \/ StopSegfault \/ StopAnswered
    <2>1. UNCHANGED <<startJob, whenUp, coresQueue, started_id, uiQueue, exitMet,
                      unwanted>>
      BY <1>12 DEF StopCall, StopSegfault, StopAnswered, window, ui, watch, history
    <2>2. /\ stopJob.at \in {"begun", "calling"} /\ stopJob'.manual = stopJob.manual
          /\ stopJob'.at \in {"calling", "finishing", "segfault"}
      BY <1>12, StopCallDoes, StopSegfaultDoes, StopAnsweredDoes
    <2> QED BY <1>1, <1>2, <1>3, <2>1, <2>2 DEF Stopping
  <1>13. CASE StopFinish
    <2>1. /\ UNCHANGED <<whenUp, coresQueue, exitMet, unwanted>>
          /\ uiQueue' = Append(uiQueue, Task("unlock", None))
      BY <1>13 DEF StopFinish, history
    <2>2. startJob'.at = startJob.at
      BY <1>1, <1>2, <1>13, <2>1, StopFinishDoes DEF JobsInv
    <2>3. ~StartPending'
      BY <1>0, <1>1, <1>2, <1>3, <2>1, <2>2, NoStartsMoves
    <2> QED BY <1>1, <1>2, <1>13, <2>1, <2>3, StopFinishDoes
  <1>14. CASE CoreHandles \/ CoreListens \/ CoreDies \/ KillCore \/ CorePanics
    <2>1. UNCHANGED <<started_id, uiQueue, startJob, stopJob, whenUp, coresQueue,
                      exitMet, unwanted>>
      BY <1>14, CoreSideDoes
    <2> QED BY <1>1, <1>2, <1>3, <2>1 DEF Stopping
  <1>15. CASE WatchStep
    <2>1. unwanted /\ ~exitMet /\ UNCHANGED <<started_id, startJob>>
      BY <1>1, <1>15, WatchDoes DEF window
    <2>2. Forgotten'
      <3>1. stopJob' = stopJob \/ stopJob.at = "none"
        BY <1>15, WatchDoes
      <3> QED BY <1>2, <2>1, <3>1 DEF Stopping
    <2>3. UNCHANGED coresQueue
      BY <1>2, <1>15, <2>1
         DEF WatchStep, CoreLaunched, ReadHello, CoresTask, CoreExited, CoresCheck,
             CoresLock, RestartTooSoon, PlanRestart, Restart, KillDone,
             CoreFailsToStart, ExtraExits, watch
    <2>4. NoStarts(uiQueue')
      <3>1. \/ uiQueue' = uiQueue
            \/ uiQueue' = Append(uiQueue, Task("crashed", None))
        BY <1>2, <1>15, <2>1
           DEF WatchStep, CoreLaunched, ReadHello, CoresTask, CoreExited, CoresCheck,
               CoresLock, RestartTooSoon, PlanRestart, Restart, KillDone,
               CoreFailsToStart, ExtraExits, ui
      <3> QED BY <1>0, <1>2, <2>1, <3>1, NoStartsMoves
    <2>5. whenUp' = None
      <3>1. CASE PlanRestart
        <4>1. ~(mu_stopping /\ ~stopJob.crash)
          BY <1>1, <3>1 DEF PlanRestart
        <4>2. started_id = None
          BY <1>2, <2>1, <4>1 DEF Stopping, mu_stopping, JobsInv
        <4> QED BY <3>1, <4>2 DEF PlanRestart
      <3>2. CASE ~PlanRestart
        BY <1>2, <1>15, <2>1, <3>2
           DEF WatchStep, CoreLaunched, ReadHello, CoresTask, CoreExited, CoresCheck,
               CoresLock, RestartTooSoon, Restart, KillDone, CoreFailsToStart,
               ExtraExits, watch
      <3> QED BY <3>1, <3>2
    <2>6. ~StartPending'
      BY <1>2, <2>1, <2>3, <2>4, <2>5, PendingStarts
    <2> QED BY <2>2, <2>6
  <1> QED BY <1>4, <1>5, <1>6, <1>7, <1>8, <1>9, <1>10, <1>11, <1>12, <1>13,
             <1>14, <1>15, Steps DEF UserStep, UiStep

-----------------------------------------------------------------------------
(* The invariant *)

(* At rest the parts of the invariant come down to the agreement.          *)
LEMMA Agree ==
    CallsInv /\ ProcessInv /\ TurnInv /\ ShownInv => WindowAndCoreAgree
  <1>1. SUFFICES ASSUME CallsInv, ProcessInv, TurnInv, ShownInv,
                        AtRest, ~crossed, ~lostCore, ~exitMet,
                        ~(proc = "off" /\ ExitsIgnored)
                 PROVE  /\ running = None <=> BoxInstance = None
                        /\ running # None => profileOf[BoxInstance] = running
    BY DEF WindowAndCoreAgree
  <1>2. /\ startJob.at = "none" /\ stopJob.at = "none" /\ coresAt = "idle"
        /\ proc \in {"off", "listening"}
    BY <1>1 DEF AtRest, mu_starting, mu_stopping
  <1>3. pc["starter"] = "idle"
    BY <1>1, <1>2 DEF CallsInv
  <1>4. BoxInstance # None => running # None
    BY <1>1, <1>3 DEF TurnInv
  <1>5. running # None => BoxInstance # None /\ profileOf[BoxInstance] = running
    BY <1>1, <1>2 DEF ShownInv
  <1> QED BY <1>4, <1>5

LEMMA AgreeNext ==
    CallsInv' /\ ProcessInv' /\ TurnInv' /\ ShownInv' => WindowAndCoreAgree'
  BY Agree, PTL

(* It holds when the program starts.                                       *)
LEMMA InitHolds == Init => WindowInv
  <1> SUFFICES ASSUME Init PROVE WindowInv
    OBVIOUS
  <1>1. TypeOK
    <2>1. Core!TypeOK
      <3>1. Server!SentinelAssumption
        BY NoneAssumption DEF Server!SentinelAssumption
      <3>2. Server!Init => Server!TypeOK
        BY <3>1, Server!InitHolds DEF Server!InstanceInv
      <3> QED BY <3>2, SameServer DEF Init
    <2>2. startJob \in StartJobs /\ stopJob \in StopJobs
      BY StartJobTypes, StopJobTypes DEF Init
    <2>3. WindowTypes
      <3>1. uiQueue \in Seq(Tasks)
        BY DEF Init
      <3>2. /\ running = None /\ started_id = None /\ prepare_exit = FALSE
            /\ uiWait = "no"
        BY DEF Init
      <3> QED BY <2>2, <3>1, <3>2 DEF WindowTypes
    <2>4. WatchTypes
      <3>1. coresQueue \in Seq(Ids)
        BY DEF Init
      <3> QED BY <3>1 DEF Init, WatchTypes
    <2>5. profileOf \in [Boxes -> Ids \cup {None}]
      BY DEF Init
    <2> QED BY <2>1, <2>3, <2>4, <2>5 DEF TypeOK
  <1>2. startJob.at = "none" /\ stopJob.at = "none" /\ ~stopJob.crash
    BY DEF Init, NoStart, NoStop
  <1>3. /\ ~alive /\ BoxInstance = None /\ Core!Serving = {}
        /\ \A c \in {"starter", "stopper"} : pc[c] = "idle" /\ ~needExtra[c]
        /\ ~overlapped /\ ~refused
    BY DEF Init, Core!Init, Core!Serving, Core!Handling
  <1>4. QueueInv
    BY DEF Init, QueueInv
  <1>5. JobsInv
    BY <1>2 DEF Init, JobsInv, mu_starting, Stopping
  <1>6. CallsInv
    BY <1>2, <1>3 DEF CallsInv
  <1>7. ProcessInv
    BY <1>3 DEF Init, ProcessInv
  <1>8. TurnInv
    BY <1>2, <1>3 DEF TurnInv
  <1>9. ShownInv
    BY <1>2, <1>3 DEF Init, ShownInv
  <1>10. StopInv /\ UnwantedInv
    BY <1>2 DEF Init, StopInv, StopHasProfile, UnwantedInv
  <1> QED BY <1>1, <1>4, <1>5, <1>6, <1>7, <1>8, <1>9, <1>10, Agree
          DEF WindowInv

(* Every step keeps it.                                                    *)
LEMMA NextKeeps == WindowInv /\ [Next]_vars => WindowInv'
  <1> SUFFICES ASSUME WindowInv, [Next]_vars PROVE WindowInv'
    OBVIOUS
  <1>1. /\ TypeOK /\ QueueInv /\ JobsInv /\ CallsInv /\ ProcessInv
        /\ TurnInv /\ ShownInv /\ StopInv /\ UnwantedInv
    BY DEF WindowInv
  <1>2. TypeOK'
    BY <1>1, NextType
  <1>3. QueueInv'
    BY <1>1, NextQueue
  <1>4. JobsInv'
    BY <1>1, NextJobs
  <1>5. CallsInv'
    BY <1>1, NextCalls
  <1>6. ProcessInv'
    BY <1>1, NextProcess
  <1>7. TurnInv'
    BY <1>1, NextTurn
  <1>8. ShownInv'
    BY <1>1, NextShown
  <1>9. StopInv'
    BY <1>1, NextStop
  <1>10. UnwantedInv'
    BY <1>1, NextUnwanted
  <1>11. WindowAndCoreAgree'
    BY <1>5, <1>6, <1>7, <1>8, AgreeNext
  <1> QED BY <1>2, <1>3, <1>4, <1>5, <1>6, <1>7, <1>8, <1>9, <1>10, <1>11
          DEF WindowInv

(* The inductive invariant holds in every state the program reaches.       *)
THEOREM WindowInvariant == Spec => []WindowInv
  BY InitHolds, NextKeeps, PTL DEF Spec

(* At rest the window shows what the core runs.                            *)
THEOREM WindowAgrees == Spec => []WindowAndCoreAgree
  <1>1. WindowInv => WindowAndCoreAgree
    BY DEF WindowInv
  <1> QED BY <1>1, WindowInvariant, PTL

(* profile_start and profile_stop never have two calls in the core at once *)
(* or start a second instance, unless a start went on without its stop.    *)
THEOREM CoreUsedInTurn == Spec => []CoreIsUsedInTurn
  <1>1. WindowInv => CoreIsUsedInTurn
    BY DEF WindowInv, TurnInv, CoreIsUsedInTurn
  <1> QED BY <1>1, WindowInvariant, PTL

(* profile_stop's thread finds a profile to stop, unless the core's exit   *)
(* was handled during another stop.                                        *)
THEOREM StopsHaveProfile == Spec => []StopHasProfile
  <1>1. WindowInv => StopHasProfile
    BY DEF WindowInv, StopInv
  <1> QED BY <1>1, WindowInvariant, PTL

(* What the user has stopped stays stopped, unless the core's exit was     *)
(* handled during that stop.                                               *)
THEOREM UserStopsHold == Spec => []UserStopHonoured
  <1>1. WindowInv => UserStopHonoured
    BY DEF WindowInv, UnwantedInv, UserStopHonoured
  <1> QED BY <1>1, WindowInvariant, PTL
=============================================================================
