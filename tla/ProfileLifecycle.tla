-------------------------- MODULE ProfileLifecycle --------------------------
(***************************************************************************)
(* Starting and stopping a profile: profile_start and profile_stop of      *)
(* ui/mainwindow_rpc.cpp, the watch over the core process of               *)
(* sys/Process.cpp, and the RPC server of the core (module CoreServer).    *)
(*                                                                         *)
(* Four threads act: the UI thread, which runs queued tasks in order and   *)
(* the user's clicks between them; the thread DS_cores, which owns the     *)
(* QProcess; one thread per profile_start that passed mu_starting and one  *)
(* per profile_stop that passed mu_stopping, each with a connection of its *)
(* own to the core.  The core may die at any time.                         *)
(***************************************************************************)
EXTENDS Naturals, Sequences

CONSTANTS
    Ids,        \* profiles
    Boxes,      \* names for sing-box instances
    None        \* nullptr, -1919, nil

ASSUME NoneAssumption == None \notin Ids \cup Boxes \cup {"dud"}

VARIABLES
    running,        \* the profile the window believes to be running
    started_id,     \* dataStore->started_id
    prepare_exit,   \* the program is about to end
    uiQueue,        \* tasks posted to the UI thread
    uiWait,         \* what the UI thread blocks on, or "no"
    startJob,       \* the thread of profile_start, with its profile
    stopJob         \* the thread of profile_stop, with its arguments

VARIABLES
    proc,           \* the core process as the machine has it
    core_running,   \* dataStore->core_running
    hello,          \* "Core listening" is printed and not yet read
    whenUp,         \* start_profile_when_core_is_up
    coresQueue,     \* ids posted to DS_cores for start_profile_when_core_is_up
    coresAt,        \* where DS_cores is in its handler of the core's exit
    restarting,     \* the mutex of that name
    coreTimer,      \* coreRestartTimer.isValid()
    restartDue,     \* the 200 ms timer that calls Restart
    failed_to_start \* the flag of that name, never cleared

(* The core's side: the variables of CoreServer, without extra processes,  *)
(* and the profile each instance was created for.                          *)
VARIABLES
    alive, BoxInstance, ExtraProcess, open, extras, pc, needExtra,
    overlapped, refused, spoiled,
    profileOf

(***************************************************************************)
(* History variables, read by no action.                                   *)
(***************************************************************************)
VARIABLES
    crossed,        \* the stop a profile_start queued was turned away
    lostCore,       \* the core died while it was starting a profile
    exitMet,        \* the core's exit was handled during a stop
    unwanted        \* the user stopped and nothing was asked for since

Core == INSTANCE CoreServer
            WITH Clients <- {"starter", "stopper"}, Procs <- {}, Dud <- "dud"

window  == <<running, started_id, prepare_exit>>
ui      == <<uiQueue, uiWait>>
jobs    == <<startJob, stopJob>>
process == <<proc, core_running, hello>>
watch   == <<whenUp, coresQueue, coresAt, restarting, coreTimer, restartDue,
             failed_to_start>>
core    == <<alive, BoxInstance, ExtraProcess, open, extras, pc, needExtra,
             overlapped, refused, spoiled, profileOf>>
history == <<crossed, lostCore, exitMet, unwanted>>
vars    == <<window, ui, jobs, process, watch, core, history>>

NoStart == [at |-> "none", id |-> None]
NoStop  == [at |-> "none", crash |-> FALSE, manual |-> FALSE]

(* The two mutexes are held as long as the work they guard lasts.          *)
mu_starting == startJob.at # "none"
mu_stopping == stopJob.at # "none"

Task(k, i) == [kind |-> k, id |-> i]

-----------------------------------------------------------------------------
(* profile_start, called on the UI thread with the tasks q yet to run.  The *)
(* stop of what runs is queued behind them, and a thread waits for it; when *)
(* the core is down the id is left to DS_cores.  Nothing happens when it is *)
(* refused, or when the profile is gone or its group archived.              *)

StartRefused == prepare_exit \/ mu_starting \/ mu_stopping

profile_start(i, q) ==
    \/ /\ uiQueue' = q
       /\ UNCHANGED <<startJob, coresQueue>>
    \/ /\ ~StartRefused /\ ~core_running
       /\ uiQueue' = q
       /\ coresQueue' = Append(coresQueue, i)
       /\ UNCHANGED startJob
    \/ /\ ~StartRefused /\ core_running
       /\ uiQueue' = Append(q, Task("stop", None))
       /\ startJob' = [at |-> "waiting", id |-> i]
       /\ UNCHANGED coresQueue

(* Mutant: running is not looked at.                                       *)
StopTaken_Unchecked == ~mu_stopping

(* profile_stop returns at once when nothing runs or another stop does.    *)
StopTaken == running # None /\ ~mu_stopping

(* Mutant: a stop never counts as the user's.                              *)
profile_stop_NeverManual(manual, w) ==
    IF StopTaken
    THEN /\ stopJob' = [at |-> "begun", crash |-> FALSE, manual |-> FALSE]
         /\ uiWait' = w
    ELSE UNCHANGED <<stopJob, uiWait>>

(* On the UI thread, which then blocks on w or goes on ("no").             *)
profile_stop(manual, w) ==
    IF StopTaken
    THEN /\ stopJob' = [at |-> "begun", crash |-> FALSE, manual |-> manual]
         /\ uiWait' = w
    ELSE UNCHANGED <<stopJob, uiWait>>

-----------------------------------------------------------------------------
(* The user *)

Click == uiWait = "no" /\ UNCHANGED <<running, started_id, process, core>>

UserStart(i) ==
    /\ Click
    /\ profile_start(i, uiQueue)
    /\ unwanted' = FALSE
    /\ UNCHANGED <<prepare_exit, uiWait, stopJob, whenUp, coresAt, restarting,
                   coreTimer, restartDue, failed_to_start, crossed, lostCore,
                   exitMet>>

(* A start is on its way that the user or the last session asked for.      *)
StartPending == \/ whenUp # None \/ coresQueue # << >> \/ mu_starting
                \/ \E k \in DOMAIN uiQueue : uiQueue[k].kind = "start"

UserStop ==
    /\ Click
    /\ profile_stop(TRUE, "no")
    /\ unwanted' = (unwanted \/ (StopTaken /\ ~StartPending))
    /\ UNCHANGED <<prepare_exit, uiQueue, startJob, watch, crossed, lostCore,
                   exitMet>>

(* Deleting the group of the running profile stops it and waits.           *)
GroupStop ==
    /\ Click
    /\ profile_stop(FALSE, "stop")
    /\ UNCHANGED <<prepare_exit, uiQueue, startJob, watch, history>>

(* StopVPNProcess: the UI thread waits until DS_cores has killed the core. *)
StopVPNProcess ==
    /\ Click
    /\ uiWait' = "kill"
    /\ UNCHANGED <<prepare_exit, uiQueue, jobs, watch, history>>

PrepareExit ==
    /\ Click
    /\ ~prepare_exit
    /\ prepare_exit' = TRUE
    /\ profile_stop(FALSE, "stop")
    /\ UNCHANGED <<uiQueue, startJob, watch, history>>

-----------------------------------------------------------------------------
(* The tasks of the UI thread *)

NextTask(k) == uiWait = "no" /\ uiQueue # << >> /\ Head(uiQueue).kind = k

(* Mutant: the starting thread does not wait for the stop.                 *)
UiStopForStart_NoWait ==
    /\ NextTask("stop")
    /\ uiQueue' = Tail(uiQueue)
    /\ profile_stop(TRUE, "stop")
    /\ startJob' = [startJob EXCEPT !.at = "ready"]
    /\ crossed' = (crossed \/ mu_stopping)
    /\ UNCHANGED <<window, process, watch, core, lostCore, exitMet, unwanted>>

(* profile_stop(false, true, true), then the unlock the starting thread    *)
(* waits for.                                                              *)
UiStopForStart ==
    /\ NextTask("stop")
    /\ uiQueue' = Tail(uiQueue)
    /\ profile_stop(TRUE, "handshake")
    /\ startJob' = IF StopTaken THEN startJob
                   ELSE [startJob EXCEPT !.at = "ready"]
    /\ crossed' = (crossed \/ mu_stopping)
    /\ UNCHANGED <<window, process, watch, core, lostCore, exitMet, unwanted>>

(* The last task of a profile_stop unlocks mu_stopping.                    *)
UiUnlock ==
    /\ NextTask("unlock")
    /\ uiQueue' = Tail(uiQueue)
    /\ stopJob' = NoStop
    /\ exitMet' = (exitMet \/ coresAt \in {"check", "lock"})
    /\ UNCHANGED <<window, uiWait, startJob, process, watch, core, crossed,
                   lostCore, unwanted>>

(* "CoreStarted,<id>" from DS_cores.                                       *)
UiCoreStarted ==
    /\ NextTask("start")
    /\ profile_start(Head(uiQueue).id, Tail(uiQueue))
    /\ UNCHANGED <<window, uiWait, stopJob, process, whenUp, coresAt,
                   restarting, coreTimer, restartDue, failed_to_start, core,
                   history>>

(* "Crashed", when an extra process has ended: profile_stop().             *)
UiCrashed ==
    /\ NextTask("crashed")
    /\ uiQueue' = Tail(uiQueue)
    /\ profile_stop(FALSE, "no")
    /\ UNCHANGED <<window, startJob, process, watch, core, history>>

-----------------------------------------------------------------------------
(* The thread of profile_start *)

(* StartEntity sends Start, or fails first: no valid configuration, or no  *)
(* core that listens.                                                      *)
StartCall ==
    /\ startJob.at = "ready"
    /\ \/ /\ core_running /\ Core!CallStart("starter", FALSE)
          /\ startJob' = [startJob EXCEPT !.at = "calling"]
          /\ UNCHANGED profileOf
       \/ startJob' = NoStart /\ UNCHANGED core
    /\ UNCHANGED <<window, ui, stopJob, process, watch, history>>

(* Mutant: the answer is not looked at.                                    *)
StartAnswered_Any ==
    /\ startJob.at = "calling"
    /\ Core!Return("starter")
    /\ running' = startJob.id /\ started_id' = startJob.id
    /\ startJob' = NoStart
    /\ UNCHANGED <<prepare_exit, ui, stopJob, process, watch, profileOf,
                   history>>

(* The answer: UpdateStartedId and running = ent, or a message box.        *)
StartAnswered ==
    /\ startJob.at = "calling"
    /\ Core!Return("starter")
    /\ IF pc["starter"] = "ok"
       THEN running' = startJob.id /\ started_id' = startJob.id
       ELSE UNCHANGED <<running, started_id>>
    /\ startJob' = NoStart
    /\ UNCHANGED <<prepare_exit, ui, stopJob, process, watch, profileOf,
                   history>>

-----------------------------------------------------------------------------
(* The thread of profile_stop *)

(* The thread logs running->DisplayTypeAndName() first.  After a crash of  *)
(* the core there is nothing to send; otherwise Stop is sent, or fails for *)
(* want of a core that listens.                                            *)
StopCall ==
    /\ stopJob.at = "begun"
    /\ running # None
    /\ \/ /\ ~stopJob.crash /\ core_running
          /\ Core!CallStop("stopper")
          /\ stopJob' = [stopJob EXCEPT !.at = "calling"]
          /\ UNCHANGED profileOf
       \/ /\ stopJob.crash \/ ~core_running \/ ~alive
          /\ stopJob' = [stopJob EXCEPT !.at = "finishing"]
          /\ UNCHANGED core
    /\ UNCHANGED <<window, ui, startJob, process, watch, history>>

(* The same with running == nullptr: the program ends here.                *)
StopSegfault ==
    /\ stopJob.at = "begun"
    /\ running = None
    /\ stopJob' = [stopJob EXCEPT !.at = "segfault"]
    /\ UNCHANGED <<window, ui, startJob, process, watch, core, history>>

(* An error is only shown: the profile counts as stopped all the same.     *)
StopAnswered ==
    /\ stopJob.at = "calling"
    /\ Core!Return("stopper")
    /\ stopJob' = [stopJob EXCEPT !.at = "finishing"]
    /\ UNCHANGED <<window, ui, startJob, process, watch, profileOf, history>>

(* Mutant: the thread that waits for the blocker is not released.          *)
StopFinish_NoRelease ==
    /\ stopJob.at = "finishing"
    /\ running' = None
    /\ started_id' = IF stopJob.manual THEN None ELSE started_id
    /\ uiQueue' = Append(uiQueue, Task("unlock", None))
    /\ stopJob' = [stopJob EXCEPT !.at = "done"]
    /\ UNCHANGED <<prepare_exit, uiWait, startJob, coresAt, process, whenUp,
                   coresQueue, restarting, coreTimer, restartDue,
                   failed_to_start, core, history>>

(* The blocker is unlocked for the thread that waits for this stop, and    *)
(* the unlock of mu_stopping is left to the UI thread.                     *)
StopFinish ==
    /\ stopJob.at = "finishing"
    /\ running' = None
    /\ started_id' = IF stopJob.manual THEN None ELSE started_id
    /\ uiQueue' = Append(uiQueue, Task("unlock", None))
    /\ stopJob' = [stopJob EXCEPT !.at = "done"]
    /\ startJob' = IF uiWait = "handshake" THEN [startJob EXCEPT !.at = "ready"]
                   ELSE startJob
    /\ uiWait' = IF uiWait \in {"stop", "handshake"} THEN "no" ELSE uiWait
    /\ coresAt' = IF coresAt = "wait" THEN "limit" ELSE coresAt
    /\ UNCHANGED <<prepare_exit, process, whenUp, coresQueue, restarting,
                   coreTimer, restartDue, failed_to_start, core, history>>

-----------------------------------------------------------------------------
(* The core: its handlers, and the process *)

CoreHandles ==
    /\ \/ /\ Core!StartCheck("starter") \/ Core!StartCreateFails("starter")
          /\ UNCHANGED profileOf
       \/ /\ Core!StartCreate("starter")
          /\ profileOf' = [profileOf EXCEPT ![BoxInstance'] = startJob.id]
       \/ /\ \/ Core!StopCheck("stopper") \/ Core!StopClose("stopper")
             \/ Core!StopReset("stopper")
          /\ UNCHANGED profileOf
    /\ UNCHANGED <<window, ui, jobs, process, watch, history>>

(* The process ends, in whatever state it is.                              *)
ProcessEnds ==
    /\ proc \in {"launched", "booting", "listening"}
    /\ proc' = "exited"
    /\ IF proc = "listening" THEN Core!Die
       ELSE UNCHANGED <<alive, BoxInstance, ExtraProcess, open, extras, pc,
                        needExtra, overlapped, refused, spoiled>>
    /\ lostCore' = (lostCore \/ startJob.at = "calling")
    /\ UNCHANGED <<core_running, hello, profileOf>>

CoreDies ==
    /\ ProcessEnds
    /\ UNCHANGED <<window, ui, jobs, watch, crossed, exitMet, unwanted>>

CorePanics ==
    /\ Core!Panic("stopper")
    /\ proc' = "exited"
    /\ lostCore' = (lostCore \/ startJob.at = "calling")
    /\ UNCHANGED <<window, ui, jobs, core_running, hello, watch, profileOf,
                   crossed, exitMet, unwanted>>

CoreListens ==
    /\ proc = "booting"
    /\ proc' = "listening"
    /\ hello' = TRUE
    /\ Core!Boot
    /\ UNCHANGED <<window, ui, jobs, core_running, watch, profileOf, history>>

(* An extra process of the core ends; DS_cores reads the message.          *)
ExtraExits ==
    /\ proc = "listening"
    /\ uiQueue' = Append(uiQueue, Task("crashed", None))
    /\ UNCHANGED <<window, uiWait, jobs, process, watch, core, history>>

-----------------------------------------------------------------------------
(* DS_cores: the signals of the QProcess, the tasks posted to it.  Inside   *)
(* Kill only the signals are served.                                        *)

CoresLoop == coresAt = "idle" /\ uiWait # "killing"

CoreLaunched ==
    /\ coresAt = "idle"
    /\ proc = "launched"
    /\ proc' = "booting" /\ core_running' = TRUE
    /\ UNCHANGED <<window, ui, jobs, hello, watch, core, history>>

ReadHello ==
    /\ coresAt = "idle"
    /\ hello
    /\ hello' = FALSE
    /\ uiQueue' = IF whenUp = None THEN uiQueue
                  ELSE Append(uiQueue, Task("start", whenUp))
    /\ whenUp' = None
    /\ UNCHANGED <<window, uiWait, jobs, proc, core_running, coresQueue,
                   coresAt, restarting, coreTimer, restartDue,
                   failed_to_start, core, history>>

CoresTask ==
    /\ CoresLoop
    /\ coresQueue # << >>
    /\ whenUp' = Head(coresQueue)
    /\ coresQueue' = Tail(coresQueue)
    /\ UNCHANGED <<window, ui, jobs, process, coresAt, restarting, coreTimer,
                   restartDue, failed_to_start, core, history>>

(* stateChanged(NotRunning): the handler locks `restarting` and goes on to  *)
(* profile_stop, or does nothing.                                           *)
ExitHandled ==
    /\ ~prepare_exit /\ ~failed_to_start /\ ~restarting
    /\ coresAt' = "check" /\ restarting' = TRUE

ExitIgnored ==
    /\ prepare_exit \/ failed_to_start \/ restarting
    /\ UNCHANGED <<coresAt, restarting>>

(* The core is not running any more; what it printed has been read.        *)
CoreExited ==
    /\ coresAt = "idle"
    /\ proc = "exited" /\ ~hello
    /\ proc' = "off" /\ core_running' = FALSE
    /\ ExitHandled \/ ExitIgnored
    /\ exitMet' = (exitMet \/ mu_stopping)
    /\ UNCHANGED <<window, ui, jobs, hello, whenUp, coresQueue, coreTimer,
                   restartDue, failed_to_start, core, crossed, lostCore,
                   unwanted>>

(* QProcess::FailedToStart.  Where stateChanged is emitted before           *)
(* errorOccurred, as Qt does on Unix, the first failure is handled as an    *)
(* exit; the flag then turns every later exit away.                         *)
CoreFailsToStart ==
    /\ coresAt = "idle"
    /\ proc = "launched"
    /\ proc' = "off"
    /\ failed_to_start' = TRUE
    /\ ExitHandled \/ UNCHANGED <<coresAt, restarting>>
    /\ exitMet' = (exitMet \/ mu_stopping)
    /\ UNCHANGED <<window, ui, jobs, core_running, hello, whenUp, coresQueue,
                   coreTimer, restartDue, core, crossed, lostCore, unwanted>>

(* profile_stop(true, true) on this thread: it looks at running ...        *)
CoresCheck ==
    /\ coresAt = "check"
    /\ coresAt' = IF running = None THEN "limit" ELSE "lock"
    /\ UNCHANGED <<window, ui, jobs, process, whenUp, coresQueue, restarting,
                   coreTimer, restartDue, failed_to_start, core, history>>

(* ... and tries mu_stopping afterwards.                                   *)
CoresLock ==
    /\ coresAt = "lock"
    /\ IF mu_stopping
       THEN coresAt' = "limit" /\ UNCHANGED stopJob
       ELSE /\ coresAt' = "wait"
            /\ stopJob' = [at |-> "begun", crash |-> TRUE, manual |-> FALSE]
    /\ exitMet' = (exitMet \/ mu_stopping)
    /\ UNCHANGED <<window, ui, startJob, process, whenUp, coresQueue,
                   restarting, coreTimer, restartDue, failed_to_start, core,
                   crossed, lostCore, unwanted>>

(* Two exits within ten seconds: no restart, and `restarting` stays locked. *)
RestartTooSoon ==
    /\ coresAt = "limit"
    /\ coreTimer
    /\ coreTimer' = FALSE
    /\ coresAt' = "idle"
    /\ UNCHANGED <<window, ui, jobs, process, whenUp, coresQueue, restarting,
                   restartDue, failed_to_start, core, history>>

PlanRestart ==
    /\ coresAt = "limit"
    /\ coreTimer' = TRUE
    /\ whenUp' = started_id
    /\ restarting' = FALSE
    /\ restartDue' = TRUE
    /\ coresAt' = "idle"
    /\ exitMet' = (exitMet \/ (mu_stopping /\ ~stopJob.crash))
    /\ UNCHANGED <<window, ui, jobs, process, coresQueue, failed_to_start, core,
                   crossed, lostCore, unwanted>>

Restart ==
    /\ CoresLoop
    /\ restartDue
    /\ restartDue' = FALSE
    /\ proc' = IF restarting THEN proc ELSE "launched"
    /\ UNCHANGED <<window, ui, jobs, core_running, hello, whenUp, coresQueue,
                   coresAt, restarting, coreTimer, failed_to_start, core,
                   history>>

(* Kill for StopVPNProcess.                                                *)
KillCore ==
    /\ CoresLoop
    /\ uiWait = "kill"
    /\ uiWait' = "killing"
    /\ \/ ProcessEnds
       \/ /\ proc \in {"off", "exited"}
          /\ UNCHANGED <<process, core, lostCore>>
    /\ UNCHANGED <<window, uiQueue, jobs, watch, crossed, exitMet, unwanted>>

KillDone ==
    /\ uiWait = "killing" /\ coresAt = "idle" /\ proc = "off"
    /\ uiWait' = "no"
    /\ UNCHANGED <<window, uiQueue, jobs, process, watch, core, history>>

-----------------------------------------------------------------------------
(* At the start DS_cores has just started the process, with the profile to  *)
(* remember.                                                                *)
Init ==
    /\ running = None /\ started_id = None /\ prepare_exit = FALSE
    /\ uiQueue = << >> /\ uiWait = "no"
    /\ startJob = NoStart /\ stopJob = NoStop
    /\ proc = "launched" /\ core_running = FALSE /\ hello = FALSE
    /\ whenUp \in Ids \cup {None} /\ coresQueue = << >> /\ coresAt = "idle"
    /\ restarting = FALSE /\ coreTimer = FALSE /\ restartDue = FALSE
    /\ failed_to_start = FALSE
    /\ Core!Init
    /\ profileOf = [b \in Boxes |-> None]
    /\ crossed = FALSE /\ lostCore = FALSE /\ exitMet = FALSE
    /\ unwanted = FALSE

UserStep == \/ \E i \in Ids : UserStart(i)
            \/ UserStop \/ GroupStop \/ StopVPNProcess \/ PrepareExit

UiStep == UiStopForStart \/ UiUnlock \/ UiCoreStarted \/ UiCrashed

StartStep == StartCall \/ StartAnswered
StopStep  == StopCall \/ StopSegfault \/ StopAnswered \/ StopFinish

CoresStep == \/ CoreLaunched \/ ReadHello \/ CoresTask
             \/ CoreExited \/ CoresCheck \/ CoresLock
             \/ RestartTooSoon \/ PlanRestart \/ Restart
             \/ KillCore \/ KillDone

FaultStep == CoreDies \/ CoreFailsToStart \/ ExtraExits

(* The program has ended with a null pointer.                              *)
Ended == stopJob.at = "segfault"

Next ==
    /\ ~Ended
    /\ \/ UserStep \/ UiStep \/ StartStep \/ StopStep \/ CoresStep
       \/ CoreHandles \/ CorePanics \/ CoreListens
       \/ FaultStep

(* The threads run, the core answers and its process comes up: what the     *)
(* user does and what goes wrong is never certain to happen.                *)
Fairness ==
    /\ WF_vars(~Ended /\ UiStep)
    /\ WF_vars(~Ended /\ StartStep)
    /\ WF_vars(~Ended /\ StopStep)
    /\ WF_vars(~Ended /\ CoresStep)
    /\ WF_vars(~Ended /\ (CoreHandles \/ CorePanics))

Spec == Init /\ [][Next]_vars /\ Fairness

-----------------------------------------------------------------------------
(* Properties *)

Tasks     == [kind : {"stop", "unlock", "start", "crashed"},
              id : Ids \cup {None}]
StartJobs == [at : {"none", "waiting", "ready", "calling"},
              id : Ids \cup {None}]
StopJobs  == [at : {"none", "begun", "calling", "finishing", "done", "segfault"},
              crash : BOOLEAN, manual : BOOLEAN]

WindowTypes ==
    /\ running \in Ids \cup {None} /\ started_id \in Ids \cup {None}
    /\ prepare_exit \in BOOLEAN
    /\ uiQueue \in Seq(Tasks)
    /\ uiWait \in {"no", "stop", "handshake", "kill", "killing"}
    /\ startJob \in StartJobs /\ stopJob \in StopJobs

WatchTypes ==
    /\ proc \in {"off", "launched", "booting", "listening", "exited"}
    /\ core_running \in BOOLEAN /\ hello \in BOOLEAN
    /\ whenUp \in Ids \cup {None}
    /\ coresQueue \in Seq(Ids)
    /\ coresAt \in {"idle", "check", "lock", "wait", "limit"}
    /\ restarting \in BOOLEAN /\ coreTimer \in BOOLEAN /\ restartDue \in BOOLEAN
    /\ failed_to_start \in BOOLEAN

(* Every variable of the window, of the watch and of the core keeps its    *)
(* type.                                                                   *)
TypeOK == /\ WindowTypes /\ WatchTypes
          /\ Core!TypeOK /\ profileOf \in [Boxes -> Ids \cup {None}]

(* Nobody is in the middle of a start, a stop or a change of the process.  *)
AtRest == /\ ~mu_starting /\ ~mu_stopping
          /\ coresAt = "idle" /\ proc \in {"off", "listening"}
          /\ uiWait = "no"

(* DS_cores has turned an exit away, so nobody cleaned up after it: the     *)
(* program is ending, the process once failed to start, or `restarting` was *)
(* left locked after two exits within ten seconds.                          *)
ExitsIgnored == prepare_exit \/ failed_to_start \/ restarting

(* At rest the window and the core agree: the profile shown as running is  *)
(* the one the core's instance was created for, and none when the core is  *)
(* down.  Exceptions are a start whose queued stop met another stop, a     *)
(* core that died while it was starting a profile, an exit handled during  *)
(* another stop, and a core that is down when exits are ignored.           *)
WindowAndCoreAgree ==
    AtRest => \/ crossed \/ lostCore \/ exitMet
              \/ proc = "off" /\ ExitsIgnored
              \/ /\ running = None <=> BoxInstance = None
                 /\ running # None => profileOf[BoxInstance] = running

(* profile_start and profile_stop keep the RPC server within what it can   *)
(* serve: no Start reaches a core with an instance, no two calls overlap.  *)
CoreIsUsedInTurn == overlapped \/ refused => crossed

(* profile_stop looks at running before it locks mu_stopping, and its      *)
(* thread uses it after: it is still set, unless the handler of the core's *)
(* exit did so during another stop.                                        *)
StopHasProfile == stopJob.at = "begun" => running # None \/ exitMet

(* A profile the user has stopped, with no start pending, is not started   *)
(* again by the restart of the core, unless the core's exit was handled    *)
(* while that stop was under way.                                          *)
UserStopHonoured == unwanted /\ ~mu_stopping => exitMet \/ ~StartPending

(***************************************************************************)
(* What the properties rest on, part by part.                              *)
(***************************************************************************)

(* A queued start has a profile.  The stop a profile_start waits for and   *)
(* the unlock a profile_stop ends with are queued once, and nothing else   *)
(* happens to the two locks until they are run.                            *)
QueueInv ==
    /\ \A k \in DOMAIN uiQueue :
        /\ uiQueue[k].kind = "start" => uiQueue[k].id \in Ids
        /\ uiQueue[k].kind = "stop" =>
              startJob.at = "waiting" /\ uiWait # "handshake"
        /\ uiQueue[k].kind = "unlock" => stopJob.at = "done"
    /\ \A k, l \in DOMAIN uiQueue :
        uiQueue[k].kind = uiQueue[l].kind /\ uiQueue[k].kind \in {"stop", "unlock"}
            => k = l

(* A stop whose thread has not ended.                                      *)
Stopping == stopJob.at \in {"begun", "calling", "finishing", "segfault"}

(* The UI thread lets a start wait only for a stop that is not the one for *)
(* a crash; DS_cores waits for that one, which sends nothing.              *)
JobsInv ==
    /\ mu_starting => startJob.id \in Ids
    /\ uiWait = "handshake" =>
          startJob.at = "waiting" /\ Stopping /\ ~stopJob.crash
    /\ stopJob.crash => stopJob.at # "calling" /\ ~stopJob.manual
    /\ coresAt = "wait" <=> stopJob.crash /\ Stopping

(* Each thread has a call of its own kind with the core, or none.          *)
CallsInv ==
    /\ pc["starter"] \in {"idle", "start", "create", "ok", "error", "broken"}
    /\ pc["stopper"] \in {"idle", "stop", "close", "reset", "ok", "broken"}
    /\ startJob.at = "calling" <=> pc["starter"] # "idle"
    /\ stopJob.at = "calling" <=> pc["stopper"] # "idle"
    /\ \A c \in {"starter", "stopper"} : ~needExtra[c]

(* What DS_cores knows of the core process.                                *)
ProcessInv ==
    /\ alive <=> proc = "listening"
    /\ ~alive => BoxInstance = None /\ Core!Serving = {}
    /\ proc \in {"booting", "listening"} => core_running
    /\ core_running => proc \in {"booting", "listening", "exited"}
    /\ coresAt # "idle" => proc = "off" /\ restarting
    /\ restartDue => proc = "off"

(* While no start went on without its stop, a start that is under way      *)
(* finds nothing running and meets no call of a stop, and what the core    *)
(* runs is either shown or about to be.                                    *)
TurnInv ==
    \/ crossed
    \/ /\ startJob.at \in {"ready", "calling"} =>
             running = None /\ (stopJob.at \in {"none", "done"} \/ stopJob.crash)
       /\ stopJob.at = "finishing" \/ pc["stopper"] \in {"ok", "broken"} =>
             BoxInstance = None
       /\ BoxInstance # None => running # None \/ pc["starter"] = "ok"
       /\ ~overlapped /\ ~refused

(* And while no exit of the core crossed a start or a stop, what is shown  *)
(* is what the core runs, or the stop that will clear it is still to come. *)
ShownInv ==
    \/ crossed \/ lostCore \/ exitMet
    \/ /\ coresAt = "limit" => running = None
       /\ startJob.at = "calling" => proc = "listening"
       /\ pc["starter"] = "ok" =>
             BoxInstance # None /\ profileOf[BoxInstance] = startJob.id
       /\ running # None =>
             \/ proc = "exited"
             \/ /\ proc = "listening"
                /\ \/ BoxInstance # None /\ profileOf[BoxInstance] = running
                   \/ stopJob.at \in {"calling", "finishing"}
             \/ /\ proc = "off" /\ ~restartDue
                /\ \/ coresAt \in {"check", "lock", "wait"}
                   \/ coresAt = "idle" /\ ExitsIgnored

(* DS_cores still has a profile to stop when it comes to the lock.         *)
StopInv ==
    /\ StopHasProfile
    /\ coresAt = "lock" => running # None \/ mu_stopping \/ exitMet

(* What the user stopped is remembered at most until that stop has ended.  *)
UnwantedInv ==
    unwanted /\ ~exitMet =>
        /\ ~StartPending
        /\ started_id = None \/ (Stopping /\ stopJob.manual)

(* The inductive invariant behind the properties above, and the agreement  *)
(* it comes down to at rest.                                               *)
WindowInv == /\ TypeOK /\ QueueInv /\ JobsInv /\ CallsInv /\ ProcessInv
             /\ TurnInv /\ ShownInv /\ StopInv /\ UnwantedInv
             /\ WindowAndCoreAgree

(* Every profile_start that takes mu_starting gives it back: its handshake *)
(* with the queued stop, the stop's thread and the core always answer.     *)
StartEnds == mu_starting ~> (~mu_starting \/ Ended)

(* The UI thread never blocks for good, on a stop or on DS_cores.          *)
UiComesBack == uiWait # "no" ~> (uiWait = "no" \/ Ended)

(* Neither the starting lock nor the UI thread is held for good.           *)
NothingHangs == StartEnds /\ UiComesBack
=============================================================================
