----------------------------- MODULE CoreServer -----------------------------
(***************************************************************************)
(* The RPC server of nekobox_core (core/server/server.go): the handlers    *)
(* Start and Stop, the globals of core/server/internal/utils.go they share *)
(* and the extra process of internal/process/process.go.                   *)
(*                                                                         *)
(* Thrift serves every connection in a goroutine of its own and the        *)
(* handlers take no lock, so the handlers of two clients interleave at     *)
(* every read or write of a global.  A client is one connection: it sends  *)
(* a call and waits for the answer.  `open` holds the sing-box instances   *)
(* that nobody has begun to close: CloseWithTimeout closes in a goroutine  *)
(* and leaves an instance that is slow behind after two seconds, which     *)
(* changes no global.                                                      *)
(***************************************************************************)
EXTENDS FiniteSets

CONSTANTS
    Clients,    \* connections to the server
    Boxes,      \* names for sing-box instances: a bound on those open at once
    Procs,      \* names for extra processes: a bound on those running at once
    None,       \* nil
    Dud         \* a *process.Process whose Start() failed: its cmd.Process is nil

ASSUME SentinelAssumption ==
    None \notin Boxes \cup Procs /\ Dud \notin Procs \cup {None}

VARIABLES
    alive,          \* is the core process running
    BoxInstance,    \* internal.BoxInstance
    ExtraProcess,   \* internal.ExtraProcess
    open,           \* instances created that nobody has begun to close
    extras,         \* extra processes running on the machine
    pc,             \* client -> where the handler of its call is
    needExtra       \* client -> NeedExtraProcess of its Start

(***************************************************************************)
(* History variables, read by no action.                                   *)
(***************************************************************************)
VARIABLES
    overlapped,     \* a call was sent while another was being handled
    refused,        \* a Start found an instance already running
    spoiled         \* a Start failed with its extra process, or after starting it

globals == <<BoxInstance, ExtraProcess>>
calls   == <<pc, needExtra>>
history == <<overlapped, refused, spoiled>>
coreVars == <<alive, globals, open, extras, calls, history>>

(* The places of a handler, in the order of the code.                      *)
Handling == {"start", "extra", "create", "stop", "close", "reset"}
Answered == {"ok", "error", "broken"}

Serving == {c \in Clients : pc[c] \in Handling}

Goto(c, p) == pc' = [pc EXCEPT ![c] = p]

-----------------------------------------------------------------------------
(* A client's side of a call *)

Call(c, p, x) ==
    /\ alive
    /\ pc[c] = "idle"
    /\ Goto(c, p)
    /\ needExtra' = [needExtra EXCEPT ![c] = x]
    /\ overlapped' = (overlapped \/ Serving # {})
    /\ UNCHANGED <<alive, globals, open, extras, refused, spoiled>>

CallStart(c, x) == Call(c, "start", x)
CallStop(c)     == Call(c, "stop", FALSE)

(* The client reads the answer, or finds the connection broken.            *)
Return(c) ==
    /\ pc[c] \in Answered
    /\ Goto(c, "idle")
    /\ needExtra' = [needExtra EXCEPT ![c] = FALSE]
    /\ UNCHANGED <<alive, globals, open, extras, history>>

-----------------------------------------------------------------------------
(* Start *)

(* The deferred function of Start: an error forgets the running instance.  *)
Fail(c) ==
    /\ BoxInstance' = None
    /\ Goto(c, "error")

StartCheck(c) ==
    /\ pc[c] = "start"
    /\ IF BoxInstance # None
       THEN /\ Fail(c)
            /\ refused' = TRUE
       ELSE /\ Goto(c, IF needExtra[c] THEN "extra" ELSE "create")
            /\ UNCHANGED <<BoxInstance, refused>>
    /\ UNCHANGED <<alive, ExtraProcess, open, extras, needExtra, overlapped,
                   spoiled>>

(* The arguments or the file extra.conf are refused before the process.    *)
StartExtraConfigFails(c) ==
    /\ pc[c] = "extra"
    /\ Fail(c)
    /\ UNCHANGED <<alive, ExtraProcess, open, extras, needExtra, history>>

(* NewProcess takes the place of whatever ExtraProcess was.                *)
StartExtraFails(c) ==
    /\ pc[c] = "extra"
    /\ Fail(c)
    /\ ExtraProcess' = Dud
    /\ spoiled' = TRUE
    /\ UNCHANGED <<alive, open, extras, needExtra, overlapped, refused>>

StartExtra(c) ==
    /\ pc[c] = "extra"
    /\ \E p \in Procs \ extras :
        /\ ExtraProcess' = p
        /\ extras' = extras \cup {p}
    /\ Goto(c, "create")
    /\ UNCHANGED <<alive, BoxInstance, open, needExtra, history>>

(* boxmain.Create fails: the extra process it was started for stays.       *)
StartCreateFails(c) ==
    /\ pc[c] = "create"
    /\ Fail(c)
    /\ spoiled' = (spoiled \/ needExtra[c])
    /\ UNCHANGED <<alive, ExtraProcess, open, extras, needExtra, overlapped,
                   refused>>

StartCreate(c) ==
    /\ pc[c] = "create"
    /\ \E b \in Boxes \ (open \cup {BoxInstance}) :
        /\ BoxInstance' = b
        /\ open' = open \cup {b}
    /\ Goto(c, "ok")
    /\ UNCHANGED <<alive, ExtraProcess, extras, needExtra, history>>

-----------------------------------------------------------------------------
(* Stop *)

(* Mutant: nobody looks whether an instance runs.                          *)
StopCheck_Unguarded(c) ==
    /\ pc[c] = "stop"
    /\ Goto(c, "close")
    /\ UNCHANGED <<alive, globals, open, extras, needExtra, history>>

StopCheck(c) ==
    /\ pc[c] = "stop"
    /\ Goto(c, IF BoxInstance = None THEN "ok" ELSE "close")
    /\ UNCHANGED <<alive, globals, open, extras, needExtra, history>>

(* Mutant: the instance is only cancelled.                                 *)
StopClose_Cancels(c) ==
    /\ pc[c] = "close"
    /\ BoxInstance # None
    /\ Goto(c, "reset")
    /\ UNCHANGED <<alive, globals, open, extras, needExtra, history>>

(* BoxInstance is read again for CloseWithTimeout; closing twice does      *)
(* nothing (os.ErrClosed).                                                 *)
StopClose(c) ==
    /\ pc[c] = "close"
    /\ BoxInstance # None
    /\ open' = open \ {BoxInstance}
    /\ Goto(c, "reset")
    /\ UNCHANGED <<alive, globals, extras, needExtra, history>>

(* Mutant: the extra process is forgotten but not killed.                  *)
StopReset_KeepsExtra(c) ==
    /\ pc[c] = "reset"
    /\ ExtraProcess # Dud
    /\ BoxInstance' = None
    /\ ExtraProcess' = None
    /\ Goto(c, "ok")
    /\ UNCHANGED <<alive, open, extras, needExtra, history>>

(* Mutant: an instance that is slow to close is kept in BoxInstance.       *)
StopReset_KeepsBox(c) ==
    /\ pc[c] = "reset"
    /\ ExtraProcess # Dud
    /\ ExtraProcess' = None
    /\ extras' = extras \ {ExtraProcess}
    /\ Goto(c, "ok")
    /\ UNCHANGED <<alive, BoxInstance, open, needExtra, history>>

StopReset(c) ==
    /\ pc[c] = "reset"
    /\ ExtraProcess # Dud
    /\ BoxInstance' = None
    /\ ExtraProcess' = None
    /\ extras' = extras \ {ExtraProcess}
    /\ Goto(c, "ok")
    /\ UNCHANGED <<alive, open, needExtra, history>>

(* Stop() of a process that never started dereferences nil in the          *)
(* handler's goroutine.  Whether Thrift recovers such a panic is not this  *)
(* repository's code: here the handler ends and the connection breaks, in  *)
(* Panic below the core ends.                                              *)
StopRecovered(c) ==
    /\ pc[c] = "reset"
    /\ ExtraProcess = Dud
    /\ BoxInstance' = None
    /\ Goto(c, "broken")
    /\ UNCHANGED <<alive, ExtraProcess, open, extras, needExtra, history>>

-----------------------------------------------------------------------------
(* The process *)

(* The core ends: killed by the program, out of memory, or by itself.  The *)
(* extra processes are children that nobody kills.                         *)
Die ==
    /\ alive
    /\ alive' = FALSE
    /\ BoxInstance' = None /\ ExtraProcess' = None
    /\ open' = {}
    /\ pc' = [c \in Clients |-> IF pc[c] \in Handling THEN "broken" ELSE pc[c]]
    /\ needExtra' = [c \in Clients |-> FALSE]
    /\ overlapped' = FALSE /\ refused' = FALSE
    /\ spoiled' = (extras # {})
    /\ UNCHANGED extras

(* CloseWithTimeout of a nil instance panics in its own goroutine, a dud   *)
(* extra process in the handler's.                                         *)
Panic(c) ==
    /\ \/ pc[c] = "close" /\ BoxInstance = None
       \/ pc[c] = "reset" /\ ExtraProcess = Dud
    /\ Die

Boot ==
    /\ ~alive
    /\ alive' = TRUE
    /\ UNCHANGED <<globals, open, extras, calls, history>>

(* An extra process ends by itself.                                        *)
ExtraExit(p) ==
    /\ p \in extras
    /\ extras' = extras \ {p}
    /\ UNCHANGED <<alive, globals, open, calls, history>>

-----------------------------------------------------------------------------
Init ==
    /\ alive = FALSE
    /\ BoxInstance = None /\ ExtraProcess = None
    /\ open = {} /\ extras = {}
    /\ pc = [c \in Clients |-> "idle"]
    /\ needExtra = [c \in Clients |-> FALSE]
    /\ overlapped = FALSE /\ refused = FALSE /\ spoiled = FALSE

Start(c) == \/ StartCheck(c)
            \/ StartExtraConfigFails(c) \/ StartExtraFails(c) \/ StartExtra(c)
            \/ StartCreateFails(c) \/ StartCreate(c)

Stop(c) == StopCheck(c) \/ StopClose(c) \/ StopReset(c) \/ StopRecovered(c)

Next ==
    \/ \E c \in Clients :
        \/ \E x \in BOOLEAN : CallStart(c, x)
        \/ CallStop(c) \/ Return(c)
        \/ Start(c) \/ Stop(c) \/ Panic(c)
    \/ Die \/ Boot
    \/ \E p \in Procs : ExtraExit(p)

Spec == Init /\ [][Next]_coreVars

-----------------------------------------------------------------------------
(* Properties *)

(* Every variable keeps its type.                                          *)
TypeOK ==
    /\ alive \in BOOLEAN
    /\ BoxInstance \in Boxes \cup {None}
    /\ ExtraProcess \in Procs \cup {None, Dud}
    /\ open \in SUBSET Boxes
    /\ extras \in SUBSET Procs
    /\ pc \in [Clients -> {"idle"} \cup Handling \cup Answered]
    /\ needExtra \in [Clients -> BOOLEAN]
    /\ overlapped \in BOOLEAN /\ refused \in BOOLEAN /\ spoiled \in BOOLEAN

(* BoxInstance is closed only while the Stop that closed it is about to    *)
(* clear it: every other handler that reads it (Test, QueryStats) finds a  *)
(* running instance or nil.  No overlap of calls breaks this.              *)
BoxIsOpen ==
    BoxInstance # None /\ BoxInstance \notin open
        => \E c \in Clients : pc[c] = "reset"

(* An instance that runs is BoxInstance, so that Stop can close it: true   *)
(* as long as calls do not overlap and no Start meets a running instance,  *)
(* whose deferred function forgets it.                                     *)
NothingRunsUnseen ==
    open \subseteq {BoxInstance} \/ overlapped \/ refused

(* CloseWithTimeout is called on an instance: the check at the head of     *)
(* Stop still holds at its second read, unless calls overlapped.           *)
StopFindsInstance ==
    \A c \in Clients : pc[c] = "close" => BoxInstance # None \/ overlapped

(* What else StartCheck and StopClose rest on while calls do not overlap:  *)
(* one handler at a time, no instance before Create, none left open when   *)
(* Stop clears BoxInstance.                                                *)
OneAtATime ==
    overlapped \/ /\ \A c, d \in Serving : c = d
                  /\ \A c \in Clients :
                        /\ pc[c] \in {"extra", "create"} => BoxInstance = None
                        /\ pc[c] = "reset" => BoxInstance \notin open

(* The inductive invariant behind the properties above.                    *)
InstanceInv == /\ TypeOK /\ BoxIsOpen /\ NothingRunsUnseen
               /\ StopFindsInstance /\ OneAtATime

(* Between calls an extra process runs only with the instance it belongs   *)
(* to, and ExtraProcess is a handle Stop can use, unless calls overlapped, *)
(* a Start met a running instance, or an earlier Start failed at or after  *)
(* the extra process.                                                      *)
ExtraGoesWithBox ==
    \/ overlapped \/ refused \/ spoiled
    \/ /\ ExtraProcess # Dud
       /\ extras \subseteq {ExtraProcess}
       /\ Serving = {} /\ BoxInstance = None => extras = {}

(***************************************************************************)
(* The handlers, which take no lock and go through the globals in several  *)
(* steps, keep the contract of a server whose calls are atomic.            *)
(***************************************************************************)
PhaseOf(p) == IF p \in {"start", "extra", "create"} THEN "starting"
              ELSE IF p \in {"stop", "close"} THEN "stopping"
              ELSE IF p = "reset" THEN "stopped" ELSE p

Phase == [c \in Clients |-> PhaseOf(pc[c])]

Contract == INSTANCE CoreContract WITH
    running <- open, client <- Phase, trusted <- ~(overlapped \/ refused)

(* Start and Stop are what CoreContract promises to clients that call one  *)
(* after the other, through failures, extra processes, panics and the      *)
(* death of the core.                                                      *)
KeepsContract == Contract!Spec
=============================================================================
