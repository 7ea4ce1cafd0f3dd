-------------------------- MODULE CoreServerProofs --------------------------
(***************************************************************************)
(* What holds of the RPC server's globals for any number of clients, of    *)
(* instances and of extra processes.                                       *)
(***************************************************************************)
EXTENDS CoreServer, TLAPS

(* The invariant holds of a server that has not been started.              *)
LEMMA InitHolds == Init => InstanceInv
  BY SentinelAssumption
     DEF Init, InstanceInv, TypeOK, BoxIsOpen, NothingRunsUnseen,
         StopFindsInstance, OneAtATime, Serving, Handling, Answered

(* Every handler step, call and fault keeps the types.                     *)
LEMMA NextType == TypeOK /\ [Next]_coreVars => TypeOK'
  <1> SUFFICES ASSUME TypeOK, [Next]_coreVars PROVE TypeOK'
    OBVIOUS
  <1> USE DEF TypeOK, Handling, Answered
  <1>1. ASSUME NEW c \in Clients, NEW x \in BOOLEAN, CallStart(c, x)
        PROVE  TypeOK'
    BY <1>1 DEF CallStart, Call, Goto, globals
  <1>2. ASSUME NEW c \in Clients, CallStop(c) PROVE TypeOK'
    BY <1>2 DEF CallStop, Call, Goto, globals
  <1>3. ASSUME NEW c \in Clients, Return(c) PROVE TypeOK'
    BY <1>3 DEF Return, Goto, globals, history
  <1>4. ASSUME NEW c \in Clients, Start(c) PROVE TypeOK'
    <2>1. CASE StartCheck(c)
      BY <2>1 DEF StartCheck, Fail, Goto
    <2>2. CASE StartExtraConfigFails(c)
      BY <2>2 DEF StartExtraConfigFails, Fail, Goto, history
    <2>3. CASE StartExtraFails(c)
      BY <2>3 DEF StartExtraFails, Fail, Goto
    <2>4. CASE StartExtra(c)
      BY <2>4 DEF StartExtra, Goto, history
    <2>5. CASE StartCreateFails(c)
      BY <2>5 DEF StartCreateFails, Fail, Goto
    <2>6. CASE StartCreate(c)
      BY <2>6 DEF StartCreate, Goto, history
    <2> QED BY <1>4, <2>1, <2>2, <2>3, <2>4, <2>5, <2>6 DEF Start
  <1>5. ASSUME NEW c \in Clients, Stop(c) PROVE TypeOK'
    BY <1>5 DEF Stop, StopCheck, StopClose, StopReset, StopRecovered, Goto,
                globals, history
  <1>6. ASSUME Die PROVE TypeOK'
    BY <1>6 DEF Die
  <1>7. ASSUME Boot PROVE TypeOK'
    BY <1>7 DEF Boot, globals, calls, history
  <1>8. ASSUME NEW p \in Procs, ExtraExit(p) PROVE TypeOK'
    BY <1>8 DEF ExtraExit, globals, calls, history
  <1>9. CASE UNCHANGED coreVars
    BY <1>9 DEF coreVars, globals, calls, history
  <1> QED BY <1>1, <1>2, <1>3, <1>4, <1>5, <1>6, <1>7, <1>8, <1>9
          DEF Next, Panic

(* A step that ends every call and closes every instance keeps the         *)
(* invariant: the death of the core, whether killed or by a panic.         *)
LEMMA DieKeeps == ASSUME InstanceInv, Die PROVE InstanceInv'
  <1>1. TypeOK'
    BY NextType DEF InstanceInv, Next
  <1>2. BoxInstance' = None /\ open' = {} /\ Serving' = {}
    BY DEF Die, Serving, Handling
  <1>3. \A c \in Clients : pc'[c] \notin Handling
    BY DEF Die, Handling
  <1> QED BY <1>1, <1>2, <1>3
          DEF InstanceInv, BoxIsOpen, NothingRunsUnseen, StopFindsInstance,
              OneAtATime, Handling

(* A client's call or its reading of the answer keeps the invariant.       *)
LEMMA CallKeeps ==
    ASSUME InstanceInv, NEW c \in Clients,
           \/ \E p \in {"start", "stop"}, x \in BOOLEAN : Call(c, p, x)
           \/ Return(c)
    PROVE  InstanceInv'
  <1>1. TypeOK'
    BY DEF InstanceInv, TypeOK, Call, Return, Goto, globals, history, Handling,
           Answered
  <1>2. CASE \E p \in {"start", "stop"}, x \in BOOLEAN : Call(c, p, x)
    <2>1. PICK p \in {"start", "stop"}, x \in BOOLEAN : Call(c, p, x)
      BY <1>2
    <2>2. /\ UNCHANGED <<BoxInstance, open, refused>>
          /\ pc' = [pc EXCEPT ![c] = p] /\ pc[c] = "idle"
          /\ overlapped' = (overlapped \/ Serving # {})
      BY <2>1 DEF Call, Goto, globals
    <2>3. BoxIsOpen' /\ StopFindsInstance'
      BY <2>2 DEF InstanceInv, TypeOK, BoxIsOpen, StopFindsInstance
    <2>4. NothingRunsUnseen'
      BY <2>2 DEF InstanceInv, NothingRunsUnseen
    <2>5. OneAtATime'
      BY <2>2 DEF InstanceInv, TypeOK, OneAtATime, Serving, Handling
    <2> QED BY <1>1, <2>3, <2>4, <2>5 DEF InstanceInv
  <1>3. CASE Return(c)
    <2>1. /\ UNCHANGED <<BoxInstance, open, refused, overlapped>>
          /\ pc' = [pc EXCEPT ![c] = "idle"] /\ pc[c] \in Answered
      BY <1>3 DEF Return, Goto, globals, history
    <2>2. BoxIsOpen' /\ StopFindsInstance'
      BY <2>1 DEF InstanceInv, TypeOK, BoxIsOpen, StopFindsInstance, Answered
    <2>3. NothingRunsUnseen'
      BY <2>1 DEF InstanceInv, NothingRunsUnseen
    <2>4. OneAtATime'
      BY <2>1 DEF InstanceInv, TypeOK, OneAtATime, Serving, Handling
    <2> QED BY <1>1, <2>2, <2>3, <2>4 DEF InstanceInv
  <1> QED BY <1>2, <1>3

(* A step of Start keeps the invariant: an error that forgets BoxInstance  *)
(* either finds none, or is the refusal the history records.               *)
LEMMA StartKeeps ==
    ASSUME InstanceInv, NEW c \in Clients, Start(c) PROVE InstanceInv'
  <1>1. TypeOK'
    BY NextType DEF InstanceInv, Next
  <1>2. c \in Serving /\ overlapped' = overlapped
    BY DEF Start, StartCheck, StartExtraConfigFails, StartExtraFails,
           StartExtra, StartCreateFails, StartCreate, Serving, Handling, history
  <1>3. \/ /\ pc[c] = "start" /\ BoxInstance # None
           /\ BoxInstance' = None /\ open' = open /\ refused' = TRUE
           /\ pc' = [pc EXCEPT ![c] = "error"]
        \/ /\ pc[c] = "start" /\ BoxInstance = None
           /\ UNCHANGED <<BoxInstance, open, refused>>
           /\ \E p \in {"extra", "create"} : pc' = [pc EXCEPT ![c] = p]
        \/ /\ pc[c] \in {"extra", "create"}
           /\ BoxInstance' = None /\ open' = open /\ refused' = refused
           /\ pc' = [pc EXCEPT ![c] = "error"]
        \/ /\ pc[c] = "extra"
           /\ UNCHANGED <<BoxInstance, open, refused>>
           /\ pc' = [pc EXCEPT ![c] = "create"]
        \/ /\ pc[c] = "create"
           /\ BoxInstance' \in Boxes /\ open' = open \cup {BoxInstance'}
           /\ refused' = refused
           /\ pc' = [pc EXCEPT ![c] = "ok"]
    BY DEF Start, StartCheck, StartExtraConfigFails, StartExtraFails,
           StartExtra, StartCreateFails, StartCreate, Fail, Goto, history
  <1>4. BoxIsOpen'
    BY <1>3 DEF InstanceInv, TypeOK, BoxIsOpen
  <1>5. NothingRunsUnseen'
    BY <1>2, <1>3, SentinelAssumption
       DEF InstanceInv, TypeOK, NothingRunsUnseen, OneAtATime
  <1>6. StopFindsInstance'
    BY <1>2, <1>3
       DEF InstanceInv, TypeOK, StopFindsInstance, OneAtATime, Serving, Handling
  <1>7. OneAtATime'
    <2> SUFFICES ASSUME ~overlapped PROVE OneAtATime'
      BY <1>2 DEF OneAtATime
    <2>1. \A d \in Clients : d # c => pc'[d] \notin Handling
      BY <1>2, <1>3 DEF InstanceInv, TypeOK, OneAtATime, Serving
    <2> QED BY <1>3, <2>1 DEF InstanceInv, TypeOK, OneAtATime, Serving, Handling
  <1> QED BY <1>1, <1>4, <1>5, <1>6, <1>7 DEF InstanceInv

(* A step of Stop keeps the invariant: it clears an instance it closed.    *)
LEMMA StopKeeps ==
    ASSUME InstanceInv, NEW c \in Clients, Stop(c) PROVE InstanceInv'
  <1>1. TypeOK'
    BY NextType DEF InstanceInv, Next
  <1>2. c \in Serving /\ overlapped' = overlapped /\ refused' = refused
    BY DEF Stop, StopCheck, StopClose, StopReset, StopRecovered, Serving,
           Handling, history
  <1>3. \/ /\ pc[c] = "stop" /\ UNCHANGED <<BoxInstance, open>>
           /\ \/ BoxInstance = None /\ pc' = [pc EXCEPT ![c] = "ok"]
              \/ BoxInstance # None /\ pc' = [pc EXCEPT ![c] = "close"]
        \/ /\ pc[c] = "close" /\ BoxInstance # None
           /\ BoxInstance' = BoxInstance /\ open' = open \ {BoxInstance}
           /\ pc' = [pc EXCEPT ![c] = "reset"]
        \/ /\ pc[c] = "reset" /\ BoxInstance' = None /\ open' = open
           /\ \E p \in {"ok", "broken"} : pc' = [pc EXCEPT ![c] = p]
    BY DEF Stop, StopCheck, StopClose, StopReset, StopRecovered, Goto, globals
  <1>4. BoxIsOpen'
    BY <1>3 DEF InstanceInv, TypeOK, BoxIsOpen
  <1>5. NothingRunsUnseen'
    BY <1>2, <1>3 DEF InstanceInv, TypeOK, NothingRunsUnseen, OneAtATime
  <1>6. StopFindsInstance'
    BY <1>2, <1>3
       DEF InstanceInv, TypeOK, StopFindsInstance, OneAtATime, Serving, Handling
  <1>7. OneAtATime'
    <2> SUFFICES ASSUME ~overlapped PROVE OneAtATime'
      BY <1>2 DEF OneAtATime
    <2>1. \A d \in Clients : d # c => pc'[d] \notin Handling
      BY <1>2, <1>3 DEF InstanceInv, TypeOK, OneAtATime, Serving
    <2> QED BY <1>3, <2>1 DEF InstanceInv, TypeOK, OneAtATime, Serving, Handling
  <1> QED BY <1>1, <1>4, <1>5, <1>6, <1>7 DEF InstanceInv

(* A step that touches neither the globals nor the calls.                  *)
LEMMA RestKeeps ==
    ASSUME InstanceInv, TypeOK',
           UNCHANGED <<BoxInstance, open, pc, overlapped, refused>>
    PROVE  InstanceInv'
  BY DEF InstanceInv, BoxIsOpen, NothingRunsUnseen, StopFindsInstance,
         OneAtATime, Serving

(* One step per group of actions of Next.                                  *)
LEMMA NextKeeps == InstanceInv /\ [Next]_coreVars => InstanceInv'
  <1> SUFFICES ASSUME InstanceInv, [Next]_coreVars PROVE InstanceInv'
    OBVIOUS
  <1>1. TypeOK'
    BY NextType DEF InstanceInv
  <1>2. ASSUME NEW c \in Clients, NEW x \in BOOLEAN, CallStart(c, x)
        PROVE  InstanceInv'
    BY <1>2, CallKeeps DEF CallStart
  <1>3. ASSUME NEW c \in Clients, CallStop(c) PROVE InstanceInv'
    BY <1>3, CallKeeps DEF CallStop
  <1>4. ASSUME NEW c \in Clients, Return(c) PROVE InstanceInv'
    BY <1>4, CallKeeps
  <1>5. ASSUME NEW c \in Clients, Start(c) PROVE InstanceInv'
    BY <1>5, StartKeeps
  <1>6. ASSUME NEW c \in Clients, Stop(c) PROVE InstanceInv'
    BY <1>6, StopKeeps
  <1>7. ASSUME Die PROVE InstanceInv'
    BY <1>7, DieKeeps
  <1>8. ASSUME Boot PROVE InstanceInv'
    BY <1>1, <1>8, RestKeeps DEF Boot, globals, calls, history
  <1>9. ASSUME NEW p \in Procs, ExtraExit(p) PROVE InstanceInv'
    BY <1>1, <1>9, RestKeeps DEF ExtraExit, globals, calls, history
  <1>10. CASE UNCHANGED coreVars
    BY <1>1, <1>10, RestKeeps DEF coreVars, globals, calls, history
  <1> QED BY <1>2, <1>3, <1>4, <1>5, <1>6, <1>7, <1>8, <1>9, <1>10
          DEF Next, Panic

(* The invariant holds of every behaviour of the server.                   *)
THEOREM ServerInvariant == Spec => []InstanceInv
  <1> QED BY InitHolds, NextKeeps, PTL DEF Spec

(* The globals and the handlers of the server keep their types, however    *)
(* many clients call it.                                                   *)
THEOREM ServerTypeCorrect == Spec => []TypeOK
  <1>1. InstanceInv => TypeOK
    BY DEF InstanceInv
  <1> QED BY <1>1, ServerInvariant, PTL

(* BoxInstance is closed only inside the Stop that closed it, whatever     *)
(* calls overlap: Test and QueryStats find a running instance or nil.      *)
THEOREM BoxInstanceIsOpen == Spec => []BoxIsOpen
  <1>1. InstanceInv => BoxIsOpen
    BY DEF InstanceInv
  <1> QED BY <1>1, ServerInvariant, PTL

(* Without overlapping calls, and without a Start that meets a running     *)
(* instance, no instance runs that Stop cannot reach ...                   *)
THEOREM SequentialUseIsSafe == Spec => []NothingRunsUnseen
  <1>1. InstanceInv => NothingRunsUnseen
    BY DEF InstanceInv
  <1> QED BY <1>1, ServerInvariant, PTL

(* ... and no Stop closes nil: its two reads of BoxInstance agree.         *)
THEOREM StopClosesAnInstance == Spec => []StopFindsInstance
  <1>1. InstanceInv => StopFindsInstance
    BY DEF InstanceInv
  <1> QED BY <1>1, ServerInvariant, PTL

-----------------------------------------------------------------------------
(* The extra process                                                       *)

Excused == overlapped \/ refused \/ spoiled

(* What a call rests on while it is handled: no extra process runs before  *)
(* Start has made one, nor when Stop finds no instance, and one that runs  *)
(* when Create is called was made for it.                                  *)
ExtraInCall(c) ==
    /\ pc[c] \in {"start", "stop"} /\ BoxInstance = None => extras = {}
    /\ pc[c] = "extra" => extras = {} /\ needExtra[c]
    /\ pc[c] = "create" /\ extras # {} => needExtra[c]

ExtraInv ==
    Excused \/ /\ ExtraProcess # Dud /\ extras \subseteq {ExtraProcess}
               /\ Serving = {} /\ BoxInstance = None => extras = {}
               /\ \A c \in Clients : ExtraInCall(c)

(* A handler is alone while calls do not overlap.                          *)
LEMMA Alone ==
    ASSUME InstanceInv, ~overlapped, NEW c \in Serving
    PROVE  \A d \in Clients : d # c => pc[d] \notin Handling
  BY DEF InstanceInv, OneAtATime, Serving

(* A handler that is alone and not excused finds the second part.          *)
LEMMA NotExcused ==
    ASSUME ExtraInv, ~Excused
    PROVE  /\ ExtraProcess # Dud /\ extras \subseteq {ExtraProcess}
           /\ Serving = {} /\ BoxInstance = None => extras = {}
           /\ \A c \in Clients : ExtraInCall(c)
  BY DEF ExtraInv

(* The one handler that goes on settles the invariant.                     *)
LEMMA StepSettles ==
    ASSUME InstanceInv, NEW c \in Serving, ~overlapped, NEW p,
           pc' = [pc EXCEPT ![c] = p],
           ExtraProcess' # Dud, extras' \subseteq {ExtraProcess'},
           p \notin Handling => (BoxInstance' = None => extras' = {}),
           p = "extra" => extras' = {} /\ needExtra'[c],
           p = "create" => (extras' # {} => needExtra'[c]),
           p \notin {"start", "stop"}
    PROVE  ExtraInv'
  <1>1. c \in Clients /\ DOMAIN pc = Clients
    BY DEF Serving, InstanceInv, TypeOK
  <1>2. \A d \in Clients : d # c => pc'[d] \notin Handling
    BY <1>1, Alone
  <1>3. pc'[c] = p
    BY <1>1
  <1>4. Serving' = {} => p \notin Handling
    BY <1>1, <1>3 DEF Serving
  <1>5. ASSUME NEW d \in Clients PROVE ExtraInCall(d)'
    <2>1. CASE d = c
      BY <1>3, <2>1 DEF ExtraInCall
    <2>2. CASE d # c
      BY <1>2, <2>2 DEF ExtraInCall, Handling
    <2> QED BY <2>1, <2>2
  <1> QED BY <1>4, <1>5 DEF ExtraInv

LEMMA ExtraStart ==
    ASSUME InstanceInv, ExtraInv, NEW c \in Clients, Start(c) PROVE ExtraInv'
  <1>1. c \in Serving /\ overlapped' = overlapped
    BY DEF Start, StartCheck, StartExtraConfigFails, StartExtraFails,
           StartExtra, StartCreateFails, StartCreate, Serving, Handling, history
  <1>2. SUFFICES ASSUME ~Excused, ~Excused' PROVE ExtraInv'
    <2>1. Excused => Excused'
      BY DEF Start, StartCheck, StartExtraConfigFails, StartExtraFails, StartExtra,
             StartCreateFails, StartCreate, history, Excused, InstanceInv, TypeOK
    <2> QED BY <2>1 DEF ExtraInv
  <1>3. /\ ExtraProcess # Dud /\ extras \subseteq {ExtraProcess}
        /\ ExtraInCall(c) /\ ~overlapped
    BY <1>2, NotExcused DEF Excused
  <1>4. CASE StartCheck(c)
    <2>1. BoxInstance = None
      BY <1>2, <1>4 DEF StartCheck, Excused
    <2>2. PICK p \in {"extra", "create"} : /\ pc' = [pc EXCEPT ![c] = p]
                                           /\ p = "extra" => needExtra'[c]
      BY <1>4, <2>1 DEF StartCheck, Goto
    <2>3. extras' = {} /\ ExtraProcess' = ExtraProcess
      BY <1>3, <1>4, <2>1 DEF StartCheck, ExtraInCall
    <2> QED BY <1>1, <1>3, <2>2, <2>3, StepSettles DEF Handling
  <1>5. CASE StartExtraConfigFails(c)
    <2>1. /\ pc' = [pc EXCEPT ![c] = "error"] /\ extras' = {}
          /\ ExtraProcess' = ExtraProcess
      BY <1>3, <1>5 DEF StartExtraConfigFails, Fail, Goto, ExtraInCall
    <2> QED BY <1>1, <1>3, <2>1, StepSettles DEF Handling
  <1>6. CASE StartExtraFails(c)
    BY <1>2, <1>6 DEF StartExtraFails, Excused
  <1>7. CASE StartExtra(c)
    <2>1. pc' = [pc EXCEPT ![c] = "create"] /\ pc[c] = "extra"
      BY <1>7 DEF StartExtra, Goto
    <2>2. extras' = {ExtraProcess'} /\ ExtraProcess' \in Procs
      BY <1>3, <1>7 DEF StartExtra, ExtraInCall
    <2>3. needExtra'[c]
      BY <1>3, <1>7 DEF StartExtra, ExtraInCall
    <2> QED BY <1>1, <1>3, <2>1, <2>2, <2>3, StepSettles, SentinelAssumption DEF Handling
  <1>8. CASE StartCreateFails(c)
    <2>1. pc' = [pc EXCEPT ![c] = "error"] /\ UNCHANGED <<ExtraProcess, extras>>
      BY <1>8 DEF StartCreateFails, Fail, Goto
    <2>2. ~needExtra[c] /\ pc[c] = "create"
      BY <1>2, <1>8 DEF StartCreateFails, Excused
    <2>3. extras = {}
      BY <1>3, <2>2 DEF ExtraInCall
    <2> QED BY <1>1, <1>3, <2>1, <2>3, StepSettles DEF Handling
  <1>9. CASE StartCreate(c)
    <2>1. /\ pc' = [pc EXCEPT ![c] = "ok"] /\ UNCHANGED <<ExtraProcess, extras>>
          /\ BoxInstance' \in Boxes
      BY <1>9 DEF StartCreate, Goto
    <2> QED BY <1>1, <1>3, <2>1, StepSettles, SentinelAssumption DEF Handling
  <1> QED BY <1>4, <1>5, <1>6, <1>7, <1>8, <1>9 DEF Start

LEMMA ExtraStop ==
    ASSUME InstanceInv, ExtraInv, NEW c \in Clients, Stop(c) PROVE ExtraInv'
  <1>1. c \in Serving /\ UNCHANGED history
    BY DEF Stop, StopCheck, StopClose, StopReset, StopRecovered, Serving, Handling
  <1>2. SUFFICES ASSUME ~Excused PROVE ExtraInv'
    BY <1>1 DEF ExtraInv, Excused, history
  <1>3. /\ ExtraProcess # Dud /\ extras \subseteq {ExtraProcess}
        /\ ExtraInCall(c) /\ ~overlapped
    BY <1>2, NotExcused DEF Excused
  <1>4. CASE StopCheck(c)
    <2>1. pc[c] = "stop" /\ UNCHANGED <<BoxInstance, ExtraProcess, extras>>
      BY <1>4 DEF StopCheck, globals
    <2>2. BoxInstance = None => extras = {}
      BY <1>3, <2>1 DEF ExtraInCall
    <2>3. CASE BoxInstance = None
      <3>1. pc' = [pc EXCEPT ![c] = "ok"]
        BY <1>4, <2>3 DEF StopCheck, Goto
      <3>2. extras' = {} /\ ExtraProcess' # Dud
        BY <1>3, <2>1, <2>2, <2>3
      <3> QED BY <1>1, <1>3, <3>1, <3>2, StepSettles DEF Handling
    <2>4. CASE BoxInstance # None
      <3>1. pc' = [pc EXCEPT ![c] = "close"]
        BY <1>4, <2>4 DEF StopCheck, Goto
      <3> QED BY <1>1, <1>3, <2>1, <3>1, StepSettles DEF Handling
    <2> QED BY <2>3, <2>4
  <1>5. CASE StopClose(c)
    <2>1. /\ pc' = [pc EXCEPT ![c] = "reset"]
          /\ UNCHANGED <<ExtraProcess, extras>>
      BY <1>5 DEF StopClose, Goto, globals
    <2> QED BY <1>1, <1>3, <2>1, StepSettles DEF Handling
  <1>6. CASE StopReset(c)
    <2>1. /\ pc' = [pc EXCEPT ![c] = "ok"]
          /\ ExtraProcess' = None /\ extras' = extras \ {ExtraProcess}
      BY <1>6 DEF StopReset, Goto
    <2>2. extras' = {} /\ ExtraProcess' # Dud
      BY <1>3, <2>1, SentinelAssumption
    <2> QED BY <1>1, <1>3, <2>1, <2>2, StepSettles DEF Handling
  <1>7. CASE StopRecovered(c)
    BY <1>3, <1>7 DEF StopRecovered
  <1> QED BY <1>4, <1>5, <1>6, <1>7 DEF Stop

LEMMA ExtraCall ==
    ASSUME InstanceInv, ExtraInv, NEW c \in Clients,
           \/ \E p \in {"start", "stop"}, x \in BOOLEAN : Call(c, p, x)
           \/ Return(c)
    PROVE  ExtraInv'
  <1>1. CASE \E p \in {"start", "stop"}, x \in BOOLEAN : Call(c, p, x)
    <2>1. PICK p \in {"start", "stop"}, x \in BOOLEAN : Call(c, p, x)
      BY <1>1
    <2>2. /\ UNCHANGED <<BoxInstance, ExtraProcess, extras, refused, spoiled>>
          /\ pc' = [pc EXCEPT ![c] = p] /\ pc[c] = "idle"
          /\ overlapped' = (overlapped \/ Serving # {})
      BY <2>1 DEF Call, Goto, globals
    <2>3. CASE Excused \/ Serving # {}
      BY <2>2, <2>3 DEF Excused, ExtraInv
    <2>4. CASE ~Excused /\ Serving = {}
      <3>1. /\ ExtraProcess # Dud /\ extras \subseteq {ExtraProcess}
            /\ BoxInstance = None => extras = {}
        BY <2>4, NotExcused
      <3>2. c \in Serving'
        BY <2>2 DEF Serving, Handling, InstanceInv, TypeOK
      <3>3. ASSUME NEW d \in Clients PROVE pc'[d] \in {"start", "stop"} \/ pc'[d] \notin Handling
        BY <2>2, <2>4 DEF Serving, InstanceInv, TypeOK
      <3>4. ASSUME NEW d \in Clients PROVE ExtraInCall(d)'
        BY <2>2, <3>1, <3>3 DEF ExtraInCall, Handling
      <3> QED BY <2>2, <3>1, <3>2, <3>4 DEF ExtraInv
    <2> QED BY <2>3, <2>4
  <1>2. CASE Return(c)
    <2>1. /\ UNCHANGED <<BoxInstance, ExtraProcess, extras, history>>
          /\ pc' = [pc EXCEPT ![c] = "idle"] /\ pc[c] \in Answered
          /\ needExtra' = [needExtra EXCEPT ![c] = FALSE]
      BY <1>2 DEF Return, Goto, globals
    <2>2. Serving' = Serving
      BY <2>1 DEF Serving, Handling, Answered, InstanceInv, TypeOK
    <2>3. ASSUME NEW d \in Clients, ExtraInCall(d) PROVE ExtraInCall(d)'
      BY <2>1, <2>3 DEF ExtraInCall, InstanceInv, TypeOK
    <2> QED BY <2>1, <2>2, <2>3 DEF ExtraInv, Excused, history
  <1> QED BY <1>1, <1>2

LEMMA ExtraDies == ASSUME Die PROVE ExtraInv'
  <1>1. /\ BoxInstance' = None /\ ExtraProcess' = None /\ extras' = extras
        /\ spoiled' = (extras # {})
        /\ \A c \in Clients : pc'[c] \notin Handling
    BY DEF Die, Handling
  <1>2. CASE extras # {}
    BY <1>1, <1>2 DEF ExtraInv, Excused
  <1>3. CASE extras = {}
    <2>1. \A c \in Clients : ExtraInCall(c)'
      BY <1>1, <1>3 DEF ExtraInCall, Handling
    <2> QED BY <1>1, <1>3, <2>1, SentinelAssumption DEF ExtraInv
  <1> QED BY <1>2, <1>3

LEMMA ExtraRest ==
    ASSUME ExtraInv, UNCHANGED <<globals, calls, history>>,
           extras' \in SUBSET extras
    PROVE  ExtraInv'
  <1>1. ASSUME NEW c \in Clients, ExtraInCall(c) PROVE ExtraInCall(c)'
    BY <1>1 DEF ExtraInCall, globals, calls
  <1> QED BY <1>1 DEF ExtraInv, Excused, Serving, globals, calls, history

LEMMA NextExtra == InstanceInv /\ ExtraInv /\ [Next]_coreVars => ExtraInv'
  <1> SUFFICES ASSUME InstanceInv, ExtraInv, [Next]_coreVars PROVE ExtraInv'
    OBVIOUS
  <1>1. ASSUME NEW c \in Clients, NEW x \in BOOLEAN, CallStart(c, x)
        PROVE  ExtraInv'
    BY <1>1, ExtraCall DEF CallStart
  <1>2. ASSUME NEW c \in Clients, CallStop(c) PROVE ExtraInv'
    BY <1>2, ExtraCall DEF CallStop
  <1>3. ASSUME NEW c \in Clients, Return(c) PROVE ExtraInv'
    BY <1>3, ExtraCall
  <1>4. ASSUME Boot \/ UNCHANGED coreVars PROVE ExtraInv'
    BY <1>4, ExtraRest DEF Boot, coreVars
  <1>5. ASSUME NEW p \in Procs, ExtraExit(p) PROVE ExtraInv'
    BY <1>5, ExtraRest DEF ExtraExit
  <1> QED BY <1>1, <1>2, <1>3, <1>4, <1>5, ExtraStart, ExtraStop, ExtraDies
          DEF Next, Panic

(* Unless calls overlapped, a Start was refused or failed after its extra  *)
(* process, Stop has a handle to stop the extra process with, and between  *)
(* calls none runs without its instance.                                   *)
THEOREM ExtraStopsWithBox == Spec => []ExtraGoesWithBox
  <1>1. Init => ExtraInv
    BY SentinelAssumption DEF Init, ExtraInv, ExtraInCall, Serving, Handling
  <1>2. ExtraInv => ExtraGoesWithBox
    BY DEF ExtraInv, Excused, ExtraGoesWithBox
  <1> QED BY <1>1, <1>2, NextExtra, ServerInvariant, PTL DEF Spec

-----------------------------------------------------------------------------
(* A handler that moves takes its call along in the contract.              *)
LEMMA PhaseMoves ==
    ASSUME TypeOK, NEW c \in Clients, NEW p, Goto(c, p)
    PROVE  Phase' = [Phase EXCEPT ![c] = PhaseOf(p)]
  BY DEF TypeOK, Goto, Phase

(* What the places of a handler are to its client.                         *)
LEMMA Phases ==
    /\ \A p \in {"start", "extra", "create"} : PhaseOf(p) = "starting"
    /\ \A p \in {"stop", "close"} : PhaseOf(p) = "stopping"
    /\ PhaseOf("reset") = "stopped"
    /\ \A p \in {"idle"} \cup Answered : PhaseOf(p) = p
  BY DEF PhaseOf, Answered

(* A call is being handled exactly if its client has asked and waits.      *)
LEMMA AskedIsServed ==
    ASSUME TypeOK, NEW c \in Clients
    PROVE  Phase[c] \in Contract!Asked <=> c \in Serving
  BY DEF TypeOK, Phase, PhaseOf, Contract!Asked, Serving, Handling, Answered

(* The server that has not been started keeps its contract.                *)
LEMMA InitContract == Init => Contract!Init
  BY Phases DEF Init, Contract!Init, Phase

(* A call that is sent, alone or between others.                           *)
LEMMA CallContract ==
    ASSUME TypeOK, NEW c \in Clients, NEW x,
           NEW p \in {"start", "stop"}, Call(c, p, x)
    PROVE  Contract!Ask(c)
  <1>1. Phase[c] = "idle"
    BY Phases DEF Call, Phase
  <1>2. Phase' = [Phase EXCEPT ![c] = PhaseOf(p)]
    BY PhaseMoves DEF Call
  <1>3. PhaseOf(p) \in {"starting", "stopping"}
    BY Phases
  <1>4. overlapped' = (overlapped \/ Serving # {}) /\ refused' = refused
    BY DEF Call
  <1>5. Serving = {} <=> \A d \in Clients : Phase[d] \notin Contract!Asked
    BY AskedIsServed DEF Serving
  <1>6. \E q \in {"starting", "stopping"} : Contract!Becomes(c, q)
    BY <1>2, <1>3 DEF Contract!Becomes
  <1>7. ~(overlapped' \/ refused') =
          (~(overlapped \/ refused)
            /\ \A d \in Clients : Phase[d] \notin Contract!Asked)
    BY <1>4, <1>5
  <1> QED BY <1>1, <1>6, <1>7 DEF Call, Contract!Ask

(* A Start that finds an instance has one before it, and one that goes on  *)
(* has none.                                                               *)
LEMMA StartFindsRight ==
    ASSUME InstanceInv, ~overlapped, ~refused, NEW c \in Clients
    PROVE  /\ pc[c] = "start" /\ BoxInstance # None => open # {}
           /\ pc[c] \in {"extra", "create"} => open = {}
  <1>1. ASSUME pc[c] = "start", BoxInstance # None PROVE open # {}
    <2>1. c \in Serving
      BY <1>1 DEF Serving, Handling
    <2>2. \A d \in Clients : pc[d] # "reset"
      BY <1>1, <2>1 DEF InstanceInv, OneAtATime, Serving, Handling
    <2> QED BY <1>1, <2>2 DEF InstanceInv, BoxIsOpen
  <1>2. pc[c] \in {"extra", "create"} => open = {}
    BY SentinelAssumption
       DEF InstanceInv, OneAtATime, NothingRunsUnseen, TypeOK
  <1> QED BY <1>1, <1>2

(* Steps of Start: they are not seen, start the instance, or start none.   *)
LEMMA StartContract ==
    ASSUME InstanceInv, ~overlapped, ~refused, NEW c \in Clients, Start(c)
    PROVE  \/ UNCHANGED <<open, Phase, overlapped, refused>>
           \/ Contract!Begin(c) \/ Contract!StartsNone(c)
  <1> USE DEF Contract!Becomes, history
  <1>1. TypeOK
    BY DEF InstanceInv
  <1>2. pc[c] \in {"start", "extra", "create"} /\ Phase[c] = "starting"
    BY Phases DEF Start, StartCheck, StartExtraConfigFails, StartExtraFails,
                  StartExtra, StartCreateFails, StartCreate, Phase
  <1>3. ASSUME Fail(c), refused' = (open # {}),
               UNCHANGED <<open, overlapped>>
        PROVE  Contract!StartsNone(c)
    <2>1. Phase' = [Phase EXCEPT ![c] = "error"]
      BY <1>1, <1>3, PhaseMoves, Phases DEF Fail, Answered
    <2>2. ~(overlapped' \/ refused') = (~(overlapped \/ refused) /\ open = {})
      BY <1>3
    <2> QED BY <1>2, <1>3, <2>1, <2>2 DEF Contract!StartsNone
  <1>4. CASE StartCheck(c)
    <2>1. CASE BoxInstance # None
      BY <1>3, <1>4, <2>1, StartFindsRight DEF StartCheck
    <2>2. CASE BoxInstance = None
      <3>1. PICK q \in {"extra", "create"} : Goto(c, q)
        BY <1>4, <2>2 DEF StartCheck
      <3>2. Phase' = [Phase EXCEPT ![c] = "starting"]
        BY <1>1, <3>1, PhaseMoves, Phases
      <3>3. Phase' = Phase
        BY <1>2, <3>2 DEF Phase
      <3> QED BY <1>4, <2>2, <3>3 DEF StartCheck
    <2> QED BY <2>1, <2>2
  <1>5. CASE StartExtraConfigFails(c) \/ StartExtraFails(c) \/ StartCreateFails(c)
    <2>1. Fail(c) /\ UNCHANGED <<open, overlapped, refused>>
      BY <1>5 DEF StartExtraConfigFails, StartExtraFails, StartCreateFails
    <2>2. pc[c] \in {"extra", "create"}
      BY <1>5 DEF StartExtraConfigFails, StartExtraFails, StartCreateFails
    <2>3. open = {}
      BY <2>2, StartFindsRight
    <2>4. refused' = (open # {})
      BY <1>1, <2>1, <2>3 DEF TypeOK
    <2> QED BY <1>3, <2>1, <2>4
  <1>6. CASE StartExtra(c)
    <2>1. Phase' = [Phase EXCEPT ![c] = "starting"]
      BY <1>1, <1>6, PhaseMoves, Phases DEF StartExtra
    <2>2. Phase' = Phase
      BY <1>2, <2>1 DEF Phase
    <2> QED BY <1>6, <2>2 DEF StartExtra
  <1>7. CASE StartCreate(c)
    <2>1. Phase' = [Phase EXCEPT ![c] = "ok"]
      BY <1>1, <1>7, PhaseMoves, Phases DEF StartCreate, Answered
    <2>2. open = {} /\ \E b \in Boxes : open' = {b}
      BY <1>7, StartFindsRight DEF StartCreate
    <2> QED BY <1>2, <1>7, <2>1, <2>2 DEF StartCreate, Contract!Begin
  <1> QED BY <1>4, <1>5, <1>6, <1>7 DEF Start

(* Steps of Stop: they are not seen, stop the instance, or answer.         *)
LEMMA StopContract ==
    ASSUME InstanceInv, ~overlapped, ~refused, NEW c \in Clients, Stop(c)
    PROVE  \/ UNCHANGED <<open, Phase, overlapped, refused>>
           \/ Contract!End(c) \/ Contract!AnswerStop(c)
  <1> USE DEF Contract!Becomes, history, globals
  <1>1. TypeOK /\ open \subseteq {BoxInstance}
    BY DEF InstanceInv, NothingRunsUnseen
  <1>2. CASE StopCheck(c)
    <2>1. Phase[c] = "stopping"
      BY <1>2, Phases DEF StopCheck, Phase
    <2>2. CASE BoxInstance = None
      <3>1. Phase' = [Phase EXCEPT ![c] = "ok"]
        BY <1>1, <1>2, <2>2, PhaseMoves, Phases DEF StopCheck, Answered
      <3>2. open = {} /\ open' = {}
        BY <1>1, <1>2, <2>2, SentinelAssumption DEF StopCheck, TypeOK
      <3> QED BY <1>2, <2>1, <3>1, <3>2 DEF StopCheck, Contract!AnswerStop
    <2>3. CASE BoxInstance # None
      <3>1. Phase' = [Phase EXCEPT ![c] = "stopping"]
        BY <1>1, <1>2, <2>3, PhaseMoves, Phases DEF StopCheck
      <3>2. Phase' = Phase
        BY <2>1, <3>1 DEF Phase
      <3> QED BY <1>2, <3>2 DEF StopCheck
    <2> QED BY <2>2, <2>3
  <1>3. CASE StopClose(c)
    <2>1. Phase[c] = "stopping"
      BY <1>3, Phases DEF StopClose, Phase
    <2>2. Phase' = [Phase EXCEPT ![c] = "stopped"]
      BY <1>1, <1>3, PhaseMoves, Phases DEF StopClose
    <2>3. BoxInstance \in open
      <3>1. c \in Serving
        BY <1>3 DEF StopClose, Serving, Handling
      <3>2. \A d \in Clients : pc[d] # "reset"
        BY <1>3, <3>1 DEF StopClose, InstanceInv, OneAtATime, Serving, Handling
      <3> QED BY <1>3, <3>2 DEF StopClose, InstanceInv, BoxIsOpen
    <2>4. open # {} /\ open' = {}
      BY <1>1, <1>3, <2>3 DEF StopClose
    <2> QED BY <1>3, <2>1, <2>2, <2>4 DEF StopClose, Contract!End
  <1>4. CASE StopReset(c) \/ StopRecovered(c)
    <2>1. Phase[c] = "stopped" /\ pc[c] = "reset"
      BY <1>4, Phases DEF StopReset, StopRecovered, Phase
    <2>2. PICK q \in {"ok", "broken"} : Goto(c, q)
      BY <1>4 DEF StopReset, StopRecovered
    <2>3. Phase' = [Phase EXCEPT ![c] = q]
      BY <1>1, <2>2, PhaseMoves, Phases DEF Answered
    <2>4. open = {} /\ UNCHANGED <<open, overlapped, refused>>
      BY <1>1, <1>4, <2>1 DEF StopReset, StopRecovered, InstanceInv, OneAtATime
    <2> QED BY <2>1, <2>3, <2>4 DEF Contract!AnswerStop
  <1> QED BY <1>2, <1>3, <1>4 DEF Stop

(* The end of the core breaks the calls it was handling.                   *)
LEMMA DieContract == ASSUME TypeOK, Die PROVE Contract!Crash
  <1>1. \A c \in Clients :
          Phase[c] \in Contract!Asked <=> pc[c] \in Handling
    BY AskedIsServed DEF Serving
  <1>2. ASSUME NEW c \in Clients
        PROVE  Phase'[c] = IF Phase[c] \in Contract!Asked THEN "broken"
                                                          ELSE Phase[c]
    BY <1>1, Phases DEF Die, Phase, Answered
  <1>3. Phase' = [c \in Clients |-> IF Phase[c] \in Contract!Asked
                                    THEN "broken" ELSE Phase[c]]
    BY <1>2 DEF Phase
  <1> QED BY <1>3 DEF Die, Contract!Crash

(* Every step of the server is a step of its contract, or is not seen.     *)
LEMMA NextContract ==
    ASSUME InstanceInv, [Next]_coreVars
    PROVE  [Contract!Next]_(Contract!contractVars)
  <1> USE DEF Contract!contractVars
  <1>1. TypeOK
    BY DEF InstanceInv
  <1>2. ASSUME NEW c \in Clients, NEW x \in BOOLEAN, CallStart(c, x)
        PROVE  Contract!Next
    BY <1>1, <1>2, CallContract DEF CallStart, Contract!Next
  <1>3. ASSUME NEW c \in Clients, CallStop(c) PROVE Contract!Next
    BY <1>1, <1>3, CallContract DEF CallStop, Contract!Next
  <1>4. ASSUME NEW c \in Clients, Return(c) PROVE Contract!Next
    <2>1. Phase[c] \in Contract!Ended
      BY <1>4, Phases DEF Return, Answered, Phase, Contract!Ended
    <2>2. Phase' = [Phase EXCEPT ![c] = "idle"]
      BY <1>1, <1>4, PhaseMoves, Phases DEF Return
    <2> QED BY <1>4, <2>1, <2>2
            DEF Return, history, Contract!Read, Contract!Becomes, Contract!Next
  <1>5. ASSUME NEW c \in Clients, Start(c) \/ Stop(c)
        PROVE  [Contract!Next]_(Contract!contractVars)
    <2>1. CASE overlapped \/ refused
      <3>1. overlapped' \/ refused'
        BY <1>5, <2>1
           DEF Start, StartCheck, StartExtraConfigFails, StartExtraFails,
               StartExtra, StartCreateFails, StartCreate, Stop, StopCheck,
               StopClose, StopReset, StopRecovered, history
      <3> QED BY <2>1, <3>1 DEF Contract!Untrusted, Contract!Next
    <2>2. CASE ~overlapped /\ ~refused
      <3>1. CASE UNCHANGED <<open, Phase, overlapped, refused>>
        BY <3>1
      <3>2. CASE \/ Contract!Begin(c) \/ Contract!StartsNone(c)
                 \/ Contract!End(c) \/ Contract!AnswerStop(c)
        BY <3>2 DEF Contract!Next
      <3> QED BY <1>5, <2>2, <3>1, <3>2, StartContract, StopContract
    <2> QED BY <2>1, <2>2
  <1>6. ASSUME Die PROVE Contract!Next
    BY <1>1, <1>6, DieContract DEF Contract!Next
  <1>7. ASSUME \/ Boot \/ UNCHANGED coreVars
               \/ \E p \in Procs : ExtraExit(p)
        PROVE  UNCHANGED Contract!contractVars
    BY <1>7 DEF Boot, ExtraExit, coreVars, globals, calls, history, Phase
  <1> QED BY <1>2, <1>3, <1>4, <1>5, <1>6, <1>7 DEF Next, Panic

(* The handlers of server.go, in several steps each and without a lock,    *)
(* implement a server whose Start and Stop are atomic, for as long as      *)
(* calls come one after the other and none starts over an instance.        *)
THEOREM ServerKeepsContract == Spec => KeepsContract
  <1> QED BY InitContract, NextContract, ServerInvariant, PTL
          DEF Spec, KeepsContract, Contract!Spec
=============================================================================
