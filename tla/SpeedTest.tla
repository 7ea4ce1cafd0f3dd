------------------------------ MODULE SpeedTest ------------------------------
(***************************************************************************)
(* The speed tests: a session of the window (ui/mainwindow_rpc.cpp:        *)
(* speedtest_current_group, runSpeedTest, querySpeedtest; the tags of      *)
(* configs/ConfigBuilder.cpp: BuildTestConfig) with the core that measures *)
(* (core/server: SpeedTest, BatchSpeedTest, QuerySpeedTest, StopTest).     *)
(*                                                                         *)
(* A session calls the core once for each profile with a configuration of  *)
(* its own and once for all the others together, which are told apart by   *)
(* tags.  While a call is under way a poller asks for what the core is     *)
(* measuring and posts it to the UI thread; the answer of the call is      *)
(* written, and saved, by the session's thread.                            *)
(*                                                                         *)
(* A speed is the profile it was measured for and whether it is final.     *)
(***************************************************************************)
EXTENDS Naturals, Sequences, FiniteSets, SequencesExt

CONSTANTS
    Profiles,       \* the profiles
    Full,           \* those with a configuration of their own ("internal-full")
    LeftOut,        \* those that BuildTestConfig leaves out
    Groups,         \* the lists a session may be asked for
    Calls,          \* bound: calls, in the order they are made
    MaxPosted,      \* bound: what waits in the queue of the UI thread
    Zero,           \* the profile with the id 0, or None
    None            \* nothing

ASSUME ProfileAssumption ==
    /\ Full \cup LeftOut \subseteq Profiles /\ None \notin Profiles
    /\ Groups \subseteq Seq(Profiles) /\ Zero \in Profiles \cup {None}
ASSUME BoundAssumption == Calls \in Nat \ {0} /\ MaxPosted \in Nat \ {0}

VARIABLES
    session,        \* where the session's thread is; [at |-> "idle"] without one
    stopSpeedtest,  \* the flag
    call,           \* the core's call: where it is, what it has to measure and has
    isRunning,      \* of SpTQuerier
    current,        \* of SpTQuerier: the speed stored last, under which tag
    poller,         \* call -> where its poller is
    posted,         \* what the pollers have posted to the UI thread
    speed,          \* profile -> the speed it shows
    disk,           \* profile -> the speed of its record
    asked,          \* bound: calls made
    saved           \* history: the profiles that the session has saved

window == <<session, stopSpeedtest, asked, saved>>
core   == <<call, isRunning, current>>
shown  == <<posted, speed, disk>>
vars == <<window, core, poller, shown>>

Idle    == [at |-> "idle"]
NoCall  == [at |-> "none"]
NoSpeed == [of |-> None, final |-> FALSE]
NotAvailable == [of |-> None, final |-> TRUE]

-----------------------------------------------------------------------------
(* BuildTestConfig *)

(* The places of the profiles that are tested, and of those tested in      *)
(* common; a place's index is its number among the former.                 *)
TestedIn(s) == {i \in DOMAIN s : s[i] \notin LeftOut}
Common(s)   == {i \in TestedIn(s) : s[i] \notin Full}
Index(s, i) == Cardinality({k \in TestedIn(s) : k <= i})

Indexed(s) == [tag \in {Index(s, i) : i \in Common(s)} |->
                  s[CHOOSE i \in Common(s) : Index(s, i) = tag]]

(* Mutant: the tags are numbered without the full configurations.          *)
Tag2entID_Dense(s) ==
    [tag \in 1..Cardinality(Common(s)) |->
        s[CHOOSE i \in Common(s) : Cardinality({k \in Common(s) : k <= i}) = tag]]

(* tag2entID, and the outbounds of the common configuration, by their tags.*)
Tag2entID(s) == Indexed(s)
Outbounds(s) == Indexed(s)

(* A call for a full configuration uses the default outbound and is given  *)
(* no tags; the other one is for all the others.                           *)
FullCall(p)   == [outbounds |-> [tag \in {1} |-> p], ents |-> <<>>]
CommonCall(s) == [outbounds |-> Outbounds(s), ents |-> Tag2entID(s)]

FullConfigs(s) == Full \cap {s[i] : i \in TestedIn(s)}
HasCommon(s)   == DOMAIN Outbounds(s) # {}

-----------------------------------------------------------------------------
(* The session *)

(* The click takes speedtestRunning.                                       *)
Click(s) ==
    /\ session = Idle /\ s # <<>>
    /\ session' = [at |-> "build", list |-> s]
    /\ saved' = {}
    /\ UNCHANGED <<stopSpeedtest, asked, core, poller, shown>>

At(at, left, now) == [at |-> at, list |-> session.list, left |-> left, now |-> now]

Left(full, common) == [full |-> full, common |-> common]
NothingLeft == Left({}, FALSE)
AllOf(s)    == Left(FullConfigs(s), HasCommon(s))

(* The calls that may come next, each with what is left after it: the map's*)
(* full configurations come first.                                         *)
NextCalls ==
    LET full == session.left.full
    IN  IF full # {}
        THEN {<<FullCall(p), Left(full \ {p}, session.left.common)>> : p \in full}
        ELSE IF session.left.common
        THEN {<<CommonCall(session.list), NothingLeft>>} ELSE {}

(* Mutant: when it fails the lock is not given back.                       *)
Build_NoUnlock ==
    /\ session.at = "build"
    /\ \/ /\ session' = At("next", AllOf(session.list), NoCall)
          /\ stopSpeedtest' = FALSE
       \/ session' = [at |-> "gone"] /\ UNCHANGED stopSpeedtest
    /\ UNCHANGED <<asked, saved, core, poller, shown>>

(* BuildTestConfig fails, or the flag is reset and the calls begin.        *)
Build ==
    /\ session.at = "build"
    /\ \/ /\ session' = At("next", AllOf(session.list), NoCall)
          /\ stopSpeedtest' = FALSE
       \/ session' = Idle /\ UNCHANGED stopSpeedtest
    /\ UNCHANGED <<asked, saved, core, poller, shown>>

End ==
    /\ session.at = "next" /\ NextCalls = {}
    /\ session' = Idle
    /\ UNCHANGED <<stopSpeedtest, asked, saved, core, poller, shown>>

(* runSpeedTest after a stop.                                              *)
Aborted ==
    /\ session.at = "next" /\ stopSpeedtest
    /\ \E n \in NextCalls : session' = At("next", n[2], NoCall)
    /\ UNCHANGED <<stopSpeedtest, asked, saved, core, poller, shown>>

(* The poller is started.                                                  *)
RunSpeedTest ==
    /\ session.at = "next" /\ ~stopSpeedtest
    /\ asked < Calls /\ asked' = asked + 1
    /\ \E n \in NextCalls :
          /\ session' = At("call", n[2], n[1])
          /\ poller' = [poller EXCEPT ![asked + 1] =
                           [at |-> "check", ents |-> n[1].ents, done |-> FALSE]]
    /\ UNCHANGED <<stopSpeedtest, saved, core, shown>>

(* The call reaches the core; it fails if the core refuses the             *)
(* configuration.                                                          *)
CallCore ==
    /\ session.at = "call"
    /\ \/ /\ call' = [at |-> "next", tag |-> 0, todo |-> session.now.outbounds,
                      has |-> {}, cancelled |-> FALSE]
          /\ session' = At("wait", session.left, session.now)
       \/ call' = NoCall /\ session' = At("answer", session.left, session.now)
    /\ UNCHANGED <<stopSpeedtest, asked, saved, isRunning, current, poller, shown>>

(* The answer is there, and doneMu is unlocked.                            *)
Answer ==
    /\ session.at \in {"wait", "answer"} /\ call.at \in {"none", "end"}
    /\ poller' = [poller EXCEPT ![asked].done = TRUE]
    /\ session' = At("save", session.left, session.now)
    /\ UNCHANGED <<stopSpeedtest, asked, saved, core, shown>>

Results == IF call = NoCall THEN {} ELSE call.has
EntOf(r) == IF r.tag \in DOMAIN session.now.ents THEN session.now.ents[r.tag] ELSE None

(* What the answer has for p: "Something is very wrong" for a tag without  *)
(* a profile, and nothing is taken from a cancelled result.                *)
Taken(p) == {r \in Results : EntOf(r) = p /\ ~r.cancelled}

(* The results are written and saved.                                      *)
Save ==
    /\ session.at = "save"
    /\ LET Got  == {p \in Profiles : Taken(p) # {}}
           S(p) == (CHOOSE r \in Taken(p) : TRUE).speed
       IN  /\ speed' = [p \in Profiles |-> IF p \in Got THEN S(p) ELSE speed[p]]
           /\ disk'  = [p \in Profiles |-> IF p \in Got THEN S(p) ELSE disk[p]]
           /\ saved' = saved \cup Got
    /\ session' = At("next", session.left, NoCall)
    /\ call' = NoCall
    /\ UNCHANGED <<stopSpeedtest, asked, isRunning, current, poller, posted>>

-----------------------------------------------------------------------------
(* The core: `call' *)

Result(s, cancelled) == {[tag |-> call.tag, speed |-> s, cancelled |-> cancelled]}

Running(at, tag, cancelled) ==
    [at |-> at, tag |-> tag, todo |-> call.todo, has |-> call.has,
     cancelled |-> cancelled]

(* BatchSpeedTest: the next outbound, or after a stop no further one.      *)
NextOutbound ==
    /\ call.at = "next"
    /\ IF call.cancelled \/ DOMAIN call.todo = {}
       THEN call' = Running("end", 0, call.cancelled)
       ELSE \E tag \in DOMAIN call.todo :
               /\ \A k \in DOMAIN call.todo : tag <= k
               /\ call' = Running("fetch", tag, FALSE)
    /\ UNCHANGED <<isRunning, current, window, poller, shown>>

(* The outbound is done with, with the result R: the next one's turn.      *)
With(R) ==
    [at |-> "next", tag |-> 0, cancelled |-> call.cancelled,
     todo |-> [k \in DOMAIN call.todo \ {call.tag} |-> call.todo[k]],
     has |-> call.has \cup R]

(* Mutant: an outbound that fails has no result.                           *)
FetchFails_NoResult ==
    /\ call.at = "fetch"
    /\ call' = With({})
    /\ UNCHANGED <<isRunning, current, window, poller, shown>>

(* The list of servers does not come: an error, or after a stop a result   *)
(* without anything in it.                                                 *)
FetchFails ==
    /\ call.at = "fetch"
    /\ call' = With(Result(IF call.cancelled THEN NoSpeed ELSE NotAvailable, FALSE))
    /\ UNCHANGED <<isRunning, current, window, poller, shown>>

Fetched ==
    /\ call.at = "fetch" /\ ~call.cancelled
    /\ call' = Running("measure", call.tag, FALSE) /\ isRunning' = TRUE
    /\ UNCHANGED <<current, window, poller, shown>>

Own(final) == [of |-> call.todo[call.tag], final |-> final]

(* Every 50 ms what was measured so far is stored.                         *)
Tick ==
    /\ call.at = "measure"
    /\ current' = [tag |-> call.tag, speed |-> Own(FALSE)]
    /\ current' # current
    /\ UNCHANGED <<call, isRunning, window, poller, shown>>

(* The speed or an error, which is stored, too, but which no poller takes; *)
(* or a stop.                                                              *)
Measured ==
    /\ call.at = "measure"
    /\ \/ /\ call' = With(Result(Own(TRUE), FALSE))
          /\ current' = [tag |-> call.tag, speed |-> Own(TRUE)]
       \/ /\ call' = With(Result(NotAvailable, FALSE))
          /\ current' = None
       \/ /\ call.cancelled
          /\ call' = With(Result(NoSpeed, TRUE))
          /\ UNCHANGED current
    /\ isRunning' = FALSE
    /\ UNCHANGED <<window, poller, shown>>

(* The user stops the tests: stopTests, StopTest.                          *)
Stop ==
    /\ session # Idle /\ ~stopSpeedtest
    /\ stopSpeedtest' = TRUE
    /\ call' = IF call = NoCall THEN call ELSE Running(call.at, call.tag, TRUE)
    /\ UNCHANGED <<session, asked, saved, isRunning, current, poller, shown>>

-----------------------------------------------------------------------------
(* The pollers and the UI thread *)

PollCheck(n) ==
    /\ poller[n].at = "check"
    /\ poller' = [poller EXCEPT ![n].at = IF poller[n].done THEN "end" ELSE "query"]
    /\ UNCHANGED <<window, core, shown>>

(* The profile of what is measured.  A tag that the poller's map does not  *)
(* have gives the id 0; a full configuration's call has no tags at all.    *)
Polled(n) == IF current.tag \in DOMAIN poller[n].ents
             THEN poller[n].ents[current.tag] ELSE Zero

(* querySpeedtest: the reply is made.                                      *)
PollQuery(n) ==
    /\ poller[n].at = "query"
    /\ poller' = [poller EXCEPT ![n] =
          IF isRunning /\ current # None /\ Polled(n) # None
          THEN [at |-> "post", ents |-> @.ents, done |-> @.done,
                ent |-> Polled(n), speed |-> current.speed]
          ELSE [@ EXCEPT !.at = "check"]]
    /\ UNCHANGED <<window, core, shown>>

(* The reply has come and is posted.                                       *)
PollPost(n) ==
    /\ poller[n].at = "post" /\ Len(posted) < MaxPosted
    /\ posted' = Append(posted, [ent |-> poller[n].ent, speed |-> poller[n].speed])
    /\ poller' = [poller EXCEPT ![n] = [at |-> "check", ents |-> @.ents, done |-> @.done]]
    /\ UNCHANGED <<window, core, speed, disk>>

(* What is posted is shown if 500 ms have passed since the last time.      *)
RunPosted ==
    /\ posted # <<>> /\ posted' = Tail(posted)
    /\ speed' \in {speed, [speed EXCEPT ![Head(posted).ent] = Head(posted).speed]}
    /\ UNCHANGED <<window, core, poller, disk>>

-----------------------------------------------------------------------------

Init ==
    /\ session = Idle /\ stopSpeedtest = FALSE /\ asked = 0
    /\ saved = {}
    /\ call = NoCall /\ isRunning = FALSE /\ current = None
    /\ poller = [n \in 1..Calls |-> [at |-> "end"]]
    /\ posted = <<>> /\ speed = [p \in Profiles |-> NoSpeed] /\ disk = speed

Session == Build \/ End \/ Aborted \/ RunSpeedTest \/ CallCore \/ Answer \/ Save
Core    == NextOutbound \/ FetchFails \/ Fetched \/ Measured
Poll(n) == PollCheck(n) \/ PollQuery(n) \/ PollPost(n)

Next ==
    \/ \E s \in Groups : Click(s)
    \/ Stop \/ Session \/ Core \/ Tick
    \/ \E n \in 1..Calls : Poll(n)
    \/ RunPosted
Spec == Init /\ [][Next]_vars

(* Every thread goes on; a measurement ends by its timeouts.               *)
Fairness == /\ WF_vars(Session) /\ WF_vars(Core) /\ WF_vars(RunPosted)
            /\ \A n \in 1..Calls : WF_vars(Poll(n))

-----------------------------------------------------------------------------
(* Properties *)

(* A speed that is saved was measured for the profile that has it, though  *)
(* profiles are left out and full configurations take numbers of tags.     *)
OwnResult == \A p \in Profiles : disk[p].of \in {p, None}

(* A session that was not stopped saves for every profile of a list that is*)
(* tested in common when the core's call for it succeeded.                 *)
SavedInCommon ==
    [][session.at = "save" /\ session'.at = "next" /\ call # NoCall
         /\ ~call.cancelled =>
         \A tag \in DOMAIN session.now.ents : session.now.ents[tag] \in saved']_vars

(* speedtestRunning is given back, and every poller ends.                  *)
SessionEnds == session # Idle ~> session = Idle
PollersEnd  == \A n \in 1..Calls : poller[n].at # "end" ~> poller[n].at = "end"
TestsEnd    == SessionEnds /\ PollersEnd
=============================================================================
