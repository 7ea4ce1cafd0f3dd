--------------------------- MODULE SpeedTestProofs ---------------------------
(***************************************************************************)
(* For any group, with any full configurations and profiles left out: a    *)
(* speed is saved only for the profile that it was measured for, and every *)
(* profile tested in common that the core did not stop at has one saved.   *)
(***************************************************************************)
EXTENDS SpeedTest, TLAPS

(* A call tells a tag's profile by the outbound that has the tag.          *)
Matched(test) ==
    \A tag \in DOMAIN test.ents \cap DOMAIN test.outbounds :
        test.ents[tag] = test.outbounds[tag]

Calling == {"call", "wait", "answer", "save"}
CallsMatch == session.at \in Calling => Matched(session.now)

(* What the core has to measure, and has measured, are the outbounds of the*)
(* session's call.                                                         *)
TodoFits ==
    \A tag \in DOMAIN call.todo :
        /\ tag \in DOMAIN session.now.outbounds
        /\ call.todo[tag] = session.now.outbounds[tag]
Fits(R) ==
    \A r \in R :
        /\ r.tag \in DOMAIN session.now.outbounds
        /\ r.speed.of \in {None, session.now.outbounds[r.tag]}
CoreMeasures ==
    call # NoCall =>
        /\ session.at \in {"wait", "save"}
        /\ TodoFits /\ Fits(call.has)
        /\ call.at \in {"fetch", "measure"} => call.tag \in DOMAIN call.todo

ResultInv == CallsMatch /\ CoreMeasures /\ OwnResult

LEMMA InitResult == Init => ResultInv
  BY DEF Init, ResultInv, CallsMatch, CoreMeasures, OwnResult, Idle, Calling, NoSpeed

LEMMA NextCallsMatch == \A n \in NextCalls : Matched(n[1])
  <1>1. \A p : Matched(FullCall(p))
    BY DEF Matched, FullCall
  <1>2. \A s : Matched(CommonCall(s))
    BY DEF Matched, CommonCall, Tag2entID, Outbounds
  <1>3. ASSUME session.left.full # {}, NEW n \in NextCalls PROVE Matched(n[1])
    <2>1. PICK p \in session.left.full : n = <<FullCall(p),
                                         Left(session.left.full \ {p}, session.left.common)>>
      BY <1>3 DEF NextCalls
    <2>2. n[1] = FullCall(p)
      BY <2>1
    <2> QED BY <1>1, <2>2
  <1>4. ASSUME session.left.full = {}, NEW n \in NextCalls PROVE Matched(n[1])
    <2>1. n = <<CommonCall(session.list), NothingLeft>>
      BY <1>4 DEF NextCalls
    <2>2. n[1] = CommonCall(session.list)
      BY <2>1
    <2> QED BY <1>2, <2>2
  <1> QED BY <1>3, <1>4

-----------------------------------------------------------------------------
(* The steps of the session *)

(* Steps without a call, before and after.                                 *)
LEMMA WithoutCall ==
    ASSUME ResultInv, session'.at \notin Calling, call = NoCall, UNCHANGED <<call, disk>>
    PROVE  ResultInv'
  BY DEF ResultInv, CallsMatch, CoreMeasures, OwnResult, NoCall

LEMMA NoCallBetween ==
    ASSUME ResultInv, session.at \notin {"wait", "save"} PROVE call = NoCall
  BY DEF ResultInv, CoreMeasures

LEMMA RunKeeps == ASSUME ResultInv, RunSpeedTest PROVE ResultInv'
  <1>1. PICK n \in NextCalls : session' = At("call", n[2], n[1])
    BY DEF RunSpeedTest
  <1>2. session'.now = n[1] /\ session'.at = "call"
    BY <1>1 DEF At
  <1>3. CallsMatch'
    BY <1>2, NextCallsMatch DEF CallsMatch, Matched
  <1>4. call = NoCall /\ call' = call /\ disk' = disk
    BY NoCallBetween DEF RunSpeedTest, core, shown
  <1> QED BY <1>3, <1>4 DEF ResultInv, CoreMeasures, OwnResult, NoCall

LEMMA CallCoreKeeps == ASSUME ResultInv, CallCore PROVE ResultInv'
  <1>1. session'.now = session.now /\ session'.at \in {"wait", "answer"} /\ disk' = disk
    BY DEF CallCore, At, shown
  <1>2. CallsMatch' /\ OwnResult'
    BY <1>1 DEF ResultInv, CallsMatch, CallCore, Matched, OwnResult, Calling
  <1>3. CASE call' = NoCall
    BY <1>2, <1>3 DEF ResultInv, CoreMeasures, NoCall
  <1>4. CASE /\ call' = [at |-> "next", tag |-> 0, todo |-> session.now.outbounds,
                         has |-> {}, cancelled |-> FALSE]
             /\ session' = At("wait", session.left, session.now)
    <2>1. session'.at = "wait" /\ call'.todo = session'.now.outbounds
          /\ call'.has = {} /\ call'.at = "next"
      BY <1>1, <1>4 DEF At
    <2>2. CoreMeasures'
      BY <2>1 DEF CoreMeasures, TodoFits, Fits
    <2> QED BY <1>2, <2>2 DEF ResultInv
  <1> QED BY <1>3, <1>4 DEF CallCore

LEMMA AnswerKeeps == ASSUME ResultInv, Answer PROVE ResultInv'
  <1>1. /\ session'.at = "save" /\ session'.now = session.now
        /\ UNCHANGED <<call, disk>>
    BY DEF Answer, At, core, shown
  <1>2. CallsMatch' /\ OwnResult'
    BY <1>1 DEF ResultInv, CallsMatch, Answer, Matched, OwnResult, Calling
  <1>3. CoreMeasures'
    BY <1>1 DEF ResultInv, CoreMeasures, TodoFits, Fits, NoCall
  <1> QED BY <1>2, <1>3 DEF ResultInv

(* What is taken for p was measured for p.                                 *)
LEMMA TakenIsOwn ==
    ASSUME ResultInv, session.at = "save", NEW p \in Profiles, NEW r \in Taken(p)
    PROVE  r.speed.of \in {p, None}
  <1>1. r \in Results /\ EntOf(r) = p
    BY DEF Taken
  <1>2. call # NoCall /\ r \in call.has
    BY <1>1 DEF Results
  <1>3. /\ r.tag \in DOMAIN session.now.outbounds
        /\ r.speed.of \in {None, session.now.outbounds[r.tag]}
    BY <1>2 DEF ResultInv, CoreMeasures, Fits
  <1>4. r.tag \in DOMAIN session.now.ents /\ session.now.ents[r.tag] = p
    BY <1>1, ProfileAssumption DEF EntOf
  <1>5. session.now.ents[r.tag] = session.now.outbounds[r.tag]
    BY <1>3, <1>4 DEF ResultInv, CallsMatch, Calling, Matched
  <1> QED BY <1>3, <1>4, <1>5

LEMMA SaveKeeps == ASSUME ResultInv, Save PROVE ResultInv'
  <1>1. session'.at = "next" /\ call' = NoCall /\ session.at = "save"
    BY DEF Save, At
  <1>2. \A p \in Profiles :
           disk'[p] = IF Taken(p) # {} THEN (CHOOSE r \in Taken(p) : TRUE).speed ELSE disk[p]
    BY DEF Save
  <1>3. ASSUME NEW p \in Profiles PROVE disk'[p].of \in {p, None}
    <2>1. CASE Taken(p) = {}
      BY <1>2, <2>1 DEF ResultInv, OwnResult
    <2>2. CASE Taken(p) # {}
      <3> DEFINE r == CHOOSE r \in Taken(p) : TRUE
      <3>1. r \in Taken(p) /\ disk'[p] = r.speed
        BY <1>2, <2>2
      <3> QED BY <1>1, <3>1, TakenIsOwn
    <2> QED BY <2>1, <2>2
  <1> QED BY <1>1, <1>3 DEF ResultInv, CallsMatch, CoreMeasures, OwnResult, Calling, NoCall

LEMMA SessionKeeps ==
    ASSUME ResultInv, Session \/ Stop \/ \E s \in Groups : Click(s) PROVE ResultInv'
  <1>1. CASE \E s \in Groups : Click(s)
    BY <1>1, WithoutCall, NoCallBetween DEF Click, Idle, Calling, core, shown
  <1>2. CASE Build
    BY <1>2, WithoutCall, NoCallBetween DEF Build, At, Idle, Calling, core, shown
  <1>3. CASE End
    BY <1>3, WithoutCall, NoCallBetween DEF End, Idle, Calling, core, shown
  <1>4. CASE Aborted
    BY <1>4, WithoutCall, NoCallBetween DEF Aborted, At, Calling, core, shown
  <1>5. CASE Stop
    <2>1. UNCHANGED <<session, disk>>
      BY <1>5 DEF Stop, shown
    <2>2. CASE call' = call
      BY <2>1, <2>2 DEF ResultInv, CallsMatch, CoreMeasures, TodoFits, Fits, OwnResult,
         Matched, NoCall
    <2>3. CASE call # NoCall /\ call' = Running(call.at, call.tag, TRUE)
      <3>1. /\ call'.at = call.at /\ call'.tag = call.tag
            /\ call'.todo = call.todo /\ call'.has = call.has
        BY <2>3 DEF Running
      <3> QED BY <2>1, <2>3, <3>1 DEF ResultInv, CallsMatch, CoreMeasures, TodoFits,
             Fits, OwnResult, Matched
    <2> QED BY <1>5, <2>2, <2>3 DEF Stop
  <1> QED BY <1>1, <1>2, <1>3, <1>4, <1>5, RunKeeps, CallCoreKeeps, AnswerKeeps,
             SaveKeeps DEF Session

-----------------------------------------------------------------------------
(* The steps of the core *)

(* A step of the call that measures the same outbounds.                    *)
LEMMA RunningKeeps ==
    ASSUME ResultInv, call # NoCall, NEW at, NEW tag, NEW b,
           call' = Running(at, tag, b), UNCHANGED <<session, disk>>,
           at \in {"fetch", "measure"} => tag \in DOMAIN call.todo
    PROVE  ResultInv'
  <1>1. /\ call'.at = at /\ call'.tag = tag
        /\ call'.todo = call.todo /\ call'.has = call.has
    BY DEF Running
  <1> QED BY <1>1 DEF ResultInv, CallsMatch, CoreMeasures, TodoFits, Fits, OwnResult, Matched

(* An outbound is done with: its result is one of its own profile.         *)
LEMMA WithKeeps ==
    ASSUME ResultInv, call # NoCall, call.at \in {"fetch", "measure"},
           UNCHANGED <<session, disk>>, NEW s, NEW b,
           s.of \in {None, call.todo[call.tag]}, call' = With(Result(s, b))
    PROVE  ResultInv'
  <1>1. /\ call'.at = "next"
        /\ call'.todo = [k \in DOMAIN call.todo \ {call.tag} |-> call.todo[k]]
        /\ call'.has = call.has \cup Result(s, b)
    BY DEF With
  <1>2. TodoFits /\ Fits(call.has) /\ call.tag \in DOMAIN call.todo
        /\ session.at \in {"wait", "save"}
    BY DEF ResultInv, CoreMeasures
  <1>3. TodoFits'
    BY <1>1, <1>2 DEF TodoFits
  <1>4. \A r \in Result(s, b) :
           r.tag = call.tag /\ r.speed.of \in {None, session.now.outbounds[r.tag]}
    BY <1>2 DEF Result, TodoFits
  <1>5. \A r \in call'.has :
           /\ r.tag \in DOMAIN session'.now.outbounds
           /\ r.speed.of \in {None, session'.now.outbounds[r.tag]}
    BY <1>1, <1>2, <1>4 DEF Fits, TodoFits
  <1>6. CoreMeasures'
    BY <1>1, <1>2, <1>3, <1>5 DEF CoreMeasures, Fits
  <1> QED BY <1>6 DEF ResultInv, CallsMatch, OwnResult, Matched

LEMMA CoreKeeps == ASSUME ResultInv, Core PROVE ResultInv'
  <1>1. UNCHANGED <<session, disk>>
    BY DEF Core, NextOutbound, FetchFails, Fetched, Measured, window, shown
  <1>2. call.at \in {"next", "fetch", "measure"}
    BY DEF Core, NextOutbound, FetchFails, Fetched, Measured
  <1>3. call # NoCall
    <2>1. NoCall.at = "none"
      BY DEF NoCall
    <2> QED BY <1>2, <2>1
  <1>4. CASE NextOutbound
    <2>1. CASE call' = Running("end", 0, call.cancelled)
      BY <1>1, <1>3, <2>1, RunningKeeps
    <2>2. CASE \E tag \in DOMAIN call.todo : call' = Running("fetch", tag, FALSE)
      BY <1>1, <1>3, <2>2, RunningKeeps
    <2> QED BY <1>4, <2>1, <2>2 DEF NextOutbound
  <1>5. CASE FetchFails
    <2>1. PICK s \in {NoSpeed, NotAvailable}, b \in BOOLEAN : call' = With(Result(s, b))
      BY <1>5 DEF FetchFails
    <2>2. s.of \in {None, call.todo[call.tag]}
      BY DEF NoSpeed, NotAvailable
    <2>3. call.at \in {"fetch", "measure"}
      BY <1>5 DEF FetchFails
    <2> QED BY <1>1, <1>3, <2>1, <2>2, <2>3, WithKeeps
  <1>6. CASE Fetched
    <2>1. call' = Running("measure", call.tag, FALSE) /\ call.tag \in DOMAIN call.todo
      BY <1>3, <1>6 DEF Fetched, ResultInv, CoreMeasures
    <2> QED BY <1>1, <1>3, <2>1, RunningKeeps
  <1>7. CASE Measured
    <2>1. PICK s \in {Own(TRUE), NotAvailable, NoSpeed}, b \in BOOLEAN :
             call' = With(Result(s, b))
      BY <1>7 DEF Measured
    <2>2. s.of \in {None, call.todo[call.tag]}
      BY DEF Own, NotAvailable, NoSpeed
    <2>3. call.at = "measure"
      BY <1>7 DEF Measured
    <2> QED BY <1>1, <1>3, <2>1, <2>2, <2>3, WithKeeps
  <1> QED BY <1>4, <1>5, <1>6, <1>7 DEF Core

-----------------------------------------------------------------------------

LEMMA OthersKeep ==
    ASSUME ResultInv, UNCHANGED <<session, call, disk>> PROVE ResultInv'
  BY DEF ResultInv, CallsMatch, CoreMeasures, TodoFits, Fits, OwnResult, Matched, NoCall

LEMMA NextResult == ResultInv /\ [Next]_vars => ResultInv'
  <1> SUFFICES ASSUME ResultInv, [Next]_vars PROVE ResultInv'
    OBVIOUS
  <1>1. CASE Tick
    BY <1>1, OthersKeep DEF Tick, window, shown
  <1>2. ASSUME NEW n \in 1..Calls, Poll(n) PROVE ResultInv'
    BY <1>2, OthersKeep DEF Poll, PollCheck, PollQuery, PollPost, window, core, shown
  <1>3. CASE RunPosted
    BY <1>3, OthersKeep DEF RunPosted, window, core
  <1>4. CASE UNCHANGED vars
    BY <1>4, OthersKeep DEF vars, window, core, shown
  <1> QED BY <1>1, <1>2, <1>3, <1>4, SessionKeeps, CoreKeeps DEF Next

(* runSpeedTest finds the profile of a result by tag2entID, which          *)
(* BuildTestConfig numbers as it goes, leaving some profiles out and giving*)
(* others calls of their own: a speed is saved only where it belongs.      *)
THEOREM SpeedsAreOwn == Spec => []OwnResult
  <1>1. ResultInv => OwnResult
    BY DEF ResultInv
  <1> QED BY <1>1, InitResult, NextResult, PTL DEF Spec

-----------------------------------------------------------------------------
(* What a call has results for *)

(* A session has a list of profiles; its call knows a profile for each of  *)
(* its tags, and there is an outbound of each.                             *)
KnowsProfiles(test) ==
    \A tag \in DOMAIN test.ents :
        tag \in DOMAIN test.outbounds /\ test.ents[tag] \in Profiles
NamesInv ==
    /\ session # Idle => session.list \in Seq(Profiles)
    /\ session.at \in Calling => KnowsProfiles(session.now)

(* While it was not stopped, the core has a result that is not cancelled of*)
(* each outbound that is no longer to do, and it ends with none to do.     *)
HasResult(tag) == \E r \in call.has : r.tag = tag /\ ~r.cancelled
Answered ==
    /\ \A tag \in DOMAIN session.now.outbounds :
          tag \in DOMAIN call.todo \/ HasResult(tag)
    /\ call.at = "end" => DOMAIN call.todo = {}
CallInv ==
    call # NoCall =>
        /\ session.at \in {"wait", "save"}
        /\ call.at \in {"next", "fetch", "measure", "end"} /\ call.cancelled \in BOOLEAN
        /\ session.at = "save" => call.at = "end"
        /\ ~call.cancelled => Answered

SavedInv == NamesInv /\ CallInv

LEMMA InitSaved == Init => SavedInv
  BY DEF Init, SavedInv, NamesInv, CallInv, Idle, Calling

(* The profiles of the common configuration are in the list.               *)
LEMMA IndexedTypes ==
    ASSUME NEW s \in Seq(Profiles), NEW tag \in DOMAIN Indexed(s)
    PROVE  Indexed(s)[tag] \in Profiles
  <1> DEFINE i == CHOOSE i \in Common(s) : Index(s, i) = tag
  <1>1. \E k \in Common(s) : Index(s, k) = tag
    BY DEF Indexed
  <1>2. i \in Common(s) /\ Indexed(s)[tag] = s[i]
    BY <1>1 DEF Indexed
  <1>3. i \in DOMAIN s
    BY <1>2 DEF Common, TestedIn
  <1> HIDE DEF i
  <1> QED BY <1>2, <1>3

LEMMA NextCallsKnow ==
    ASSUME session.list \in Seq(Profiles) PROVE \A n \in NextCalls : KnowsProfiles(n[1])
  <1>1. \A p : KnowsProfiles(FullCall(p))
    BY DEF KnowsProfiles, FullCall
  <1>2. KnowsProfiles(CommonCall(session.list))
    BY IndexedTypes DEF KnowsProfiles, CommonCall, Tag2entID, Outbounds
  <1>3. ASSUME session.left.full # {}, NEW n \in NextCalls PROVE KnowsProfiles(n[1])
    <2>1. PICK p \in session.left.full : n = <<FullCall(p),
                                         Left(session.left.full \ {p}, session.left.common)>>
      BY <1>3 DEF NextCalls
    <2>2. n[1] = FullCall(p)
      BY <2>1
    <2> QED BY <1>1, <2>2
  <1>4. ASSUME session.left.full = {}, NEW n \in NextCalls PROVE KnowsProfiles(n[1])
    <2>1. n = <<CommonCall(session.list), NothingLeft>>
      BY <1>4 DEF NextCalls
    <2>2. n[1] = CommonCall(session.list)
      BY <2>1
    <2> QED BY <1>2, <2>2
  <1> QED BY <1>3, <1>4

-----------------------------------------------------------------------------

(* Steps between two calls.                                                *)
LEMMA BetweenCalls ==
    ASSUME SavedInv, UNCHANGED call, session.at \notin {"wait", "save"},
           session' # Idle => session'.list \in Seq(Profiles),
           session'.at \in Calling => KnowsProfiles(session'.now)
    PROVE  SavedInv'
  <1>1. call = NoCall
    BY DEF SavedInv, CallInv
  <1>2. NamesInv'
    BY DEF NamesInv, KnowsProfiles
  <1> QED BY <1>1, <1>2 DEF SavedInv, CallInv, NoCall

LEMMA SessionSaves ==
    ASSUME SavedInv, Session \/ Stop \/ \E s \in Groups : Click(s) PROVE SavedInv'
  <1>1. session.at # "idle" => session.list \in Seq(Profiles)
    BY DEF SavedInv, NamesInv, Idle
  <1>2. ASSUME NEW s \in Groups, Click(s) PROVE SavedInv'
    <2>1. session.at = "idle" /\ session'.at = "build" /\ session'.list = s /\ UNCHANGED call
      BY <1>2 DEF Click, Idle, core
    <2>2. s \in Seq(Profiles)
      BY ProfileAssumption
    <2> QED BY <2>1, <2>2, BetweenCalls DEF Calling
  <1>3. CASE Build
    <2>1. session' = At("next", AllOf(session.list), NoCall) \/ session' = Idle
      BY <1>3 DEF Build
    <2>2. /\ session'.at \notin Calling
          /\ session' # Idle => session'.list = session.list
      BY <2>1 DEF At, Idle, Calling
    <2> QED BY <1>1, <1>3, <2>2, BetweenCalls DEF Build, core
  <1>4. CASE End
    <2>1. session' = Idle /\ session'.at \notin Calling
      BY <1>4 DEF End, Idle, Calling
    <2> QED BY <1>4, <2>1, BetweenCalls DEF End, core
  <1>5. CASE Aborted
    <2>1. session'.at = "next" /\ session'.list = session.list
      BY <1>5 DEF Aborted, At
    <2> QED BY <1>1, <1>5, <2>1, BetweenCalls DEF Aborted, core, Calling
  <1>6. CASE RunSpeedTest
    <2>1. PICK n \in NextCalls : session' = At("call", n[2], n[1])
      BY <1>6 DEF RunSpeedTest
    <2>2. session'.list = session.list /\ session'.now = n[1]
      BY <2>1 DEF At
    <2>3. KnowsProfiles(session'.now)
      BY <1>1, <1>6, <2>2, NextCallsKnow DEF RunSpeedTest
    <2> QED BY <1>1, <1>6, <2>2, <2>3, BetweenCalls DEF RunSpeedTest, core
  <1>7. CASE CallCore
    <2>1. /\ session.at = "call" /\ session'.at \in {"wait", "answer"}
          /\ session'.list = session.list /\ session'.now = session.now
      BY <1>7 DEF CallCore, At
    <2>2. NamesInv'
      BY <1>1, <2>1 DEF SavedInv, NamesInv, KnowsProfiles, Calling
    <2>3. CASE call' = NoCall
      BY <2>2, <2>3 DEF SavedInv, CallInv, NoCall
    <2>4. CASE /\ call' = [at |-> "next", tag |-> 0, todo |-> session.now.outbounds,
                           has |-> {}, cancelled |-> FALSE]
               /\ session' = At("wait", session.left, session.now)
      <3>1. /\ call'.at = "next" /\ call'.todo = session'.now.outbounds
            /\ call'.cancelled = FALSE /\ session'.at = "wait"
        BY <2>1, <2>4 DEF At
      <3>2. Answered'
        BY <3>1 DEF Answered
      <3> QED BY <2>2, <3>1, <3>2 DEF SavedInv, CallInv
    <2> QED BY <1>7, <2>3, <2>4 DEF CallCore
  <1>8. CASE Answer
    <2>1. /\ session.at \in {"wait", "answer"} /\ session'.at = "save"
          /\ session'.list = session.list /\ session'.now = session.now
          /\ call.at \in {"none", "end"} /\ UNCHANGED call
      BY <1>8 DEF Answer, At, core
    <2>2. NamesInv'
      BY <1>1, <2>1 DEF SavedInv, NamesInv, KnowsProfiles, Calling
    <2>3. CallInv'
      BY <2>1 DEF SavedInv, CallInv, Answered, HasResult, NoCall
    <2> QED BY <2>2, <2>3 DEF SavedInv
  <1>9. CASE Save
    <2>1. session.at = "save" /\ session'.at = "next" /\ session'.list = session.list
          /\ call' = NoCall
      BY <1>9 DEF Save, At
    <2> QED BY <1>1, <2>1 DEF SavedInv, NamesInv, CallInv, Calling, NoCall
  <1>10. CASE Stop
    <2>1. UNCHANGED session
      BY <1>10 DEF Stop
    <2>2. NamesInv'
      BY <2>1 DEF SavedInv, NamesInv, KnowsProfiles
    <2>3. CASE UNCHANGED call
      BY <2>1, <2>2, <2>3 DEF SavedInv, CallInv, Answered, HasResult, NoCall
    <2>4. CASE call # NoCall /\ call' = Running(call.at, call.tag, TRUE)
      <3>1. call'.at = call.at /\ call'.cancelled = TRUE
        BY <2>4 DEF Running
      <3> QED BY <2>1, <2>2, <2>4, <3>1 DEF SavedInv, CallInv
    <2> QED BY <1>10, <2>3, <2>4 DEF Stop
  <1> QED BY <1>2, <1>3, <1>4, <1>5, <1>6, <1>7, <1>8, <1>9, <1>10 DEF Session

(* The core goes on with the same outbounds, or ends with none to do.      *)
LEMMA RunningSaves ==
    ASSUME SavedInv, call # NoCall, session.at = "wait", UNCHANGED session,
           NEW at \in {"fetch", "measure", "end"}, NEW tag, NEW b \in BOOLEAN,
           call' = Running(at, tag, b), ~b => ~call.cancelled,
           at = "end" => b \/ DOMAIN call.todo = {}
    PROVE  SavedInv'
  <1>1. /\ call'.at = at /\ call'.todo = call.todo
        /\ call'.has = call.has /\ call'.cancelled = b
    BY DEF Running
  <1>2. ~b => Answered'
    BY <1>1 DEF SavedInv, CallInv, Answered, HasResult
  <1>3. NamesInv'
    BY DEF SavedInv, NamesInv, KnowsProfiles
  <1> QED BY <1>1, <1>2, <1>3 DEF SavedInv, CallInv

LEMMA WithSaves ==
    ASSUME SavedInv, call # NoCall, session.at = "wait", UNCHANGED session,
           NEW s, NEW b, call' = With(Result(s, b)), b => call.cancelled
    PROVE  SavedInv'
  <1>1. /\ call'.at = "next" /\ call'.cancelled = call.cancelled
        /\ DOMAIN call'.todo = DOMAIN call.todo \ {call.tag}
        /\ call'.has = call.has \cup Result(s, b)
    BY DEF With
  <1>2. ~call.cancelled => Answered'
    <2> SUFFICES ASSUME ~call.cancelled, NEW tag \in DOMAIN session.now.outbounds
                 PROVE  tag \in DOMAIN call'.todo \/ HasResult(tag)'
      BY <1>1 DEF Answered
    <2>1. CASE tag = call.tag
      <3> DEFINE r == [tag |-> call.tag, speed |-> s, cancelled |-> b]
      <3>1. r \in call'.has /\ r.tag = call.tag /\ ~r.cancelled
        BY <1>1 DEF Result
      <3> QED BY <2>1, <3>1 DEF HasResult
    <2>2. CASE tag # call.tag
      <3>1. tag \in DOMAIN call.todo \/ HasResult(tag)
        BY DEF SavedInv, CallInv, Answered
      <3> QED BY <1>1, <2>2, <3>1 DEF HasResult
    <2> QED BY <2>1, <2>2
  <1>3. NamesInv'
    BY DEF SavedInv, NamesInv, KnowsProfiles
  <1>4. call.cancelled \in BOOLEAN
    BY DEF SavedInv, CallInv
  <1> QED BY <1>1, <1>2, <1>3, <1>4 DEF SavedInv, CallInv

LEMMA CoreSaves == ASSUME SavedInv, Core PROVE SavedInv'
  <1>1. UNCHANGED session
    BY DEF Core, NextOutbound, FetchFails, Fetched, Measured, window
  <1>2. call.at \in {"next", "fetch", "measure"}
    BY DEF Core, NextOutbound, FetchFails, Fetched, Measured
  <1>3. call # NoCall
    <2>1. NoCall.at = "none"
      BY DEF NoCall
    <2> QED BY <1>2, <2>1
  <1>4. session.at = "wait" /\ call.cancelled \in BOOLEAN
    BY <1>2, <1>3 DEF SavedInv, CallInv
  <1>5. CASE NextOutbound
    <2>1. CASE call.cancelled \/ DOMAIN call.todo = {}
      <3>1. call' = Running("end", 0, call.cancelled)
        BY <1>5, <2>1 DEF NextOutbound
      <3> QED BY <1>1, <1>3, <1>4, <2>1, <3>1, RunningSaves
    <2>2. CASE ~(call.cancelled \/ DOMAIN call.todo = {})
      <3>1. PICK tag \in DOMAIN call.todo : call' = Running("fetch", tag, FALSE)
        BY <1>5, <2>2 DEF NextOutbound
      <3> QED BY <1>1, <1>3, <1>4, <2>2, <3>1, RunningSaves
    <2> QED BY <2>1, <2>2
  <1>6. CASE FetchFails
    <2>1. PICK s : call' = With(Result(s, FALSE))
      BY <1>6 DEF FetchFails
    <2> QED BY <1>1, <1>3, <1>4, <2>1, WithSaves
  <1>7. CASE Fetched
    <2>1. call' = Running("measure", call.tag, FALSE) /\ ~call.cancelled
      BY <1>7 DEF Fetched
    <2> QED BY <1>1, <1>3, <1>4, <2>1, RunningSaves
  <1>8. CASE Measured
    <2>1. \/ \E s : call' = With(Result(s, FALSE))
          \/ call.cancelled /\ call' = With(Result(NoSpeed, TRUE))
      BY <1>8 DEF Measured
    <2> QED BY <1>1, <1>3, <1>4, <2>1, WithSaves
  <1> QED BY <1>5, <1>6, <1>7, <1>8 DEF Core

LEMMA NextSaved == SavedInv /\ [Next]_vars => SavedInv'
  <1> SUFFICES ASSUME SavedInv, [Next]_vars PROVE SavedInv'
    OBVIOUS
  <1>1. ASSUME UNCHANGED <<session, call>> PROVE SavedInv'
    BY <1>1 DEF SavedInv, NamesInv, CallInv, KnowsProfiles, Answered, HasResult, NoCall
  <1>2. CASE Tick \/ RunPosted \/ UNCHANGED vars
    BY <1>1, <1>2 DEF Tick, RunPosted, vars, window, core
  <1>3. ASSUME NEW n \in 1..Calls, Poll(n) PROVE SavedInv'
    BY <1>1, <1>3 DEF Poll, PollCheck, PollQuery, PollPost, window, core
  <1> QED BY <1>2, <1>3, SessionSaves, CoreSaves DEF Next

(* A call that was not stopped has a result for every tag, also where the  *)
(* test failed (BatchSpeedTest, SpTQuerier), and runSpeedTest saves it for *)
(* the profile that tag2entID has for the tag: none is passed over.        *)
THEOREM CommonSpeedsAreSaved == Spec => SavedInCommon
  <1> DEFINE AllSaved ==
        session.at = "save" /\ session'.at = "next" /\ call # NoCall /\ ~call.cancelled =>
          \A tag \in DOMAIN session.now.ents : session.now.ents[tag] \in saved'
  <1>1. SavedInv /\ [Next]_vars => [AllSaved]_vars
    <2> SUFFICES ASSUME SavedInv, Next, session.at = "save", session'.at = "next",
                        call # NoCall, ~call.cancelled,
                        NEW tag \in DOMAIN session.now.ents
                 PROVE  session.now.ents[tag] \in saved'
      OBVIOUS
    <2> DEFINE p == session.now.ents[tag]
    <2>1. p \in Profiles /\ tag \in DOMAIN session.now.outbounds
      BY DEF SavedInv, NamesInv, KnowsProfiles, Calling
    <2>2. PICK r \in call.has : r.tag = tag /\ ~r.cancelled
      BY <2>1 DEF SavedInv, CallInv, Answered, HasResult
    <2>3. r \in Taken(p)
      BY <2>2 DEF Taken, Results, EntOf
    <2>4. Save
      <3>1. ~\E q \in Groups : Click(q)
        BY DEF Click, Idle
      <3>2. ~Stop
        BY DEF Stop
      <3>3. Session => Save
        BY DEF Session, Build, End, Aborted, RunSpeedTest, CallCore, Answer
      <3>4. ~(Core \/ Tick)
        BY DEF Core, NextOutbound, FetchFails, Fetched, Measured, Tick, window
      <3>5. \A n : ~Poll(n)
        BY DEF Poll, PollCheck, PollQuery, PollPost, window
      <3>6. ~RunPosted
        BY DEF RunPosted, window
      <3> QED BY <3>1, <3>2, <3>3, <3>4, <3>5, <3>6 DEF Next
    <2>5. saved' = saved \cup {q \in Profiles : Taken(q) # {}}
      BY <2>4 DEF Save
    <2> QED BY <2>1, <2>3, <2>5
  <1>2. Spec => []SavedInv
    BY InitSaved, NextSaved, PTL DEF Spec
  <1>3. Spec => [][AllSaved]_vars
    BY <1>1, <1>2, PTL DEF Spec
  <1> QED BY <1>3 DEF SavedInCommon
=============================================================================
