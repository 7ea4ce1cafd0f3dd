---------------------------- MODULE UrlTestProofs ---------------------------
(***************************************************************************)
(* What the lock of the url tests guarantees for any number of clicks, of  *)
(* profiles and of pool threads.  The proofs only follow the coordinators, *)
(* the jobs' places, the counters and the lock.                            *)
(***************************************************************************)
EXTENDS UrlTest, FiniteSetTheorems, TLAPS

(* A session has finitely many jobs.                                       *)
LEMMA JobsFinite ==
    /\ IsFiniteSet(Jobs)
    /\ \A S \in SUBSET Jobs : IsFiniteSet(S)
  <1>1. IsFiniteSet(Sessions)
    BY FS_Interval, BoundAssumption DEF Sessions
  <1>2. IsFiniteSet(Full \cup {Group})
    BY FS_AddElement, FiniteAssumption
  <1>3. IsFiniteSet(Jobs)
    BY <1>1, <1>2, FS_Product DEF Jobs
  <1> QED BY <1>3, FS_Subset

(* Which jobs a session has depends on its own list alone.                 *)
LEMMA JobsOfKept ==
    ASSUME NEW s \in Sessions, tested'[s] = tested[s]
    PROVE  JobsOf(s)' = JobsOf(s)
  BY DEF JobsOf, Items, Tested, Range

LEMMA JobsOfTypes ==
    ASSUME NEW s \in Sessions
    PROVE  /\ JobsOf(s) \subseteq Jobs /\ Counted(s) \subseteq JobsOf(s)
           /\ \A j \in JobsOf(s) : j[1] = s
           /\ TestCount(s) \in Nat
  <1>1. JobsOf(s) \in SUBSET Jobs
    BY DEF JobsOf
  <1>2. TestCount(s) \in Nat
    BY <1>1, JobsFinite, FS_CardinalityType DEF TestCount
  <1> QED BY <1>1, <1>2 DEF JobsOf, Counted

(* The job of a session has its session among the sessions.                *)
LEMMA JobTypes == \A j \in Jobs : j[1] \in Sessions
  BY DEF Jobs

LEMMA InitHolds == Init => LockInv
  <1> SUFFICES ASSUME Init PROVE LockInv
    OBVIOUS
  <1>1. LockTypes /\ NotBegun
    BY DEF Init, LockTypes, NotBegun
  <1>2. \A s \in Sessions : ~Testing(s) /\ ~Holds(s)
    BY JobsOfTypes DEF Init, Testing, Holds
  <1>3. LockIsHeld
    BY <1>2 DEF Init, LockIsHeld
  <1> QED BY <1>1, <1>3 DEF LockInv

(* Steps that change no session and no lock: a job moves on its way, or is *)
(* done with a counter that it has been added to.                          *)
Quiet ==
    /\ UNCHANGED <<sessions, speedtestRunning, unlocks>>
    /\ job' \in [Jobs -> {"none", "queued", "calling", "testing", "writing",
                         "count", "check"}]
    /\ \A j \in Jobs : job'[j] \in {"none", "check"}
                       <=> job[j] \in {"none", "check"}
    /\ \A j \in Jobs : job[j] = "none" => job'[j] = "none"
    /\ \A j \in Jobs : job'[j] # "none" => job[j] # "none"

LEMMA QuietKeeps == ASSUME LockInv, Quiet PROVE LockInv'
  <1>1. \A s \in Sessions : JobsOf(s)' = JobsOf(s)
    BY JobsOfKept DEF Quiet, sessions
  <1>2. LockTypes'
    BY DEF LockInv, LockTypes, Quiet, sessions
  <1>3. NotBegun'
    BY <1>1, JobTypes DEF LockInv, NotBegun, Quiet, sessions
  <1>4. \A s \in Sessions : /\ Counted(s)' = Counted(s)
                            /\ Testing(s)' <=> Testing(s)
                            /\ Holds(s)' <=> Holds(s)
    BY <1>1, JobsOfTypes DEF Counted, Testing, Holds, Quiet, sessions
  <1>5. UnlockedOnce' => LockIsHeld'
    <2> SUFFICES ASSUME UnlockedOnce' PROVE LockIsHeld'
      OBVIOUS
    <2>1. LockIsHeld
      BY DEF LockInv, UnlockedOnce, Quiet
    <2> QED BY <2>1, <1>4 DEF LockIsHeld, Quiet, sessions
  <1> QED BY <1>2, <1>3, <1>5 DEF LockInv

-----------------------------------------------------------------------------
(* The coordinator *)

(* What the sessions other than s keep when s takes a step.                *)
LEMMA OthersKept ==
    ASSUME LockInv, NEW s \in Sessions, NEW t \in Sessions, t # s,
           coord'[t] = coord[t], tested'[t] = tested[t],
           unlocks'[t] = unlocks[t],
           \A j \in Jobs : j[1] = t => job'[j] = job[j]
    PROVE  /\ Testing(t)' <=> Testing(t)
           /\ Holds(t)' <=> Holds(t)
           /\ JobsOf(t)' = JobsOf(t)
           /\ Counted(t)' = Counted(t)
  <1>1. JobsOf(t)' = JobsOf(t)
    BY JobsOfKept
  <1> QED BY <1>1, JobsOfTypes DEF Testing, Holds, Counted

(* A click finds the lock free, so nobody holds it.                        *)
LEMMA UrlTestKeeps ==
    ASSUME LockInv, NEW s \in Sessions, NEW ps, UrlTest(s, ps)
    PROVE  LockInv'
  <1> USE DEF UrlTest, CoordAt, jobs, calls, history
  <1>1. /\ speedtestRunning = FALSE /\ speedtestRunning' = TRUE
        /\ coord[s] = "none" /\ coord'[s] = "build"
        /\ UNCHANGED <<counter, job, unlocks>>
        /\ \A t \in Sessions : t # s => /\ coord'[t] = coord[t]
                                        /\ tested'[t] = tested[t]
    BY DEF LockInv, LockTypes
  <1>2. LockTypes'
    BY DEF LockInv, LockTypes
  <1>3. \A t \in Sessions : t # s => JobsOf(t)' = JobsOf(t)
    BY <1>1, JobsOfKept
  <1>4. \A j \in Jobs : j[1] = s => job'[j] = "none"
    BY <1>1 DEF LockInv, NotBegun
  <1>5. NotBegun'
    BY <1>1, <1>3, <1>4, JobTypes DEF LockInv, NotBegun
  <1>6. ASSUME UnlockedOnce' PROVE LockIsHeld'
    <2>1. LockIsHeld
      BY <1>1, <1>6 DEF LockInv, UnlockedOnce
    <2>2. \A t \in Sessions : ~Holds(t)
      BY <1>1, <2>1 DEF LockIsHeld
    <2>3. ~Testing(s)'
      BY <1>4, JobsOfTypes DEF Testing, JobsOf
    <2>4. \A t \in Sessions : t # s =>
             /\ Testing(t)' <=> Testing(t)
             /\ Holds(t)' <=> Holds(t)
             /\ Counted(t)' = Counted(t)
      BY <1>1, OthersKept
    <2> QED BY <1>1, <2>1, <2>2, <2>3, <2>4 DEF LockIsHeld
  <1> QED BY <1>2, <1>5, <1>6 DEF LockInv

(* A session whose configuration fails gives back the lock it held.        *)
LEMMA BuildFailsKeeps ==
    ASSUME LockInv, NEW s \in Sessions, BuildFails(s) PROVE LockInv'
  <1>0. /\ coord[s] = "build" /\ coord' = [coord EXCEPT ![s] = "over"]
        /\ unlocks' = [unlocks EXCEPT ![s] = @ + 1]
        /\ speedtestRunning' = FALSE
        /\ UNCHANGED <<counter, job, tested>>
    BY DEF BuildFails, CoordAt, Unlock, jobs
  <1>1. /\ coord[s] = "build" /\ coord'[s] = "over"
        /\ unlocks[s] = 0 /\ unlocks'[s] = 1 /\ speedtestRunning' = FALSE
        /\ UNCHANGED <<counter, job, tested>>
        /\ \A t \in Sessions : t # s => /\ coord'[t] = coord[t]
                                        /\ unlocks'[t] = unlocks[t]
    BY <1>0 DEF LockInv, LockTypes, NotBegun
  <1>2. LockTypes'
    <2>1. unlocks' \in [Sessions -> Nat]
      BY <1>0 DEF LockInv, LockTypes
    <2> QED BY <1>0, <2>1 DEF LockInv, LockTypes
  <1>3. \A t \in Sessions : JobsOf(t)' = JobsOf(t)
    BY <1>1, JobsOfKept
  <1>4. \A j \in Jobs : j[1] = s => job'[j] = "none"
    BY <1>1 DEF LockInv, NotBegun
  <1>5. NotBegun'
    BY <1>1, <1>3, <1>4, JobTypes DEF LockInv, NotBegun
  <1>6. ASSUME UnlockedOnce' PROVE LockIsHeld'
    <2>1. LockIsHeld
      BY <1>1, <1>6 DEF LockInv, UnlockedOnce
    <2>2. \A t \in Sessions : t # s => ~Holds(t)
      BY <1>1, <2>1 DEF LockIsHeld, Holds
    <2>3. ~Testing(s)' /\ ~Holds(s)'
      BY <1>1, <1>4, JobsOfTypes DEF Testing, Holds, JobsOf
    <2>4. \A t \in Sessions : t # s =>
             /\ Testing(t)' <=> Testing(t)
             /\ Holds(t)' <=> Holds(t)
             /\ Counted(t)' = Counted(t)
      BY <1>1, OthersKept
    <2> QED BY <1>1, <2>1, <2>2, <2>3, <2>4 DEF LockIsHeld
  <1> QED BY <1>2, <1>5, <1>6 DEF LockInv

(* The jobs are handed out: all of them are still to count, or there is    *)
(* none and the lock is given back.                                        *)
LEMMA BuildKeeps ==
    ASSUME LockInv, NEW s \in Sessions, Build(s) PROVE LockInv'
  <1>1. /\ coord[s] = "build" /\ coord' = [coord EXCEPT ![s] = "wait"]
        /\ unlocks[s] = 0 /\ counter[s] = 0
        /\ UNCHANGED counter
        /\ job' = [j \in Jobs |-> IF j \in JobsOf(s)' THEN "queued" ELSE job[j]]
        /\ \A j \in Jobs : j[1] = s => job[j] = "none"
    BY DEF Build, CoordAt, LockInv, NotBegun
  <1>2. \/ /\ TestCount(s)' = 0 /\ speedtestRunning' = FALSE
           /\ unlocks' = [unlocks EXCEPT ![s] = @ + 1]
        \/ UNCHANGED <<speedtestRunning, unlocks>>
    BY DEF Build, Unlock
  <1>3. /\ DOMAIN tested' = Sessions
        /\ \A t \in Sessions : t # s => tested'[t] = tested[t]
    BY DEF Build, LockInv, LockTypes
  <1>4. /\ coord'[s] = "wait"
        /\ \A t \in Sessions : t # s => /\ coord'[t] = coord[t]
                                        /\ unlocks'[t] = unlocks[t]
        /\ unlocks'[s] \in Nat
    BY <1>1, <1>2 DEF LockInv, LockTypes
  <1>5. JobsOf(s)' \subseteq Jobs /\ \A j \in JobsOf(s)' : j[1] = s
    BY DEF JobsOf
  <1>6. \A t \in Sessions : t # s =>
           /\ JobsOf(t)' = JobsOf(t)
           /\ \A j \in Jobs : j[1] = t => job'[j] = job[j]
    BY <1>1, <1>3, <1>5, JobsOfKept
  <1>7. LockTypes'
    <2>1. unlocks' \in [Sessions -> Nat]
      BY <1>2 DEF LockInv, LockTypes
    <2>2. job' \in [Jobs -> {"none", "queued", "calling", "testing", "writing",
                            "count", "check"}]
      BY <1>1 DEF LockInv, LockTypes
    <2>3. speedtestRunning' \in BOOLEAN
      BY <1>2 DEF LockInv, LockTypes
    <2> QED BY <1>1, <1>3, <2>1, <2>2, <2>3 DEF LockInv, LockTypes
  <1>8. NotBegun'
    <2>1. ASSUME NEW j \in Jobs, job'[j] # "none" PROVE j \in JobsOf(j[1])'
      <3>1. CASE j[1] = s
        BY <1>1, <2>1, <3>1
      <3>2. CASE j[1] # s
        BY <1>6, <2>1, <3>2, JobTypes DEF LockInv, NotBegun
      <3> QED BY <3>1, <3>2
    <2>2. ASSUME NEW t \in Sessions, coord'[t] \in {"none", "build"}
          PROVE  /\ unlocks'[t] = 0 /\ counter'[t] = 0
                 /\ \A j \in Jobs : j[1] = t => job'[j] = "none"
      BY <1>1, <1>4, <1>6, <2>2 DEF LockInv, NotBegun
    <2> QED BY <2>1, <2>2 DEF NotBegun
  <1>9. ASSUME UnlockedOnce' PROVE LockIsHeld'
    <2>1. LockIsHeld
      <3>1. UnlockedOnce
        BY <1>1, <1>4, <1>9 DEF UnlockedOnce
      <3> QED BY <3>1 DEF LockInv
    <2>2. Holds(s) /\ speedtestRunning /\ \A t \in Sessions : t # s => ~Holds(t)
      BY <1>1, <2>1 DEF LockIsHeld, Holds
    <2>3. \A t \in Sessions : t # s =>
             /\ Testing(t)' <=> Testing(t)
             /\ Holds(t)' <=> Holds(t)
             /\ Counted(t)' = Counted(t)
      BY <1>3, <1>4, <1>6, OthersKept
    <2>4. Counted(s)' = {} /\ Cardinality(Counted(s))' = 0
      <3>1. Counted(s)' = {}
        BY <1>1, <1>5 DEF Counted
      <3> QED BY <3>1, FS_EmptySet
    <2>5. CASE /\ TestCount(s)' = 0 /\ speedtestRunning' = FALSE
               /\ unlocks' = [unlocks EXCEPT ![s] = @ + 1]
      <3>1. JobsOf(s)' = {}
        BY <1>5, <2>5, JobsFinite, FS_EmptySet DEF TestCount
      <3>2. ~Testing(s)'
        BY <3>1 DEF Testing
      <3>3. unlocks'[s] = 1 /\ ~Holds(s)'
        BY <1>1, <1>4, <2>5 DEF Holds, LockInv, LockTypes
      <3> QED BY <1>1, <1>4, <2>1, <2>2, <2>3, <2>5, <3>2, <3>3
              DEF LockIsHeld
    <2>6. CASE UNCHANGED <<speedtestRunning, unlocks>>
      BY <1>1, <1>4, <2>1, <2>2, <2>3, <2>4, <2>6 DEF LockIsHeld
    <2> QED BY <1>2, <2>5, <2>6
  <1> QED BY <1>7, <1>8, <1>9 DEF LockInv

(* The lock is free once the last job has unlocked for s.                  *)
LEMMA FinishedKeeps ==
    ASSUME LockInv, NEW s \in Sessions, Finished(s) PROVE LockInv'
  <1>1. /\ speedtestRunning = FALSE /\ speedtestRunning' = TRUE
        /\ coord[s] = "wait" /\ coord' = [coord EXCEPT ![s] = "finished"]
        /\ UNCHANGED <<counter, job, tested, unlocks>>
    BY DEF Finished, CoordAt, jobs, history, LockInv, LockTypes
  <1>2. LockTypes'
    BY <1>1 DEF LockInv, LockTypes
  <1>3. \A t \in Sessions : JobsOf(t)' = JobsOf(t)
    BY <1>1, JobsOfKept
  <1>4. coord'[s] = "finished" /\ \A t \in Sessions : t # s => coord'[t] = coord[t]
    BY <1>1 DEF LockInv, LockTypes
  <1>5. NotBegun'
    BY <1>1, <1>3, <1>4, JobTypes DEF LockInv, NotBegun
  <1>6. ASSUME UnlockedOnce' PROVE LockIsHeld'
    <2>1. LockIsHeld
      BY <1>1, <1>6 DEF LockInv, UnlockedOnce
    <2>2. \A t \in Sessions : ~Holds(t)
      BY <1>1, <2>1 DEF LockIsHeld
    <2>3. unlocks[s] = 1 /\ unlocks'[s] = 1
      <3>1. unlocks[s] # 0 /\ unlocks[s] \in Nat
        BY <1>1, <2>2 DEF Holds, LockInv, LockTypes
      <3> QED BY <1>1, <1>6, <3>1 DEF UnlockedOnce
    <2>4. ~Testing(s)'
      <3>1. ~Testing(s)
        BY <2>1, <2>3 DEF LockIsHeld
      <3> QED BY <1>1, <1>3, <3>1 DEF Testing
    <2>5. \A t \in Sessions : t # s =>
             /\ Testing(t)' <=> Testing(t)
             /\ Holds(t)' <=> Holds(t)
             /\ Counted(t)' = Counted(t)
      BY <1>1, <1>4, OthersKept
    <2> QED BY <1>1, <1>4, <2>1, <2>2, <2>3, <2>4, <2>5 DEF LockIsHeld
  <1> QED BY <1>2, <1>5, <1>6 DEF LockInv

(* On its way out the coordinator holds the lock alone, and gives it back. *)
LEMMA LeavingKeeps ==
    ASSUME LockInv, NEW s \in Sessions, GiveBack(s) \/ Report(s)
    PROVE  LockInv'
  <1>1. /\ \/ /\ coord[s] = "finished" /\ speedtestRunning' = FALSE
              /\ coord' = [coord EXCEPT ![s] = "report"]
           \/ /\ coord[s] = "report" /\ speedtestRunning' = speedtestRunning
              /\ coord' = [coord EXCEPT ![s] = "over"]
        /\ UNCHANGED <<counter, job, tested, unlocks>>
    BY DEF GiveBack, Report, CoordAt, jobs, history
  <1>2. LockTypes'
    BY <1>1 DEF LockInv, LockTypes
  <1>3. \A t \in Sessions : JobsOf(t)' = JobsOf(t)
    BY <1>1, JobsOfKept
  <1>4. /\ coord'[s] \in {"report", "over"}
        /\ \A t \in Sessions : t # s => coord'[t] = coord[t]
    BY <1>1 DEF LockInv, LockTypes
  <1>5. NotBegun'
    BY <1>1, <1>3, <1>4, JobTypes DEF LockInv, NotBegun
  <1>6. ASSUME UnlockedOnce' PROVE LockIsHeld'
    <2>1. LockIsHeld
      BY <1>1, <1>6 DEF LockInv, UnlockedOnce
    <2>2. unlocks'[s] = 1 /\ ~Testing(s) /\ ~Holds(s)'
      BY <1>1, <1>4, <2>1 DEF LockIsHeld, Holds
    <2>3. ~Testing(s)'
      BY <1>1, <1>3, <2>2 DEF Testing
    <2>4. \A t \in Sessions : t # s =>
             /\ Testing(t)' <=> Testing(t)
             /\ Holds(t)' <=> Holds(t)
             /\ Counted(t)' = Counted(t)
      BY <1>1, <1>4, OthersKept
    <2>5. \A t \in Sessions : Holds(t)' => speedtestRunning'
      <3>1. CASE coord[s] = "finished"
        BY <2>1, <2>2, <2>4, <3>1 DEF LockIsHeld, Holds
      <3>2. CASE speedtestRunning' = speedtestRunning
        BY <2>1, <2>2, <2>4, <3>2 DEF LockIsHeld
      <3> QED BY <1>1, <3>1, <3>2
    <2> QED BY <1>1, <1>4, <2>1, <2>2, <2>3, <2>4, <2>5 DEF LockIsHeld
  <1> QED BY <1>2, <1>5, <1>6 DEF LockInv

-----------------------------------------------------------------------------
(* The end of a job *)

(* The job is one more that has counted.                                   *)
LEMMA CountKeeps ==
    ASSUME LockInv, NEW j \in Jobs, Count(j) PROVE LockInv'
  <1> DEFINE s == j[1]
  <1>1. /\ job[j] = "count" /\ job' = [job EXCEPT ![j] = "check"]
        /\ counter' = [counter EXCEPT ![s] = @ + 1]
        /\ UNCHANGED <<speedtestRunning, coord, tested, unlocks>>
    BY DEF Count, JobAt, history
  <1>2. s \in Sessions /\ j \in JobsOf(s)
    BY <1>1, JobTypes DEF LockInv, NotBegun
  <1>3. LockTypes'
    BY <1>1, <1>2 DEF LockInv, LockTypes
  <1>4. \A t \in Sessions : JobsOf(t)' = JobsOf(t)
    BY <1>1, JobsOfKept
  <1>5. /\ job'[j] = "check" /\ \A i \in Jobs : i # j => job'[i] = job[i]
        /\ counter'[s] = counter[s] + 1
        /\ \A t \in Sessions : t # s => counter'[t] = counter[t]
    BY <1>1, <1>2 DEF LockInv, LockTypes
  <1>6. coord[s] \notin {"none", "build"}
    BY <1>1, <1>2 DEF LockInv, NotBegun
  <1>7. NotBegun'
    <2>1. ASSUME NEW i \in Jobs, job'[i] # "none" PROVE i \in JobsOf(i[1])'
      BY <1>2, <1>4, <1>5, <2>1, JobTypes DEF LockInv, NotBegun
    <2>2. ASSUME NEW t \in Sessions, coord'[t] \in {"none", "build"}
          PROVE  /\ unlocks'[t] = 0 /\ counter'[t] = 0
                 /\ \A i \in Jobs : i[1] = t => job'[i] = "none"
      BY <1>1, <1>5, <1>6, <2>2 DEF LockInv, NotBegun
    <2> QED BY <2>1, <2>2 DEF NotBegun
  <1>8. ASSUME UnlockedOnce' PROVE LockIsHeld'
    <2>1. LockIsHeld
      BY <1>1, <1>8 DEF LockInv, UnlockedOnce
    <2>2. coord[s] = "wait" /\ unlocks[s] = 0
      BY <1>1, <1>2, <2>1 DEF LockIsHeld, Testing
    <2>3. Counted(s)' = Counted(s) \cup {j} /\ j \notin Counted(s)
      BY <1>1, <1>2, <1>4, <1>5 DEF Counted
    <2>4. IsFiniteSet(Counted(s))
      BY <1>2, JobsFinite, JobsOfTypes
    <2>5. Cardinality(Counted(s)') = Cardinality(Counted(s)) + 1
      BY <2>3, <2>4, FS_AddElement
    <2>6. \A t \in Sessions : t # s =>
             /\ Testing(t)' <=> Testing(t)
             /\ Counted(t)' = Counted(t)
      BY <1>1, <1>2, <1>5, OthersKept
    <2>7. \A t \in Sessions : Holds(t)' <=> Holds(t)
      BY <1>1 DEF Holds
    <2> QED BY <1>1, <1>5, <2>1, <2>2, <2>5, <2>6, <2>7 DEF LockIsHeld
  <1> QED BY <1>3, <1>7, <1>8 DEF LockInv

(* A job that unlocks and is the first to do so has seen the counter       *)
(* complete while its coordinator still waits: no job of its session is    *)
(* left, and nobody else held the lock.                                    *)
LEMMA CheckKeeps ==
    ASSUME LockInv, NEW j \in Jobs, Check(j) PROVE LockInv'
  <1> DEFINE s == j[1]
  <1>1. /\ job[j] = "check" /\ job' = [job EXCEPT ![j] = "none"]
        /\ UNCHANGED <<coord, tested, counter>>
    BY DEF Check, JobAt, sessions
  <1>2. \/ Unlock(s) /\ (counter[s] = TestCount(s) \/ coord[s] = "over")
        \/ UNCHANGED <<speedtestRunning, unlocks>>
    BY DEF Check
  <1>3. s \in Sessions /\ j \in JobsOf(s)
    BY <1>1, JobTypes DEF LockInv, NotBegun
  <1>4. CASE UNCHANGED <<speedtestRunning, unlocks>>
    <2>1. job' \in [Jobs -> {"none", "queued", "calling", "testing", "writing",
                            "count", "check"}]
      BY <1>1 DEF LockInv, LockTypes
    <2>2. /\ job'[j] = "none"
          /\ \A i \in Jobs : i # j => job'[i] = job[i]
      BY <1>1 DEF LockInv, LockTypes
    <2> QED BY <1>1, <1>4, <2>1, <2>2, QuietKeeps DEF Quiet, sessions
  <1>5. CASE Unlock(s) /\ (counter[s] = TestCount(s) \/ coord[s] = "over")
    <2>1. /\ speedtestRunning' = FALSE /\ unlocks'[s] = unlocks[s] + 1
          /\ \A t \in Sessions : t # s => unlocks'[t] = unlocks[t]
          /\ unlocks' \in [Sessions -> Nat] /\ unlocks[s] \in Nat
      BY <1>3, <1>5 DEF Unlock, LockInv, LockTypes
    <2>2. LockTypes'
      BY <1>1, <2>1 DEF LockInv, LockTypes
    <2>3. \A t \in Sessions : JobsOf(t)' = JobsOf(t)
      BY <1>1, JobsOfKept
    <2>4. job'[j] = "none" /\ \A i \in Jobs : i # j => job'[i] = job[i]
      BY <1>1 DEF LockInv, LockTypes
    <2>5. coord[s] \notin {"none", "build"}
      BY <1>1, <1>3 DEF LockInv, NotBegun
    <2>6. NotBegun'
      <3>1. ASSUME NEW i \in Jobs, job'[i] # "none" PROVE i \in JobsOf(i[1])'
        BY <2>3, <2>4, <3>1, JobTypes DEF LockInv, NotBegun
      <3>2. ASSUME NEW t \in Sessions, coord'[t] \in {"none", "build"}
            PROVE  /\ unlocks'[t] = 0 /\ counter'[t] = 0
                   /\ \A i \in Jobs : i[1] = t => job'[i] = "none"
        BY <1>1, <2>1, <2>4, <2>5, <3>2 DEF LockInv, NotBegun
      <3> QED BY <3>1, <3>2 DEF NotBegun
    <2>7. ASSUME UnlockedOnce' PROVE LockIsHeld'
      <3>1. UnlockedOnce
        <4>1. ASSUME NEW t \in Sessions PROVE unlocks[t] <= unlocks'[t]
          BY <2>1 DEF LockInv, LockTypes
        <4> QED BY <2>1, <2>7, <4>1 DEF UnlockedOnce, LockInv, LockTypes
      <3>2. LockIsHeld
        BY <3>1 DEF LockInv
      <3>3. unlocks[s] = 0 /\ unlocks'[s] = 1
        BY <1>3, <2>1, <2>7 DEF UnlockedOnce
      <3>4. coord[s] = "wait"
        BY <1>3, <2>5, <3>2, <3>3 DEF LockIsHeld, LockInv, LockTypes
      <3>5. Counted(s) = JobsOf(s)
        <4>1. Cardinality(Counted(s)) = Cardinality(JobsOf(s))
          BY <1>3, <1>5, <3>2, <3>3, <3>4 DEF LockIsHeld, TestCount
        <4>2. Counted(s) \in SUBSET JobsOf(s) /\ IsFiniteSet(JobsOf(s))
          BY <1>3, JobsOfTypes, JobsFinite
        <4> QED BY <4>1, <4>2, FS_Subset
      <3>6. ~Testing(s)'
        BY <1>3, <2>3, <2>4, <3>5, JobsOfTypes DEF Testing, Counted
      <3>7. ~Holds(s)' /\ coord'[s] = "wait"
        BY <1>1, <3>3, <3>4 DEF Holds
      <3>8. \A t \in Sessions : t # s => ~Holds(t)
        BY <1>3, <3>2, <3>3, <3>4 DEF LockIsHeld, Holds
      <3>9. \A t \in Sessions : t # s =>
               /\ Testing(t)' <=> Testing(t)
               /\ Holds(t)' <=> Holds(t)
               /\ Counted(t)' = Counted(t)
        BY <1>1, <1>3, <2>1, <2>4, OthersKept
      <3> QED BY <1>1, <2>1, <3>2, <3>3, <3>6, <3>7, <3>8, <3>9
              DEF LockIsHeld
    <2> QED BY <2>2, <2>6, <2>7 DEF LockInv
  <1> QED BY <1>2, <1>4, <1>5

-----------------------------------------------------------------------------
(* The rest is quiet *)

LEMMA JobStepKeeps ==
    ASSUME LockInv, NEW j \in Jobs,
           \/ RunJob(j) \/ CallFails(j) \/ CallTests(j) \/ CallAnswered(j)
           \/ \E p \in Profiles \cup Items(j) : TestEnds(j, p) \/ WriteAnswer(j, p)
    PROVE  LockInv'
  <1>1. /\ UNCHANGED <<sessions, speedtestRunning, unlocks>>
        /\ \/ job' = job
           \/ /\ job[j] \in {"queued", "calling", "testing", "writing"}
              /\ \E at \in {"calling", "testing", "writing", "count"} :
                    job' = [job EXCEPT ![j] = at]
    BY DEF RunJob, CallFails, CallTests, CallAnswered, TestEnds, WriteAnswer,
           JobAt, window, calls, jobs, history, judged
  <1>2. job \in [Jobs -> {"none", "queued", "calling", "testing", "writing",
                         "count", "check"}]
    BY DEF LockInv, LockTypes
  <1>3. Quiet
    <2>1. CASE job' = job
      BY <1>1, <1>2, <2>1 DEF Quiet
    <2>2. CASE job' # job
      BY <1>1, <1>2, <2>2 DEF Quiet
    <2> QED BY <2>1, <2>2
  <1> QED BY <1>3, QuietKeeps

LEMMA PollerKeeps ==
    ASSUME LockInv,
           \/ \E j \in Jobs : RunPoller(j)
           \/ StopTests \/ StopStep
           \/ \E p \in Started : CurrentTested(p) \/ CurrentShown(p)
           \/ UNCHANGED vars
    PROVE  LockInv'
  <1>1. /\ UNCHANGED <<sessions, speedtestRunning, unlocks>>
        /\ job' = job
    BY DEF RunPoller, Poll, QueryURLTest, PollWrite, StopTests, StopStep,
           StopCancels, StopRenews, CurrentTested, CurrentShown, vars, window,
           jobs, history
  <1>2. Quiet
    BY <1>1 DEF Quiet, LockInv, LockTypes
  <1> QED BY <1>2, QuietKeeps

LEMMA CoreExitsKeeps == ASSUME LockInv, CoreExits PROVE LockInv'
  <1>1. /\ UNCHANGED <<sessions, speedtestRunning, unlocks>>
        /\ job' = [j \in Jobs |-> IF job[j] \in {"calling", "testing"}
                                  THEN "count" ELSE job[j]]
    BY DEF CoreExits, window
  <1>2. job \in [Jobs -> {"none", "queued", "calling", "testing", "writing",
                         "count", "check"}]
    BY DEF LockInv, LockTypes
  <1>3. Quiet
    BY <1>1, <1>2 DEF Quiet
  <1> QED BY <1>3, QuietKeeps

LEMMA NextKeeps == LockInv /\ [Next]_vars => LockInv'
  <1> SUFFICES ASSUME LockInv, [Next]_vars PROVE LockInv'
    OBVIOUS
  <1>1. ASSUME Click PROVE LockInv'
    BY <1>1, UrlTestKeeps DEF Click
  <1>2. ASSUME NEW s \in Sessions, Coordinate(s) PROVE LockInv'
    BY <1>2, BuildKeeps, FinishedKeeps, LeavingKeeps DEF Coordinate
  <1>3. ASSUME NEW j \in Jobs, RunTest(j) PROVE LockInv'
    BY <1>3, JobStepKeeps, CountKeeps, CheckKeeps DEF RunTest
  <1>4. ASSUME FaultStep PROVE LockInv'
    BY <1>4, BuildFailsKeeps, JobStepKeeps, CoreExitsKeeps DEF FaultStep
  <1> QED BY <1>1, <1>2, <1>3, <1>4, PollerKeeps DEF Next

(* The lock is held by the one session that is built or tested and by no   *)
(* other, as long as no session's jobs have unlocked twice.                *)
THEOREM LockIsSound == Spec => []LockInv
  <1> QED BY InitHolds, NextKeeps, PTL DEF Spec

-----------------------------------------------------------------------------
(* However many clicks, profiles and pool threads: unless two jobs of a    *)
(* session both saw the counter complete (mainwindow_rpc.cpp, the read     *)
(* after ++counter), the url tests come one at a time under the lock.      *)
THEOREM UrlTestsTakeTurns == Spec => []TestsInTurn
  <1>1. LockInv => TestsInTurn
    <2> SUFFICES ASSUME LockInv, UnlockedOnce PROVE OneTestAtATime
      BY DEF TestsInTurn
    <2>1. LockIsHeld
      BY DEF LockInv
    <2>2. \A s \in Sessions : InTest(s) => Holds(s)
      BY <2>1 DEF InTest, Holds, LockIsHeld
    <2> QED BY <2>1, <2>2 DEF LockIsHeld, OneTestAtATime
  <1> QED BY <1>1, LockIsSound, PTL

(* Under the same condition the counter that a job reads and writes, a     *)
(* variable of its coordinator's stack, still exists.                      *)
THEOREM CounterOutlivesJobs == Spec => []CounterIsAlive
  <1>1. LockInv => CounterIsAlive
    BY DEF LockInv, LockIsHeld, CounterIsAlive
  <1> QED BY <1>1, LockIsSound, PTL

-----------------------------------------------------------------------------
(* A stop reaches the tests it is for *)

StoppedInv == stopped \subseteq Sessions /\ DOMAIN aborted = Jobs /\ StopReaches

(* A lock is never said to be opened less often than it was.               *)
LEMMA UnlocksGrow == LockInv /\ [Next]_vars => (UnlockedOnce' => UnlockedOnce)
  <1> SUFFICES ASSUME LockInv, [Next]_vars, UnlockedOnce' PROVE UnlockedOnce
    OBVIOUS
  <1>1. \/ unlocks' = unlocks
        \/ \E s \in Sessions : unlocks' = [unlocks EXCEPT ![s] = @ + 1]
    <2>1. CASE Click
      BY <2>1 DEF Click, UrlTest, history
    <2>2. ASSUME NEW s \in Sessions, Coordinate(s) PROVE <1>1!:
      BY <2>2 DEF Coordinate, Build, Finished, GiveBack, Report, Unlock, history
    <2>3. ASSUME NEW j \in Jobs, RunTest(j) \/ RunPoller(j) PROVE <1>1!:
      BY <2>3, JobTypes DEF RunTest, RunJob, CallTests, CallAnswered, Count,
         Check, TestEnds, WriteAnswer, RunPoller, Poll, QueryURLTest, PollWrite,
         Unlock, history
    <2>4. CASE StopTests \/ StopStep
      BY <2>4 DEF StopTests, StopStep, StopCancels, StopRenews, history
    <2>5. ASSUME NEW p \in Started, CurrentTested(p) \/ CurrentShown(p) PROVE <1>1!:
      BY <2>5 DEF CurrentTested, CurrentShown, history
    <2>6. CASE FaultStep
      BY <2>6 DEF FaultStep, BuildFails, CallFails, CoreExits, Unlock
    <2>7. CASE UNCHANGED vars
      BY <2>7 DEF vars, history
    <2> QED BY <2>1, <2>2, <2>3, <2>4, <2>5, <2>6, <2>7 DEF Next
  <1>2. unlocks \in [Sessions -> Nat]
    BY DEF LockInv, LockTypes
  <1>3. \A s \in Sessions : unlocks[s] <= unlocks'[s] /\ unlocks'[s] \in Nat
    BY <1>1, <1>2
  <1> QED BY <1>2, <1>3 DEF UnlockedOnce

(* Steps that leave the flags alone and start no job.                      *)
LEMMA StopKept ==
    ASSUME StoppedInv, UnlockedOnce' => UnlockedOnce,
           UNCHANGED <<stopped, passed, stopSpeedtest, stopping>>,
           \A s \in Sessions : coord[s] \notin {"none", "build"} =>
                                  coord'[s] \notin {"none", "build"},
           DOMAIN aborted' = Jobs,
           \A j \in Jobs :
              \/ job'[j] \notin {"queued", "calling", "testing"}
              \/ job'[j] = job[j] /\ aborted'[j] = aborted[j]
    PROVE  StoppedInv'
  <1>1. /\ stopped' \subseteq Sessions /\ DOMAIN aborted' = Jobs
        /\ \A s \in stopped' : coord'[s] \notin {"none", "build"}
    BY DEF StoppedInv, StopReaches
  <1>2. SUFFICES ASSUME UnlockedOnce', NEW j \in Jobs, j[1] \in stopped'
                 PROVE  /\ job'[j] = "queued" => stopSpeedtest'
                        /\ job'[j] = "calling" => j \in passed'
                        /\ job'[j] = "testing" =>
                              aborted'[j] \/ j \in passed' \/ stopping' = "cancel"
    BY <1>1 DEF StoppedInv, StopReaches
  <1>3. /\ job[j] = "queued" => stopSpeedtest
        /\ job[j] = "calling" => j \in passed
        /\ job[j] = "testing" =>
              aborted[j] \/ j \in passed \/ stopping = "cancel"
    BY <1>2 DEF StoppedInv, StopReaches
  <1> QED BY <1>3

(* The flag is taken back by a session that holds the lock: no other has   *)
(* jobs in the queue then.                                                 *)
LEMMA BuildStops ==
    ASSUME LockInv, StoppedInv, UnlockedOnce' => UnlockedOnce,
           NEW s \in Sessions, Build(s)
    PROVE  StoppedInv'
  <1>1. /\ coord[s] = "build" /\ coord' = [coord EXCEPT ![s] = "wait"]
        /\ job' = [j \in Jobs |-> IF j \in JobsOf(s)' THEN "queued" ELSE job[j]]
        /\ UNCHANGED <<stopped, passed, aborted, stopping>>
    BY DEF Build, CoordAt, calls
  <1>2. \A t \in stopped : t \in Sessions /\ t # s /\ coord[t] \notin {"none", "build"}
    BY <1>1 DEF StoppedInv, StopReaches
  <1>3. \A j \in JobsOf(s)' : j[1] = s
    BY DEF JobsOf
  <1>4. ASSUME UnlockedOnce', NEW j \in Jobs, j[1] \in stopped
        PROVE  job'[j] = job[j] /\ job[j] # "queued"
    <2>1. job'[j] = job[j]
      BY <1>1, <1>2, <1>3, <1>4
    <2>2. LockIsHeld /\ Holds(s)
      BY <1>1, <1>4 DEF LockInv, Holds
    <2>3. job[j] = "queued" => Testing(j[1])
      BY JobTypes DEF Testing, LockInv, NotBegun
    <2>4. ~Holds(j[1])
      BY <1>2, <1>4, <2>2 DEF LockIsHeld
    <2>5. ~Testing(j[1])
      BY <1>2, <1>4, <2>2, <2>4 DEF LockIsHeld, Holds
    <2> QED BY <2>1, <2>3, <2>5
  <1>5. \A t \in stopped : coord'[t] = coord[t]
    BY <1>1, <1>2 DEF LockInv, LockTypes
  <1> QED BY <1>1, <1>2, <1>4, <1>5 DEF StoppedInv, StopReaches

(* No job of a stopped session begins its call while the flag is up.       *)
LEMMA RunJobStops ==
    ASSUME LockInv, StoppedInv, UnlockedOnce' => UnlockedOnce,
           NEW j \in Jobs, RunJob(j)
    PROVE  StoppedInv'
  <1>1. /\ job[j] = "queued" /\ DOMAIN job = Jobs
        /\ \/ stopSpeedtest /\ job' = [job EXCEPT ![j] = "count"]
           \/ ~stopSpeedtest /\ job' = [job EXCEPT ![j] = "calling"]
        /\ UNCHANGED <<coord, stopSpeedtest, stopped, passed, aborted, stopping>>
    BY DEF RunJob, JobAt, window, sessions, calls, history, LockInv, LockTypes
  <1>2. CASE j[1] \notin stopped \/ stopSpeedtest \/ ~UnlockedOnce'
    BY <1>1, <1>2 DEF StoppedInv, StopReaches
  <1>3. CASE j[1] \in stopped /\ ~stopSpeedtest /\ UnlockedOnce'
    BY <1>1, <1>3 DEF StoppedInv, StopReaches
  <1> QED BY <1>2, <1>3

(* A job that goes from its call to its tests had its call before.         *)
LEMMA CallTestsStops ==
    ASSUME LockInv, StoppedInv, UnlockedOnce' => UnlockedOnce,
           NEW j \in Jobs, CallTests(j)
    PROVE  StoppedInv'
  <1>1. /\ job[j] = "calling" /\ job' = [job EXCEPT ![j] = "testing"]
        /\ DOMAIN job = Jobs /\ DOMAIN aborted' = Jobs
        /\ \A k \in Jobs : k # j => aborted'[k] = aborted[k]
        /\ UNCHANGED <<coord, stopSpeedtest, stopped, passed, stopping>>
    BY DEF CallTests, JobAt, window, sessions, history, LockInv, LockTypes, StoppedInv
  <1>2. ASSUME UnlockedOnce', j[1] \in stopped PROVE j \in passed
    BY <1>1, <1>2 DEF StoppedInv, StopReaches
  <1> QED BY <1>1, <1>2 DEF StoppedInv, StopReaches

(* The flag, then the call that cancels, then the context's renewal.       *)
LEMMA StopTestsStops ==
    ASSUME LockInv, StoppedInv, UnlockedOnce' => UnlockedOnce,
           StopTests \/ StopStep
    PROVE  StoppedInv'
  <1>1. CASE StopTests
    <2>1. /\ stopSpeedtest' = TRUE /\ stopping' = "cancel"
          /\ stopped' = stopped \cup {s \in Sessions : coord[s] = "wait"}
          /\ passed' = passed \cup {j \in Jobs : job[j] = "calling"}
          /\ UNCHANGED <<coord, job, aborted>>
      BY <1>1 DEF StopTests, sessions, jobs, calls
    <2> QED BY <2>1 DEF StoppedInv, StopReaches
  <1>2. CASE StopCancels
    <2>1. /\ aborted' = [j \in Jobs |-> job[j] = "testing"]
          /\ UNCHANGED <<coord, job, stopped, passed, stopSpeedtest>>
      BY <1>2 DEF StopCancels, window, sessions, history
    <2>2. \A j \in Jobs : job'[j] = "testing" => aborted'[j]
      BY <2>1
    <2> HIDE DEF StopReaches
    <2> QED BY <2>1, <2>2 DEF StoppedInv, StopReaches
  <1>3. CASE StopRenews
    <2>1. /\ stopping = "renew"
          /\ UNCHANGED <<coord, job, aborted, stopped, passed, stopSpeedtest>>
      BY <1>3 DEF StopRenews, window, sessions, jobs, calls, history
    <2> QED BY <2>1 DEF StoppedInv, StopReaches
  <1> QED BY <1>1, <1>2, <1>3 DEF StopStep

(* The core ends: no test of it is left to be reached.                     *)
LEMMA CoreExitsStops ==
    ASSUME StoppedInv, UnlockedOnce' => UnlockedOnce, CoreExits PROVE StoppedInv'
  <1>1. /\ job' = [j \in Jobs |-> IF job[j] \in {"calling", "testing"} THEN "count"
                                  ELSE job[j]]
        /\ aborted' = [j \in Jobs |-> FALSE]
        /\ UNCHANGED <<coord, stopped, passed, stopSpeedtest>>
    BY DEF CoreExits, window, sessions
  <1>2. \A j \in Jobs : /\ job'[j] \notin {"calling", "testing"}
                        /\ job'[j] = "queued" => job[j] = "queued"
    BY <1>1
  <1> QED BY <1>1, <1>2 DEF StoppedInv, StopReaches

LEMMA NextStops == LockInv /\ StoppedInv /\ [Next]_vars => StoppedInv'
  <1> SUFFICES ASSUME LockInv, StoppedInv, [Next]_vars PROVE StoppedInv'
    OBVIOUS
  <1>0. UnlockedOnce' => UnlockedOnce
    BY UnlocksGrow
  <1>1. ASSUME NEW s \in Sessions,
               \/ \E ps \in Lists : UrlTest(s, ps)
               \/ BuildFails(s) \/ Finished(s) \/ GiveBack(s) \/ Report(s)
        PROVE  StoppedInv'
    <2>1. /\ coord \in [Sessions -> {"none", "build", "wait", "finished", "report",
                                    "over"}]
          /\ \/ coord' = [coord EXCEPT ![s] = "build"] /\ coord[s] = "none"
             \/ \E at \in {"finished", "report", "over"} :
                   coord' = [coord EXCEPT ![s] = at]
      BY <1>1 DEF UrlTest, BuildFails, Finished, GiveBack, Report, CoordAt,
                  LockInv, LockTypes
    <2>2. \A t \in Sessions : coord[t] \notin {"none", "build"} =>
                                 coord'[t] \notin {"none", "build"}
      BY <2>1
    <2>3. UNCHANGED <<job, aborted, stopped, passed, stopSpeedtest, stopping>>
      BY <1>1 DEF UrlTest, BuildFails, Finished, GiveBack, Report, jobs, calls,
                  history
    <2> QED BY <1>0, <2>2, <2>3, StopKept DEF StoppedInv
  <1>2. ASSUME NEW j \in Jobs,
               \/ CallFails(j) \/ CallAnswered(j) \/ Count(j) \/ Check(j)
               \/ \E p \in Items(j) : TestEnds(j, p) \/ WriteAnswer(j, p)
        PROVE  StoppedInv'
    <2>1. UNCHANGED <<coord, stopped, passed, stopSpeedtest, stopping>>
      BY <1>2 DEF CallFails, CallAnswered, Count, Check, TestEnds, WriteAnswer,
         window, sessions, history, Show, Unlock
    <2>2. \/ job' = job
          \/ \E at \in {"none", "writing", "count", "check"} :
                job' = [job EXCEPT ![j] = at]
      BY <1>2 DEF CallFails, CallAnswered, Count, Check, TestEnds, WriteAnswer,
         JobAt
    <2>3. \/ aborted' = aborted
          \/ aborted' = [aborted EXCEPT ![j] = FALSE] /\ job[j] = "testing"
                /\ job' = [job EXCEPT ![j] = "writing"]
      BY <1>2 DEF CallFails, CallAnswered, Count, Check, TestEnds, WriteAnswer,
         JobAt, calls
    <2>4. DOMAIN job = Jobs /\ DOMAIN aborted = Jobs
      BY DEF LockInv, LockTypes, StoppedInv
    <2>5. \A k \in Jobs : k # j => job'[k] = job[k] /\ aborted'[k] = aborted[k]
      BY <2>2, <2>3, <2>4
    <2>6. \/ job'[j] \notin {"queued", "calling", "testing"}
          \/ job'[j] = job[j] /\ aborted'[j] = aborted[j]
      BY <2>2, <2>3, <2>4
    <2>7. DOMAIN aborted' = Jobs
      BY <2>3, <2>4
    <2> QED BY <1>0, <2>1, <2>5, <2>6, <2>7, StopKept
  <1>3. CASE \/ \E j \in Jobs : RunPoller(j)
             \/ \E p \in Started : CurrentTested(p) \/ CurrentShown(p)
             \/ UNCHANGED vars
    <2>1. UNCHANGED <<coord, job, aborted, stopped, passed, stopSpeedtest, stopping>>
      BY <1>3 DEF RunPoller, Poll, QueryURLTest, PollWrite, CurrentTested,
         CurrentShown, vars, window, sessions, jobs, calls, history
    <2> QED BY <1>0, <2>1, StopKept DEF StoppedInv
  <1>4. ASSUME NEW s \in Sessions, Coordinate(s) PROVE StoppedInv'
    BY <1>0, <1>1, <1>4, BuildStops DEF Coordinate
  <1>5. ASSUME NEW j \in Jobs, RunTest(j) PROVE StoppedInv'
    BY <1>0, <1>2, <1>5, RunJobStops, CallTestsStops DEF RunTest
  <1>6. CASE FaultStep
    BY <1>0, <1>1, <1>2, <1>6, CoreExitsStops DEF FaultStep
  <1>7. CASE Click
    BY <1>1, <1>7 DEF Click
  <1> QED BY <1>0, <1>3, <1>4, <1>5, <1>6, <1>7, StopTestsStops DEF Next

(* For any number of clicks, profiles and pool threads: a stop of the url  *)
(* tests reaches every test of the sessions that wait then (stopTests in   *)
(* mainwindow_rpc.cpp, StopTest in server.go), but for the calls between   *)
(* the look at the flag and the context, and under a lock opened twice.    *)
THEOREM StopsReachTests == Spec => []StopInv
  <1>1. Init => StoppedInv
    BY DEF Init, StoppedInv, StopReaches
  <1>2. LockInv /\ StoppedInv => StopInv
    BY DEF StoppedInv, StopInv, StopReaches, StopHonoured
  <1> QED BY <1>1, <1>2, LockIsSound, NextStops, PTL DEF Spec

-----------------------------------------------------------------------------
(* What Kept keeps.  The library's induction takes its predicate as an     *)
(* operator; here the least counterexample takes its place.                *)

(* A set of numbers that is not empty has a least one.                     *)
LEMMA LeastNat ==
    ASSUME NEW T \in SUBSET Nat, T # {}
    PROVE  \E n \in T : \A m \in T : n <= m
  <1> DEFINE U == {0..n : n \in T}
  <1>1. U \subseteq FiniteSubsetsOf(Nat) /\ U # {}
    <2>1. ASSUME NEW n \in T PROVE 0..n \in SUBSET Nat /\ IsFiniteSet(0..n)
      BY FS_Interval
    <2> QED BY <2>1 DEF FiniteSubsetsOf
  <1>2. PICK x \in U : \A y \in U : <<y, x>> \notin StrictSubsetOrdering(Nat)
    <2>1. IsWellFoundedOn(StrictSubsetOrdering(Nat), FiniteSubsetsOf(Nat))
      BY FS_StrictSubsetOrderingWellFounded
    <2> HIDE DEF U
    <2> QED BY <1>1, <2>1, WFMin
  <1>3. PICK n \in T : x = 0..n
    OBVIOUS
  <1>4. ASSUME NEW m \in T, m < n PROVE FALSE
    <2>1. 0..m \in U /\ 0..m \subseteq 0..n /\ n \in 0..n /\ n \notin 0..m
      BY <1>4
    <2>2. <<0..m, x>> \in StrictSubsetOrdering(Nat)
      BY <1>3, <2>1 DEF StrictSubsetOrdering
    <2> QED BY <1>2, <2>1, <2>2
  <1>5. \A m \in T : n <= m
    BY <1>4
  <1> QED BY <1>5

(* A finite set of numbers can be put in order.                            *)
LEMMA OrderExists ==
    ASSUME NEW K \in SUBSET Nat, IsFiniteSet(K)
    PROVE  \E f \in [1..Cardinality(K) -> K] : InOrder(f)
  <1> DEFINE Ordered(L) == \E f \in [1..Cardinality(L) -> L] : InOrder(f)
             Bad == {n \in Nat : \E L \in SUBSET Nat : /\ IsFiniteSet(L) /\ Cardinality(L) = n
                                                       /\ ~Ordered(L)}
  <1>1. SUFFICES ASSUME Bad # {} PROVE FALSE
    BY FS_CardinalityType
  <1>2. PICK n \in Bad : \A m \in Bad : n <= m
    <2> HIDE DEF Bad
    <2>1. Bad \in SUBSET Nat
      BY DEF Bad
    <2> QED BY <1>1, <2>1, LeastNat
  <1>3. PICK L \in SUBSET Nat : IsFiniteSet(L) /\ Cardinality(L) = n /\ ~Ordered(L)
    OBVIOUS
  <1>4. CASE L = {}
    <2>1. n = 0
      BY <1>3, <1>4, FS_EmptySet
    <2>2. [i \in 1..0 |-> 0] \in [1..Cardinality(L) -> L]
      BY <1>3, <2>1
    <2>3. InOrder([i \in 1..0 |-> 0])
      BY DEF InOrder
    <2> QED BY <1>3, <2>2, <2>3
  <1>5. CASE L # {}
    <2>1. PICK a \in L : \A m \in L : a <= m
      BY <1>5, LeastNat
    <2> DEFINE R == L \ {a}
    <2>2. IsFiniteSet(R) /\ Cardinality(R) = n - 1 /\ R \in SUBSET Nat
      BY <1>3, FS_RemoveElement
    <2>3. Cardinality(R) \in Nat /\ n \in Nat
      BY <2>2, FS_CardinalityType
    <2>4. n - 1 \notin Bad
      BY <1>2, <2>2, <2>3
    <2>5. PICK g \in [1..n - 1 -> R] : InOrder(g)
      BY <2>2, <2>3, <2>4
    <2> DEFINE f == [i \in 1..n |-> IF i = 1 THEN a ELSE g[i - 1]]
    <2>6. \A i \in 2..n : i - 1 \in 1..n - 1 /\ g[i - 1] \in R
      BY <2>3, <2>5
    <2>7. f \in [1..n -> L]
      BY <2>3, <2>6
    <2>8. ASSUME NEW i \in 1..n, NEW k \in 1..n, i < k PROVE f[i] < f[k]
      <3>1. k \in 2..n /\ f[k] = g[k - 1]
        BY <2>3, <2>8
      <3>2. CASE i = 1
        <4>1. g[k - 1] \in L /\ g[k - 1] # a /\ f[i] = a
          BY <2>6, <3>1, <3>2
        <4>2. a <= g[k - 1] /\ a \in Nat /\ g[k - 1] \in Nat
          BY <2>1, <4>1
        <4> HIDE DEF f
        <4> QED BY <3>1, <4>1, <4>2
      <3>3. CASE i # 1
        <4>1. i \in 2..n /\ f[i] = g[i - 1] /\ i - 1 < k - 1
          BY <2>3, <2>8, <3>3
        <4>2. i - 1 \in DOMAIN g /\ k - 1 \in DOMAIN g
          BY <2>6, <3>1, <4>1
        <4>3. g[i - 1] < g[k - 1]
          BY <2>5, <4>1, <4>2 DEF InOrder
        <4> QED BY <3>1, <4>1, <4>3
      <3> QED BY <3>2, <3>3
    <2>9. InOrder(f)
      <3> HIDE DEF f
      <3> QED BY <2>7, <2>8 DEF InOrder
    <2> HIDE DEF f
    <2> QED BY <1>3, <2>7, <2>9
  <1> QED BY <1>4, <1>5

(* A part of a list is a list, of elements of that list.                   *)
LEMMA KeptType ==
    ASSUME NEW S, NEW list \in Seq(S), NEW K \in SUBSET DOMAIN list
    PROVE  /\ Kept(list, K) \in Seq(S)
           /\ DOMAIN Kept(list, K) = 1..Cardinality(K)
           /\ \A i \in DOMAIN Kept(list, K) : \E k \in K : Kept(list, K)[i] = list[k]
  <1> DEFINE place == CHOOSE f \in [1..Cardinality(K) -> K] : InOrder(f)
  <1>1. K \in SUBSET Nat /\ IsFiniteSet(K)
    <2>1. DOMAIN list = 1..Len(list) /\ Len(list) \in Nat
      OBVIOUS
    <2>2. IsFiniteSet(1..Len(list))
      BY <2>1, FS_Interval
    <2>3. K \in SUBSET (1..Len(list)) /\ K \in SUBSET Nat
      BY <2>1
    <2> QED BY <2>2, <2>3, FS_Subset
  <1>2. Cardinality(K) \in Nat
    BY <1>1, FS_CardinalityType
  <1>3. place \in [1..Cardinality(K) -> K]
    BY <1>1, OrderExists
  <1>4. Kept(list, K) = [i \in 1..Cardinality(K) |-> list[place[i]]]
    BY DEF Kept
  <1> HIDE DEF place
  <1>5. \A i \in 1..Cardinality(K) : place[i] \in K /\ list[place[i]] \in S
    BY <1>3
  <1> QED BY <1>2, <1>4, <1>5

-----------------------------------------------------------------------------
(* What the profiles show: types *)

(* A job answers for profiles, its tags are numbers, and the profile that  *)
(* a tag names for it is one that it answers for.                          *)
LEMMA ItemsTypes ==
    ASSUME tested \in [Sessions -> Seq(Profiles)], NEW j \in Jobs
    PROVE  /\ Items(j) \subseteq Profiles
           /\ \A p \in Items(j) : TagOf(j, p) \in Nat
           /\ \A tag : EntOf(j, tag) # None => /\ EntOf(j, tag) \in Items(j)
                                               /\ j[2] = Group
  <1>1. j[1] \in Sessions /\ j[2] \in Full \cup {Group}
    BY DEF Jobs
  <1>2. /\ Tested(j[1]) = {tested[j[1]][i] : i \in DOMAIN tested[j[1]]}
        /\ tested[j[1]] \in Seq(Profiles)
    BY <1>1 DEF Tested, Range
  <1>3. DOMAIN tested[j[1]] \subseteq Nat /\ Tested(j[1]) \subseteq Profiles
    BY <1>2
  <1>4. Items(j) \subseteq Profiles
    BY <1>1, <1>3, KindAssumption DEF Items
  <1>5. ASSUME NEW p \in Items(j) PROVE TagOf(j, p) \in Nat
    <2>1. CASE j[2] = Group
      <3>1. \E i \in DOMAIN tested[j[1]] : tested[j[1]][i] = p
        BY <1>2, <2>1 DEF Items
      <3>2. TagOf(j, p) \in DOMAIN tested[j[1]]
        BY <2>1, <3>1 DEF TagOf
      <3> QED BY <1>3, <3>2
    <2>2. CASE j[2] # Group
      BY <2>2, TagAssumption DEF TagOf
    <2> QED BY <2>1, <2>2
  <1>6. ASSUME NEW tag, EntOf(j, tag) # None
        PROVE  EntOf(j, tag) \in Items(j) /\ j[2] = Group
    <2>1. /\ j[2] = Group /\ tag \in DOMAIN tested[j[1]]
          /\ tested[j[1]][tag] \notin Full
          /\ EntOf(j, tag) = tested[j[1]][tag]
      BY <1>6 DEF EntOf
    <2> QED BY <1>2, <2>1 DEF Items
  <1> QED BY <1>4, <1>5, <1>6

(* What a job answers for, and its tags, depend on its session's list.     *)
LEMMA ItemsKept ==
    ASSUME NEW j, tested'[j[1]] = tested[j[1]]
    PROVE  /\ Items(j)' = Items(j)
           /\ \A tag : EntOf(j, tag)' = EntOf(j, tag)
  BY DEF Items, EntOf, Tested, Range

(* The list of a session changes before its jobs are handed out only.      *)
ListsKept ==
    /\ tested' \in [Sessions -> Seq(Profiles)]
    /\ \A s \in Sessions : coord[s] \notin {"none", "build"} => tested'[s] = tested[s]

LEMMA NextLists == ASSUME TypeOK, [Next]_vars PROVE ListsKept
  <1> USE DEF ListsKept
  <1>1. tested \in [Sessions -> Seq(Profiles)]
    BY DEF TypeOK
  <1>2. ASSUME Click PROVE ListsKept
    <2>1. PICK s \in Sessions, ps \in Lists :
             coord[s] = "none" /\ tested' = [tested EXCEPT ![s] = ps]
      BY <1>2 DEF Click, UrlTest
    <2>2. ps \in Seq(Profiles)
      BY ListAssumption
    <2> QED BY <1>1, <2>1, <2>2
  <1>3. ASSUME NEW s \in Sessions, Build(s) PROVE ListsKept
    <2>1. /\ coord[s] = "build"
          /\ tested' = [tested EXCEPT ![s] = WhatIsTestable(@)]
      BY <1>3 DEF Build
    <2>2. WhatIsTestable(tested[s]) \in Seq(Profiles)
      BY <1>1, KeptType DEF WhatIsTestable
    <2> QED BY <1>1, <2>1, <2>2
  <1>4. ASSUME \/ \E s \in Sessions : Finished(s) \/ GiveBack(s) \/ Report(s)
               \/ \E j \in Jobs : RunTest(j) \/ RunPoller(j)
               \/ StopTests \/ StopStep
               \/ \E p \in Started : CurrentTested(p) \/ CurrentShown(p)
               \/ FaultStep \/ UNCHANGED vars
        PROVE  UNCHANGED tested
    <2>1. CASE \E s \in Sessions : Finished(s) \/ GiveBack(s) \/ Report(s)
      BY <2>1 DEF Finished, GiveBack, Report
    <2>2. ASSUME NEW j \in Jobs, RunTest(j) PROVE UNCHANGED tested
      BY <2>2 DEF RunTest, RunJob, CallTests, CallAnswered, Count, Check, TestEnds,
         WriteAnswer, window, sessions
    <2>3. ASSUME NEW j \in Jobs, RunPoller(j) PROVE UNCHANGED tested
      BY <2>3 DEF RunPoller, Poll, QueryURLTest, PollWrite, window, sessions
    <2>4. CASE StopTests \/ StopStep
      BY <2>4 DEF StopTests, StopStep, StopCancels, StopRenews, window, sessions
    <2>5. CASE \E p \in Started : CurrentTested(p) \/ CurrentShown(p)
      BY <2>5 DEF CurrentTested, CurrentShown, window, sessions
    <2>6. CASE FaultStep
      BY <2>6 DEF FaultStep, BuildFails, CallFails, CoreExits, window, sessions
    <2>7. CASE UNCHANGED vars
      BY <2>7 DEF vars, window, sessions
    <2> QED BY <1>4, <2>1, <2>2, <2>3, <2>4, <2>5, <2>6, <2>7
  <1> QED BY <1>1, <1>2, <1>3, <1>4 DEF Next, Coordinate

(* What is on show for the profiles in ps, and where it comes from.        *)
LEMMA ShowTypes ==
    ASSUME TypeOK, NEW ps, NEW r, Show(ps, r),
           \A p \in Profiles \cap ps : r[p] \in Result \cup {None}
    PROVE  /\ latency' \in [Profiles -> Result \cup {None}]
           /\ answer' \in [Profiles -> Result \cup {None}]
  BY DEF Show, TypeOK

LEMMA OwnResultType ==
    ASSUME NEW s \in Sessions, NEW p \in Profiles PROVE OwnResult(s)[p] \in Result
  BY BoundAssumption DEF OwnResult, Result, Sessions

(* What is shown and answered stays a result of a profile.                 *)
Shown ==
    /\ latency' \in [Profiles -> Result \cup {None}]
    /\ answer' \in [Profiles -> Result \cup {None}]

LEMMA NextShown == ASSUME TypeOK, [Next]_vars PROVE Shown
  <1> USE DEF Shown
  <1>1. /\ latency \in [Profiles -> Result \cup {None}]
        /\ answer \in [Profiles -> Result \cup {None}]
        /\ tested \in [Sessions -> Seq(Profiles)]
    BY DEF TypeOK
  <1>2. ASSUME NEW s \in Sessions, Build(s) \/ BuildFails(s) PROVE Shown
    <2>1. PICK ps : MarkInvalid(s, ps)
      BY <1>2 DEF Build, BuildFails
    <2> QED BY <2>1, ShowTypes, OwnResultType DEF MarkInvalid
  <1>3. ASSUME NEW j \in Jobs, CallFails(j) PROVE Shown
    BY <1>1, <1>3 DEF CallFails
  <1>4. ASSUME NEW j \in Jobs, NEW p \in Items(j), WriteAnswer(j, p) PROVE Shown
    <2>1. Show({p}, OwnResult(j[1])) /\ j[1] \in Sessions
      BY <1>4, JobTypes DEF WriteAnswer
    <2> QED BY <2>1, ShowTypes, OwnResultType
  <1>5. ASSUME NEW j \in Jobs, PollWrite(j) PROVE Shown
    <2> DEFINE r == Head(poller[j].batch)
    <2>1. /\ poller[j].at = "write" /\ UNCHANGED answer
          /\ latency' = [latency EXCEPT ![EntOf(j, r.tag)] = [of |-> r.of, by |-> r.by]]
      BY <1>5 DEF PollWrite, history, judged
    <2>2. poller[j].batch \in Seq(Reported) /\ poller[j].batch # << >>
      BY <2>1 DEF TypeOK, PollerTypes
    <2>3. r \in Reported
      BY <2>2
    <2>4. [of |-> r.of, by |-> r.by] \in Result
      BY <2>3 DEF Reported, Result
    <2> QED BY <1>1, <2>1, <2>4
  <1>6. ASSUME NEW p \in Started, CurrentShown(p) PROVE Shown
    <2>1. Show({p}, [q \in {p} |-> [of |-> current, by |-> 0]]) /\ current \in Profiles
      BY <1>6 DEF CurrentShown, TypeOK
    <2>2. [of |-> current, by |-> 0] \in Result
      BY <2>1, BoundAssumption DEF Result
    <2> QED BY <2>1, <2>2, ShowTypes
  <1>7. ASSUME CoreExits PROVE Shown
    BY <1>1, <1>7 DEF CoreExits
  <1>8. ASSUME \/ Click \/ StopTests \/ StopStep \/ UNCHANGED vars
               \/ \E s \in Sessions : Finished(s) \/ GiveBack(s) \/ Report(s)
               \/ \E p \in Started : CurrentTested(p)
        PROVE  Shown
    BY <1>1, <1>8 DEF Click, UrlTest, StopTests, StopStep, StopCancels, StopRenews,
       vars, Finished, GiveBack, Report, CurrentTested, history, judged
  <1>9. ASSUME NEW j \in Jobs, \/ RunJob(j) \/ CallTests(j) \/ CallAnswered(j)
                               \/ Count(j) \/ Check(j) \/ Poll(j) \/ QueryURLTest(j)
                               \/ \E p \in Items(j) : TestEnds(j, p)
        PROVE  Shown
    BY <1>1, <1>9 DEF RunJob, CallTests, CallAnswered, Count, Check, Poll,
       QueryURLTest, TestEnds, history, judged
  <1> QED BY <1>2, <1>3, <1>4, <1>5, <1>6, <1>7, <1>8, <1>9
          DEF Next, Coordinate, RunTest, RunPoller, FaultStep

(* What the reporter holds stays results with tags.                        *)
LEMMA NextResults == ASSUME TypeOK, [Next]_vars PROVE results' \in Seq(Reported)
  <1>1. results \in Seq(Reported) /\ tested \in [Sessions -> Seq(Profiles)]
    BY DEF TypeOK
  <1>2. ASSUME NEW j \in Jobs, NEW p \in Items(j), TestEnds(j, p)
        PROVE  results' \in Seq(Reported)
    <2>1. TagOf(j, p) \in Nat /\ p \in Profiles /\ j[1] \in 0..MaxSessions
      BY <1>1, ItemsTypes, JobTypes, BoundAssumption DEF Sessions
    <2>2. [tag |-> TagOf(j, p), of |-> p, by |-> j[1]] \in Reported
      BY <2>1 DEF Reported
    <2> QED BY <1>1, <1>2, <2>2 DEF TestEnds
  <1>3. ASSUME NEW p \in Started, CurrentTested(p) PROVE results' \in Seq(Reported)
    <2>1. [tag |-> 1, of |-> p, by |-> 0] \in Reported
      BY KindAssumption, BoundAssumption DEF Reported
    <2> QED BY <1>1, <1>3, <2>1 DEF CurrentTested
  <1>4. ASSUME \/ CoreExits \/ \E j \in Jobs : QueryURLTest(j)
        PROVE  results' \in Seq(Reported)
    <2>1. results' = << >>
      BY <1>4 DEF CoreExits, QueryURLTest
    <2> QED BY <2>1
  <1>5. ASSUME \/ Click \/ StopTests \/ StopStep \/ UNCHANGED vars
               \/ \E s \in Sessions : Coordinate(s) \/ BuildFails(s)
               \/ \E p \in Started : CurrentShown(p)
        PROVE  UNCHANGED results
    BY <1>5 DEF Click, UrlTest, StopTests, StopStep, StopCancels, StopRenews,
       vars, Coordinate, Build, Finished, GiveBack, Report, BuildFails, CurrentShown,
       server
  <1>6. ASSUME NEW j \in Jobs, \/ RunJob(j) \/ CallFails(j) \/ CallTests(j)
                               \/ CallAnswered(j) \/ Count(j) \/ Check(j)
                               \/ Poll(j) \/ PollWrite(j)
                               \/ \E p \in Items(j) : WriteAnswer(j, p)
        PROVE  UNCHANGED results
    BY <1>6 DEF RunJob, CallFails, CallTests, CallAnswered, Count, Check, Poll,
       PollWrite, WriteAnswer, server
  <1> QED BY <1>1, <1>2, <1>3, <1>4, <1>5, <1>6
          DEF Next, RunTest, RunPoller, FaultStep

(* What the calls have left to do, and who cuts them off.                  *)
CallTypes ==
    /\ left \in [Jobs -> SUBSET Profiles] /\ aborted \in [Jobs -> BOOLEAN]
    /\ stopSpeedtest \in BOOLEAN /\ ctxDone \in BOOLEAN
    /\ stopping \in {"no", "cancel", "renew"}
    /\ current \in Profiles \cup {None}

LEMMA NextCalls == ASSUME TypeOK, [Next]_vars PROVE CallTypes'
  <1> USE DEF CallTypes
  <1>1. CallTypes /\ tested \in [Sessions -> Seq(Profiles)]
    BY DEF TypeOK
  <1>2. ASSUME NEW j \in Jobs, \/ CallTests(j) \/ CallAnswered(j)
                               \/ \E p \in Items(j) : TestEnds(j, p) \/ WriteAnswer(j, p)
        PROVE  CallTypes'
    <2>1. Items(j) \in SUBSET Profiles
      BY <1>1, ItemsTypes
    <2>2. left' \in [Jobs -> SUBSET Profiles]
      <3>1. left[j] \in SUBSET Profiles
        BY <1>1
      <3>2. \E l \in SUBSET Profiles : left' = [left EXCEPT ![j] = l]
        BY <1>2, <2>1, <3>1 DEF CallTests, CallAnswered, TestEnds, WriteAnswer
      <3> QED BY <1>1, <3>2
    <2>3. aborted' \in [Jobs -> BOOLEAN]
      <3>1. \E b \in BOOLEAN : aborted' = [aborted EXCEPT ![j] = b] \/ aborted' = aborted
        BY <1>1, <1>2 DEF CallTests, CallAnswered, TestEnds, WriteAnswer
      <3> QED BY <1>1, <3>1
    <2>4. UNCHANGED <<stopSpeedtest, ctxDone, stopping, current>>
      BY <1>2 DEF CallTests, CallAnswered, TestEnds, WriteAnswer, window, server
    <2> QED BY <1>1, <2>2, <2>3, <2>4
  <1>3. ASSUME \/ \E j \in Jobs : \/ RunJob(j) \/ CallFails(j) \/ Count(j) \/ Check(j)
                                  \/ RunPoller(j)
               \/ Click \/ UNCHANGED vars
               \/ \E s \in Sessions : \/ Finished(s) \/ GiveBack(s) \/ Report(s)
                                      \/ BuildFails(s)
        PROVE  UNCHANGED <<left, aborted, stopSpeedtest, ctxDone, stopping, current>>
    BY <1>3 DEF RunJob, CallFails, Count, Check, RunPoller, Poll, QueryURLTest,
       PollWrite, Click, UrlTest, vars, Finished, GiveBack, Report, BuildFails,
       window, jobs, calls, server
  <1>4. ASSUME NEW s \in Sessions, Build(s) PROVE CallTypes'
    <2>1. /\ UNCHANGED <<left, aborted, ctxDone, stopping, current>>
          /\ stopSpeedtest' = FALSE
      BY <1>4 DEF Build, calls, server
    <2> QED BY <1>1, <2>1
  <1>5. ASSUME StopTests \/ StopStep PROVE CallTypes'
    <2>1. UNCHANGED <<left, current>>
      BY <1>5 DEF StopTests, StopStep, StopCancels, StopRenews, jobs, calls
    <2>2. aborted' \in [Jobs -> BOOLEAN]
      <3>1. CASE StopCancels
        BY <3>1 DEF StopCancels
      <3>2. CASE StopTests \/ StopRenews
        BY <1>1, <3>2 DEF StopTests, StopRenews, jobs, calls
      <3> QED BY <1>5, <3>1, <3>2 DEF StopStep
    <2>3. /\ stopSpeedtest' \in BOOLEAN /\ ctxDone' \in BOOLEAN
          /\ stopping' \in {"no", "cancel", "renew"}
      BY <1>1, <1>5 DEF StopTests, StopStep, StopCancels, StopRenews, window, server
    <2> QED BY <1>1, <2>1, <2>2, <2>3
  <1>6. ASSUME NEW p \in Started, CurrentTested(p) \/ CurrentShown(p) PROVE CallTypes'
    <2>1. UNCHANGED <<left, aborted, stopSpeedtest, ctxDone, stopping>>
      BY <1>6 DEF CurrentTested, CurrentShown, window, jobs, calls, server
    <2>2. current' \in Profiles \cup {None}
      BY <1>6, KindAssumption DEF CurrentTested, CurrentShown
    <2> QED BY <1>1, <2>1, <2>2
  <1>7. ASSUME CoreExits PROVE CallTypes'
    <2> DEFINE lost == {j \in Jobs : job[j] \in {"calling", "testing"}}
    <2>1. /\ left' = [j \in Jobs |-> IF j \in lost THEN {} ELSE left[j]]
          /\ aborted' = [j \in Jobs |-> FALSE]
          /\ ctxDone' = FALSE /\ stopping' = "no"
          /\ UNCHANGED <<stopSpeedtest, current>>
      BY <1>7 DEF CoreExits, window
    <2> HIDE DEF lost
    <2> QED BY <1>1, <2>1
  <1> QED BY <1>1, <1>2, <1>3, <1>4, <1>5, <1>6, <1>7
          DEF Next, Coordinate, RunTest, FaultStep

(* The rest of a sequence that is not empty.                               *)
LEMMA TailParts ==
    ASSUME NEW S, NEW b \in Seq(S), b # << >>
    PROVE  /\ Tail(b) \in Seq(S)
           /\ Len(b) = 1 <=> Tail(b) = << >>
           /\ \A i \in DOMAIN Tail(b) : i + 1 \in DOMAIN b /\ Tail(b)[i] = b[i + 1]
  <1>1. Len(b) \in Nat \ {0}
    OBVIOUS
  <1>2. Tail(b) \in Seq(S) /\ Len(Tail(b)) = Len(b) - 1
    BY <1>1
  <1>3. \A i \in 1..Len(b) - 1 : Tail(b)[i] = b[i + 1]
    BY <1>1
  <1>4. Tail(b) = << >> <=> Len(Tail(b)) = 0
    <2>1. ASSUME NEW t \in Seq(S) PROVE t = << >> <=> Len(t) = 0
      <3>1. ASSUME Len(t) = 0 PROVE t = << >>
        BY <3>1
      <3>2. ASSUME t = << >> PROVE Len(t) = 0
        BY <3>2
      <3> QED BY <3>1, <3>2
    <2>2. Tail(b) \in Seq(S)
      BY <1>2
    <2>3. \A t \in Seq(S) : t = << >> <=> Len(t) = 0
      BY <2>1
    <2> QED BY <2>2, <2>3, Zenon
  <1>5. DOMAIN Tail(b) = 1..Len(b) - 1 /\ DOMAIN b = 1..Len(b)
    BY <1>2
  <1> QED BY <1>1, <1>2, <1>3, <1>4, <1>5

(* A poller's results stay those of its job, whose list does not change    *)
(* any more.                                                               *)
PollerTyped(j) ==
    /\ poller[j] \in [at : {"none", "sleep", "query", "write"}, batch : Seq(Reported)]
    /\ poller[j].at = "write" <=> poller[j].batch # << >>
    /\ \A i \in DOMAIN poller[j].batch : EntOf(j, poller[j].batch[i].tag) # None

LEMMA PollerTypedKept ==
    ASSUME TypeOK, BegunInv, ListsKept, NEW j \in Jobs, poller'[j] = poller[j]
    PROVE  PollerTyped(j)'
  <1>1. PollerTyped(j) /\ j[1] \in Sessions
    BY JobTypes DEF TypeOK, PollerTypes, PollerTyped
  <1>2. CASE coord[j[1]] \in {"none", "build"}
    <2>1. poller[j].batch = << >>
      BY <1>1, <1>2 DEF BegunInv, PollerTyped
    <2> QED BY <1>1, <2>1 DEF PollerTyped
  <1>3. CASE coord[j[1]] \notin {"none", "build"}
    <2>1. \A tag : EntOf(j, tag)' = EntOf(j, tag)
      BY <1>1, <1>3, ItemsKept DEF ListsKept
    <2> QED BY <1>1, <2>1 DEF PollerTyped
  <1> QED BY <1>2, <1>3

(* A new state of one poller.                                              *)
LEMMA PollersTyped ==
    ASSUME TypeOK, BegunInv, ListsKept, NEW j \in Jobs, NEW new,
           poller' = [poller EXCEPT ![j] = new], PollerTyped(j)'
    PROVE  DOMAIN poller' = Jobs /\ PollerTypes'
  <1>1. DOMAIN poller = Jobs
    BY DEF TypeOK
  <1>2. \A k \in Jobs : PollerTyped(k)'
    BY <1>1, PollerTypedKept
  <1> QED BY <1>1, <1>2 DEF PollerTyped, PollerTypes

LEMMA NextPollers ==
    ASSUME LockInv, TypeOK, BegunInv, [Next]_vars
    PROVE  DOMAIN poller' = Jobs /\ PollerTypes'
  <1>1. ListsKept /\ DOMAIN poller = Jobs
    BY NextLists DEF TypeOK
  <1>2. ASSUME poller' = poller PROVE DOMAIN poller' = Jobs /\ PollerTypes'
    BY <1>1, <1>2, PollerTypedKept DEF PollerTypes, PollerTyped
  <1>3. ASSUME NEW j \in Jobs, RunJob(j)
        PROVE  DOMAIN poller' = Jobs /\ PollerTypes'
    <2>1. \/ poller' = poller
          \/ poller' = [poller EXCEPT ![j].at = "sleep"]
      BY <1>3 DEF RunJob
    <2>2. ASSUME poller' = [poller EXCEPT ![j].at = "sleep"]
          PROVE  DOMAIN poller' = Jobs /\ PollerTypes'
      <3>1. PollerTyped(j) /\ poller[j].at = "none"
        BY <1>3 DEF RunJob, BegunInv, TypeOK, PollerTypes, PollerTyped
      <3>2. /\ poller' = [poller EXCEPT ![j] = [poller[j] EXCEPT !.at = "sleep"]]
            /\ poller'[j] = [poller[j] EXCEPT !.at = "sleep"]
        BY <1>1, <2>2
      <3>3. /\ poller'[j].at = "sleep" /\ poller'[j].batch = << >>
            /\ poller'[j] \in [at : {"none", "sleep", "query", "write"},
                              batch : Seq(Reported)]
        BY <3>1, <3>2 DEF PollerTyped
      <3>4. PollerTyped(j)'
        BY <3>3 DEF PollerTyped
      <3> QED BY <1>1, <3>2, <3>4, PollersTyped
    <2> QED BY <1>2, <2>1, <2>2
  <1>4. ASSUME NEW j \in Jobs, Poll(j)
        PROVE  DOMAIN poller' = Jobs /\ PollerTypes'
    <2>1. PICK at \in {"query", "none"} : poller' = [poller EXCEPT ![j].at = at]
      BY <1>4 DEF Poll
    <2>2. PollerTyped(j) /\ poller[j].at = "sleep"
      BY <1>4 DEF Poll, TypeOK, PollerTypes, PollerTyped
    <2>3. /\ poller' = [poller EXCEPT ![j] = [poller[j] EXCEPT !.at = at]]
          /\ poller'[j] = [poller[j] EXCEPT !.at = at]
      BY <1>1, <2>1
    <2>4. /\ poller'[j].at = at /\ poller'[j].batch = << >>
          /\ poller'[j] \in [at : {"none", "sleep", "query", "write"},
                            batch : Seq(Reported)]
      BY <2>2, <2>3 DEF PollerTyped
    <2>5. PollerTyped(j)'
      BY <2>4 DEF PollerTyped
    <2> QED BY <1>1, <2>3, <2>5, PollersTyped
  <1>5. ASSUME NEW j \in Jobs, QueryURLTest(j)
        PROVE  DOMAIN poller' = Jobs /\ PollerTypes'
    <2> DEFINE K == {i \in DOMAIN results : EntOf(j, results[i].tag) # None}
               mine == Kept(results, K)
               new == [at |-> IF mine = << >> THEN "sleep" ELSE "write",
                       batch |-> mine]
    <2>1. poller' = [poller EXCEPT ![j] = new] /\ tested' = tested
      BY <1>5 DEF QueryURLTest, window, sessions
    <2>2. results \in Seq(Reported) /\ K \in SUBSET DOMAIN results
      BY DEF TypeOK
    <2>3. /\ mine \in Seq(Reported)
          /\ \A i \in DOMAIN mine : \E k \in K : mine[i] = results[k]
      <3> HIDE DEF K
      <3> QED BY <2>2, KeptType
    <2>4. \A i \in DOMAIN mine : EntOf(j, mine[i].tag) # None
      <3> HIDE DEF mine
      <3> QED BY <2>3
    <2> HIDE DEF mine
    <2>5. \A tag : EntOf(j, tag)' = EntOf(j, tag)
      BY <2>1, ItemsKept
    <2>6. poller'[j] = new
      BY <1>1, <2>1
    <2>7. PollerTyped(j)'
      BY <2>3, <2>4, <2>5, <2>6 DEF PollerTyped
    <2> QED BY <1>1, <2>1, <2>7, PollersTyped
  <1>6. ASSUME NEW j \in Jobs, PollWrite(j)
        PROVE  DOMAIN poller' = Jobs /\ PollerTypes'
    <2> DEFINE b == poller[j].batch
               new == [at |-> IF Len(b) = 1 THEN "sleep" ELSE "write",
                       batch |-> Tail(b)]
    <2>1. /\ poller[j].at = "write" /\ tested' = tested
          /\ poller' = [poller EXCEPT ![j] = new]
      BY <1>6 DEF PollWrite, window, sessions
    <2>2. PollerTyped(j)
      BY DEF TypeOK, PollerTypes, PollerTyped
    <2>3. b \in Seq(Reported) /\ b # << >> /\ Len(b) \in Nat \ {0}
      BY <2>1, <2>2 DEF PollerTyped
    <2>4. /\ Tail(b) \in Seq(Reported)
          /\ Len(b) = 1 <=> Tail(b) = << >>
          /\ \A i \in DOMAIN Tail(b) : i + 1 \in DOMAIN b /\ Tail(b)[i] = b[i + 1]
      <3> HIDE DEF b
      <3> QED BY <2>3, TailParts
    <2>5. \A tag : EntOf(j, tag)' = EntOf(j, tag)
      BY <2>1, ItemsKept
    <2>6. \A i \in DOMAIN b : EntOf(j, b[i].tag) # None
      BY <2>2 DEF PollerTyped
    <2>7. poller'[j] = new
      BY <1>1, <2>1
    <2>8. \A i \in DOMAIN Tail(b) : EntOf(j, Tail(b)[i].tag) # None
      BY <2>4, <2>6
    <2> HIDE DEF b
    <2>9. PollerTyped(j)'
      BY <2>4, <2>5, <2>7, <2>8 DEF PollerTyped
    <2> QED BY <1>1, <2>1, <2>9, PollersTyped
  <1>7. ASSUME NEW j \in Jobs, \/ CallFails(j) \/ CallTests(j) \/ CallAnswered(j)
                               \/ Count(j) \/ Check(j)
                               \/ \E p \in Items(j) : TestEnds(j, p) \/ WriteAnswer(j, p)
        PROVE  UNCHANGED poller
    BY <1>7 DEF CallFails, CallTests, CallAnswered, Count, Check, TestEnds, WriteAnswer
  <1>8. ASSUME \/ Click \/ StopTests \/ StopStep \/ UNCHANGED vars \/ CoreExits
               \/ \E s \in Sessions : Coordinate(s) \/ BuildFails(s)
               \/ \E p \in Started : CurrentTested(p) \/ CurrentShown(p)
        PROVE  UNCHANGED poller
    BY <1>8 DEF Click, UrlTest, StopTests, StopStep, StopCancels, StopRenews, vars,
       CoreExits, Coordinate, Build, Finished, GiveBack, Report, BuildFails,
       CurrentTested, CurrentShown
  <1> QED BY <1>2, <1>3, <1>4, <1>5, <1>6, <1>7, <1>8
          DEF Next, RunTest, RunPoller, FaultStep

(* The pollers of jobs that wait are still to come, and a counter counts   *)
(* jobs.                                                                   *)
WaitsForPoller(j) == coord[j[1]] \in {"none", "build"} \/ job[j] = "queued"
PollersWait == \A j \in Jobs : WaitsForPoller(j) => poller[j].at = "none"

CountsJobs ==
    \A s \in Sessions : coord[s] \notin {"none", "build"} =>
                           counter[s] <= Cardinality(Counted(s))

LEMMA BegunParts == BegunInv <=> PollersWait /\ CountsJobs
  BY DEF BegunInv, PollersWait, WaitsForPoller, CountsJobs

(* A job's poller starts when the job leaves the queue.                    *)
LEMMA NextPollersWait ==
    ASSUME LockInv, TypeOK, PollersWait, [Next]_vars PROVE PollersWait'
  <1>1. /\ DOMAIN poller = Jobs
        /\ job \in [Jobs -> {"none", "queued", "calling", "testing", "writing",
                            "count", "check"}]
        /\ coord \in [Sessions -> {"none", "build", "wait", "finished", "report",
                                  "over"}]
    BY DEF TypeOK
  <1>2. ASSUME \A j \in Jobs : WaitsForPoller(j)' => WaitsForPoller(j),
               \A j \in Jobs : WaitsForPoller(j)' /\ poller[j].at = "none" =>
                                  poller'[j].at = "none"
        PROVE  PollersWait'
    BY <1>2 DEF PollersWait
  <1>3. ASSUME NEW s \in Sessions, Build(s) PROVE PollersWait'
    <2>1. /\ coord[s] = "build" /\ poller' = poller
          /\ coord' = [coord EXCEPT ![s] = "wait"]
          /\ job' = [j \in Jobs |-> IF j \in JobsOf(s)' THEN "queued" ELSE job[j]]
      BY <1>3 DEF Build, CoordAt
    <2>2. \A j \in Jobs : WaitsForPoller(j)' => WaitsForPoller(j)
      BY <1>1, <2>1, JobTypes DEF WaitsForPoller, JobsOf
    <2> QED BY <1>2, <2>1, <2>2
  <1>4. ASSUME NEW s \in Sessions,
               \/ \E ps \in Lists : UrlTest(s, ps)
               \/ BuildFails(s) \/ Finished(s) \/ GiveBack(s) \/ Report(s)
        PROVE  PollersWait'
    <2>1. /\ UNCHANGED <<job, poller>>
          /\ \/ coord[s] = "none" /\ coord' = [coord EXCEPT ![s] = "build"]
             \/ \E at \in {"finished", "report", "over"} :
                   coord' = [coord EXCEPT ![s] = at]
      BY <1>4 DEF UrlTest, BuildFails, Finished, GiveBack, Report, CoordAt, jobs
    <2>2. \A j \in Jobs : WaitsForPoller(j)' => WaitsForPoller(j)
      BY <1>1, <2>1, JobTypes DEF WaitsForPoller
    <2> QED BY <1>2, <2>1, <2>2
  <1>5. ASSUME NEW j \in Jobs,
               \/ RunJob(j) \/ CallFails(j) \/ CallTests(j) \/ CallAnswered(j)
               \/ Count(j) \/ Check(j)
               \/ \E p \in Items(j) : TestEnds(j, p) \/ WriteAnswer(j, p)
        PROVE  PollersWait'
    <2>1. /\ coord' = coord
          /\ \/ job' = job
             \/ \E at \in {"none", "calling", "testing", "writing", "count", "check"} :
                   job' = [job EXCEPT ![j] = at]
      BY <1>5 DEF RunJob, CallFails, CallTests, CallAnswered, Count, Check,
         TestEnds, WriteAnswer, JobAt, window, sessions
    <2>2. \/ poller' = poller
          \/ /\ poller' = [poller EXCEPT ![j].at = "sleep"]
             /\ job[j] = "queued" /\ job'[j] # "queued"
      BY <1>1, <1>5 DEF RunJob, CallFails, CallTests, CallAnswered, Count, Check,
         TestEnds, WriteAnswer, JobAt
    <2>3. \A k \in Jobs : WaitsForPoller(k)' => WaitsForPoller(k)
      BY <1>1, <2>1 DEF WaitsForPoller
    <2>4. job[j] = "queued" => coord[j[1]] \notin {"none", "build"}
      BY JobTypes DEF LockInv, NotBegun
    <2>5. ASSUME NEW k \in Jobs, WaitsForPoller(k)', poller[k].at = "none"
          PROVE  poller'[k].at = "none"
      <3>1. CASE poller' = poller
        BY <2>5, <3>1
      <3>2. CASE poller' # poller
        <4>1. k # j
          BY <2>1, <2>2, <2>4, <2>5, <3>2 DEF WaitsForPoller
        <4> QED BY <1>1, <2>2, <2>5, <3>2, <4>1
      <3> QED BY <3>1, <3>2
    <2> QED BY <1>2, <2>3, <2>5
  <1>6. ASSUME NEW j \in Jobs, RunPoller(j) PROVE PollersWait'
    <2>1. /\ UNCHANGED <<coord, job>> /\ poller[j].at # "none"
          /\ \E new : poller' = [poller EXCEPT ![j] = new]
      BY <1>6 DEF RunPoller, Poll, QueryURLTest, PollWrite, window, sessions, jobs
    <2>2. \A k \in Jobs : poller[k].at = "none" => poller'[k].at = "none"
      BY <1>1, <2>1
    <2> QED BY <1>2, <2>1, <2>2 DEF WaitsForPoller
  <1>7. CASE StopTests \/ StopStep \/ UNCHANGED vars
             \/ \E p \in Started : CurrentTested(p) \/ CurrentShown(p)
    <2>1. UNCHANGED <<coord, job, poller>>
      BY <1>7 DEF StopTests, StopStep, StopCancels, StopRenews, CurrentTested,
         CurrentShown, vars, window, sessions, jobs
    <2> QED BY <1>2, <2>1 DEF WaitsForPoller
  <1>8. CASE CoreExits
    <2>1. /\ UNCHANGED <<coord, poller>>
          /\ job' = [j \in Jobs |-> IF job[j] \in {"calling", "testing"} THEN "count"
                                    ELSE job[j]]
      BY <1>8 DEF CoreExits, window, sessions
    <2>2. \A j \in Jobs : WaitsForPoller(j)' => WaitsForPoller(j)
      BY <2>1 DEF WaitsForPoller
    <2> QED BY <1>2, <2>1, <2>2
  <1> QED BY <1>3, <1>4, <1>5, <1>6, <1>7, <1>8
          DEF Next, Click, Coordinate, RunTest, FaultStep

(* A job counts once, and nobody else counts for it.                       *)
LEMMA NextCountsJobs ==
    ASSUME LockInv, CountsJobs, [Next]_vars PROVE CountsJobs'
  <1>1. LockTypes /\ NotBegun
    BY DEF LockInv
  <1>2. ASSUME NEW s \in Sessions, coord[s] \notin {"none", "build"},
               counter'[s] = counter[s], Counted(s)' = Counted(s)
        PROVE  counter'[s] <= Cardinality(Counted(s)')
    BY <1>2 DEF CountsJobs
  <1>4. ASSUME NEW s \in Sessions,
               \/ \E ps \in Lists : UrlTest(s, ps)
               \/ Build(s) \/ BuildFails(s) \/ Finished(s) \/ GiveBack(s) \/ Report(s)
        PROVE  CountsJobs'
    <2>1. /\ UNCHANGED counter /\ DOMAIN coord = Sessions /\ DOMAIN tested = Sessions
          /\ \E at \in {"build", "wait", "over", "finished", "report"} :
                coord' = [coord EXCEPT ![s] = at]
      BY <1>1, <1>4 DEF UrlTest, Build, BuildFails, Finished, GiveBack, Report,
                        CoordAt, LockTypes
    <2>2. ASSUME NEW t \in Sessions, coord'[t] \notin {"none", "build"}
          PROVE  counter'[t] <= Cardinality(Counted(t)')
      <3>1. CASE coord[t] \in {"none", "build"}
        <4>1. counter'[t] = 0
          BY <1>1, <2>1, <3>1 DEF NotBegun
        <4>2. Cardinality(Counted(t)') \in Nat
          <5>1. Counted(t)' \in SUBSET Jobs
            BY DEF Counted, JobsOf
          <5> QED BY <5>1, JobsFinite, FS_CardinalityType
        <4> QED BY <4>1, <4>2
      <3>2. CASE coord[t] \notin {"none", "build"}
        <4>1. /\ tested'[t] = tested[t]
              /\ \A j \in Jobs : j[1] = t => job'[j] = job[j]
          <5>1. CASE t = s
            <6>1. ~Build(s) /\ \A ps \in Lists : ~UrlTest(s, ps)
              BY <3>2, <5>1 DEF Build, UrlTest
            <6> QED BY <1>4, <6>1 DEF BuildFails, Finished, GiveBack, Report, jobs
          <5>2. CASE t # s
            BY <1>4, <2>1, <5>2 DEF UrlTest, Build, BuildFails, Finished, GiveBack,
                                    Report, jobs, JobsOf
          <5> QED BY <5>1, <5>2
        <4>2. Counted(t)' = Counted(t)
          BY <4>1, JobsOfKept, JobsOfTypes DEF Counted
        <4> QED BY <1>2, <2>1, <3>2, <4>2
      <3> QED BY <3>1, <3>2
    <2> QED BY <2>2 DEF CountsJobs
  <1>5. ASSUME NEW j \in Jobs, Count(j) PROVE CountsJobs'
    <2> DEFINE s == j[1]
    <2>1. /\ job[j] = "count" /\ job' = [job EXCEPT ![j] = "check"]
          /\ counter' = [counter EXCEPT ![s] = @ + 1]
          /\ UNCHANGED <<coord, tested>>
      BY <1>5 DEF Count, JobAt
    <2>2. s \in Sessions /\ j \in JobsOf(s) /\ coord[s] \notin {"none", "build"}
      BY <1>1, <2>1, JobTypes DEF NotBegun
    <2>3. \A t \in Sessions : JobsOf(t)' = JobsOf(t)
      BY <2>1, JobsOfKept
    <2>4. /\ job'[j] = "check" /\ \A i \in Jobs : i # j => job'[i] = job[i]
          /\ counter'[s] = counter[s] + 1 /\ counter[s] \in Nat
          /\ \A t \in Sessions : t # s => counter'[t] = counter[t]
      BY <1>1, <2>1, <2>2 DEF LockTypes
    <2>5. counter'[s] <= Cardinality(Counted(s)')
      <3>1. Counted(s)' = Counted(s) \cup {j} /\ j \notin Counted(s)
        BY <2>1, <2>2, <2>3, <2>4 DEF Counted
      <3>2. IsFiniteSet(Counted(s))
        BY <2>2, JobsFinite, JobsOfTypes
      <3>3. /\ Cardinality(Counted(s)') = Cardinality(Counted(s)) + 1
            /\ Cardinality(Counted(s)) \in Nat
        BY <3>1, <3>2, FS_AddElement, FS_CardinalityType
      <3>4. counter[s] <= Cardinality(Counted(s))
        BY <2>2 DEF CountsJobs
      <3> QED BY <2>4, <3>3, <3>4
    <2>6. \A t \in Sessions : t # s => Counted(t)' = Counted(t)
      BY <2>2, <2>3, <2>4, JobsOfTypes DEF Counted
    <2> HIDE DEF s
    <2> QED BY <2>1, <2>4, <2>5, <2>6 DEF CountsJobs
  <1>6. ASSUME NEW j \in Jobs,
               \/ RunJob(j) \/ CallFails(j) \/ CallTests(j) \/ CallAnswered(j)
               \/ Check(j)
               \/ \E p \in Items(j) : TestEnds(j, p) \/ WriteAnswer(j, p)
        PROVE  CountsJobs'
    <2>1. /\ UNCHANGED <<coord, tested, counter>>
          /\ \/ job' = job
             \/ /\ job[j] \in {"queued", "calling", "testing", "writing"}
                /\ \E at \in {"calling", "testing", "writing", "count"} :
                      job' = [job EXCEPT ![j] = at]
             \/ job[j] = "check" /\ job' = [job EXCEPT ![j] = "none"]
      BY <1>6 DEF RunJob, CallFails, CallTests, CallAnswered, Check, TestEnds,
         WriteAnswer, JobAt, window, sessions
    <2>2. \A i \in Jobs : job'[i] \in {"none", "check"} <=> job[i] \in {"none", "check"}
      BY <1>1, <2>1 DEF LockTypes
    <2>3. \A s \in Sessions : Counted(s)' = Counted(s)
      BY <2>1, <2>2, JobsOfKept, JobsOfTypes DEF Counted
    <2> QED BY <2>1, <2>3 DEF CountsJobs
  <1>7. CASE \/ \E j \in Jobs : RunPoller(j)
             \/ StopTests \/ StopStep \/ UNCHANGED vars
             \/ \E p \in Started : CurrentTested(p) \/ CurrentShown(p)
    <2>1. UNCHANGED <<coord, tested, counter, job>>
      BY <1>7 DEF RunPoller, Poll, QueryURLTest, PollWrite, StopTests, StopStep,
         StopCancels, StopRenews, CurrentTested, CurrentShown, vars, window,
         sessions, jobs
    <2>2. \A s \in Sessions : Counted(s)' = Counted(s)
      BY <2>1, JobsOfKept DEF Counted
    <2> QED BY <2>1, <2>2 DEF CountsJobs
  <1>8. CASE CoreExits
    <2>1. /\ UNCHANGED <<coord, tested, counter>>
          /\ job' = [j \in Jobs |-> IF job[j] \in {"calling", "testing"} THEN "count"
                                    ELSE job[j]]
      BY <1>8 DEF CoreExits, window, sessions
    <2>2. \A i \in Jobs : job'[i] \in {"none", "check"} <=> job[i] \in {"none", "check"}
      BY <2>1
    <2>3. \A s \in Sessions : Counted(s)' = Counted(s)
      BY <2>1, <2>2, JobsOfKept, JobsOfTypes DEF Counted
    <2> QED BY <2>1, <2>3 DEF CountsJobs
  <1> QED BY <1>4, <1>5, <1>6, <1>7, <1>8
          DEF Next, Click, Coordinate, RunTest, FaultStep

-----------------------------------------------------------------------------
(* What the profiles show *)

AwaitedBy(j, p) ==
    \/ poller[j].at = "query" /\ p \in Items(j) /\ j[2] = Group
    \/ \E i \in DOMAIN poller[j].batch : EntOf(j, poller[j].batch[i].tag) = p

PendingIn(j, p) ==
    /\ p \in Items(j)
    /\ \/ job[j] \in {"calling", "testing"}
       \/ job[j] = "writing" /\ p \in left[j]

ShownFor(p) ==
    answer[p] = None \/ Pending(p) \/ (latency[p] = answer[p] /\ ~Awaited(p))

LEMMA ByJobs ==
    /\ \A p : Awaited(p) <=> \E j \in Jobs : AwaitedBy(j, p)
    /\ \A p : Pending(p) <=> \E j \in Jobs : PendingIn(j, p)
  BY DEF Awaited, AwaitedBy, Pending, PendingIn

LEMMA ByJobsNext ==
    /\ \A p : Awaited(p)' <=> \E j \in Jobs : AwaitedBy(j, p)'
    /\ \A p : Pending(p)' <=> \E j \in Jobs : PendingIn(j, p)'
  BY DEF Awaited, AwaitedBy, Pending, PendingIn

(* What the invariants say of the state before a step.                     *)
Before == LockInv /\ TypeOK /\ BegunInv /\ ShownInv /\ ListsKept

(* A job that has something for a profile is on its way, so that its       *)
(* session's list does not change.                                         *)
LEMMA OnTheWay ==
    ASSUME Before, NEW j \in Jobs, NEW p \in Profiles,
           PendingIn(j, p) \/ AwaitedBy(j, p)
    PROVE  Items(j)' = Items(j) /\ \A tag : EntOf(j, tag)' = EntOf(j, tag)
  <1>1. j[1] \in Sessions
    BY JobTypes
  <1>2. coord[j[1]] \notin {"none", "build"}
    <2> SUFFICES ASSUME coord[j[1]] \in {"none", "build"} PROVE FALSE
      OBVIOUS
    <2>1. job[j] = "none"
      BY <1>1 DEF Before, LockInv, NotBegun
    <2>2. poller[j].at = "none" /\ poller[j].batch = << >>
      BY DEF Before, BegunInv, TypeOK, PollerTypes
    <2>3. DOMAIN poller[j].batch = {}
      BY <2>2
    <2> QED BY <2>1, <2>2, <2>3 DEF PendingIn, AwaitedBy
  <1>3. tested'[j[1]] = tested[j[1]]
    BY <1>1, <1>2 DEF Before, ListsKept
  <1> QED BY <1>3, ItemsKept

(* Nothing is awaited after a step that leaves a poller as it is but what  *)
(* was awaited before.                                                     *)
LEMMA AwaitedKept ==
    ASSUME Before, NEW j \in Jobs, NEW p \in Profiles, AwaitedBy(j, p)',
           poller'[j].batch = poller[j].batch, poller'[j].at \in {poller[j].at, "sleep"}
    PROVE  AwaitedBy(j, p)
  <1>1. j[1] \in Sessions
    BY JobTypes
  <1>2. CASE coord[j[1]] \in {"none", "build"}
    <2>1. poller[j].at = "none" /\ poller[j].batch = << >>
      BY <1>2 DEF Before, BegunInv, TypeOK, PollerTypes
    <2>2. DOMAIN poller'[j].batch = {}
      BY <2>1
    <2> QED BY <2>1, <2>2 DEF AwaitedBy
  <1>3. CASE coord[j[1]] \notin {"none", "build"}
    <2>1. tested'[j[1]] = tested[j[1]]
      BY <1>1, <1>3 DEF Before, ListsKept
    <2>2. Items(j)' = Items(j) /\ \A tag : EntOf(j, tag)' = EntOf(j, tag)
      BY <2>1, ItemsKept
    <2> QED BY <2>2 DEF AwaitedBy
  <1> QED BY <1>2, <1>3

(* A profile that no result is shown for keeps what it shows, and whether  *)
(* that is to stay.                                                        *)
LEMMA StillShown ==
    ASSUME Before, NEW p \in Profiles, p \notin overrun,
           answer'[p] = answer[p],
           latency'[p] = latency[p] \/ Awaited(p),
           Pending(p) => Pending(p)', Awaited(p)' => Awaited(p) \/ Pending(p)'
    PROVE  ShownFor(p)'
  <1>1. ShownFor(p)
    BY DEF Before, ShownInv, ShownFor
  <1> QED BY <1>1 DEF ShownFor

(* One that is shown its answer shows it for good, if nothing is awaited.  *)
LEMMA JustShown ==
    ASSUME Before, NEW ps, NEW r, Show(ps, r), NEW p \in Profiles \cap ps,
           p \notin overrun', Awaited(p)' => Awaited(p)
    PROVE  ShownFor(p)'
  <1>1. ~Awaited(p) /\ latency'[p] = answer'[p]
    BY DEF Show
  <1> QED BY <1>1 DEF ShownFor

(* The rest of a step that shows ps their results.                         *)
LEMMA ShowKeeps ==
    ASSUME Before, NEW ps, NEW r, Show(ps, r),
           \A p \in Profiles : Awaited(p)' => Awaited(p),
           \A p \in Profiles \ ps : Pending(p) => Pending(p)'
    PROVE  ShownInv'
  <1>1. ASSUME NEW p \in Profiles, p \notin overrun' PROVE ShownFor(p)'
    <2>1. CASE p \in ps
      BY <1>1, <2>1, JustShown
    <2>2. CASE p \notin ps
      <3>1. answer'[p] = answer[p] /\ latency'[p] = latency[p] /\ p \notin overrun
        BY <1>1, <2>2 DEF Show
      <3> QED BY <2>2, <3>1, StillShown
    <2> QED BY <2>1, <2>2
  <1> QED BY <1>1 DEF ShownInv, ShownFor

(* A step that shows nothing and leaves what is pending.                   *)
LEMMA NothingShown ==
    ASSUME Before, UNCHANGED <<latency, answer, overrun>>,
           \A p \in Profiles : Pending(p) => Pending(p)',
           \A p \in Profiles : Awaited(p)' => Awaited(p) \/ Pending(p)'
    PROVE  ShownInv'
  BY StillShown DEF ShownInv, ShownFor

(* The coordinator: lists change, and the queue, but nothing on the way.   *)
LEMMA CoordinatorShows ==
    ASSUME Before, NEW s \in Sessions,
           \/ \E ps \in Lists : UrlTest(s, ps)
           \/ Coordinate(s) \/ BuildFails(s)
    PROVE  ShownInv'
  <1>1. UNCHANGED <<poller, left>>
    BY DEF UrlTest, Coordinate, Build, Finished, GiveBack, Report, BuildFails,
           jobs, calls
  <1>2. \A p \in Profiles : Awaited(p)' => Awaited(p)
    BY <1>1, AwaitedKept, ByJobs, ByJobsNext
  <1>3. ASSUME NEW j \in Jobs, job[j] # "none" PROVE job'[j] = job[j]
    <2>1. CASE Build(s)
      <3>1. /\ coord[s] = "build"
            /\ job' = [k \in Jobs |-> IF k \in JobsOf(s)' THEN "queued" ELSE job[k]]
        BY <2>1 DEF Build
      <3>2. j[1] # s
        BY <1>3, <3>1 DEF Before, LockInv, NotBegun
      <3> QED BY <3>1, <3>2 DEF JobsOf
    <2>2. CASE ~Build(s)
      BY <2>2 DEF UrlTest, Coordinate, Finished, GiveBack, Report, BuildFails, jobs
    <2> QED BY <2>1, <2>2
  <1>4. \A p \in Profiles : Pending(p) => Pending(p)'
    <2>1. ASSUME NEW p \in Profiles, NEW j \in Jobs, PendingIn(j, p)
          PROVE  PendingIn(j, p)'
      <3>1. job[j] # "none"
        BY <2>1 DEF PendingIn
      <3> QED BY <1>1, <1>3, <2>1, <3>1, OnTheWay DEF PendingIn
    <2> QED BY <2>1, ByJobs, ByJobsNext
  <1>5. CASE Build(s) \/ BuildFails(s)
    <2>1. PICK ps : MarkInvalid(s, ps)
      BY <1>5 DEF Build, BuildFails
    <2> QED BY <1>2, <1>4, <2>1, ShowKeeps DEF MarkInvalid
  <1>6. CASE ~(Build(s) \/ BuildFails(s))
    <2>1. UNCHANGED <<latency, answer, overrun>>
      BY <1>6 DEF UrlTest, Coordinate, Finished, GiveBack, Report, history, judged
    <2> QED BY <1>2, <1>4, <2>1, NothingShown
  <1> QED BY <1>5, <1>6

(* A job on its way through its call: it is to answer until it has.        *)
LEMMA JobShows ==
    ASSUME Before, NEW j \in Jobs,
           \/ RunJob(j) \/ CallFails(j) \/ CallTests(j) \/ CallAnswered(j)
           \/ Count(j) \/ Check(j)
           \/ \E p \in Items(j) : TestEnds(j, p) \/ WriteAnswer(j, p)
    PROVE  ShownInv'
  <1>1. /\ tested' = tested /\ DOMAIN poller = Jobs /\ DOMAIN left = Jobs
        /\ job \in [Jobs -> {"none", "queued", "calling", "testing", "writing",
                            "count", "check"}]
    BY DEF RunJob, CallFails, CallTests, CallAnswered, Count, Check, TestEnds,
           WriteAnswer, window, sessions, Before, TypeOK
  <1>2. \A k \in Jobs : Items(k)' = Items(k)
    BY <1>1, ItemsKept
  <1>3. \A p \in Profiles : Awaited(p)' => Awaited(p)
    <2>1. poller' = poller \/ poller' = [poller EXCEPT ![j].at = "sleep"]
      BY DEF RunJob, CallFails, CallTests, CallAnswered, Count, Check, TestEnds,
             WriteAnswer
    <2>2. \A k \in Jobs : /\ poller'[k].batch = poller[k].batch
                          /\ poller'[k].at \in {poller[k].at, "sleep"}
      <3>1. poller[j] \in [at : {"none", "sleep", "query", "write"},
                          batch : Seq(Reported)]
        BY DEF Before, TypeOK, PollerTypes
      <3> QED BY <1>1, <2>1, <3>1
    <2> QED BY <2>2, AwaitedKept, ByJobs, ByJobsNext
  <1>4. \A k \in Jobs : k # j => job'[k] = job[k] /\ left'[k] = left[k]
    BY <1>1 DEF RunJob, CallFails, CallTests, CallAnswered, Count, Check, TestEnds,
                WriteAnswer, JobAt, calls
  <1>5. ASSUME NEW p \in Profiles, PendingIn(j, p) => PendingIn(j, p)'
        PROVE  Pending(p) => Pending(p)'
    <2>1. \A k \in Jobs : k # j /\ PendingIn(k, p) => PendingIn(k, p)'
      BY <1>2, <1>4 DEF PendingIn
    <2> QED BY <1>5, <2>1, ByJobs, ByJobsNext
  <1>6. CASE RunJob(j) \/ CallTests(j) \/ CallAnswered(j) \/ Count(j) \/ Check(j)
             \/ \E p \in Items(j) : TestEnds(j, p)
    <2>1. UNCHANGED <<latency, answer, overrun>>
      BY <1>6 DEF RunJob, CallTests, CallAnswered, Count, Check, TestEnds, Unlock,
                  history, judged
    <2>2. ASSUME NEW p \in Profiles, PendingIn(j, p) PROVE PendingIn(j, p)'
      <3>1. job[j] \in {"calling", "testing", "writing"}
        BY <2>2 DEF PendingIn
      <3>2. CASE CallTests(j)
        BY <1>1, <1>2, <2>2, <3>2 DEF CallTests, JobAt, PendingIn
      <3>3. CASE CallAnswered(j)
        <4>1. job'[j] = "writing" /\ left'[j] = Items(j)
          BY <1>1, <3>3 DEF CallAnswered, JobAt
        <4> QED BY <1>2, <2>2, <4>1 DEF PendingIn
      <3>4. CASE \E q \in Items(j) : TestEnds(j, q)
        BY <1>1, <1>2, <2>2, <3>4 DEF TestEnds, PendingIn
      <3>5. CASE RunJob(j) \/ Count(j) \/ Check(j)
        BY <3>1, <3>5 DEF RunJob, Count, Check
      <3> QED BY <1>6, <3>2, <3>3, <3>4, <3>5
    <2> QED BY <1>3, <1>5, <2>1, <2>2, NothingShown
  <1>7. ASSUME NEW p \in Items(j), WriteAnswer(j, p) PROVE ShownInv'
    <2>1. /\ Show({p}, OwnResult(j[1])) /\ job[j] = "writing" /\ p \in left[j]
          /\ left' = [left EXCEPT ![j] = @ \ {p}]
          /\ JobAt(j, IF left[j] = {p} THEN "count" ELSE "writing")
      BY <1>7 DEF WriteAnswer
    <2>2. ASSUME NEW q \in Profiles \ {p}, PendingIn(j, q) PROVE PendingIn(j, q)'
      <3>1. q \in left[j] /\ left[j] # {p}
        BY <2>1, <2>2 DEF PendingIn
      <3>2. job'[j] = "writing" /\ q \in left'[j]
        BY <1>1, <2>1, <2>2, <3>1 DEF JobAt
      <3> QED BY <1>2, <2>2, <3>2 DEF PendingIn
    <2> QED BY <1>3, <1>5, <2>1, <2>2, ShowKeeps
  <1>8. CASE CallFails(j)
    <2>1. /\ answer' = [p \in Profiles |-> IF p \in Items(j) THEN None ELSE answer[p]]
          /\ UNCHANGED <<latency, overrun>>
      BY <1>8 DEF CallFails
    <2>2. ASSUME NEW p \in Profiles, p \notin overrun PROVE ShownFor(p)'
      <3>1. CASE p \in Items(j)
        BY <2>1, <3>1 DEF ShownFor
      <3>2. CASE p \notin Items(j)
        <4>1. answer'[p] = answer[p] /\ ~PendingIn(j, p)
          BY <2>1, <3>2 DEF PendingIn
        <4> QED BY <1>3, <1>5, <2>1, <2>2, <4>1, StillShown
      <3> QED BY <3>1, <3>2
    <2> QED BY <2>1, <2>2 DEF ShownInv, ShownFor
  <1> QED BY <1>6, <1>7, <1>8

(* A poller asks for its job's results, takes those that name one of its   *)
(* profiles, and writes them: for profiles that are awaited.               *)
LEMMA PollerShows ==
    ASSUME Before, NEW j \in Jobs, RunPoller(j) PROVE ShownInv'
  <1>1. UNCHANGED <<tested, job, left, answer, overrun>> /\ DOMAIN poller = Jobs
    BY DEF RunPoller, Poll, QueryURLTest, PollWrite, window, sessions, jobs, calls,
           history, judged, Before, TypeOK
  <1>2. \A k \in Jobs : Items(k)' = Items(k) /\ \A tag : EntOf(k, tag)' = EntOf(k, tag)
    BY <1>1, ItemsKept
  <1>3. \A p \in Profiles : Pending(p)' <=> Pending(p)
    <2>1. \A k \in Jobs, p \in Profiles : PendingIn(k, p)' <=> PendingIn(k, p)
      BY <1>1, <1>2 DEF PendingIn
    <2> QED BY <2>1, ByJobs, ByJobsNext
  <1>4. \A k \in Jobs : k # j => poller'[k] = poller[k]
    BY <1>1 DEF RunPoller, Poll, QueryURLTest, PollWrite
  <1>5. ASSUME NEW p \in Profiles, AwaitedBy(j, p)' => AwaitedBy(j, p) \/ Pending(p)
        PROVE  Awaited(p)' => Awaited(p) \/ Pending(p)'
    <2>1. \A k \in Jobs : k # j /\ AwaitedBy(k, p)' => AwaitedBy(k, p)
      BY <1>4, AwaitedKept
    <2> QED BY <1>3, <1>5, <2>1, ByJobs, ByJobsNext
  <1>6. CASE Poll(j)
    <2>1. /\ UNCHANGED latency
          /\ poller' = [poller EXCEPT ![j].at =
                 IF job[j] \in {"calling", "testing"} THEN "query" ELSE "none"]
      BY <1>6 DEF Poll
    <2>2. poller[j] \in [at : {"none", "sleep", "query", "write"}, batch : Seq(Reported)]
      BY DEF Before, TypeOK, PollerTypes
    <2>3. /\ poller'[j].batch = poller[j].batch
          /\ poller'[j].at = "query" => job[j] \in {"calling", "testing"}
      BY <1>1, <2>1, <2>2
    <2>4. ASSUME NEW p \in Profiles, AwaitedBy(j, p)'
          PROVE  AwaitedBy(j, p) \/ Pending(p)
      <3>1. CASE poller'[j].at = "query" /\ p \in Items(j)
        BY <2>3, <3>1 DEF Pending
      <3>2. CASE ~(poller'[j].at = "query" /\ p \in Items(j))
        <4>1. PICK i \in DOMAIN poller[j].batch : EntOf(j, poller[j].batch[i].tag) = p
          BY <1>2, <2>3, <2>4, <3>2 DEF AwaitedBy
        <4> QED BY <4>1 DEF AwaitedBy
      <3> QED BY <3>1, <3>2
    <2> QED BY <1>1, <1>3, <1>5, <2>1, <2>4, NothingShown
  <1>7. CASE QueryURLTest(j)
    <2> DEFINE K == {i \in DOMAIN results : EntOf(j, results[i].tag) # None}
               mine == Kept(results, K)
               new == [at |-> IF mine = << >> THEN "sleep" ELSE "write",
                       batch |-> mine]
    <2>1. /\ poller[j].at = "query" /\ UNCHANGED latency
          /\ poller' = [poller EXCEPT ![j] = new]
      BY <1>7 DEF QueryURLTest
    <2>2. results \in Seq(Reported) /\ K \in SUBSET DOMAIN results
      BY DEF Before, TypeOK
    <2>3. \A i \in DOMAIN mine : EntOf(j, mine[i].tag) # None
      <3>1. \A i \in DOMAIN mine : \E k \in K : mine[i] = results[k]
        <4> HIDE DEF K
        <4> QED BY <2>2, KeptType
      <3> HIDE DEF mine
      <3> QED BY <3>1
    <2> HIDE DEF mine
    <2>4. poller'[j] = new
      BY <1>1, <2>1
    <2>5. \A tag : EntOf(j, tag) # None => EntOf(j, tag) \in Items(j) /\ j[2] = Group
      BY ItemsTypes DEF Before, TypeOK
    <2>6. ASSUME NEW p \in Profiles, AwaitedBy(j, p)' PROVE AwaitedBy(j, p)
      <3>1. PICK i \in DOMAIN mine : EntOf(j, mine[i].tag) = p
        BY <1>2, <2>4, <2>6 DEF AwaitedBy
      <3>2. p \in Items(j) /\ j[2] = Group
        BY <2>3, <2>5, <3>1
      <3> QED BY <2>1, <3>2 DEF AwaitedBy
    <2> QED BY <1>1, <1>3, <1>5, <2>1, <2>6, NothingShown
  <1>8. CASE PollWrite(j)
    <2> DEFINE b == poller[j].batch
               r == Head(b)
    <2>1. /\ poller[j].at = "write"
          /\ latency' = [latency EXCEPT ![EntOf(j, r.tag)] = [of |-> r.of, by |-> r.by]]
          /\ poller' = [poller EXCEPT ![j] =
                 [at |-> IF Len(b) = 1 THEN "sleep" ELSE "write", batch |-> Tail(b)]]
      BY <1>8 DEF PollWrite
    <2>2. b \in Seq(Reported) /\ b # << >>
      BY <2>1 DEF Before, TypeOK, PollerTypes
    <2>3. /\ poller'[j].at \in {"sleep", "write"}
          /\ poller'[j].batch = Tail(b)
      BY <1>1, <2>1
    <2>4. \A i \in DOMAIN Tail(b) : i + 1 \in DOMAIN b /\ Tail(b)[i] = b[i + 1]
      <3> HIDE DEF b
      <3> QED BY <2>2, TailParts
    <2>5. ASSUME NEW p \in Profiles, AwaitedBy(j, p)' PROVE AwaitedBy(j, p)
      <3>1. PICK i \in DOMAIN Tail(b) : EntOf(j, Tail(b)[i].tag) = p
        BY <1>2, <2>3, <2>5 DEF AwaitedBy
      <3>2. i + 1 \in DOMAIN b /\ EntOf(j, b[i + 1].tag) = p
        BY <2>4, <3>1
      <3> QED BY <3>2 DEF AwaitedBy
    <2>6. ASSUME NEW p \in Profiles, p # EntOf(j, r.tag) PROVE latency'[p] = latency[p]
      BY <2>1, <2>6 DEF Before, TypeOK
    <2>7. AwaitedBy(j, EntOf(j, r.tag))
      <3>1. 1 \in DOMAIN b /\ r = b[1]
        <4> HIDE DEF b
        <4> QED BY <2>2
      <3> QED BY <3>1 DEF AwaitedBy
    <2>8. ASSUME NEW p \in Profiles, p \notin overrun' PROVE ShownFor(p)'
      <3>1. latency'[p] = latency[p] \/ Awaited(p)
        BY <2>6, <2>7, ByJobs
      <3> QED BY <1>1, <1>3, <1>5, <2>5, <2>8, <3>1, StillShown
    <2> QED BY <2>8 DEF ShownInv, ShownFor
  <1> QED BY <1>6, <1>7, <1>8 DEF RunPoller

(* The stop and url_test_current leave all that; the core's end takes the  *)
(* answers of the calls that it cuts off.                                  *)
LEMMA OthersShow ==
    ASSUME Before,
           \/ StopTests \/ StopStep \/ CoreExits \/ UNCHANGED vars
           \/ \E p \in Started : CurrentTested(p) \/ CurrentShown(p)
    PROVE  ShownInv'
  <1>1. UNCHANGED <<tested, poller>>
    BY DEF StopTests, StopStep, StopCancels, StopRenews, CoreExits, CurrentTested,
           CurrentShown, vars, window, sessions
  <1>2. \A p \in Profiles : Awaited(p)' => Awaited(p)
    BY <1>1, AwaitedKept, ByJobs, ByJobsNext
  <1>3. \A k \in Jobs : Items(k)' = Items(k)
    BY <1>1, ItemsKept
  <1>4. CASE CoreExits
    <2> DEFINE lost == {j \in Jobs : job[j] \in {"calling", "testing"}}
    <2>1. /\ UNCHANGED <<latency, overrun>>
          /\ job' = [j \in Jobs |-> IF j \in lost THEN "count" ELSE job[j]]
          /\ left' = [j \in Jobs |-> IF j \in lost THEN {} ELSE left[j]]
          /\ answer' = [p \in Profiles |->
                IF \E j \in lost : p \in Items(j) THEN None ELSE answer[p]]
      BY <1>4 DEF CoreExits
    <2>2. ASSUME NEW p \in Profiles, p \notin overrun PROVE ShownFor(p)'
      <3>1. CASE \E j \in lost : p \in Items(j)
        <4>1. answer'[p] = None
          BY <2>1, <3>1
        <4> QED BY <4>1 DEF ShownFor
      <3>2. CASE ~\E j \in lost : p \in Items(j)
        <4>1. answer'[p] = answer[p]
          BY <2>1, <3>2
        <4>2. ASSUME NEW j \in Jobs, PendingIn(j, p) PROVE PendingIn(j, p)'
          BY <1>3, <2>1, <3>2, <4>2 DEF PendingIn
        <4>3. Pending(p) => Pending(p)'
          BY <4>2, ByJobs, ByJobsNext
        <4> QED BY <1>2, <2>1, <2>2, <4>1, <4>3, StillShown
      <3> QED BY <3>1, <3>2
    <2> QED BY <2>1, <2>2 DEF ShownInv, ShownFor
  <1>5. CASE ~CoreExits
    <2>1. UNCHANGED <<job, left>>
      BY <1>5 DEF StopTests, StopStep, StopCancels, StopRenews, CurrentTested,
         CurrentShown, vars, jobs, calls
    <2>2. \A p \in Profiles : Pending(p) => Pending(p)'
      <3>1. \A j \in Jobs, p \in Profiles : PendingIn(j, p) => PendingIn(j, p)'
        BY <1>3, <2>1 DEF PendingIn
      <3> QED BY <3>1, ByJobs, ByJobsNext
    <2>3. ASSUME NEW p \in Started, CurrentShown(p) PROVE ShownInv'
      BY <1>2, <2>2, <2>3, ShowKeeps DEF CurrentShown
    <2>4. CASE \A p \in Started : ~CurrentShown(p)
      <3>1. UNCHANGED <<latency, answer, overrun>>
        BY <1>5, <2>4 DEF StopTests, StopStep, StopCancels, StopRenews,
           CurrentTested, vars, history, judged
      <3> QED BY <1>2, <2>2, <3>1, NothingShown
    <2> QED BY <2>3, <2>4
  <1> QED BY <1>4, <1>5

LEMMA NextShows == ASSUME Before, [Next]_vars PROVE ShownInv'
  BY CoordinatorShows, JobShows, PollerShows, OthersShow
     DEF Next, Click, RunTest, FaultStep

LEMMA NextTypes ==
    ASSUME LockInv, TypeOK, BegunInv, [Next]_vars PROVE TypeOK' /\ BegunInv'
  <1>1. LockTypes' /\ NotBegun'
    BY NextKeeps DEF LockInv
  <1>2. PollersWait' /\ CountsJobs'
    BY NextPollersWait, NextCountsJobs, BegunParts
  <1>3. BegunInv'
    BY <1>2 DEF BegunInv, PollersWait, WaitsForPoller, CountsJobs
  <1>4. counter' \in [Sessions -> 0..Cardinality(Jobs)]
    <2>1. ASSUME NEW s \in Sessions PROVE counter'[s] \in 0..Cardinality(Jobs)
      <3>1. /\ Cardinality(Counted(s)') \in Nat /\ Cardinality(Jobs) \in Nat
            /\ Cardinality(Counted(s)') <= Cardinality(Jobs)
        <4>1. Counted(s)' \in SUBSET Jobs
          BY DEF Counted, JobsOf
        <4> QED BY <4>1, JobsFinite, FS_CardinalityType, FS_Subset
      <3>2. counter'[s] \in Nat
        BY <1>1 DEF LockTypes
      <3>3. CASE coord'[s] \in {"none", "build"}
        BY <1>1, <3>1, <3>3 DEF NotBegun
      <3>4. CASE coord'[s] \notin {"none", "build"}
        BY <1>2, <3>1, <3>2, <3>4 DEF CountsJobs
      <3> QED BY <3>3, <3>4
    <2> QED BY <1>1, <2>1 DEF LockTypes
  <1>5. ListsKept /\ Shown /\ results' \in Seq(Reported) /\ CallTypes'
    BY NextLists, NextShown, NextResults, NextCalls
  <1>6. DOMAIN poller' = Jobs /\ PollerTypes'
    BY NextPollers
  <1> QED BY <1>1, <1>3, <1>4, <1>5, <1>6
          DEF TypeOK, LockTypes, ListsKept, Shown, CallTypes

LEMMA InitTypes == Init => TypeOK /\ BegunInv /\ ShownInv
  <1> SUFFICES ASSUME Init PROVE TypeOK /\ BegunInv /\ ShownInv
    OBVIOUS
  <1>1. Cardinality(Jobs) \in Nat
    BY JobsFinite, FS_CardinalityType
  <1>2. PollerTypes
    BY DEF Init, PollerTypes
  <1>3. BegunInv /\ ShownInv
    BY DEF Init, BegunInv, ShownInv
  <1>4. counter \in [Sessions -> 0..Cardinality(Jobs)]
    BY <1>1 DEF Init
  <1>5. results \in Seq(Reported) /\ tested \in [Sessions -> Seq(Profiles)]
    BY DEF Init
  <1>6. left \in [Jobs -> SUBSET Profiles] /\ DOMAIN poller = Jobs
    BY DEF Init
  <1>7. /\ coord \in [Sessions -> {"none", "build", "wait", "finished", "report",
                                   "over"}]
        /\ job \in [Jobs -> {"none", "queued", "calling", "testing", "writing",
                             "count", "check"}]
        /\ aborted \in [Jobs -> BOOLEAN]
    BY DEF Init
  <1>8. /\ latency \in [Profiles -> Result \cup {None}]
        /\ answer \in [Profiles -> Result \cup {None}]
        /\ current \in Profiles \cup {None}
    BY DEF Init
  <1>9. /\ speedtestRunning \in BOOLEAN /\ stopSpeedtest \in BOOLEAN
        /\ stopping \in {"no", "cancel", "renew"} /\ ctxDone \in BOOLEAN
    BY DEF Init
  <1> QED BY <1>2, <1>3, <1>4, <1>5, <1>6, <1>7, <1>8, <1>9 DEF TypeOK

(* For any number of clicks, profiles and pool threads: when the url tests *)
(* are over, no poller's late results hide the answer of the last test     *)
(* (runURLTest in mainwindow_rpc.cpp), but those a poller still held then. *)
THEOREM AnswersStand == Spec => []ResultsInv
  <1>1. LockInv /\ TypeOK /\ BegunInv /\ ShownInv /\ [Next]_vars
           => TypeOK' /\ BegunInv' /\ ShownInv'
    BY NextTypes, NextLists, NextShows DEF Before
  <1>2. TypeOK /\ BegunInv /\ ShownInv => ResultsInv
    <2> SUFFICES ASSUME TypeOK, BegunInv, ShownInv, Resting,
                        NEW p \in Profiles \ overrun, answer[p] # None
                 PROVE  latency[p] = answer[p]
      BY DEF ResultsInv, AnswerStands
    <2>1. ~Pending(p)
      BY DEF Resting, Pending
    <2> QED BY <2>1 DEF ShownInv
  <1> QED BY <1>1, <1>2, InitTypes, LockIsSound, PTL DEF Spec
=============================================================================
