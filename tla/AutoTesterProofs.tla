-------------------------- MODULE AutoTesterProofs --------------------------
(***************************************************************************)
(* For any group and any number of cycles and checks at one time: the flag *)
(* that turns test cycles away never stays behind, the pool stays small,   *)
(* and the tester starts what passed its last test.                        *)
(***************************************************************************)
EXTENDS AutoTester, FiniteSetTheorems, TLAPS

(* The threads of the cycles are a function of their own, and the flag is  *)
(* set only while one of them runs.                                        *)
FlagInv ==
    /\ cycle = [c \in Cycles |-> cycle[c]]
    /\ isTestingInProgress \in BOOLEAN
    /\ FlagIsCleared

LEMMA InitFlag == Init => FlagInv
  BY DEF Init, FlagInv, FlagIsCleared

(* Threads that are not idle are told by where they are.                   *)
LEMMA Elsewhere == \A r : r.at # "idle" => r # Idle
  BY DEF Idle

(* A cycle moves: with the flag cleared, or to where it is not idle.       *)
LEMMA CycleMoves ==
    ASSUME FlagInv, NEW c \in Cycles, NEW r, cycle' = [cycle EXCEPT ![c] = r],
           isTestingInProgress' = FALSE
              \/ (isTestingInProgress' \in BOOLEAN /\ r # Idle)
    PROVE  FlagInv'
  <1>1. cycle' = [d \in Cycles |-> IF d = c THEN r ELSE cycle[d]]
    BY DEF FlagInv
  <1>2. cycle' = [d \in Cycles |-> cycle'[d]]
    BY <1>1
  <1>3. cycle'[c] = r
    BY <1>1
  <1> QED BY <1>2, <1>3 DEF FlagInv, FlagIsCleared

(* RunTestCycle sets the flag only when it begins a cycle.                 *)
LEMMA BeginKeeps ==
    ASSUME FlagInv, NEW on, NEW from, RunTestCycle(on, from) PROVE FlagInv'
  <1>1. CASE ~on \/ ~coreRunning
    <2>1. isTestingInProgress' = FALSE /\ UNCHANGED cycle
      BY <1>1 DEF RunTestCycle
    <2> QED BY <2>1 DEF FlagInv, FlagIsCleared
  <1>2. CASE on /\ coreRunning
    <2>1. PICK next \in ProxiesToTest(from) :
             /\ isTestingInProgress' = (next # <<>>)
             /\ IF next = <<>> THEN UNCHANGED cycle
                ELSE \E c \in Cycles :
                        /\ cycle[c] = Idle
                        /\ CycleAt(c, [at |-> "testing", todo |-> next])
      BY <1>2 DEF RunTestCycle
    <2> DEFINE r == [at |-> "testing", todo |-> next]
    <2>2. CASE next = <<>>
      BY <2>1, <2>2 DEF FlagInv, FlagIsCleared
    <2>3. CASE next # <<>>
      <3>1. PICK c \in Cycles : cycle' = [cycle EXCEPT ![c] = r]
        BY <2>1, <2>3 DEF CycleAt
      <3>2. r # Idle
        BY Elsewhere
      <3> QED BY <2>1, <3>1, <3>2, CycleMoves
    <2> QED BY <2>2, <2>3
  <1> QED BY <1>1, <1>2

LEMMA RunCycleKeeps ==
    ASSUME FlagInv, NEW c \in Cycles, RunCycle(c) \/ CallFails(c) PROVE FlagInv'
  <1>1. CASE EndEarly(c)
    BY <1>1, CycleMoves DEF EndEarly, CycleAt
  <1>2. CASE CycleAnswered(c)
    <2>1. [at |-> "results", todo |-> cycle[c].todo] # Idle
      BY Elsewhere
    <2> QED BY <1>2, <2>1, CycleMoves DEF CycleAnswered, CycleAt, rotation, FlagInv
  <1>3. CASE CycleResult(c)
    <2> DEFINE past == [at |-> "results", todo |-> Tail(cycle[c].todo)]
               keep(ok) == [at |-> "keep", ok |-> ok, todo |-> cycle[c].todo]
    <2>1. past # Idle /\ \A ok : keep(ok) # Idle
      BY Elsewhere
    <2>2. CycleAt(c, past) \/ \E ok : CycleAt(c, keep(ok))
      BY <1>3 DEF CycleResult
    <2>3. UNCHANGED isTestingInProgress
      BY <1>3 DEF CycleResult, rotation
    <2> QED BY <2>1, <2>2, <2>3, CycleMoves DEF CycleAt, FlagInv
  <1>4. CASE CycleKeep(c)
    <2>1. [at |-> "results", todo |-> Tail(cycle[c].todo)] # Idle
      BY Elsewhere
    <2> QED BY <1>4, <2>1, CycleMoves DEF CycleKeep, CycleAt, rotation, FlagInv
  <1>5. CASE CycleEnd(c)
    BY <1>5, CycleMoves DEF CycleEnd, CycleAt
  <1> QED BY <1>1, <1>2, <1>3, <1>4, <1>5 DEF RunCycle, CycleFails, CallFails

LEMMA OtherStepsKeep ==
    ASSUME FlagInv, UNCHANGED <<cycle, isTestingInProgress>> PROVE FlagInv'
  BY DEF FlagInv, FlagIsCleared

LEMMA NextFlag == FlagInv /\ [Next]_vars => FlagInv'
  <1> SUFFICES ASSUME FlagInv, [Next]_vars PROVE FlagInv'
    OBVIOUS
  <1>1. CASE TestTimer
    BY <1>1, BeginKeeps DEF TestTimer
  <1>2. ASSUME NEW on \in BOOLEAN, SaveSettings(on) PROVE FlagInv'
    <2>1. CASE on
      BY <1>2, <2>1, BeginKeeps DEF SaveSettings
    <2>2. CASE ~on
      BY <1>2, <2>2 DEF SaveSettings, FlagInv, FlagIsCleared
    <2> QED BY <2>1, <2>2
  <1>3. ASSUME NEW h \in Checks, CheckActiveProxyHealth(h) \/ RunCheck(h) PROVE FlagInv'
    BY <1>3, OtherStepsKeep DEF RunCheck, CheckActiveProxyHealth, CheckHealthy,
       CheckUnhealthy, GiveUp, Failover, rotation
  <1>4. CASE RunPosted \/ StartFails \/ UserStop \/ CoreStateChanged
    BY <1>4, OtherStepsKeep DEF RunPosted, StartFails, UserStop, CoreStateChanged,
       rotation, threads
  <1>5. ASSUME NEW p \in Proxies, UserStart(p) \/ DeleteProfile(p) PROVE FlagInv'
    BY <1>5, OtherStepsKeep DEF UserStart, DeleteProfile, rotation, threads
  <1>6. CASE UNCHANGED vars
    BY <1>6, OtherStepsKeep DEF vars, rotation, threads
  <1> QED BY <1>1, <1>2, <1>3, <1>4, <1>5, <1>6, RunCycleKeeps DEF Next, Inside, Outside

(* RunTestCycle turns cycles away while isTestingInProgress is set         *)
(* (ProxyAutoTester.cpp): every way out of performTest clears it, so that  *)
(* it is set only while some thread will come to one.                      *)
THEOREM FlagNeverStays == Spec => []FlagIsCleared
  <1>1. FlagInv => FlagIsCleared
    BY DEF FlagInv
  <1> QED BY <1>1, InitFlag, NextFlag, PTL DEF Spec

-----------------------------------------------------------------------------
(* Types *)

(* What is left of a list has elements of it, each as often.               *)
LEMMA OnlyAtType ==
    ASSUME NEW S, NEW s \in Seq(S), NEW K \in SUBSET DOMAIN s, NEW t \in OnlyAt(s, K)
    PROVE  /\ t \in Seq(S) /\ Len(t) = Cardinality(K)
           /\ Cardinality(K) \in Nat /\ IsFiniteSet(K)
           /\ \A i \in DOMAIN t : \E k \in K : t[i] = s[k]
           /\ (\A i, j \in DOMAIN s : s[i] = s[j] => i = j)
                 => \A i, j \in DOMAIN t : t[i] = t[j] => i = j
  <1>1. IsFiniteSet(K) /\ Cardinality(K) \in Nat
    <2>1. DOMAIN s = 1..Len(s) /\ Len(s) \in Nat
      OBVIOUS
    <2>2. IsFiniteSet(DOMAIN s)
      BY <2>1, FS_Interval
    <2> QED BY <2>2, FS_Subset, FS_CardinalityType
  <1>2. PICK f \in [1..Cardinality(K) -> K] :
                InOrder(f) /\ t = [i \in DOMAIN f |-> s[f[i]]]
    BY DEF OnlyAt
  <1>3. DOMAIN t = 1..Cardinality(K) /\ \A i \in DOMAIN t : f[i] \in K /\ t[i] = s[f[i]]
    BY <1>2
  <1>4. \A i \in 1..Cardinality(K) : t[i] \in S
    <2>1. \A k \in DOMAIN s : s[k] \in S
      OBVIOUS
    <2> QED BY <1>3, <2>1
  <1>5. t \in Seq(S) /\ Len(t) = Cardinality(K)
    <2>1. t \in [1..Cardinality(K) -> S]
      BY <1>2, <1>4
    <2> QED BY <1>1, <2>1
  <1>6. ASSUME \A i, j \in DOMAIN s : s[i] = s[j] => i = j,
               NEW i \in DOMAIN t, NEW j \in DOMAIN t, t[i] = t[j]
        PROVE  i = j
    <2>1. f[i] = f[j]
      BY <1>3, <1>6
    <2>2. i \in DOMAIN f /\ j \in DOMAIN f /\ i \in Nat /\ j \in Nat
      BY <1>1, <1>2, <1>3
    <2>3. ~(i < j) /\ ~(j < i)
      <3>1. f[i] \in Nat /\ f[j] \in Nat
        BY <1>2, <2>2
      <3> QED BY <1>2, <2>1, <2>2, <3>1 DEF InOrder
    <2> QED BY <2>2, <2>3
  <1> QED BY <1>1, <1>3, <1>5, <1>6

LEMMA ExistsTypes == ASSUME TypeOK PROVE Exists \subseteq Proxies
  BY DEF TypeOK, Exists, ToSet

(* removeAll leaves a list of others, no longer than before.               *)
LEMMA WithoutType ==
    ASSUME NEW s \in Seq(Proxies), NEW p, NEW t \in Without(s, p)
    PROVE  /\ t \in Seq(Proxies) /\ Len(t) <= Len(s)
           /\ \A i \in DOMAIN t : t[i] # p
           /\ (\A i, j \in DOMAIN s : s[i] = s[j] => i = j)
                 => \A i, j \in DOMAIN t : t[i] = t[j] => i = j
  <1> DEFINE K == {i \in DOMAIN s : s[i] # p}
  <1>1. K \in SUBSET DOMAIN s /\ t \in OnlyAt(s, K)
    BY DEF Without
  <1>2. Cardinality(K) <= Len(s)
    <2>1. DOMAIN s = 1..Len(s) /\ Len(s) \in Nat
      OBVIOUS
    <2>2. IsFiniteSet(1..Len(s)) /\ Cardinality(1..Len(s)) = Len(s)
      BY <2>1, FS_Interval
    <2>3. K \subseteq 1..Len(s)
      BY <2>1
    <2> HIDE DEF K
    <2> QED BY <2>2, <2>3, FS_Subset
  <1>3. \A k \in K : s[k] # p
    OBVIOUS
  <1> HIDE DEF K
  <1> QED BY <1>1, <1>2, <1>3, OnlyAtType

(* The pool is cut, and has what exists and works.                         *)
LEMMA PruneType ==
    ASSUME NEW s \in Seq(Proxies), NEW t \in Prune(s)
    PROVE  /\ t \in Seq(Proxies) /\ Len(t) <= PoolSize
           /\ \A i \in DOMAIN t : t[i] \in Exists /\ working[t[i]]
           /\ (\A i, j \in DOMAIN s : s[i] = s[j] => i = j)
                 => \A i, j \in DOMAIN t : t[i] = t[j] => i = j
  <1> DEFINE K == {i \in DOMAIN s : i <= PoolSize /\ s[i] \in Exists /\ working[s[i]]}
  <1>1. K \in SUBSET DOMAIN s /\ t \in OnlyAt(s, K)
    BY DEF Prune
  <1>2. Cardinality(K) <= PoolSize
    <2>1. DOMAIN s = 1..Len(s) /\ Len(s) \in Nat
      OBVIOUS
    <2>2. IsFiniteSet(1..PoolSize) /\ Cardinality(1..PoolSize) = PoolSize
      BY CountAssumption, FS_Interval
    <2>3. K \subseteq 1..PoolSize
      BY <2>1
    <2> HIDE DEF K
    <2> QED BY <2>2, <2>3, FS_Subset
  <1>3. \A k \in K : s[k] \in Exists /\ working[s[k]]
    OBVIOUS
  <1> HIDE DEF K
  <1> QED BY <1>1, <1>2, <1>3, OnlyAtType

(* The proxies of a cycle are proxies, and the offset is one.              *)
LEMMA ToTestType ==
    ASSUME TypeOK, NEW from \in Nat, NEW next \in ProxiesToTest(from)
    PROVE  next \in Seq(Proxies) /\ OffsetAfter(from, next) \in Nat
  <1>1. list \in Seq(Proxies) /\ Len(list) \in Nat /\ DOMAIN list = 1..Len(list)
    BY DEF TypeOK
  <1>2. (list # <<>> => Len(list) > 0) /\ Start(from) \in Nat
    BY <1>1 DEF Start
  <1> DEFINE round == Round(Start(from))
             K == {i \in DOMAIN round : Testable(round[i])}
  <1>3. round \in Seq(Proxies)
    <2>1. ASSUME NEW i \in DOMAIN list
          PROVE  list[((Start(from) + i - 1) % Len(list)) + 1] \in Proxies
      <3>1. i \in 1..Len(list) /\ Len(list) > 0 /\ Start(from) + i - 1 \in Nat
        BY <1>1, <1>2
      <3>2. (Start(from) + i - 1) % Len(list) \in 0..Len(list) - 1
        BY <1>1, <3>1
      <3>3. ((Start(from) + i - 1) % Len(list)) + 1 \in DOMAIN list
        BY <1>1, <3>2
      <3> QED BY <1>1, <3>3
    <2>2. round \in [1..Len(list) -> Proxies]
      BY <1>1, <2>1 DEF Round
    <2> QED BY <1>1, <2>2
  <1>4. PICK s \in OnlyAt(round, K) : next = FirstOf(s, Count)
    BY DEF ProxiesToTest
  <1>5. s \in Seq(Proxies)
    <2>1. K \in SUBSET DOMAIN round
      OBVIOUS
    <2> HIDE DEF round, K
    <2> QED BY <1>3, <1>4, <2>1, OnlyAtType
  <1>6. next \in Seq(Proxies)
    <2> DEFINE m == IF Count < Len(s) THEN Count ELSE Len(s)
    <2>1. m \in 0..Len(s)
      BY <1>5, CountAssumption
    <2> HIDE DEF m
    <2>2. SubSeq(s, 1, m) \in Seq(Proxies)
      BY <1>5, <2>1
    <2> QED BY <1>4, <2>2 DEF FirstOf, m
  <1>7. OffsetAfter(from, next) \in Nat
    <2>1. Len(next) \in Nat
      BY <1>6
    <2>2. CASE list # <<>>
      <3>1. Start(from) + Len(next) \in Nat /\ Len(list) \in Nat \ {0}
        BY <1>1, <1>2, <2>1, <2>2
      <3>2. (Start(from) + Len(next)) % Len(list) \in Nat
        BY <3>1
      <3> QED BY <2>2, <3>2 DEF OffsetAfter
    <2>3. CASE list = <<>>
      BY <2>3 DEF OffsetAfter
    <2> QED BY <2>2, <2>3
  <1> QED BY <1>6, <1>7

(* Where a thread of a cycle is tells what it has.                         *)
LEMMA CycleParts ==
    ASSUME TypeOK, NEW c \in Cycles
    PROVE  /\ cycle[c].at \in {"testing", "results", "keep"}
                 => cycle[c].todo \in Seq(Proxies)
           /\ cycle[c].at = "keep" => cycle[c].ok \in BOOLEAN /\ cycle[c].todo # <<>>
  <1>1. cycle[c] \in CycleStates
    BY DEF TypeOK
  <1>2. CASE cycle[c] = Idle
    BY <1>2 DEF Idle
  <1>3. CASE cycle[c] \in [at : {"testing", "results"}, todo : Seq(Proxies)]
    BY <1>3
  <1>4. CASE cycle[c] \in [at : {"keep"}, ok : BOOLEAN, todo : Seq(Proxies) \ {<<>>}]
    BY <1>4
  <1> QED BY <1>1, <1>2, <1>3, <1>4 DEF CycleStates

LEMMA CheckParts ==
    ASSUME TypeOK, NEW h \in Checks
    PROVE  check[h].at # "idle" => check[h].id \in Proxies
  <1>1. check[h] \in CheckStates
    BY DEF TypeOK
  <1>2. CASE check[h] = Idle
    BY <1>2 DEF Idle
  <1>3. CASE check[h] \in [at : {"testing", "failed", "failover"}, id : Proxies]
    BY <1>3
  <1> QED BY <1>1, <1>2, <1>3 DEF CheckStates

(* The threads, in their states.                                           *)
ThreadTypes ==
    /\ cycle \in [Cycles -> CycleStates] /\ check \in [Checks -> CheckStates]

LEMMA CycleTyped ==
    ASSUME ThreadTypes, NEW c \in Cycles, NEW r \in CycleStates, CycleAt(c, r),
           UNCHANGED check
    PROVE  ThreadTypes'
  BY DEF ThreadTypes, CycleAt

LEMMA CheckTyped ==
    ASSUME ThreadTypes, NEW h \in Checks, NEW r \in CheckStates, CheckAt(h, r),
           UNCHANGED cycle
    PROVE  ThreadTypes'
  BY DEF ThreadTypes, CheckAt

LEMMA HeadTail ==
    ASSUME NEW s \in Seq(Proxies), s # <<>>
    PROVE  Head(s) \in Proxies /\ Tail(s) \in Seq(Proxies)
  OBVIOUS

(* The rest of the types, by what the steps write together.                *)
WorldTypes ==
    /\ list \in Seq(Proxies)
    /\ enabled \in BOOLEAN /\ timers \in BOOLEAN /\ coreRunning \in BOOLEAN
    /\ started \in Proxies \cup {None}
PoolTypes ==
    working \in [Proxies -> BOOLEAN] /\ workingProxyPool \in Seq(Proxies)
RotationTypes ==
    currentTestOffset \in Nat /\ isTestingInProgress \in BOOLEAN
CountTypes == activeProxyFailureCount \in 0..RetryCount
PostTypes  == posted \in Seq(Posts)

LEMMA ByTypes ==
    /\ TypeOK <=> /\ WorldTypes /\ PoolTypes /\ RotationTypes /\ CountTypes
                  /\ ThreadTypes /\ PostTypes
    /\ TypeOK' <=> /\ WorldTypes' /\ PoolTypes' /\ RotationTypes' /\ CountTypes'
                   /\ ThreadTypes' /\ PostTypes'
  BY DEF TypeOK, WorldTypes, PoolTypes, RotationTypes, CountTypes, ThreadTypes, PostTypes

LEMMA PostTyped ==
    ASSUME PostTypes, NEW p \in Proxies, NEW kind \in {"auto", "failover"},
           Post(p, kind)
    PROVE  PostTypes'
  <1>1. [id |-> p, kind |-> kind] \in Posts
    BY DEF Posts
  <1> QED BY <1>1 DEF Post, PostTypes

(* RunTestCycle moves the rotation and begins at most a cycle.             *)
LEMMA BeginTypes ==
    ASSUME TypeOK, NEW on, NEW from \in Nat, RunTestCycle(on, from), UNCHANGED check
    PROVE  RotationTypes' /\ ThreadTypes'
  <1>1. CASE ~on \/ ~coreRunning
    <2>1. isTestingInProgress' = FALSE /\ currentTestOffset' = from /\ UNCHANGED cycle
      BY <1>1 DEF RunTestCycle
    <2> QED BY <2>1, ByTypes DEF RotationTypes, ThreadTypes
  <1>2. CASE on /\ coreRunning
    <2>1. PICK next \in ProxiesToTest(from) :
             /\ currentTestOffset' = OffsetAfter(from, next)
             /\ isTestingInProgress' = (next # <<>>)
             /\ IF next = <<>> THEN UNCHANGED cycle
                ELSE \E c \in Cycles :
                        /\ cycle[c] = Idle
                        /\ CycleAt(c, [at |-> "testing", todo |-> next])
      BY <1>2 DEF RunTestCycle
    <2>2. next \in Seq(Proxies) /\ OffsetAfter(from, next) \in Nat
      BY ToTestType
    <2>3. RotationTypes'
      BY <2>1, <2>2 DEF RotationTypes
    <2>4. [at |-> "testing", todo |-> next] \in CycleStates
      BY <2>2 DEF CycleStates
    <2>5. ThreadTypes
      BY ByTypes
    <2>6. ThreadTypes'
      <3>1. CASE next = <<>>
        BY <2>1, <2>5, <3>1 DEF ThreadTypes
      <3>2. CASE next # <<>>
        BY <2>1, <2>4, <2>5, <3>2, CycleTyped
      <3> QED BY <3>1, <3>2
    <2> QED BY <2>3, <2>6
  <1> QED BY <1>1, <1>2

LEMMA RunCycleTypes ==
    ASSUME TypeOK, NEW c \in Cycles, RunCycle(c) \/ CallFails(c) PROVE TypeOK'
  <1> USE ByTypes
  <1>1. CASE EndEarly(c)
    <2>1. ThreadTypes'
      BY <1>1, CycleTyped DEF EndEarly, CycleStates
    <2> QED BY <1>1, <2>1 DEF EndEarly, world, pool, core, WorldTypes, PoolTypes,
            RotationTypes, CountTypes, PostTypes
  <1>2. CASE CycleAnswered(c)
    <2>1. [at |-> "results", todo |-> cycle[c].todo] \in CycleStates
      BY <1>2, CycleParts DEF CycleAnswered, CycleStates
    <2>2. ThreadTypes'
      BY <1>2, <2>1, CycleTyped DEF CycleAnswered
    <2> QED BY <1>2, <2>2 DEF CycleAnswered, world, pool, core, rotation, WorldTypes,
            PoolTypes, RotationTypes, CountTypes, PostTypes
  <1>3. CASE CycleResult(c)
    <2> DEFINE p == Head(cycle[c].todo)
    <2>1. /\ cycle[c].at = "results" /\ cycle[c].todo # <<>>
          /\ UNCHANGED <<world, workingProxyPool, rotation, activeProxyFailureCount,
                         check, posted>>
      BY <1>3 DEF CycleResult
    <2>2. cycle[c].todo \in Seq(Proxies)
      BY <2>1, CycleParts
    <2>3. p \in Proxies /\ Tail(cycle[c].todo) \in Seq(Proxies)
      BY <2>1, <2>2, HeadTail
    <2>4. CASE /\ CycleAt(c, [at |-> "results", todo |-> Tail(cycle[c].todo)])
               /\ UNCHANGED working
      <3>1. [at |-> "results", todo |-> Tail(cycle[c].todo)] \in CycleStates
        BY <2>3 DEF CycleStates
      <3>2. ThreadTypes'
        BY <2>1, <2>4, <3>1, CycleTyped
      <3> QED BY <2>1, <2>4, <3>2 DEF world, core, rotation, WorldTypes, PoolTypes,
              RotationTypes, CountTypes, PostTypes
    <2>5. ASSUME NEW ok \in Outcomes[p], working' = [working EXCEPT ![p] = ok],
                 CycleAt(c, [at |-> "keep", ok |-> ok, todo |-> cycle[c].todo])
          PROVE  TypeOK'
      <3>1. ok \in BOOLEAN
        BY <2>3, <2>5, ProxyAssumption
      <3>2. [at |-> "keep", ok |-> ok, todo |-> cycle[c].todo] \in CycleStates
        BY <2>1, <2>2, <3>1 DEF CycleStates
      <3>3. ThreadTypes'
        BY <2>1, <2>5, <3>2, CycleTyped
      <3>4. PoolTypes'
        BY <2>1, <2>5, <3>1 DEF PoolTypes
      <3> QED BY <2>1, <3>3, <3>4 DEF world, core, rotation, WorldTypes,
              RotationTypes, CountTypes, PostTypes
    <2>6. \/ CycleAt(c, [at |-> "results", todo |-> Tail(cycle[c].todo)]) /\ UNCHANGED working
          \/ \E ok \in Outcomes[p] :
                /\ working' = [working EXCEPT ![p] = ok]
                /\ CycleAt(c, [at |-> "keep", ok |-> ok, todo |-> cycle[c].todo])
      BY <1>3 DEF CycleResult
    <2> QED BY <2>4, <2>5, <2>6
  <1>4. CASE CycleKeep(c)
    <2> DEFINE p == Head(cycle[c].todo)
    <2>1. /\ cycle[c].at = "keep"
          /\ CycleAt(c, [at |-> "results", todo |-> Tail(cycle[c].todo)])
          /\ UNCHANGED <<world, working, rotation, activeProxyFailureCount, check, posted>>
      BY <1>4 DEF CycleKeep
    <2>2. PICK rest \in Without(workingProxyPool, p) :
             workingProxyPool' = IF cycle[c].ok THEN <<p>> \o rest ELSE rest
      BY <1>4 DEF CycleKeep
    <2>3. cycle[c].todo \in Seq(Proxies) /\ workingProxyPool \in Seq(Proxies)
      BY <2>1, CycleParts DEF PoolTypes
    <2>4. p \in Proxies /\ Tail(cycle[c].todo) \in Seq(Proxies)
      BY <2>1, <2>3, CycleParts, HeadTail
    <2>5. rest \in Seq(Proxies)
      BY <2>3, WithoutType
    <2>6. <<p>> \o rest \in Seq(Proxies)
      BY <2>4, <2>5
    <2>7. PoolTypes'
      BY <2>1, <2>2, <2>5, <2>6 DEF PoolTypes
    <2>8. [at |-> "results", todo |-> Tail(cycle[c].todo)] \in CycleStates
      BY <2>4 DEF CycleStates
    <2>9. ThreadTypes'
      BY <2>1, <2>8, CycleTyped
    <2> QED BY <2>1, <2>7, <2>9 DEF world, core, rotation, WorldTypes,
            RotationTypes, CountTypes, PostTypes
  <1>5. CASE CycleEnd(c)
    <2> DEFINE next == GetNextWorkingProxy(workingProxyPool')
    <2>1. /\ CycleAt(c, Idle) /\ isTestingInProgress' = FALSE
          /\ workingProxyPool' \in Prune(workingProxyPool)
          /\ (next # None /\ Post(next, "auto")) \/ UNCHANGED posted
          /\ UNCHANGED <<world, working, currentTestOffset, activeProxyFailureCount, check>>
      BY <1>5 DEF CycleEnd
    <2>2. workingProxyPool' \in Seq(Proxies)
      BY <2>1, PruneType DEF PoolTypes
    <2>3. ThreadTypes'
      BY <2>1, CycleTyped DEF CycleStates
    <2>4. PostTypes'
      <3>1. CASE next # None /\ Post(next, "auto")
        BY <2>2, <3>1, PostTyped DEF GetNextWorkingProxy
      <3>2. CASE UNCHANGED posted
        BY <3>2 DEF PostTypes
      <3> QED BY <2>1, <3>1, <3>2
    <2> QED BY <2>1, <2>2, <2>3, <2>4 DEF world, core, WorldTypes, PoolTypes,
            RotationTypes, CountTypes
  <1> QED BY <1>1, <1>2, <1>3, <1>4, <1>5 DEF RunCycle, CycleFails, CallFails

LEMMA CheckTypes ==
    ASSUME TypeOK, NEW h \in Checks, CheckActiveProxyHealth(h) \/ RunCheck(h)
    PROVE  TypeOK'
  <1> USE ByTypes
  <1>1. CASE CheckActiveProxyHealth(h)
    <2>1. [at |-> "testing", id |-> started] \in CheckStates
      BY <1>1, ExistsTypes DEF CheckActiveProxyHealth, CheckStates
    <2>2. ThreadTypes'
      BY <1>1, <2>1, CheckTyped DEF CheckActiveProxyHealth
    <2> QED BY <1>1, <2>2 DEF CheckActiveProxyHealth, world, pool, core, rotation,
            WorldTypes, PoolTypes, RotationTypes, CountTypes, PostTypes
  <1>2. CASE CheckHealthy(h)
    <2>1. check[h].id \in Proxies
      BY <1>2, CheckParts DEF CheckHealthy
    <2>2. ThreadTypes'
      BY <1>2, CheckTyped DEF CheckHealthy, CheckStates
    <2>3. PoolTypes'
      BY <1>2, <2>1 DEF CheckHealthy, PoolTypes
    <2>4. CountTypes'
      BY <1>2, CountAssumption DEF CheckHealthy, CountTypes
    <2> QED BY <1>2, <2>2, <2>3, <2>4 DEF CheckHealthy, world, core, rotation,
            WorldTypes, RotationTypes, PostTypes
  <1>3. CASE CheckUnhealthy(h)
    <2>1. check[h].id \in Proxies /\ check[h].at = "testing"
      BY <1>3, CheckParts DEF CheckUnhealthy
    <2>2. [check[h] EXCEPT !.at = "failed"] \in CheckStates
      <3>1. check[h] \in [at : {"testing", "failed", "failover"}, id : Proxies]
        BY <2>1 DEF ThreadTypes, CheckStates, Idle
      <3> QED BY <3>1 DEF CheckStates
    <2>3. ThreadTypes'
      BY <1>3, <2>2, CheckTyped DEF CheckUnhealthy, CheckStates
    <2>4. CountTypes'
      BY <1>3, CountAssumption DEF CheckUnhealthy, CountTypes, UpTo
    <2> QED BY <1>3, <2>3, <2>4 DEF CheckUnhealthy, world, pool, core, rotation,
            WorldTypes, PoolTypes, RotationTypes, PostTypes
  <1>4. CASE GiveUp(h)
    <2>1. check[h].id \in Proxies /\ check[h].at = "failed"
      BY <1>4, CheckParts DEF GiveUp
    <2>2. [check[h] EXCEPT !.at = "failover"] \in CheckStates
      <3>1. check[h] \in [at : {"testing", "failed", "failover"}, id : Proxies]
        BY <2>1 DEF ThreadTypes, CheckStates, Idle
      <3> QED BY <3>1 DEF CheckStates
    <2>3. ThreadTypes'
      BY <1>4, <2>2, CheckTyped DEF GiveUp
    <2>4. PoolTypes'
      BY <1>4, <2>1, WithoutType DEF GiveUp, PoolTypes
    <2> QED BY <1>4, <2>3, <2>4 DEF GiveUp, world, core, rotation,
            WorldTypes, RotationTypes, CountTypes, PostTypes
  <1>5. CASE Failover(h)
    <2> DEFINE next == GetNextWorkingProxy(workingProxyPool')
    <2>1. CheckAt(h, Idle) /\ UNCHANGED <<world, working, rotation, cycle>>
      BY <1>5 DEF Failover
    <2>2. ThreadTypes'
      BY <2>1, CheckTyped DEF CheckStates
    <2>3. CASE UNCHANGED <<workingProxyPool, posted, activeProxyFailureCount>>
      BY <2>1, <2>2, <2>3 DEF world, core, rotation, WorldTypes, PoolTypes,
         RotationTypes, CountTypes, PostTypes
    <2>4. CASE /\ workingProxyPool' \in Prune(workingProxyPool)
               /\ \/ UNCHANGED <<posted, activeProxyFailureCount>>
                  \/ /\ next # None /\ Post(next, "failover")
                     /\ activeProxyFailureCount' = 0
      <3>1. workingProxyPool' \in Seq(Proxies)
        BY <2>4, PruneType DEF PoolTypes
      <3>2. PostTypes'
        <4>1. CASE next # None /\ Post(next, "failover")
          BY <3>1, <4>1, PostTyped DEF GetNextWorkingProxy
        <4>2. CASE UNCHANGED posted
          BY <4>2 DEF PostTypes
        <4> QED BY <2>4, <4>1, <4>2
      <3>3. CountTypes'
        BY <2>4, CountAssumption DEF CountTypes
      <3> QED BY <2>1, <2>2, <3>1, <3>2, <3>3 DEF world, core, rotation, WorldTypes,
              PoolTypes, RotationTypes
    <2> QED BY <1>5, <2>3, <2>4 DEF Failover
  <1> QED BY <1>1, <1>2, <1>3, <1>4, <1>5 DEF RunCheck

LEMMA NextTypes == TypeOK /\ [Next]_vars => TypeOK'
  <1> SUFFICES ASSUME TypeOK, [Next]_vars PROVE TypeOK'
    OBVIOUS
  <1> USE ByTypes
  <1>1. CASE TestTimer
    <2>1. RotationTypes' /\ ThreadTypes'
      BY <1>1, BeginTypes DEF TestTimer, RotationTypes
    <2> QED BY <1>1, <2>1 DEF TestTimer, world, pool, core, WorldTypes, PoolTypes,
            CountTypes, PostTypes
  <1>2. ASSUME NEW on \in BOOLEAN, SaveSettings(on) PROVE TypeOK'
    <2>1. RotationTypes' /\ ThreadTypes'
      <3>1. CASE on
        BY <1>2, <3>1, BeginTypes DEF SaveSettings
      <3>2. CASE ~on
        BY <1>2, <3>2 DEF SaveSettings, RotationTypes, ThreadTypes
      <3> QED BY <3>1, <3>2
    <2>2. WorldTypes' /\ PostTypes'
      BY <1>2 DEF SaveSettings, core, WorldTypes, PostTypes
    <2>3. PoolTypes'
      <3>1. UNCHANGED working /\ (workingProxyPool' = <<>> \/ UNCHANGED workingProxyPool)
        BY <1>2 DEF SaveSettings
      <3>2. <<>> \in Seq(Proxies)
        OBVIOUS
      <3> QED BY <3>1, <3>2 DEF PoolTypes
    <2>4. CountTypes'
      BY <1>2, CountAssumption DEF SaveSettings, CountTypes
    <2> QED BY <2>1, <2>2, <2>3, <2>4
  <1>3. CASE RunPosted \/ StartFails
    <2>1. Tail(posted) \in Seq(Posts) /\ posted' = Tail(posted)
      BY <1>3 DEF RunPosted, StartFails, PostTypes
    <2>2. started' \in Proxies \cup {None}
      BY <1>3, ExistsTypes DEF RunPosted, StartFails, WorldTypes
    <2> QED BY <1>3, <2>1, <2>2 DEF RunPosted, StartFails, pool, rotation, threads,
            WorldTypes, PoolTypes, RotationTypes, CountTypes, ThreadTypes, PostTypes
  <1>4. CASE UserStop \/ CoreStateChanged
    BY <1>4 DEF UserStop, CoreStateChanged, pool, rotation, threads, WorldTypes,
       PoolTypes, RotationTypes, CountTypes, ThreadTypes, PostTypes
  <1>5. ASSUME NEW p \in Proxies, UserStart(p) PROVE TypeOK'
    BY <1>5 DEF UserStart, pool, rotation, threads, WorldTypes,
       PoolTypes, RotationTypes, CountTypes, ThreadTypes, PostTypes
  <1>6. ASSUME NEW p \in Proxies, DeleteProfile(p) PROVE TypeOK'
    <2>1. list' \in Seq(Proxies)
      BY <1>6, WithoutType DEF DeleteProfile, WorldTypes
    <2> QED BY <1>6, <2>1 DEF DeleteProfile, core, pool, rotation, threads, WorldTypes,
            PoolTypes, RotationTypes, CountTypes, ThreadTypes, PostTypes
  <1>7. CASE UNCHANGED vars
    BY <1>7 DEF vars, world, core, pool, rotation, threads, WorldTypes,
       PoolTypes, RotationTypes, CountTypes, ThreadTypes, PostTypes
  <1> QED BY <1>1, <1>2, <1>3, <1>4, <1>5, <1>6, <1>7, RunCycleTypes, CheckTypes
          DEF Next, Inside, Outside

LEMMA InitTypes == Init => TypeOK
  <1> SUFFICES ASSUME Init PROVE TypeOK
    OBVIOUS
  <1>1. list \in Seq(Proxies)
    <2>1. Cardinality(Proxies) \in Nat
      BY FiniteAssumption, FS_CardinalityType
    <2>2. list \in [1..Cardinality(Proxies) -> Proxies]
      BY DEF Init, SetToSeqs
    <2> QED BY <2>1, <2>2
  <1>2. WorldTypes
    BY <1>1 DEF Init, WorldTypes
  <1>3. PoolTypes /\ PostTypes
    <2>1. <<>> \in Seq(Proxies) /\ <<>> \in Seq(Posts)
      OBVIOUS
    <2>2. working \in [Proxies -> BOOLEAN]
      BY DEF Init
    <2> QED BY <2>1, <2>2 DEF Init, PoolTypes, PostTypes
  <1>4. RotationTypes /\ CountTypes
    <2>1. currentTestOffset = 0 /\ isTestingInProgress = FALSE /\ activeProxyFailureCount = 0
      BY DEF Init
    <2>2. 0 \in Nat /\ 0 \in 0..RetryCount
      BY CountAssumption
    <2>3. isTestingInProgress \in BOOLEAN
      BY <2>1
    <2> QED BY <2>1, <2>2, <2>3 DEF RotationTypes, CountTypes
  <1>5. ThreadTypes
    <2>1. Idle \in CycleStates /\ Idle \in CheckStates
      BY DEF CycleStates, CheckStates
    <2>2. cycle = [c \in Cycles |-> Idle] /\ check = [h \in Checks |-> Idle]
      BY DEF Init
    <2> QED BY <2>1, <2>2 DEF ThreadTypes
  <1> QED BY <1>2, <1>3, <1>4, <1>5, ByTypes

-----------------------------------------------------------------------------
(* The pool *)

(* No cycle writes its results.                                            *)
Quiet == \A c \in Cycles : cycle[c].at \in {"idle", "testing"}

(* The pool gets no longer, has no more doubles, and a cycle that writes   *)
(* its results now has done so before.                                     *)
LEMMA NoGrowth ==
    ASSUME TypeOK, TypeOK', PoolIsBounded, Quiet' => Quiet,
           Len(workingProxyPool') <= Len(workingProxyPool),
           (\A i, j \in DOMAIN workingProxyPool :
                workingProxyPool[i] = workingProxyPool[j] => i = j)
             => \A i, j \in DOMAIN workingProxyPool' :
                   workingProxyPool'[i] = workingProxyPool'[j] => i = j
    PROVE  PoolIsBounded'
  <1>1. PoolIsBounded <=>
          /\ \A i, j \in DOMAIN workingProxyPool :
                workingProxyPool[i] = workingProxyPool[j] => i = j
          /\ Quiet => Len(workingProxyPool) <= PoolSize
    BY DEF PoolIsBounded, Quiet
  <1>2. PoolIsBounded' <=>
          /\ \A i, j \in DOMAIN workingProxyPool' :
                workingProxyPool'[i] = workingProxyPool'[j] => i = j
          /\ Quiet' => Len(workingProxyPool') <= PoolSize
    BY DEF PoolIsBounded, Quiet
  <1>3. /\ Len(workingProxyPool) \in Nat /\ Len(workingProxyPool') \in Nat
        /\ PoolSize \in Nat
    BY CountAssumption DEF TypeOK
  <1> QED BY <1>1, <1>2, <1>3

(* A pool that has been pruned is as long as it may be.                    *)
LEMMA PrunedPool ==
    ASSUME TypeOK, PoolIsBounded, workingProxyPool' \in Prune(workingProxyPool)
    PROVE  PoolIsBounded'
  <1>1. workingProxyPool \in Seq(Proxies)
    BY DEF TypeOK
  <1>2. /\ Len(workingProxyPool') <= PoolSize
        /\ \A i, j \in DOMAIN workingProxyPool' :
              workingProxyPool'[i] = workingProxyPool'[j] => i = j
    BY <1>1, PruneType DEF PoolIsBounded
  <1> QED BY <1>2 DEF PoolIsBounded

LEMMA NextPool == TypeOK /\ PoolIsBounded /\ [Next]_vars => PoolIsBounded'
  <1> SUFFICES ASSUME TypeOK, PoolIsBounded, [Next]_vars PROVE PoolIsBounded'
    OBVIOUS
  <1>1. TypeOK' /\ workingProxyPool \in Seq(Proxies)
    BY NextTypes DEF TypeOK
  <1>2. ASSUME UNCHANGED workingProxyPool, Quiet' => Quiet PROVE PoolIsBounded'
    BY <1>1, <1>2, NoGrowth DEF TypeOK
  <1>3. ASSUME NEW c \in Cycles, NEW r, CycleAt(c, r)
        PROVE  /\ cycle'[c] = r /\ \A d \in Cycles \ {c} : cycle'[d] = cycle[d]
               /\ r.at \notin {"idle", "testing"} => ~Quiet'
               /\ cycle[c].at = "testing" => (Quiet' => Quiet)
    <2>1. cycle'[c] = r /\ \A d \in Cycles \ {c} : cycle'[d] = cycle[d]
      BY <1>3 DEF CycleAt, TypeOK
    <2> QED BY <2>1 DEF Quiet
  <1>4. ASSUME NEW on, NEW from, RunTestCycle(on, from) PROVE Quiet' => Quiet
    <2>1. UNCHANGED cycle \/ \E next \in ProxiesToTest(from), c \in Cycles :
             cycle[c] = Idle /\ CycleAt(c, [at |-> "testing", todo |-> next])
      <3>1. CASE ~on \/ ~coreRunning
        BY <1>4, <3>1 DEF RunTestCycle
      <3>2. CASE on /\ coreRunning
        <4>1. PICK next \in ProxiesToTest(from) :
                 IF next = <<>> THEN UNCHANGED cycle
                 ELSE \E c \in Cycles :
                         /\ cycle[c] = Idle
                         /\ CycleAt(c, [at |-> "testing", todo |-> next])
          BY <1>4, <3>2 DEF RunTestCycle
        <4> QED BY <4>1
      <3> QED BY <3>1, <3>2
    <2>2. ASSUME NEW next, NEW c \in Cycles, cycle[c] = Idle,
                 CycleAt(c, [at |-> "testing", todo |-> next])
          PROVE  Quiet' => Quiet
      <3>1. cycle[c].at = "idle"
        BY <2>2 DEF Idle
      <3> QED BY <1>3, <2>2, <3>1 DEF Quiet
    <2> QED BY <2>1, <2>2 DEF Quiet
  <1>5. ASSUME NEW c \in Cycles, RunCycle(c) \/ CallFails(c) PROVE PoolIsBounded'
    <2>1. CASE EndEarly(c)
      BY <1>2, <1>3, <2>1 DEF EndEarly, pool
    <2>2. CASE CycleAnswered(c)
      BY <1>2, <1>3, <2>2 DEF CycleAnswered, pool
    <2>3. CASE CycleResult(c)
      <3> DEFINE p    == Head(cycle[c].todo)
                 rest == [at |-> "results", todo |-> Tail(cycle[c].todo)]
                 keep(ok) == [at |-> "keep", ok |-> ok, todo |-> cycle[c].todo]
      <3>1. UNCHANGED workingProxyPool
        BY <2>3 DEF CycleResult
      <3>2. CycleAt(c, rest) \/ \E ok \in Outcomes[p] : CycleAt(c, keep(ok))
        <4>1. CASE p \in LeftOut \/ p \notin Exists
          BY <2>3, <4>1 DEF CycleResult
        <4>2. CASE ~(p \in LeftOut \/ p \notin Exists)
          BY <2>3, <4>2 DEF CycleResult
        <4> QED BY <4>1, <4>2
      <3>3. rest.at = "results" /\ \A ok : keep(ok).at = "keep"
        OBVIOUS
      <3> HIDE DEF rest, keep
      <3>4. ~Quiet'
        BY <1>3, <3>2, <3>3
      <3> QED BY <1>2, <3>1, <3>4
    <2>4. CASE CycleKeep(c)
      <3>1. ~Quiet'
        BY <1>3, <2>4 DEF CycleKeep
      <3> DEFINE p == Head(cycle[c].todo)
      <3>2. PICK rest \in Without(workingProxyPool, p) :
               workingProxyPool' = IF cycle[c].ok THEN <<p>> \o rest ELSE rest
        BY <2>4 DEF CycleKeep
      <3>3. /\ rest \in Seq(Proxies) /\ \A i \in DOMAIN rest : rest[i] # p
            /\ \A i, j \in DOMAIN rest : rest[i] = rest[j] => i = j
        BY <1>1, WithoutType DEF PoolIsBounded
      <3> HIDE DEF p
      <3>4. ASSUME NEW i \in DOMAIN (<<p>> \o rest), NEW j \in DOMAIN (<<p>> \o rest),
                   (<<p>> \o rest)[i] = (<<p>> \o rest)[j]
            PROVE  i = j
        <4>1. /\ \A k \in DOMAIN (<<p>> \o rest) : k \in Nat
              /\ (<<p>> \o rest)[1] = p
              /\ \A k \in DOMAIN (<<p>> \o rest) : k # 1 =>
                    k - 1 \in DOMAIN rest /\ (<<p>> \o rest)[k] = rest[k - 1]
          BY <3>3
        <4>2. CASE i = 1 \/ j = 1
          BY <3>3, <3>4, <4>1, <4>2
        <4>3. CASE i # 1 /\ j # 1
          <5>1. i - 1 = j - 1
            BY <3>3, <3>4, <4>1, <4>3
          <5> QED BY <4>1, <5>1
        <4> QED BY <4>2, <4>3
      <3>5. \A i, j \in DOMAIN workingProxyPool' :
               workingProxyPool'[i] = workingProxyPool'[j] => i = j
        <4>1. CASE cycle[c].ok
          BY <3>2, <3>4, <4>1
        <4>2. CASE ~cycle[c].ok
          BY <3>2, <3>3, <4>2
        <4> QED BY <4>1, <4>2
      <3> QED BY <3>1, <3>5 DEF PoolIsBounded, Quiet
    <2>5. CASE CycleEnd(c)
      BY <2>5, PrunedPool DEF CycleEnd
    <2> QED BY <1>5, <2>1, <2>2, <2>3, <2>4, <2>5 DEF RunCycle, CycleFails, CallFails
  <1>6. ASSUME NEW h \in Checks, CheckActiveProxyHealth(h) \/ RunCheck(h)
        PROVE  PoolIsBounded'
    <2>1. Quiet' <=> Quiet
      BY <1>6 DEF RunCheck, CheckActiveProxyHealth, CheckHealthy, CheckUnhealthy,
         GiveUp, Failover, Quiet
    <2>2. CASE GiveUp(h)
      <3>1. workingProxyPool' \in Without(workingProxyPool, check[h].id)
        BY <2>2 DEF GiveUp
      <3> QED BY <1>1, <2>1, <3>1, WithoutType, NoGrowth
    <2>3. CASE ~GiveUp(h)
      <3>1. UNCHANGED workingProxyPool \/ workingProxyPool' \in Prune(workingProxyPool)
        BY <1>6, <2>3 DEF RunCheck, CheckActiveProxyHealth, CheckHealthy,
           CheckUnhealthy, Failover, pool
      <3> QED BY <1>2, <2>1, <3>1, PrunedPool
    <2> QED BY <2>2, <2>3
  <1>7. CASE TestTimer
    BY <1>2, <1>4, <1>7 DEF TestTimer, pool
  <1>8. ASSUME NEW on \in BOOLEAN, SaveSettings(on) PROVE PoolIsBounded'
    <2>1. CASE on
      <3>1. workingProxyPool' = <<>>
        BY <1>8, <2>1 DEF SaveSettings
      <3>2. Len(workingProxyPool') <= PoolSize /\ DOMAIN workingProxyPool' = {}
        BY <3>1, CountAssumption
      <3> QED BY <3>2 DEF PoolIsBounded
    <2>2. CASE ~on
      BY <1>2, <1>8, <2>2 DEF SaveSettings, Quiet
    <2> QED BY <2>1, <2>2
  <1>9. CASE RunPosted \/ StartFails \/ UserStop \/ CoreStateChanged
    BY <1>2, <1>9 DEF RunPosted, StartFails, UserStop, CoreStateChanged, pool, threads, Quiet
  <1>10. ASSUME NEW p \in Proxies, UserStart(p) \/ DeleteProfile(p) PROVE PoolIsBounded'
    BY <1>2, <1>10 DEF UserStart, DeleteProfile, pool, threads, Quiet
  <1>11. CASE UNCHANGED vars
    BY <1>2, <1>11 DEF vars, pool, threads, Quiet
  <1> QED BY <1>5, <1>6, <1>7, <1>8, <1>9, <1>10, <1>11 DEF Next, Inside, Outside

(* While no cycle writes its results the pool has at most                  *)
(* auto_test_working_pool_size proxies, each once (pruneWorkingPool,       *)
(* updateWorkingPool), for any number of cycles and checks at one time.    *)
THEOREM PoolStaysSmall == Spec => []PoolInv
  <1>1. Init => PoolIsBounded
    <2> SUFFICES ASSUME Init PROVE PoolIsBounded
      OBVIOUS
    <2>1. Len(workingProxyPool) <= PoolSize /\ DOMAIN workingProxyPool = {}
      BY CountAssumption DEF Init
    <2> QED BY <2>1 DEF PoolIsBounded
  <1>2. TypeOK /\ PoolIsBounded => PoolInv
    BY DEF PoolInv
  <1> QED BY <1>1, <1>2, InitTypes, NextTypes, NextPool, PTL DEF Spec

-----------------------------------------------------------------------------
(* The starts *)

(* What is posted in a step exists and has passed its last test.           *)
PostsWorking ==
    Len(posted') > Len(posted) => LET p == Last(posted').id IN p \in Exists /\ working[p]

(* A step posts the first of a pool that has just been pruned, or nothing. *)
PostsNext(kind) ==
    LET next == GetNextWorkingProxy(workingProxyPool')
    IN  IF next = None THEN UNCHANGED posted ELSE Post(next, kind)

LEMMA PostsNothing ==
    ASSUME TypeOK, UNCHANGED posted \/ (posted' = Tail(posted) /\ posted # <<>>)
    PROVE  PostsWorking
  <1>1. posted \in Seq(Posts)
    BY DEF TypeOK
  <1>2. ~(Len(posted') > Len(posted))
    BY <1>1
  <1> QED BY <1>2 DEF PostsWorking

LEMMA PostsFirst ==
    ASSUME TypeOK, NEW kind, kind \in {"auto", "failover"},
           workingProxyPool' \in Prune(workingProxyPool), PostsNext(kind)
    PROVE  PostsWorking
  <1> DEFINE next == GetNextWorkingProxy(workingProxyPool')
             post == [id |-> next, kind |-> kind]
  <1>1. CASE next = None
    BY <1>1, PostsNothing DEF PostsNext
  <1>2. CASE next # None
    <2>1. workingProxyPool' # <<>> /\ next = Head(workingProxyPool')
      BY <1>2 DEF GetNextWorkingProxy
    <2>2. /\ workingProxyPool' \in Seq(Proxies)
          /\ \A i \in DOMAIN workingProxyPool' :
                workingProxyPool'[i] \in Exists /\ working[workingProxyPool'[i]]
      BY PruneType DEF TypeOK
    <2>3. 1 \in DOMAIN workingProxyPool' /\ Head(workingProxyPool') = workingProxyPool'[1]
      BY <2>1, <2>2
    <2>4. next \in Exists /\ working[next] /\ next \in Proxies
      BY <2>1, <2>2, <2>3
    <2>5. posted' = Append(posted, post) /\ posted \in Seq(Posts)
      BY <1>2 DEF PostsNext, Post, TypeOK
    <2>6. post \in Posts /\ post.id = next
      BY <2>4 DEF Posts
    <2> HIDE DEF next, post
    <2>7. Last(posted') = post
      BY <2>5, <2>6 DEF Last
    <2> QED BY <2>4, <2>6, <2>7 DEF PostsWorking
  <1> QED BY <1>1, <1>2

LEMMA NextPosts == TypeOK /\ Next => PostsWorking
  <1> SUFFICES ASSUME TypeOK, Next PROVE PostsWorking
    OBVIOUS
  <1>1. ASSUME NEW c \in Cycles, RunCycle(c) \/ CallFails(c) PROVE PostsWorking
    <2>1. CASE CycleEnd(c)
      <3>1. workingProxyPool' \in Prune(workingProxyPool)
        BY <2>1 DEF CycleEnd
      <3>2. UNCHANGED posted \/ PostsNext("auto")
        BY <2>1 DEF CycleEnd, PostsNext
      <3> QED BY <3>1, <3>2, PostsFirst, PostsNothing
    <2>2. CASE ~CycleEnd(c)
      <3>1. UNCHANGED posted
        BY <1>1, <2>2 DEF RunCycle, CallFails, CycleFails, EndEarly, CycleAnswered,
           CycleResult, CycleKeep
      <3> QED BY <3>1, PostsNothing
    <2> QED BY <2>1, <2>2
  <1>2. ASSUME NEW h \in Checks, CheckActiveProxyHealth(h) \/ RunCheck(h)
        PROVE  PostsWorking
    <2>1. CASE Failover(h) /\ started = check[h].id
      <3>1. workingProxyPool' \in Prune(workingProxyPool)
        BY <2>1 DEF Failover
      <3>2. PostsNext("failover")
        BY <2>1 DEF Failover, PostsNext
      <3> QED BY <3>1, <3>2, PostsFirst
    <2>2. CASE Failover(h) /\ started # check[h].id
      BY <2>2, PostsNothing DEF Failover
    <2>3. CASE ~Failover(h)
      <3>1. UNCHANGED posted
        BY <1>2, <2>3 DEF RunCheck, CheckActiveProxyHealth, CheckHealthy,
           CheckUnhealthy, GiveUp
      <3> QED BY <3>1, PostsNothing
    <2> QED BY <2>1, <2>2, <2>3
  <1>3. CASE RunPosted \/ StartFails
    BY <1>3, PostsNothing DEF RunPosted, StartFails
  <1>4. CASE \/ TestTimer \/ UserStop \/ CoreStateChanged
             \/ \E p \in Proxies : UserStart(p) \/ DeleteProfile(p)
             \/ \E on \in BOOLEAN : SaveSettings(on)
    <2>1. UNCHANGED posted
      BY <1>4 DEF TestTimer, UserStop, CoreStateChanged, UserStart, DeleteProfile,
         SaveSettings
    <2> QED BY <2>1, PostsNothing
  <1> QED BY <1>1, <1>2, <1>3, <1>4 DEF Next, Inside, Outside

(* What the tester posts is the first of a pool that has just been pruned  *)
(* (GetNextWorkingProxy): it exists and has passed its last test, whatever *)
(* cycles and health checks have done to the pool meanwhile.               *)
THEOREM StartsWhatWorks == Spec => StartsWorking
  <1>1. TypeOK /\ [Next]_vars => [PostsWorking]_vars
    BY NextPosts
  <1>2. Spec => []TypeOK
    BY InitTypes, NextTypes, PTL DEF Spec
  <1>3. Spec => [][PostsWorking]_vars
    BY <1>1, <1>2, PTL DEF Spec
  <1> QED BY <1>3 DEF StartsWorking, PostsWorking
=============================================================================
