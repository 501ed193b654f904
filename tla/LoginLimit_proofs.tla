------------------------- MODULE LoginLimit_proofs --------------------------
(* What TLAPS proves of LoginLimit, for any clients, limits and lengths of   *)
(* locks and windows that LoginLimit's assumptions admit.                    *)
EXTENDS LoginLimit, FiniteSetTheorems, TLAPS

\* The powers of two grow; that is, the more elements 1..n has, the more subsets.
LEMMA PowersGrow ==
    ASSUME NEW m \in Nat, NEW n \in Nat, m <= n
    PROVE  2^m \in Nat /\ 2^n \in Nat /\ 2^m <= 2^n
<1>1. /\ IsFiniteSet(1..m) /\ Cardinality(1..m) = m
      /\ IsFiniteSet(1..n) /\ Cardinality(1..n) = n
  BY FS_Interval
<1>2. /\ IsFiniteSet(SUBSET (1..m)) /\ Cardinality(SUBSET (1..m)) = 2^m
      /\ IsFiniteSet(SUBSET (1..n)) /\ Cardinality(SUBSET (1..n)) = 2^n
  BY <1>1, FS_SUBSET
<1>3. (SUBSET (1..m)) \in SUBSET (SUBSET (1..n))
  BY 1..m \subseteq 1..n
<1>4. Cardinality(SUBSET (1..m)) <= Cardinality(SUBSET (1..n))
  BY <1>2, <1>3, FS_Subset
<1>5. Cardinality(SUBSET (1..m)) \in Nat /\ Cardinality(SUBSET (1..n)) \in Nat
  BY <1>2, FS_CardinalityType
<1> QED BY <1>2, <1>4, <1>5

\* A lock of a higher level is never the shorter one.
LEMMA LockTimesGrow ==
    ASSUME NEW m \in Nat \ {0}, NEW n \in Nat, m <= n
    PROVE  /\ LockTime(m) \in Nat /\ LockTime(n) \in Nat
           /\ LockTime(m) <= LockTime(n)
<1> DEFINE p == 2^(m - 1)
           q == 2^(n - 1)
<1>1. p \in Nat /\ q \in Nat /\ p <= q
  BY PowersGrow, m - 1 \in Nat, n - 1 \in Nat, m - 1 <= n - 1
<1>2. /\ LockTime(m) = Least(BASE_LOCK_SECONDS * p, MAX_LOCK_SECONDS)
      /\ LockTime(n) = Least(BASE_LOCK_SECONDS * q, MAX_LOCK_SECONDS)
  BY DEF LockTime
<1> HIDE DEF p, q
<1>3. /\ BASE_LOCK_SECONDS \in Nat /\ MAX_LOCK_SECONDS \in Nat
  BY LimitsAssumption
<1>4. BASE_LOCK_SECONDS * p <= BASE_LOCK_SECONDS * q
  BY <1>1, <1>3
<1>5. BASE_LOCK_SECONDS * p \in Nat /\ BASE_LOCK_SECONDS * q \in Nat
  BY <1>1, <1>3
<1> QED BY <1>2, <1>3, <1>4, <1>5 DEF Least

LEMMA LockTimeType ==
    ASSUME NEW n \in Nat \ {0}
    PROVE  LockTime(n) \in Nat /\ LockTime(n) <= LockTime(n + 1)
BY LockTimesGrow, n + 1 \in Nat, n <= n + 1

-----------------------------------------------------------------------------

GoodEntry == {e \in Entry : e.count < MAX_FAILURES}

LEMMA FreshGood == Fresh \in GoodEntry
BY LimitsAssumption DEF Fresh, GoodEntry, Entry, Expired

LEMMA AfterFailureGood ==
    ASSUME NEW e \in GoodEntry
    PROVE  AfterFailure(e) \in GoodEntry
<1> DEFINE c == Current(e)
<1>1. c \in GoodEntry
  BY FreshGood DEF Current
<1> HIDE DEF c
<1>2. c.count \in Nat /\ c.level \in Nat /\ c.left \in Nat /\ 0 \in 0..Expired
  BY <1>1, LimitsAssumption DEF GoodEntry, Entry, Expired
<1>3. CASE c.count + 1 >= MAX_FAILURES
  <2>1. LockTime(c.level + 1) \in Nat
    BY <1>2, LockTimeType, c.level + 1 \in Nat \ {0}
  <2>2. AfterFailure(e) = [count |-> 0, level |-> c.level + 1, age |-> 0,
                           left |-> LockTime(c.level + 1)]
    BY <1>3 DEF AfterFailure, c
  <2>3. 0 < MAX_FAILURES
    BY LimitsAssumption
  <2> QED BY <1>2, <2>1, <2>2, <2>3 DEF GoodEntry, Entry
<1>4. CASE ~(c.count + 1 >= MAX_FAILURES)
  <2>1. AfterFailure(e) = [c EXCEPT !.count = c.count + 1, !.age = 0]
    BY <1>4 DEF AfterFailure, c
  <2>2. c.count + 1 < MAX_FAILURES
    BY <1>2, <1>4, LimitsAssumption
  <2>3. c = [count |-> c.count, level |-> c.level, age |-> c.age, left |-> c.left]
    BY <1>1 DEF GoodEntry, Entry
  <2>4. AfterFailure(e) = [count |-> c.count + 1, level |-> c.level, age |-> 0,
                           left |-> c.left]
    BY <2>1, <2>3
  <2> QED BY <1>2, <2>2, <2>4 DEF GoodEntry, Entry
<1> QED BY <1>3, <1>4

LEMMA OlderGood ==
    ASSUME NEW e \in GoodEntry
    PROVE  Older(e) \in GoodEntry
<1>1. /\ e.age \in 0..Expired /\ e.left \in Nat /\ Expired \in Nat
  BY LimitsAssumption DEF GoodEntry, Entry, Expired
<1>2. /\ Least(e.age + 1, Expired) \in 0..Expired
      /\ (IF e.left = 0 THEN 0 ELSE e.left - 1) \in Nat
  BY <1>1 DEF Least
<1> QED BY <1>2 DEF Older, GoodEntry, Entry

\* Every reachable state has its type: in particular no key ever has
\* MAX_FAILURES counted failures without the lock they stand for.
THEOREM TypeCorrect == Safety => []TypeOK
<1>1. Init => TypeOK
  BY FreshGood, LimitsAssumption DEF Init, TypeOK, GoodEntry
<1>2. TypeOK /\ [Next]_vars => TypeOK'
  <2> SUFFICES ASSUME TypeOK, [Next]_vars
               PROVE  TypeOK'
    OBVIOUS
  <2>1. entry \in [Key -> GoodEntry]
    BY DEF TypeOK, GoodEntry
  <2>2. ASSUME entry' \in [Key -> GoodEntry]
        PROVE  entry' \in [Key -> Entry] /\ \A k \in Key : entry'[k].count < MAX_FAILURES
    BY <2>2 DEF GoodEntry
  <2>3. \A a \in Attempt : KeyOf[a] \in Key
    BY KeyAssumption
  <2> USE LimitsAssumption
  <2>4. ASSUME NEW a \in Attempt, Begin(a) PROVE TypeOK'
    BY <2>4 DEF Begin, TypeOK
  <2>5. ASSUME NEW a \in Attempt, Fail(a) PROVE TypeOK'
    <3>1. entry' \in [Key -> GoodEntry]
      BY <2>1, <2>3, <2>5, AfterFailureGood DEF Fail
    <3> QED BY <2>2, <2>5, <3>1 DEF Fail, End, TypeOK
  <2>6. ASSUME NEW a \in Attempt, Succeed(a) PROVE TypeOK'
    <3>1. entry' \in [Key -> GoodEntry]
      BY <2>1, <2>3, <2>6, FreshGood DEF Succeed
    <3> QED BY <2>2, <2>6, <3>1 DEF Succeed, End, TypeOK
  <2>7. ASSUME NEW a \in Attempt, Abort(a) PROVE TypeOK'
    BY <2>7 DEF Abort, End, TypeOK
  <2>8. CASE Tick
    <3>1. entry' \in [Key -> GoodEntry]
      BY <2>1, <2>8, OlderGood DEF Tick
    <3>2. flight' \in [Attempt -> 0..MaxFlight]
      BY <2>8 DEF Tick, TypeOK
    <3> QED BY <2>2, <2>8, <3>1, <3>2 DEF Tick, TypeOK
  <2>9. CASE Restart
    <3>1. entry' \in [Key -> GoodEntry]
      BY <2>9, FreshGood DEF Restart
    <3> QED BY <2>2, <2>9, <3>1 DEF Restart, TypeOK
  <2>10. CASE UNCHANGED vars
    BY <2>10 DEF vars, TypeOK
  <2> QED BY <2>4, <2>5, <2>6, <2>7, <2>8, <2>9, <2>10 DEF Next
<1> QED BY <1>1, <1>2, PTL DEF Safety

-----------------------------------------------------------------------------

\* A lock is no longer than its level gives it, and a login that was admitted
\* before it has been under way for longer than the last failure is old.
LockInv ==
    \A k \in Key :
        /\ entry[k].level = 0 => entry[k].left = 0
        /\ entry[k].level # 0 => entry[k].left <= LockTime(entry[k].level)
        /\ Locked(k) => \A a \in Slots(k) :
               pc[a] = "verifying" => entry[k].age <= flight[a]

\* So its report finds the failures it overlapped with still in the window.
LEMMA ReportFindsLock ==
    ASSUME TypeOK, LockInv, NEW a \in Attempt, pc[a] = "verifying", Locked(KeyOf[a])
    PROVE  Current(entry[KeyOf[a]]) = entry[KeyOf[a]]
<1>1. KeyOf[a] \in Key /\ a \in Slots(KeyOf[a])
  BY KeyAssumption DEF Slots
<1>2. entry[KeyOf[a]].age <= flight[a]
  BY <1>1 DEF LockInv
<1>3. entry[KeyOf[a]].age \in Nat /\ flight[a] \in Nat /\ flight[a] <= MaxFlight
  BY <1>1, LimitsAssumption DEF TypeOK, Entry, Expired
<1>4. entry[KeyOf[a]].age <= FAILURE_WINDOW_SECONDS
  BY <1>2, <1>3, FlightAssumption, LimitsAssumption
<1> QED BY <1>3, <1>4, LimitsAssumption DEF Current

\* What a report does to the entry of its key: it keeps the bound on the lock,
\* and a lock that stands is at most replaced by a longer one.
LEMMA AfterFailureBounded ==
    ASSUME NEW e \in GoodEntry,
           e.level = 0 => e.left = 0,
           e.level # 0 => e.left <= LockTime(e.level)
    PROVE  LET f == AfterFailure(e) IN
           /\ f.age = 0
           /\ f.level = 0 => f.left = 0
           /\ f.level # 0 => f.left <= LockTime(f.level)
           /\ Current(e) = e => f.left >= e.left
<1> DEFINE c == Current(e)
           f == AfterFailure(e)
<1>1. /\ c \in GoodEntry
      /\ c.level = 0 => c.left = 0
      /\ c.level # 0 => c.left <= LockTime(c.level)
  BY FreshGood DEF Current, Fresh
<1> HIDE DEF c
<1>2. c.count \in Nat /\ c.level \in Nat /\ c.left \in Nat
  BY <1>1 DEF GoodEntry, Entry
<1>3. CASE c.count + 1 >= MAX_FAILURES
  <2>1. f = [count |-> 0, level |-> c.level + 1, age |-> 0,
             left |-> LockTime(c.level + 1)]
    BY <1>3 DEF AfterFailure, c
  <2>2. LockTime(c.level + 1) \in Nat
    BY <1>2, LockTimeType, c.level + 1 \in Nat \ {0}
  <2>3. c.left <= LockTime(c.level + 1)
    <3>1. CASE c.level = 0 BY <1>1, <2>2, <3>1
    <3>2. CASE c.level # 0
      <4>1. /\ LockTime(c.level) \in Nat
            /\ LockTime(c.level) <= LockTime(c.level + 1)
        BY <1>2, <3>2, LockTimeType
      <4> QED BY <1>1, <1>2, <2>2, <3>2, <4>1
    <3> QED BY <3>1, <3>2
  <2>4. Current(e) = e => c.left = e.left
    BY DEF c
  <2> QED BY <1>2, <2>1, <2>2, <2>3, <2>4
<1>4. CASE ~(c.count + 1 >= MAX_FAILURES)
  <2>1. f = [c EXCEPT !.count = c.count + 1, !.age = 0]
    BY <1>4 DEF AfterFailure, c
  <2>2. c = [count |-> c.count, level |-> c.level, age |-> c.age, left |-> c.left]
    BY <1>1 DEF GoodEntry, Entry
  <2>3. f.age = 0 /\ f.level = c.level /\ f.left = c.left
    BY <2>1, <2>2
  <2>4. Current(e) = e => c.left = e.left
    BY DEF c
  <2> QED BY <1>1, <1>2, <2>3, <2>4
<1> QED BY <1>3, <1>4

LEMMA LockInvInit == Init => LockInv
BY LimitsAssumption DEF Init, LockInv, Fresh, Locked

LEMMA LockInvStep == TypeOK /\ LockInv /\ [Next]_vars => LockInv'
<1> SUFFICES ASSUME TypeOK, LockInv, [Next]_vars, NEW k \in Key
             PROVE  /\ entry'[k].level = 0 => entry'[k].left = 0
                    /\ entry'[k].level # 0 => entry'[k].left <= LockTime(entry'[k].level)
                    /\ Locked(k)' => \A a \in Slots(k) :
                           pc'[a] = "verifying" => entry'[k].age <= flight'[a]
  BY DEF LockInv, Slots
<1>1. /\ entry[k].level = 0 => entry[k].left = 0
      /\ entry[k].level # 0 => entry[k].left <= LockTime(entry[k].level)
      /\ Locked(k) => \A a \in Slots(k) :
             pc[a] = "verifying" => entry[k].age <= flight[a]
  BY DEF LockInv
<1>2. /\ entry[k] \in GoodEntry
      /\ entry[k].age \in 0..Expired /\ entry[k].left \in Nat /\ entry[k].level \in Nat
  BY DEF TypeOK, GoodEntry, Entry
<1>3. ASSUME NEW a \in Slots(k)
      PROVE  a \in Attempt /\ KeyOf[a] = k /\ flight[a] \in Nat /\ flight[a] <= MaxFlight
  BY LimitsAssumption DEF Slots, TypeOK
<1>4. Expired \in Nat /\ MaxFlight < Expired /\ Second \in Nat /\ Second > 0
  BY LimitsAssumption, FlightAssumption DEF Expired
<1> DEFINE Goal == /\ entry'[k].level = 0 => entry'[k].left = 0
                   /\ entry'[k].level # 0 => entry'[k].left <= LockTime(entry'[k].level)
                   /\ Locked(k)' => \A a \in Slots(k) :
                          pc'[a] = "verifying" => entry'[k].age <= flight'[a]
<1>5. ASSUME NEW b \in Attempt, Begin(b) PROVE Goal
  <2>1. entry' = entry /\ ~Locked(KeyOf[b])
    BY <1>5 DEF Begin
  <2>2. \A a \in Attempt : a # b => pc'[a] = pc[a] /\ flight'[a] = flight[a]
    BY <1>5 DEF Begin, TypeOK
  <2>3. Locked(k)' => b \notin Slots(k) /\ Locked(k)
    BY <2>1 DEF Slots, Locked
  <2> QED BY <1>1, <1>3, <2>1, <2>2, <2>3
<1>6. ASSUME NEW b \in Attempt, End(b)
      PROVE  \A a \in Attempt : pc'[a] = "verifying" =>
                 a # b /\ pc[a] = "verifying" /\ flight'[a] = flight[a]
  BY <1>6 DEF End, TypeOK
<1>7. ASSUME NEW b \in Attempt, End(b), entry'[k] = entry[k] PROVE Goal
  <2>1. Locked(k)' => Locked(k)
    BY <1>7 DEF Locked
  <2> QED BY <1>1, <1>3, <1>6, <1>7, <2>1
<1>8. ASSUME entry'[k] = Fresh PROVE Goal
  BY <1>4, <1>8 DEF Fresh, Locked
<1>9. ASSUME NEW b \in Attempt, Fail(b) PROVE Goal
  <2>1. End(b)
    BY <1>9 DEF Fail
  <2>2. CASE KeyOf[b] # k
    <3>1. entry'[k] = entry[k]
      BY <1>9, <2>2 DEF Fail, TypeOK
    <3> QED BY <1>7, <2>1, <3>1
  <2>3. CASE KeyOf[b] = k
    <3>1. entry'[k] = AfterFailure(entry[k])
      BY <1>9, <2>3 DEF Fail, TypeOK
    <3> DEFINE f == AfterFailure(entry[k])
    <3>2. /\ f.age = 0
          /\ f.level = 0 => f.left = 0
          /\ f.level # 0 => f.left <= LockTime(f.level)
      BY <1>1, <1>2, AfterFailureBounded
    <3> HIDE DEF f
    <3>3. \A a \in Slots(k) : pc'[a] = "verifying" => f.age <= flight'[a]
      BY <1>3, <1>6, <2>1, <3>2
    <3>4. entry'[k] = f
      BY <3>1 DEF f
    <3> QED BY <3>2, <3>3, <3>4
  <2> QED BY <2>2, <2>3
<1>10. ASSUME NEW b \in Attempt, Succeed(b) PROVE Goal
  <2>1. End(b) /\ (entry'[k] = entry[k] \/ entry'[k] = Fresh)
    BY <1>10 DEF Succeed, TypeOK
  <2> QED BY <1>7, <1>8, <2>1
<1>11. CASE Tick
  <2>1. /\ entry'[k].level = entry[k].level
        /\ entry'[k].age = Least(entry[k].age + 1, Expired)
        /\ entry'[k].left = IF entry[k].left = 0 THEN 0 ELSE entry[k].left - 1
    <3>1. entry'[k] = Older(entry[k])
      BY <1>11 DEF Tick
    <3> QED BY <1>2, <3>1 DEF Older, GoodEntry, Entry
  <2>2. entry'[k].level # 0 => entry'[k].left <= LockTime(entry'[k].level)
    <3>1. entry[k].level # 0 => LockTime(entry[k].level) \in Nat
      BY <1>2, LockTimeType
    <3> QED BY <1>1, <1>2, <2>1, <3>1
  <2>3. Locked(k)' => Locked(k)
    BY <1>2, <1>4, <2>1 DEF Locked
  <2>4. \A a \in Attempt : pc'[a] = "verifying" =>
            pc[a] = "verifying" /\ flight'[a] = flight[a] + 1
    BY <1>11 DEF Tick
  <2>5. entry'[k].age <= entry[k].age + 1
    BY <1>2, <1>4, <2>1 DEF Least
  <2>6. entry'[k].age \in Nat
    BY <1>2, <1>4, <2>1 DEF Least
  <2>7. ASSUME Locked(k)', NEW a \in Slots(k), pc'[a] = "verifying"
        PROVE  entry'[k].age <= flight'[a]
    <3>1. entry[k].age <= flight[a]
      BY <1>1, <1>3, <2>3, <2>4, <2>7
    <3>2. flight'[a] = flight[a] + 1
      BY <1>3, <2>4, <2>7
    <3> QED BY <1>2, <1>3, <1>4, <2>5, <2>6, <3>1, <3>2
  <2> QED BY <1>1, <2>1, <2>2, <2>7
<1>12. CASE Restart
  BY <1>8, <1>12 DEF Restart
<1>13. CASE UNCHANGED vars
  BY <1>1, <1>13 DEF vars, Locked
<1> QED BY <1>5, <1>7, <1>9, <1>10, <1>11, <1>12, <1>13 DEF Next, Abort

LEMMA LockInvAlways == Safety => [](TypeOK /\ LockInv)
<1>1. Init => LockInv
  BY LockInvInit
<1>2. TypeOK /\ LockInv /\ [Next]_vars => LockInv'
  BY LockInvStep
<1> QED BY <1>1, <1>2, TypeCorrect, PTL DEF Safety

\* A lock that stands is never cut short, however the reports of the logins
\* that overlap fall.
THEOREM LocksStand == Safety => LockStands
<1> DEFINE Stands == \A k \in Key :
        (/\ Locked(k)
         /\ ~\E a \in Attempt : KeyOf[a] = k /\ Succeed(a)
         /\ ~Restart)
            => entry'[k].left >= entry[k].left - 1
<1>1. TypeOK /\ LockInv /\ [Next]_vars => [Stands]_vars
  <2> SUFFICES ASSUME TypeOK, LockInv, [Next]_vars, NEW k \in Key, Locked(k),
                      ~\E a \in Attempt : KeyOf[a] = k /\ Succeed(a), ~Restart
               PROVE  entry'[k].left >= entry[k].left - 1
    OBVIOUS
  <2>1. entry[k] \in GoodEntry /\ entry[k].left \in Nat
    BY DEF TypeOK, GoodEntry, Entry
  <2>2. ASSUME entry'[k] = entry[k] PROVE entry'[k].left >= entry[k].left - 1
    BY <2>1, <2>2
  <2>3. ASSUME NEW b \in Attempt, Fail(b) PROVE entry'[k].left >= entry[k].left - 1
    <3>1. CASE KeyOf[b] # k
      BY <2>2, <2>3, <3>1 DEF Fail, TypeOK
    <3>2. CASE KeyOf[b] = k
      <4>1. entry'[k] = AfterFailure(entry[k])
        BY <2>3, <3>2 DEF Fail, TypeOK
      <4>2. Current(entry[k]) = entry[k]
        BY <2>3, <3>2, ReportFindsLock DEF Fail, End
      <4>3. AfterFailure(entry[k]).left >= entry[k].left
        BY <2>1, <4>2, AfterFailureBounded DEF LockInv
      <4>4. AfterFailure(entry[k]).left \in Nat
        BY <2>1, AfterFailureGood DEF GoodEntry, Entry
      <4> QED BY <2>1, <4>1, <4>3, <4>4
    <3> QED BY <3>1, <3>2
  <2>4. ASSUME NEW b \in Attempt, Succeed(b) PROVE entry'[k] = entry[k]
    BY <2>4 DEF Succeed, TypeOK
  <2>5. CASE Tick
    <3>1. entry'[k] = Older(entry[k])
      BY <2>5 DEF Tick
    <3>2. entry'[k].left = IF entry[k].left = 0 THEN 0 ELSE entry[k].left - 1
      BY <2>1, <3>1 DEF Older, GoodEntry, Entry
    <3> QED BY <2>1, <3>2
  <2>6. ASSUME NEW b \in Attempt, Begin(b) \/ Abort(b) PROVE entry'[k] = entry[k]
    BY <2>6 DEF Begin, Abort
  <2>7. CASE UNCHANGED vars
    BY <2>2, <2>7 DEF vars
  <2> QED BY <2>2, <2>3, <2>4, <2>5, <2>6, <2>7 DEF Next
<1> QED BY <1>1, LockInvAlways, PTL DEF Safety, LockStands

-----------------------------------------------------------------------------

Waiting(k) == {a \in Slots(k) : pc[a] = "verifying"}

\* Why a lock of level 3 or more is followed only by those its own burst brings.
\* The failures counted since the burst reached level 3, at least MAX_FAILURES
\* for every further level, and the logins still under way are fewer than the
\* logins there are; and when the lock is over, the last failure that any of
\* them reported is out of the window.
Burst(k) ==
    LET e == entry[k] IN
    /\ Locked(k) =>
        /\ (e.level - 3) * MAX_FAILURES + e.count + Cardinality(Waiting(k))
               < Cardinality(Slots(k))
        /\ \A a \in Waiting(k) : flight[a] >= LockTime(e.level) - e.left
    /\ \/ e.age > FAILURE_WINDOW_SECONDS
       \/ e.age >= LockTime(e.level) - e.left - MaxFlight

\* No more levels than the logins of a key can bring; and a key that nobody
\* logs in to has none.
InReach(k) ==
    /\ entry[k].level # 0 => Slots(k) # {}
    /\ entry[k].level >= 3 =>
           (entry[k].level - 3) * MAX_FAILURES < Cardinality(Slots(k))

TopInv ==
    \A k \in Key : InReach(k) /\ (entry[k].level >= 3 => Burst(k))

LEMMA WaitingFinite ==
    ASSUME NEW k \in Key
    PROVE  /\ IsFiniteSet(Waiting(k))
           /\ Cardinality(Waiting(k)) \in Nat /\ Cardinality(Slots(k)) \in Nat
           /\ Cardinality(Waiting(k)) <= Cardinality(Slots(k))
<1>1. IsFiniteSet(Slots(k))
  BY SlotsAssumption
<1>2. Waiting(k) \in SUBSET Slots(k)
  BY DEF Waiting
<1>3. /\ IsFiniteSet(Waiting(k))
      /\ Cardinality(Waiting(k)) <= Cardinality(Slots(k))
  BY <1>1, <1>2, FS_Subset
<1>4. Cardinality(Waiting(k)) \in Nat /\ Cardinality(Slots(k)) \in Nat
  BY <1>1, <1>3, FS_CardinalityType
<1> QED BY <1>3, <1>4

\* A login that ends leaves one fewer.
LEMMA WaitingShrinks ==
    ASSUME NEW a \in Attempt, TypeOK, End(a)
    PROVE  /\ Waiting(KeyOf[a])' = Waiting(KeyOf[a]) \ {a}
           /\ Cardinality(Waiting(KeyOf[a])') = Cardinality(Waiting(KeyOf[a])) - 1
           /\ \A k \in Key : k # KeyOf[a] => Waiting(k)' = Waiting(k)
<1>1. KeyOf[a] \in Key /\ a \in Waiting(KeyOf[a])
  BY KeyAssumption DEF Waiting, Slots, End
<1>2. Waiting(KeyOf[a])' = Waiting(KeyOf[a]) \ {a}
  BY DEF Waiting, Slots, End, TypeOK
<1>3. \A k \in Key : k # KeyOf[a] => Waiting(k)' = Waiting(k)
  BY DEF Waiting, Slots, End, TypeOK
<1> QED BY <1>1, <1>2, <1>3, WaitingFinite, FS_RemoveElement

LEMMA TopInvInit == Init => TopInv
BY DEF Init, TopInv, InReach, Fresh

LEMMA Product ==
    ASSUME NEW l \in Nat, NEW m \in Nat
    PROVE  /\ (l - 3) * m \in Int
           /\ (l + 1 - 3) * m = (l - 3) * m + m
           /\ l >= 3 => (l - 3) * m \in Nat
OBVIOUS

\* Once a lock of level 3 or more is over, the window is too.
LEMMA OverAfterWindow ==
    ASSUME NEW k \in Key, TypeOK, Burst(k), entry[k].level >= 3, ~Locked(k)
    PROVE  entry[k].age > FAILURE_WINDOW_SECONDS
<1>1. entry[k].level \in Nat /\ entry[k].left \in Nat /\ entry[k].age \in Nat
  BY LimitsAssumption DEF TypeOK, Entry, Expired
<1>2. /\ LockTime(3) \in Nat /\ LockTime(entry[k].level) \in Nat
      /\ LockTime(3) <= LockTime(entry[k].level)
  BY <1>1, LockTimesGrow, 3 \in Nat \ {0}
<1>3. /\ Second \in Nat /\ MaxFlight \in Nat /\ FAILURE_WINDOW_SECONDS \in Nat
  BY LimitsAssumption
<1>4. entry[k].left < Second
  BY <1>1, <1>3 DEF Locked
<1> QED BY <1>1, <1>2, <1>3, <1>4, WindowAssumption DEF Burst

\* A report keeps the invariant.
LEMMA TopReport ==
    ASSUME NEW a \in Attempt, TypeOK, LockInv, TopInv, Fail(a)
    PROVE  LET k == KeyOf[a] IN
           /\ InReach(k)'
           /\ entry'[k].level >= 3 => Burst(k)'
<1> DEFINE k == KeyOf[a]
           e == entry[k]
           c == Current(e)
           f == AfterFailure(e)
           N == Cardinality(Slots(k))
           W == Cardinality(Waiting(k))
           V == Cardinality(Waiting(k)')
<1>1. k \in Key /\ entry'[k] = f /\ Slots(k)' = Slots(k)
  BY KeyAssumption DEF Fail, TypeOK, Slots
<1>2. e \in GoodEntry /\ c \in GoodEntry
  BY <1>1, FreshGood DEF Current, TypeOK, GoodEntry
<1>3. /\ e.level \in Nat /\ e.left \in Nat /\ e.age \in Nat /\ e.count \in Nat
      /\ c.level \in Nat /\ c.left \in Nat /\ c.count \in Nat /\ c.count < MAX_FAILURES
  BY <1>2, LimitsAssumption DEF GoodEntry, Entry, Expired
<1>4. e.level >= 3 => Burst(k)
  BY <1>1 DEF TopInv
<1>5. c = e \/ (c = Fresh /\ c.level = 0)
  BY DEF Current, Fresh
<1>6. /\ V = W - 1
      /\ Waiting(k)' \subseteq Waiting(k) /\ a \in Waiting(k)
      /\ \A b \in Waiting(k)' : flight'[b] = flight[b]
  BY <1>1, WaitingShrinks DEF Fail, End, TypeOK, Waiting, Slots
<1>7. W \in Nat /\ N \in Nat /\ W <= N /\ V \in Nat
  BY <1>1, <1>6, WaitingFinite, FS_CardinalityType, FS_RemoveElement, WaitingShrinks DEF Fail
<1>8. /\ Second \in Nat /\ MaxFlight \in Nat /\ FAILURE_WINDOW_SECONDS \in Nat
      /\ MAX_FAILURES \in Nat \ {0}
  BY LimitsAssumption
<1>9. ASSUME c.level >= 3
      PROVE  /\ c = e /\ Locked(k)
             /\ (c.level - 3) * MAX_FAILURES + c.count + W < N
             /\ \A b \in Waiting(k) : flight[b] >= LockTime(c.level) - c.left
  <2>1. c = e /\ Burst(k)
    BY <1>3, <1>4, <1>5, <1>9
  <2>2. ASSUME ~Locked(k) PROVE FALSE
    <3>1. e.age > FAILURE_WINDOW_SECONDS
      BY <1>1, <1>9, <2>1, <2>2, OverAfterWindow
    <3>2. c = Fresh
      BY <3>1 DEF Current
    <3> QED BY <1>9, <3>2 DEF Fresh
  <2> QED BY <2>1, <2>2 DEF Burst
<1>10. Slots(k) # {}
  BY <1>6 DEF Waiting
<1>11. /\ LockTime(f.level) \in Nat \/ f.level = 0
       /\ (c.level - 3) * MAX_FAILURES \in Int
       /\ c.level >= 3 => (c.level - 3) * MAX_FAILURES \in Nat
  BY <1>2, <1>3, <1>8, AfterFailureGood, LockTimeType, Product DEF GoodEntry, Entry
<1> HIDE DEF k, e, c, N, W, V
<1>12. CASE c.count + 1 >= MAX_FAILURES
  <2>1. f = [count |-> 0, level |-> c.level + 1, age |-> 0,
             left |-> LockTime(c.level + 1)]
    BY <1>12 DEF AfterFailure, c
  <2>2. /\ f.count = 0 /\ f.age = 0 /\ f.level = c.level + 1
        /\ f.left = LockTime(f.level) /\ f.level \in Nat /\ f.left \in Nat
    BY <1>3, <1>11, <2>1
  <2>3. c.count + 1 = MAX_FAILURES
    BY <1>3, <1>8, <1>12
  <2>4. f.level >= 3 => (f.level - 3) * MAX_FAILURES + V < N
    <3>1. CASE c.level >= 3
      <4>1. (f.level - 3) * MAX_FAILURES = (c.level - 3) * MAX_FAILURES + MAX_FAILURES
        BY <1>3, <1>8, <2>2, Product
      <4> QED BY <1>3, <1>6, <1>7, <1>8, <1>9, <1>11, <2>3, <3>1, <4>1
    <3>2. CASE c.level = 2
      <4>1. (f.level - 3) * MAX_FAILURES = 0
        BY <1>8, <2>2, <3>2
      <4> QED BY <1>6, <1>7, <4>1
    <3>3. CASE c.level < 2
      BY <1>3, <2>2, <3>3
    <3> QED BY <1>3, <3>1, <3>2, <3>3
  <2>5. (f.level - 3) * MAX_FAILURES \in Int
    BY <1>8, <2>2, Product
  <2>6. \A b \in Waiting(k)' : flight'[b] \in Nat
    BY <1>6, <1>8 DEF TypeOK, Waiting, Slots
  <2>7. InReach(k)'
    <3>1. f.level >= 3 => (f.level - 3) * MAX_FAILURES < N
      BY <1>7, <1>8, <2>4, <2>5
    <3> QED BY <1>1, <1>10, <3>1 DEF InReach, N
  <2>8. f.level >= 3 => Burst(k)'
    <3> SUFFICES ASSUME f.level >= 3 PROVE Burst(k)'
      OBVIOUS
    <3>1. (f.level - 3) * MAX_FAILURES + f.count + V < N
      BY <1>7, <2>2, <2>4, <2>5
    <3>2. \A b \in Waiting(k)' : flight'[b] >= LockTime(f.level) - f.left
      BY <2>2, <2>6
    <3>3. f.age >= LockTime(f.level) - f.left - MaxFlight
      BY <1>8, <2>2
    <3> QED BY <1>1, <3>1, <3>2, <3>3 DEF Burst, N, V
  <2> QED BY <1>1, <2>7, <2>8 DEF k
<1>13. CASE ~(c.count + 1 >= MAX_FAILURES)
  <2>1. f = [c EXCEPT !.count = c.count + 1, !.age = 0]
    BY <1>13 DEF AfterFailure, c
  <2>2. c = [count |-> c.count, level |-> c.level, age |-> c.age, left |-> c.left]
    BY <1>2 DEF GoodEntry, Entry
  <2>3. f.count = c.count + 1 /\ f.age = 0 /\ f.level = c.level /\ f.left = c.left
    BY <2>1, <2>2
  <2>4. ASSUME c.level >= 3 PROVE Burst(k)'
    <3>1. (f.level - 3) * MAX_FAILURES + f.count + V < N
      BY <1>3, <1>6, <1>7, <1>8, <1>9, <1>11, <2>3, <2>4
    <3>2. \A b \in Waiting(k)' : flight'[b] >= LockTime(f.level) - f.left
      BY <1>6, <1>9, <2>3, <2>4
    <3>3. f.age >= LockTime(f.level) - f.left - MaxFlight
      <4>1. flight[a] \in Nat /\ flight[a] <= MaxFlight
        BY <1>8 DEF TypeOK
      <4>2. flight[a] >= LockTime(f.level) - f.left
        BY <1>6, <1>9, <2>3, <2>4
      <4>3. LockTime(f.level) \in Nat /\ f.left \in Nat
        BY <1>3, <1>11, <2>3, <2>4
      <4> QED BY <1>8, <2>3, <4>1, <4>2, <4>3
    <3> QED BY <1>1, <3>1, <3>2, <3>3 DEF Burst, N, V
  <2>5. InReach(k)'
    <3>1. f.level >= 3 => (f.level - 3) * MAX_FAILURES < N
      BY <1>3, <1>7, <1>9, <1>11, <2>3
    <3> QED BY <1>1, <1>10, <3>1 DEF InReach, N
  <2> QED BY <1>1, <2>3, <2>4, <2>5 DEF k
<1> QED BY <1>12, <1>13

LEMMA TopInvStep == TypeOK /\ LockInv /\ TopInv /\ [Next]_vars => TopInv'
<1> SUFFICES ASSUME TypeOK, LockInv, TopInv, [Next]_vars, NEW k \in Key
             PROVE  InReach(k)' /\ (entry'[k].level >= 3 => Burst(k)')
  BY DEF TopInv
<1> DEFINE e == entry[k]
           Goal == InReach(k)' /\ (entry'[k].level >= 3 => Burst(k)')
<1>1. InReach(k) /\ (e.level >= 3 => Burst(k))
  BY DEF TopInv
<1>2. /\ e \in GoodEntry /\ e.count \in Nat
      /\ e.age \in 0..Expired /\ e.left \in Nat /\ e.level \in Nat
  BY DEF TypeOK, GoodEntry, Entry
<1>3. /\ Second \in Nat /\ MaxFlight \in Nat /\ FAILURE_WINDOW_SECONDS \in Nat
      /\ MAX_FAILURES \in Nat /\ Expired = FAILURE_WINDOW_SECONDS + 1
      /\ e.level >= 3 => LockTime(e.level) \in Nat
  BY <1>2, LimitsAssumption, LockTimeType DEF Expired
<1>4. ASSUME entry'[k].level = e.level PROVE InReach(k)'
  BY <1>1, <1>4 DEF InReach, Slots
<1>5. ASSUME NEW b \in Attempt, Begin(b) PROVE Goal
  <2>1. entry' = entry /\ ~Locked(KeyOf[b])
    BY <1>5 DEF Begin
  <2>2. \A a \in Attempt : a # b => pc'[a] = pc[a] /\ flight'[a] = flight[a]
    BY <1>5 DEF Begin, TypeOK
  <2>3. Locked(k)' => Waiting(k)' = Waiting(k) /\ Locked(k) /\ b \notin Slots(k)
    BY <2>1, <2>2 DEF Waiting, Slots, Locked
  <2>4. Locked(k)' => \A a \in Waiting(k)' : flight'[a] = flight[a]
    BY <2>2, <2>3 DEF Waiting, Slots
  <2> QED BY <1>1, <1>4, <2>1, <2>3, <2>4 DEF Burst, Slots
<1>6. ASSUME NEW b \in Attempt, End(b), entry'[k] = entry[k] PROVE Goal
  <2>1. Locked(k)' = Locked(k) /\ Slots(k)' = Slots(k)
    BY <1>6 DEF Locked, Slots
  <2>2. /\ Waiting(k)' \subseteq Waiting(k)
        /\ \A a \in Waiting(k)' : flight'[a] = flight[a]
    BY <1>6 DEF End, TypeOK, Waiting, Slots
  <2>3. Cardinality(Waiting(k)') <= Cardinality(Waiting(k))
    BY <2>2, WaitingFinite, FS_Subset
  <2>4. /\ Cardinality(Waiting(k)') \in Nat /\ Cardinality(Waiting(k)) \in Nat
        /\ Cardinality(Slots(k)) \in Nat
    BY <2>2, WaitingFinite, FS_Subset, FS_CardinalityType
  <2>5. (e.level - 3) * MAX_FAILURES \in Int
    BY <1>2, <1>3, Product
  <2>6. (e.level - 3) * MAX_FAILURES + e.count + Cardinality(Waiting(k))
              < Cardinality(Slots(k))
            => (e.level - 3) * MAX_FAILURES + e.count + Cardinality(Waiting(k)')
                   < Cardinality(Slots(k))
    BY <1>2, <2>3, <2>4, <2>5
  <2> HIDE DEF e
  <2>7. entry'[k] = e /\ entry[k] = e
    BY <1>6 DEF e
  <2>8. e.level >= 3 /\ Burst(k) => Burst(k)'
    BY <2>1, <2>2, <2>6, <2>7 DEF Burst
  <2> QED BY <1>1, <1>4, <2>7, <2>8
<1>7. ASSUME entry'[k] = Fresh PROVE Goal
  BY <1>7 DEF Fresh, InReach
<1>8. ASSUME NEW b \in Attempt, Fail(b) PROVE Goal
  <2>1. CASE KeyOf[b] = k BY <1>8, <2>1, TopReport
  <2>2. CASE KeyOf[b] # k BY <1>6, <1>8, <2>2 DEF Fail, TypeOK
  <2> QED BY <2>1, <2>2
<1>9. ASSUME NEW b \in Attempt, Succeed(b) PROVE Goal
  BY <1>6, <1>7, <1>9 DEF Succeed, TypeOK
<1>10. CASE Tick
  <2> DEFINE g == entry'[k]
  <2>1. g = Older(e)
    BY <1>10 DEF Tick
  <2>2. /\ g.level = e.level /\ g.count = e.count
        /\ g.age = Least(e.age + 1, Expired)
        /\ g.left = IF e.left = 0 THEN 0 ELSE e.left - 1
    BY <1>2, <2>1 DEF Older, GoodEntry, Entry
  <2>3. Locked(k)' => Locked(k) /\ g.left = e.left - 1
    BY <1>2, LimitsAssumption, <2>2 DEF Locked
  <2>4. /\ Waiting(k)' = Waiting(k) /\ Slots(k)' = Slots(k)
        /\ \A a \in Waiting(k) : flight'[a] = flight[a] + 1 /\ flight[a] \in Nat
    BY <1>3, <1>10 DEF Tick, TypeOK, Waiting, Slots
  <2> SUFFICES ASSUME e.level >= 3, Burst(k) PROVE Burst(k)'
    BY <1>1, <1>4, <2>2
  <2>5. LockTime(e.level) \in Nat
    BY <1>3
  <2>6. \/ g.age > FAILURE_WINDOW_SECONDS
        \/ g.age >= LockTime(g.level) - g.left - MaxFlight
    <3>1. \/ e.age > FAILURE_WINDOW_SECONDS
          \/ e.age >= LockTime(e.level) - e.left - MaxFlight
      BY DEF Burst
    <3> HIDE DEF e, g
    <3> QED BY <1>2, <1>3, <2>2, <2>5, <3>1 DEF Least
  <2>7. ASSUME Locked(k)', NEW a \in Waiting(k)'
        PROVE  flight'[a] >= LockTime(g.level) - g.left
    <3>1. flight[a] >= LockTime(e.level) - e.left
      BY <2>3, <2>4, <2>7 DEF Burst
    <3> QED BY <1>2, <1>3, <2>2, <2>3, <2>4, <2>5, <2>7, <3>1
  <2>8. Locked(k)' => (g.level - 3) * MAX_FAILURES + g.count + Cardinality(Waiting(k)')
                          < Cardinality(Slots(k)')
    BY <2>2, <2>3, <2>4 DEF Burst
  <2> QED BY <2>6, <2>7, <2>8 DEF Burst
<1>11. CASE Restart
  BY <1>7, <1>11 DEF Restart
<1>12. CASE UNCHANGED vars
  BY <1>1, <1>4, <1>12 DEF vars, Burst, Locked, Waiting, Slots
<1> QED BY <1>5, <1>6, <1>8, <1>9, <1>10, <1>11, <1>12 DEF Next, Abort

\* A level in reach is not above TopLevel.
LEMMA LevelBounded ==
    ASSUME NEW n \in Nat \ {0}, NEW l \in Nat \ {0},
           l >= 3 => (l - 3) * MAX_FAILURES < n
    PROVE  3 + (n - 1) \div MAX_FAILURES \in Nat \ {0}
           /\ l <= 3 + (n - 1) \div MAX_FAILURES
<1> DEFINE d == (n - 1) \div MAX_FAILURES
<1>1. MAX_FAILURES \in Nat \ {0}
  BY LimitsAssumption
<1>2. d \in Nat /\ n - 1 < (d + 1) * MAX_FAILURES
  BY <1>1
<1> HIDE DEF d
<1>3. ASSUME l > 3 + d PROVE FALSE
  <2>1. l - 3 >= d + 1 /\ l >= 3
    BY <1>2, <1>3
  <2>2. (l - 3) * MAX_FAILURES >= (d + 1) * MAX_FAILURES
    BY <1>1, <1>2, <2>1
  <2>3. (l - 3) * MAX_FAILURES \in Int /\ (d + 1) * MAX_FAILURES \in Int
    BY <1>1, <1>2
  <2> QED BY <1>2, <2>1, <2>2, <2>3
<1>4. 3 + d \in Nat \ {0} /\ l <= 3 + d
  BY <1>2, <1>3
<1> QED BY <1>4 DEF d

\* No key is ever locked for longer than the highest level lasts that one burst
\* of its logins can bring, however many they are and however they overlap.
THEOREM NoLongerLock == Safety => []LongestLock
<1>1. Init => TopInv
  BY TopInvInit
<1>2. TypeOK /\ LockInv /\ TopInv /\ [Next]_vars => TopInv'
  BY TopInvStep
<1>3. TypeOK /\ LockInv /\ TopInv => LongestLock
  <2> SUFFICES ASSUME TypeOK, LockInv, TopInv, NEW k \in Key
               PROVE  entry[k].left <= LockTime(TopLevel(k))
    BY DEF LongestLock
  <2> DEFINE l == entry[k].level
             n == Cardinality(Slots(k))
  <2>1. l \in Nat /\ entry[k].left \in Nat
    BY DEF TypeOK, Entry
  <2>2. /\ l = 0 => entry[k].left = 0
        /\ l # 0 => entry[k].left <= LockTime(l)
        /\ l # 0 => Slots(k) # {}
        /\ l >= 3 => (l - 3) * MAX_FAILURES < n
    BY DEF LockInv, TopInv, InReach
  <2>3. IsFiniteSet(Slots(k)) /\ n \in Nat
    BY SlotsAssumption, FS_CardinalityType
  <2>4. CASE l = 0
    <3>1. TopLevel(k) \in Nat \ {0}
      <4>1. MAX_FAILURES \in Nat \ {0}
        BY LimitsAssumption
      <4>2. (n - 1) \div MAX_FAILURES >= -1 /\ (n - 1) \div MAX_FAILURES \in Int
        BY <2>3, <4>1
      <4> QED BY <4>2 DEF TopLevel
    <3>2. LockTime(TopLevel(k)) \in Nat
      BY <3>1, LockTimeType
    <3> QED BY <2>2, <2>4, <3>2
  <2>5. CASE l # 0
    <3>1. n # 0
      BY <2>2, <2>3, <2>5, FS_EmptySet
    <3>2. TopLevel(k) \in Nat \ {0} /\ l <= TopLevel(k)
      BY <2>1, <2>2, <2>3, <2>5, <3>1, LevelBounded DEF TopLevel
    <3>3. /\ LockTime(l) \in Nat /\ LockTime(TopLevel(k)) \in Nat
          /\ LockTime(l) <= LockTime(TopLevel(k))
      BY <2>1, <2>5, <3>2, LockTimesGrow
    <3> QED BY <2>1, <2>2, <2>5, <3>3
  <2> QED BY <2>4, <2>5
<1> QED BY <1>1, <1>2, <1>3, LockInvAlways, PTL DEF Safety
=============================================================================
