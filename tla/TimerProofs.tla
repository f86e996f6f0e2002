---------------------------- MODULE TimerProofs ------------------------------
(***************************************************************************)
(* Theorems about the timers, for any clients, delays and number of        *)
(* timers.                                                                 *)
(***************************************************************************)
EXTENDS Timer, SequenceTheorems, WellFoundedInduction, TLAPS

Times == Nat \X Nat
Entry == [timer : Timers, second : Nat, nanosecond : Nat]

TypeOK ==
  /\ clock \in Times /\ clock[2] < NS
  /\ timer_list \in Seq(Entry)
  /\ timer_count \in 0..MaxTimers
  /\ lock \in Procs \cup {Free, TimerThread}
  /\ pc \in [Procs -> {"out", "insert"}]
  /\ deadline \in [Procs -> Times]
  /\ tpc \in {"lock", "check", "call"}
  /\ now \in Times
  /\ calling \in 0..MaxTimers
  /\ fired \in [Timers -> Nat]

(* A caller of ktimer_add that is about to insert has a number to give.    *)
NumberLeft == \A p \in Procs : pc[p] = "insert" => timer_count < MaxTimers

(* The clock timer_thread has read is not ahead of the clock.              *)
NowPast == NotLater(now, clock)

(* The entries of a list have numbers of their own, all given out.         *)
Distinct(s, n) ==
  /\ \A i \in 1..Len(s) : s[i].timer <= n
  /\ \A i, j \in 1..Len(s) : s[i].timer = s[j].timer => i = j
Listed(s, t) == \E i \in 1..Len(s) : s[i].timer = t

(* What has been given out and is not in the list has fired once.          *)
FiredOnce ==
  \A t \in Timers : fired[t] = IF t <= timer_count /\ ~Listed(timer_list, t) THEN 1 ELSE 0

IInv ==
  /\ TypeOK /\ NumberLeft /\ NowPast /\ LockHeld
  /\ Sorted /\ Distinct(timer_list, timer_count) /\ FiredOnce

-----------------------------------------------------------------------------
(* Every set of numbers has a least one, by which loops are reasoned about.*)
Less == {ss \in Nat \X Nat : ss[1] < ss[2]}

LEMMA LessWellFounded == IsWellFoundedOn(Less, Nat)
BY NatLessThanWellFounded, Zenon DEF OpToRel, Less

LEMMA LeastNumber ==
  ASSUME NEW T \in SUBSET Nat, T # {}
  PROVE  \E x \in T : \A y \in T : x <= y
<1>1. PICK x \in T : \A y \in T : ~(<<y, x>> \in Less)
  BY LessWellFounded, WFMin, Zenon
<1>2. ASSUME NEW y \in T PROVE ~(y < x)
  <2>1. y \in Nat /\ x \in Nat /\ <<y, x>> \notin Less
    BY <1>1
  <2>2. <<y, x>> \in Nat \X Nat /\ <<y, x>>[1] = y /\ <<y, x>>[2] = x
    BY <2>1
  <2> QED
    BY <2>1, <2>2, Zenon DEF Less
<1>3. \A y \in T : x <= y
  BY <1>2
<1> QED
  BY <1>3

(* The comparison is a total order on times.                               *)
LEMMA Order ==
  ASSUME NEW a \in Times, NEW b \in Times, NEW c \in Times
  PROVE  /\ NotLater(a, a)
         /\ NotLater(a, b) \/ NotLater(b, a)
         /\ NotLater(a, b) /\ NotLater(b, c) => NotLater(a, c)
BY DEF NotLater, Times

LEMMA AtTime ==
  ASSUME NEW e \in Entry
  PROVE  At(e) \in Times
BY DEF At, Entry, Times

(* The search loop of ktimer_add stops, inside the list or at its end.     *)
LEMMA PositionFound ==
  ASSUME NEW s \in Seq(Entry), NEW d \in Times
  PROVE  /\ Position(s, d) \in 1..Len(s) + 1
         /\ Position(s, d) <= Len(s) => NotLater(d, At(s[Position(s, d)]))
         /\ \A j \in 1..Position(s, d) - 1 : ~NotLater(d, At(s[j]))
<1> DEFINE Stop(i) == /\ i <= Len(s) => NotLater(d, At(s[i]))
                      /\ \A j \in 1..i - 1 : ~NotLater(d, At(s[j]))
           Later == {i \in 1..Len(s) : NotLater(d, At(s[i]))}
<1>1. Len(s) \in Nat
  OBVIOUS
<1>2. \E i \in 1..Len(s) + 1 : Stop(i)
  <2>1. CASE Later = {}
    <3>1. Len(s) + 1 \in 1..Len(s) + 1 /\ Stop(Len(s) + 1)
      BY <1>1, <2>1
    <3> QED
      BY <3>1
  <2>2. CASE Later # {}
    <3>1. PICK i \in Later : \A j \in Later : i <= j
      <4>1. Later \in SUBSET Nat
        BY <1>1
      <4> HIDE DEF Later
      <4> QED
        BY <2>2, <4>1, LeastNumber
    <3>2. i \in 1..Len(s) /\ NotLater(d, At(s[i]))
      OBVIOUS
    <3>3. ASSUME NEW j \in 1..i - 1 PROVE ~NotLater(d, At(s[j]))
      BY <1>1, <3>1, <3>2
    <3>4. i \in 1..Len(s) + 1 /\ Stop(i)
      BY <1>1, <3>2, <3>3
    <3> QED
      BY <3>4
  <2> QED
    BY <2>1, <2>2
<1>3. Position(s, d) = CHOOSE i \in 1..Len(s) + 1 : Stop(i)
  BY DEF Position
<1>4. Position(s, d) \in 1..Len(s) + 1 /\ Stop(Position(s, d))
  BY <1>2, <1>3, Zenon
<1> QED
  BY <1>4

(* Where the entries are after an insertion: r is s with e at place k.     *)
Shifted(r, s, k, e) ==
  \A j \in 1..Len(s) + 1 : r[j] = IF j < k THEN s[j] ELSE IF j = k THEN e ELSE s[j - 1]

LEMMA InsertProperties ==
  ASSUME NEW s \in Seq(Entry), NEW k \in 1..Len(s) + 1, NEW e \in Entry
  PROVE  /\ InsertBefore(s, k, e) \in Seq(Entry)
         /\ Len(InsertBefore(s, k, e)) = Len(s) + 1
         /\ Shifted(InsertBefore(s, k, e), s, k, e)
<1>1. Len(s) + 1 \in Nat /\ \A j \in 1..Len(s) : s[j] \in Entry
  OBVIOUS
<1> DEFINE x(j) == IF j < k THEN s[j] ELSE IF j = k THEN e ELSE s[j - 1]
<1>2. \A j \in 1..Len(s) + 1 : x(j) \in Entry
  BY <1>1
<1>3. InsertBefore(s, k, e) = [j \in 1..Len(s) + 1 |-> x(j)]
  BY DEF InsertBefore
<1> HIDE DEF x
<1>4. [j \in 1..Len(s) + 1 |-> x(j)] \in Seq(Entry)
  BY <1>1, <1>2
<1>5. Len([j \in 1..Len(s) + 1 |-> x(j)]) = Len(s) + 1
  BY <1>1, <1>2
<1> QED
  BY <1>3, <1>4, <1>5 DEF x, Shifted

(* Insertion at the place the loop finds keeps a list sorted.              *)
LEMMA InsertSorted ==
  ASSUME NEW s \in Seq(Entry), NEW e \in Entry,
         \A i, j \in 1..Len(s) : i < j => NotLater(At(s[i]), At(s[j])),
         NEW r, r = InsertBefore(s, Position(s, At(e)), e)
  PROVE  \A i, j \in 1..Len(r) : i < j => NotLater(At(r[i]), At(r[j]))
<1>1. PICK k \in 1..Len(s) + 1 :
        /\ r = InsertBefore(s, k, e)
        /\ k <= Len(s) => NotLater(At(e), At(s[k]))
        /\ \A j \in 1..k - 1 : ~NotLater(At(e), At(s[j]))
  BY AtTime, PositionFound
<1>2. PICK n \in Nat : n = Len(s) /\ Len(r) = n + 1
  BY <1>1, InsertProperties
<1>3. /\ k \in 1..n + 1
      /\ \A j \in 1..n + 1 : r[j] = IF j < k THEN s[j] ELSE IF j = k THEN e ELSE s[j - 1]
  <2>1. Shifted(r, s, k, e)
    BY <1>1, InsertProperties
  <2>2. k \in 1..n + 1 /\ 1..n + 1 = 1..Len(s) + 1
    BY <1>1, <1>2
  <2> QED
    BY <2>1, <2>2 DEF Shifted
<1>4. At(e) \in Times /\ \A j \in 1..n : At(s[j]) \in Times
  BY <1>2, AtTime, ElementOfSeq
<1>5. \A i, j \in 1..n : i < j => NotLater(At(s[i]), At(s[j]))
  BY <1>2
<1>6. ASSUME NEW j \in 1..n, j < k PROVE NotLater(At(s[j]), At(e))
  <2>1. ~NotLater(At(e), At(s[j])) /\ At(s[j]) \in Times
    BY <1>1, <1>3, <1>4, <1>6
  <2> QED
    BY <1>4, <2>1, Order
<1>7. ASSUME NEW j \in 1..n, j >= k PROVE NotLater(At(e), At(s[j]))
  <2>1. k \in 1..n /\ NotLater(At(e), At(s[k])) /\ (k = j \/ NotLater(At(s[k]), At(s[j])))
    BY <1>1, <1>2, <1>3, <1>5, <1>7
  <2>2. At(s[k]) \in Times /\ At(s[j]) \in Times
    BY <1>4, <2>1
  <2> QED
    BY <1>4, <2>1, <2>2, Order
<1>8. ASSUME NEW i \in 1..n + 1, NEW j \in 1..n + 1, i < j
      PROVE  NotLater(At(r[i]), At(r[j]))
  <2>1. CASE j < k
    <3>1. i \in 1..n /\ j \in 1..n /\ r[i] = s[i] /\ r[j] = s[j]
      BY <1>3, <1>8, <2>1
    <3> QED
      BY <1>5, <1>8, <3>1
  <2>2. CASE j = k
    <3>1. i \in 1..n /\ i < k /\ r[i] = s[i] /\ r[j] = e
      BY <1>3, <1>8, <2>2
    <3> QED
      BY <1>6, <3>1
  <2>3. CASE i = k
    <3>1. j - 1 \in 1..n /\ j - 1 >= k /\ r[i] = e /\ r[j] = s[j - 1]
      BY <1>3, <1>8, <2>3
    <3> QED
      BY <1>7, <3>1
  <2>4. CASE i < k /\ k < j
    <3>1. /\ i \in 1..n /\ j - 1 \in 1..n /\ j - 1 >= k
          /\ r[i] = s[i] /\ r[j] = s[j - 1]
      BY <1>3, <2>4
    <3>2. NotLater(At(s[i]), At(e)) /\ NotLater(At(e), At(s[j - 1]))
      BY <1>6, <1>7, <2>4, <3>1
    <3>3. At(s[i]) \in Times /\ At(s[j - 1]) \in Times
      BY <1>4, <3>1
    <3>4. NotLater(At(s[i]), At(s[j - 1]))
      BY <1>4, <3>2, <3>3, Order
    <3> QED
      BY <3>1, <3>4
  <2>5. CASE k < i
    <3>1. /\ i - 1 \in 1..n /\ j - 1 \in 1..n /\ i - 1 < j - 1
          /\ r[i] = s[i - 1] /\ r[j] = s[j - 1]
      BY <1>3, <1>8, <2>5
    <3> QED
      BY <1>5, <3>1
  <2> QED
    BY <1>3, <1>8, <2>1, <2>2, <2>3, <2>4, <2>5
<1> QED
  BY <1>2, <1>8

(* An insertion adds the new number to the list and nothing else.          *)
LEMMA InsertListed ==
  ASSUME NEW s \in Seq(Entry), NEW n \in Nat, Distinct(s, n),
         NEW k \in 1..Len(s) + 1, NEW e \in Entry, e.timer = n + 1,
         NEW r, r = InsertBefore(s, k, e)
  PROVE  /\ Distinct(r, n + 1)
         /\ \A t \in Timers : Listed(r, t) <=> Listed(s, t) \/ t = n + 1
<1>1. /\ Len(r) = Len(s) + 1 /\ Len(s) \in Nat
      /\ \A j \in 1..Len(s) + 1 : r[j] = IF j < k THEN s[j] ELSE IF j = k THEN e ELSE s[j - 1]
  <2>1. Len(r) = Len(s) + 1 /\ Len(s) \in Nat /\ Shifted(r, s, k, e)
    BY InsertProperties, LenProperties
  <2> QED
    BY <2>1 DEF Shifted
<1>2. \A j \in 1..Len(s) : s[j].timer \in Nat /\ s[j].timer <= n
  <2>1. \A j \in 1..Len(s) : s[j] \in Entry
    BY ElementOfSeq
  <2>2. \A x \in Entry : x.timer \in Nat
    BY MaxAssumption DEF Entry, Timers
  <2> QED
    BY <2>1, <2>2 DEF Distinct
<1>3. \A j \in 1..Len(r) : r[j].timer <= n + 1
  <2> SUFFICES ASSUME NEW j \in 1..Len(r) PROVE r[j].timer <= n + 1
    OBVIOUS
  <2>1. CASE j < k
    <3>1. r[j] = s[j] /\ j \in 1..Len(s)
      BY <1>1, <2>1
    <3> QED
      BY <1>2, <3>1
  <2>2. CASE j = k
    BY <1>1, <2>2
  <2>3. CASE j > k
    <3>1. r[j] = s[j - 1] /\ j - 1 \in 1..Len(s)
      BY <1>1, <2>3
    <3> QED
      BY <1>2, <3>1
  <2> QED
    BY <1>1, <2>1, <2>2, <2>3
<1>4. ASSUME NEW i \in 1..Len(r), NEW j \in 1..Len(r), r[i].timer = r[j].timer
      PROVE  i = j
  <2>1. i < k => i \in 1..Len(s) /\ r[i] = s[i]
    BY <1>1
  <2>2. i > k => i - 1 \in 1..Len(s) /\ r[i] = s[i - 1]
    BY <1>1
  <2>3. j < k => j \in 1..Len(s) /\ r[j] = s[j]
    BY <1>1
  <2>4. j > k => j - 1 \in 1..Len(s) /\ r[j] = s[j - 1]
    BY <1>1
  <2>5. r[k].timer = n + 1
    BY <1>1
  <2>6. i = k <=> j = k
    <3>1. i # k => r[i].timer \in Nat /\ r[i].timer <= n
      BY <1>1, <1>2, <2>1, <2>2
    <3>2. j # k => r[j].timer \in Nat /\ r[j].timer <= n
      BY <1>1, <1>2, <2>3, <2>4
    <3> QED
      BY <1>4, <2>5, <3>1, <3>2
  <2>7. ~(i < k /\ j > k)
    <3> SUFFICES ASSUME i < k, j > k PROVE FALSE
      OBVIOUS
    <3>1. i = j - 1
      BY <1>4, <2>1, <2>4 DEF Distinct
    <3> QED
      BY <3>1
  <2>8. ~(j < k /\ i > k)
    <3> SUFFICES ASSUME j < k, i > k PROVE FALSE
      OBVIOUS
    <3>1. i - 1 = j
      BY <1>4, <2>2, <2>3 DEF Distinct
    <3> QED
      BY <3>1
  <2> QED
    <3>1. CASE i < k
      <4>1. j < k
        BY <1>1, <2>6, <2>7, <3>1
      <4> QED
        BY <1>4, <2>1, <2>3, <3>1, <4>1 DEF Distinct
    <3>2. CASE i > k
      <4>1. j > k
        BY <1>1, <2>6, <2>8, <3>2
      <4>2. i - 1 = j - 1
        BY <1>4, <2>2, <2>4, <3>2, <4>1 DEF Distinct
      <4> QED
        BY <1>1, <4>2
    <3> QED
      BY <1>1, <2>6, <3>1, <3>2
<1>5. ASSUME NEW t \in Timers PROVE Listed(r, t) <=> Listed(s, t) \/ t = n + 1
  <2>1. ASSUME Listed(r, t) PROVE Listed(s, t) \/ t = n + 1
    <3>1. PICK j \in 1..Len(r) : r[j].timer = t
      BY <2>1 DEF Listed
    <3> QED
      BY <1>1, <3>1 DEF Listed
  <2>2. ASSUME Listed(s, t) PROVE Listed(r, t)
    <3>1. PICK j \in 1..Len(s) : s[j].timer = t
      BY <2>2 DEF Listed
    <3>2. CASE j < k
      BY <1>1, <3>1, <3>2 DEF Listed
    <3>3. CASE j >= k
      <4>1. j + 1 \in 1..Len(r) /\ r[j + 1] = s[j]
        BY <1>1, <3>3
      <4> QED
        BY <3>1, <4>1 DEF Listed
    <3> QED
      BY <1>1, <3>2, <3>3
  <2>3. t = n + 1 => Listed(r, t)
    BY <1>1 DEF Listed
  <2> QED
    BY <2>1, <2>2, <2>3
<1> QED
  BY <1>3, <1>4, <1>5 DEF Distinct
-----------------------------------------------------------------------------
LEMMA InitIInv == Init => IInv
<1> SUFFICES ASSUME Init PROVE IInv
  OBVIOUS
<1>1. TypeOK
  BY NSAssumption, MaxAssumption DEF Init, TypeOK, Times, Procs
<1>2. Len(timer_list) = 0
  BY DEF Init
<1>3. NumberLeft /\ NowPast
  BY DEF Init, NumberLeft, NowPast, NotLater
<1>4. LockHeld
  BY CallbackAssumption DEF Init, LockHeld, Procs, Free, TimerThread
<1>5. Sorted /\ Distinct(timer_list, timer_count) /\ \A t \in Timers : ~Listed(timer_list, t)
  BY <1>2 DEF Sorted, Distinct, Listed
<1>6. FiredOnce
  BY MaxAssumption DEF Init, FiredOnce, Timers
<1> QED
  BY <1>1, <1>3, <1>4, <1>5, <1>6 DEF IInv

(* A step that leaves the list alone.                                      *)
LEMMA SameList ==
  ASSUME IInv, UNCHANGED <<timer_list, timer_count, fired>>
  PROVE  Sorted' /\ Distinct(timer_list, timer_count)' /\ FiredOnce'
BY DEF IInv, Sorted, Distinct, FiredOnce, Listed

LEMMA TickStep ==
  ASSUME IInv, Tick
  PROVE  IInv'
<1>1. PICK s \in Nat, n \in Nat : clock = <<s, n>> /\ n < NS
  BY DEF IInv, TypeOK, Times
<1>2. clock' = IF n < NS - 1 THEN <<s, n + 1>> ELSE <<s + 1, 0>>
  BY <1>1 DEF Tick
<1>3. clock' \in Times /\ clock'[2] < NS /\ NotLater(clock, clock')
  BY <1>1, <1>2, NSAssumption DEF Times, NotLater
<1>4. TypeOK'
  BY <1>3 DEF IInv, Tick, TypeOK
<1>5. NowPast'
  BY <1>3, Order DEF IInv, Tick, TypeOK, NowPast
<1>6. NumberLeft' /\ LockHeld'
  BY DEF IInv, Tick, NumberLeft, LockHeld
<1> QED
  BY <1>4, <1>5, <1>6, SameList DEF IInv, Tick

LEMMA PlusTime ==
  ASSUME NEW t \in Times, NEW d \in Delays
  PROVE  Plus(t, d) \in Times /\ Plus(t, d)[2] = t[2] + d[2]
BY DelaysAssumption DEF Plus, Times

LEMMA AddLockStep ==
  ASSUME IInv, NEW p \in Procs, NEW d \in Delays, AddLock(p, d)
  PROVE  IInv'
<1>1. Plus(clock, d) \in Times
  BY PlusTime DEF IInv, TypeOK
<1>2. TypeOK'
  BY <1>1 DEF IInv, AddLock, TypeOK
<1>3. NumberLeft' /\ NowPast'
  BY DEF IInv, AddLock, TypeOK, NumberLeft, NowPast
<1>4. LockHeld'
  BY CallbackAssumption DEF IInv, AddLock, TypeOK, LockHeld, Procs, Free, TimerThread
<1> QED
  BY <1>2, <1>3, <1>4, SameList DEF IInv, AddLock

(* The entry ktimer_add makes for caller p.                                *)
NewEntry(p) == [timer |-> timer_count + 1,
                second |-> deadline[p][1], nanosecond |-> deadline[p][2]]

LEMMA NewEntryType ==
  ASSUME IInv, NEW p \in Procs, pc[p] = "insert"
  PROVE  NewEntry(p) \in Entry /\ At(NewEntry(p)) = deadline[p] /\ timer_count + 1 \in Timers
<1>1. timer_count + 1 \in Timers
  BY MaxAssumption DEF IInv, TypeOK, NumberLeft, Timers
<1>2. PICK s \in Nat, n \in Nat : deadline[p] = <<s, n>>
  BY DEF IInv, TypeOK, Times
<1> QED
  BY <1>1, <1>2 DEF NewEntry, Entry, At

LEMMA AddInsertStep ==
  ASSUME IInv, NEW p \in Procs, AddInsert(p)
  PROVE  IInv'
<1> USE DEF IInv
<1>1. /\ pc[p] = "insert" /\ lock = p /\ lock' = Free
      /\ pc' = [pc EXCEPT ![p] = "out"] /\ deadline' = [deadline EXCEPT ![p] = <<0, 0>>]
      /\ UNCHANGED <<clock, tpc, now, calling, fired>>
  BY DEF AddInsert, LockHeld
<1>2. NowPast'
  BY <1>1 DEF NowPast
<1>3. \A q \in Procs : pc'[q] = "out"
  BY <1>1 DEF TypeOK, LockHeld
<1>4. LockHeld' /\ NumberLeft'
  BY <1>1, <1>3, CallbackAssumption
  DEF TypeOK, LockHeld, NumberLeft, Procs, Free, TimerThread
<1>5. CASE UNCHANGED <<timer_list, timer_count>>
  <2>1. TypeOK'
    BY <1>1, <1>5 DEF TypeOK, Times
  <2> QED
    BY <1>1, <1>2, <1>4, <1>5, <2>1, SameList
<1>6. CASE /\ timer_count' = timer_count + 1
           /\ timer_list' = InsertBefore(timer_list, Position(timer_list, deadline[p]), NewEntry(p))
  <2> DEFINE e == NewEntry(p)
             k == Position(timer_list, deadline[p])
  <2>1. e \in Entry /\ At(e) = deadline[p] /\ timer_count + 1 \in Timers /\ deadline[p] \in Times
    BY <1>1, NewEntryType DEF TypeOK
  <2>2. timer_list \in Seq(Entry) /\ timer_count \in Nat /\ e.timer = timer_count + 1
    BY MaxAssumption DEF TypeOK, NewEntry
  <2>3. k \in 1..Len(timer_list) + 1
    BY <2>1, <2>2, PositionFound
  <2>4. timer_list' = InsertBefore(timer_list, k, e)
    BY <1>6
  <2> HIDE DEF e, k
  <2>5. timer_list' \in Seq(Entry)
    BY <2>1, <2>2, <2>3, <2>4, InsertProperties
  <2>6. TypeOK'
    BY <1>1, <1>6, <2>1, <2>5, MaxAssumption DEF TypeOK, Times, Timers
  <2>7. Sorted'
    BY <2>1, <2>2, <2>4, InsertSorted DEF Sorted, k
  <2>8. /\ Distinct(timer_list', timer_count + 1)
        /\ \A t \in Timers : Listed(timer_list', t) <=> Listed(timer_list, t) \/ t = timer_count + 1
    BY <2>1, <2>2, <2>3, <2>4, InsertListed
  <2>9. FiredOnce'
    <3> SUFFICES ASSUME NEW t \in Timers
                 PROVE  fired[t] = IF t <= timer_count' /\ ~Listed(timer_list', t) THEN 1 ELSE 0
      BY <1>1 DEF FiredOnce
    <3>1. fired[t] = IF t <= timer_count /\ ~Listed(timer_list, t) THEN 1 ELSE 0
      BY DEF FiredOnce
    <3> QED
      BY <1>6, <2>2, <2>8, <3>1, MaxAssumption DEF Timers
  <2> QED
    BY <1>2, <1>4, <1>6, <2>6, <2>7, <2>8, <2>9 DEF Distinct
<1> QED
  BY <1>5, <1>6 DEF AddInsert, NewEntry

LEMMA ThreadLockStep ==
  ASSUME IInv, ThreadLock
  PROVE  IInv'
<1>1. TypeOK' /\ NumberLeft'
  BY DEF IInv, ThreadLock, TypeOK, NumberLeft
<1>2. NowPast'
  BY Order DEF IInv, ThreadLock, TypeOK, NowPast
<1>3. LockHeld'
  BY CallbackAssumption DEF IInv, ThreadLock, TypeOK, LockHeld, Procs, Free, TimerThread
<1> QED
  BY <1>1, <1>2, <1>3, SameList DEF IInv, ThreadLock

(* timer_thread gives up the lock and forgets the time it read.            *)
LEMMA ThreadUnlocks ==
  ASSUME IInv, tpc = "check", lock' = Free, tpc' \in {"lock", "call"}, now' = <<0, 0>>,
         UNCHANGED <<clock, timer_count, pc, deadline>>
  PROVE  NumberLeft' /\ NowPast' /\ LockHeld' /\ now' \in Times
<1>1. NumberLeft' /\ now' \in Times
  BY DEF IInv, NumberLeft, Times
<1>2. NowPast'
  BY DEF IInv, TypeOK, NowPast, NotLater, Times
<1>3. LockHeld'
  BY CallbackAssumption DEF IInv, TypeOK, LockHeld, Procs, Free, TimerThread
<1> QED
  BY <1>1, <1>2, <1>3

LEMMA HeadFacts ==
  ASSUME IInv, HeadIsDue
  PROVE  /\ Len(timer_list) \in Nat \ {0} /\ Head(timer_list) = timer_list[1]
         /\ Head(timer_list) \in Entry /\ Head(timer_list).timer \in Timers
         /\ Tail(timer_list) \in Seq(Entry) /\ Len(Tail(timer_list)) = Len(timer_list) - 1
         /\ \A i \in 1..Len(timer_list) - 1 : Tail(timer_list)[i] = timer_list[i + 1]
<1>1. timer_list \in Seq(Entry) /\ timer_list # <<>>
  BY DEF IInv, TypeOK, HeadIsDue
<1>2. Head(timer_list) \in Entry
  BY <1>1, HeadTailProperties
<1>3. Head(timer_list).timer \in Timers
  BY <1>2 DEF Entry
<1> QED
  BY <1>1, <1>2, <1>3, HeadTailProperties, EmptySeq

LEMMA ThreadPopStep ==
  ASSUME IInv, ThreadPop
  PROVE  IInv'
<1> USE DEF IInv
<1> DEFINE s == timer_list
           h == Head(timer_list).timer
<1>1. /\ Len(s) \in Nat \ {0} /\ Head(s) = s[1] /\ h \in Timers
      /\ Tail(s) \in Seq(Entry) /\ Len(Tail(s)) = Len(s) - 1
      /\ \A i \in 1..Len(s) - 1 : Tail(s)[i] = s[i + 1]
  BY HeadFacts DEF ThreadPop
<1>2. /\ timer_list' = Tail(s) /\ calling' = h /\ fired' = [fired EXCEPT ![h] = @ + 1]
      /\ tpc = "check" /\ lock' = Free /\ tpc' = "call" /\ now' = <<0, 0>>
      /\ UNCHANGED <<clock, timer_count, pc, deadline>>
  BY DEF ThreadPop
<1>3. NumberLeft' /\ NowPast' /\ LockHeld' /\ now' \in Times
  BY <1>2, ThreadUnlocks
<1>4. TypeOK'
  BY <1>1, <1>2, <1>3, MaxAssumption DEF TypeOK, Timers
<1>5. h = s[1].timer
  BY <1>1
<1> HIDE DEF h
<1>6. Sorted'
  BY <1>1, <1>2 DEF Sorted
<1>7. Distinct(timer_list, timer_count)'
  <2>1. \A i \in 1..Len(s) - 1 : Tail(s)[i].timer <= timer_count
    BY <1>1 DEF Distinct
  <2>2. ASSUME NEW i \in 1..Len(s) - 1, NEW j \in 1..Len(s) - 1, Tail(s)[i].timer = Tail(s)[j].timer
        PROVE  i = j
    <3>1. i + 1 \in 1..Len(s) /\ j + 1 \in 1..Len(s) /\ s[i + 1].timer = s[j + 1].timer
      BY <1>1, <2>2
    <3>2. i + 1 = j + 1
      BY <3>1 DEF Distinct
    <3> QED
      BY <1>1, <3>2
  <2> QED
    BY <1>1, <1>2, <2>1, <2>2 DEF Distinct
<1>8. \A t \in Timers : Listed(Tail(s), t) <=> Listed(s, t) /\ t # h
  <2> SUFFICES ASSUME NEW t \in Timers PROVE Listed(Tail(s), t) <=> Listed(s, t) /\ t # h
    OBVIOUS
  <2>1. ASSUME Listed(Tail(s), t) PROVE Listed(s, t) /\ t # h
    <3>1. PICK i \in 1..Len(s) - 1 : Tail(s)[i].timer = t
      BY <1>1, <2>1 DEF Listed
    <3>2. i + 1 \in 1..Len(s) /\ 1 \in 1..Len(s) /\ i + 1 # 1 /\ s[i + 1].timer = t
      BY <1>1, <3>1
    <3> QED
      BY <1>5, <3>2 DEF Listed, Distinct
  <2>2. ASSUME Listed(s, t), t # h PROVE Listed(Tail(s), t)
    <3>1. PICK i \in 1..Len(s) : s[i].timer = t
      BY <2>2 DEF Listed
    <3>2. i # 1
      BY <1>5, <2>2, <3>1
    <3>3. i - 1 \in 1..Len(s) - 1 /\ Tail(s)[i - 1] = s[i]
      BY <1>1, <3>1, <3>2
    <3> QED
      BY <1>1, <3>1, <3>3 DEF Listed
  <2> QED
    BY <2>1, <2>2
<1>9. FiredOnce'
  <2> SUFFICES ASSUME NEW t \in Timers
               PROVE  fired'[t] = IF t <= timer_count /\ ~Listed(Tail(s), t) THEN 1 ELSE 0
    BY <1>2 DEF FiredOnce
  <2>1. fired[t] = IF t <= timer_count /\ ~Listed(s, t) THEN 1 ELSE 0
    BY DEF FiredOnce
  <2>2. CASE t = h
    <3>1. Listed(s, t) /\ t <= timer_count /\ fired[t] = 0
      BY <1>1, <1>5, <2>1, <2>2 DEF Listed, Distinct
    <3>2. fired'[t] = 1
      BY <1>2, <2>2, <3>1 DEF TypeOK
    <3> QED
      BY <1>8, <2>2, <3>1, <3>2
  <2>3. CASE t # h
    <3>1. fired'[t] = fired[t]
      BY <1>2, <2>3 DEF TypeOK
    <3> QED
      BY <1>8, <2>1, <2>3, <3>1
  <2> QED
    BY <2>2, <2>3
<1> QED
  BY <1>3, <1>4, <1>6, <1>7, <1>9

LEMMA ThreadIdleStep ==
  ASSUME IInv, ThreadIdle
  PROVE  IInv'
<1>1. NumberLeft' /\ NowPast' /\ LockHeld' /\ now' \in Times
  BY ThreadUnlocks DEF ThreadIdle
<1>2. TypeOK'
  BY <1>1 DEF IInv, ThreadIdle, TypeOK
<1> QED
  BY <1>1, <1>2, SameList DEF IInv, ThreadIdle

LEMMA ThreadReturnStep ==
  ASSUME IInv, ThreadReturn
  PROVE  IInv'
<1>1. TypeOK' /\ NumberLeft' /\ NowPast' /\ LockHeld'
  BY MaxAssumption DEF IInv, ThreadReturn, TypeOK, NumberLeft, NowPast, LockHeld
<1> QED
  BY <1>1, SameList DEF IInv, ThreadReturn

LEMMA NextIInv == IInv /\ [Next]_vars => IInv'
<1> SUFFICES ASSUME IInv, [Next]_vars PROVE IInv'
  OBVIOUS
<1>1. CASE UNCHANGED vars
  <2>1. TypeOK' /\ NumberLeft' /\ NowPast' /\ LockHeld'
    BY <1>1 DEF vars, IInv, TypeOK, NumberLeft, NowPast, LockHeld
  <2> QED
    BY <1>1, <2>1, SameList DEF vars, IInv
<1> QED
  BY <1>1, TickStep, AddLockStep, AddInsertStep, ThreadLockStep, ThreadPopStep,
     ThreadIdleStep, ThreadReturnStep DEF Next

(* The inductive invariant of the timers.                                  *)
THEOREM Invariance == Spec => []IInv
BY InitIInv, NextIInv, PTL DEF Spec

(* The list of timers is sorted by deadline, whoever inserts and however   *)
(* old the clock value that was used (ktimer_add).                         *)
THEOREM ListSorted == Spec => []Sorted
<1>1. IInv => Sorted
  BY DEF IInv
<1> QED
  BY <1>1, Invariance, PTL

(* Whoever is between taking and releasing ktimer_spinlock is its holder.  *)
THEOREM LockDiscipline == Spec => []LockHeld
<1>1. IInv => LockHeld
  BY DEF IInv
<1> QED
  BY <1>1, Invariance, PTL

(* No timer is lost and none fires twice (timer_thread, ktimer_add).       *)
THEOREM NoneLost == Spec => []EachOnce
<1>1. IInv => EachOnce
  <2> SUFFICES ASSUME IInv, NEW t \in Timers
               PROVE  LET places == {i \in 1..Len(timer_list) : timer_list[i].timer = t}
                      IN  IF t <= timer_count
                          THEN \/ fired[t] = 0 /\ \E i \in 1..Len(timer_list) : places = {i}
                               \/ fired[t] = 1 /\ places = {}
                          ELSE fired[t] = 0 /\ places = {}
    BY DEF EachOnce
  <2>1. fired[t] = IF t <= timer_count /\ ~Listed(timer_list, t) THEN 1 ELSE 0
    BY DEF IInv, FiredOnce
  <2>2. CASE Listed(timer_list, t)
    <3>1. PICK i \in 1..Len(timer_list) : timer_list[i].timer = t
      BY <2>2 DEF Listed
    <3>2. t <= timer_count
      BY <3>1 DEF IInv, Distinct
    <3>3. {j \in 1..Len(timer_list) : timer_list[j].timer = t} = {i}
      BY <3>1 DEF IInv, Distinct
    <3> QED
      BY <2>1, <2>2, <3>2, <3>3
  <2>3. CASE ~Listed(timer_list, t)
    <3>1. {j \in 1..Len(timer_list) : timer_list[j].timer = t} = {}
      BY <2>3 DEF Listed
    <3> QED
      BY <2>1, <2>3, <3>1
  <2> QED
    BY <2>2, <2>3
<1> QED
  BY <1>1, Invariance, PTL

-----------------------------------------------------------------------------
(* Only ThreadPop starts a timer function.                                 *)
LEMMA OnlyPopCalls ==
  ASSUME IInv, [Next]_vars, calling' # calling, calling' # 0
  PROVE  ThreadPop
BY DEF Next, vars, Tick, AddLock, AddInsert, ThreadLock, ThreadIdle, ThreadReturn

-----------------------------------------------------------------------------
(* Callers give less than a second in nanoseconds.  ktimer_add does not    *)
(* test it.                                                                *)
Normalised == \A d \in Delays : d[2] < NS

(* Without the carry the nanoseconds of a deadline may reach two seconds.  *)
Short ==
  /\ \A p \in Procs : deadline[p][2] < 2 * NS
  /\ \A i \in 1..Len(timer_list) : timer_list[i].nanosecond < 2 * NS

LEMMA NextShort ==
  ASSUME Normalised, IInv, Short, [Next]_vars
  PROVE  Short'
<1>1. ASSUME UNCHANGED <<timer_list, deadline>> PROVE Short'
  BY <1>1 DEF Short
<1>2. ASSUME NEW p \in Procs, NEW d \in Delays, AddLock(p, d) PROVE Short'
  <2>1. Plus(clock, d)[2] = clock[2] + d[2] /\ clock[2] \in Nat /\ d[2] \in Nat /\ clock[2] < NS
    BY PlusTime, DelaysAssumption DEF IInv, TypeOK, Times
  <2>2. Plus(clock, d)[2] < 2 * NS
    BY <2>1, NSAssumption DEF Normalised
  <2> QED
    BY <1>2, <2>2 DEF AddLock, Short, IInv, TypeOK
<1>3. ASSUME NEW p \in Procs, AddInsert(p) PROVE Short'
  <2>1. \A q \in Procs : deadline'[q][2] < 2 * NS
    BY <1>3, NSAssumption DEF AddInsert, Short, IInv, TypeOK
  <2>2. CASE UNCHANGED timer_list
    BY <2>1, <2>2 DEF Short
  <2>3. CASE timer_list' = InsertBefore(timer_list, Position(timer_list, deadline[p]), NewEntry(p))
    <3>1. NewEntry(p) \in Entry /\ timer_list \in Seq(Entry) /\ deadline[p] \in Times
      BY <1>3, NewEntryType DEF AddInsert, IInv, TypeOK
    <3>2. NewEntry(p).nanosecond < 2 * NS
      BY DEF NewEntry, Short
    <3>3. PICK k \in 1..Len(timer_list) + 1 : timer_list' = InsertBefore(timer_list, k, NewEntry(p))
      BY <2>3, <3>1, PositionFound
    <3>4. /\ Len(timer_list') = Len(timer_list) + 1 /\ Len(timer_list) \in Nat
          /\ \A j \in 1..Len(timer_list) + 1 :
               timer_list'[j] = IF j < k THEN timer_list[j] ELSE IF j = k THEN NewEntry(p)
                                ELSE timer_list[j - 1]
      <4>1. /\ Len(timer_list') = Len(timer_list) + 1 /\ Len(timer_list) \in Nat
            /\ Shifted(timer_list', timer_list, k, NewEntry(p))
        BY <3>1, <3>3, InsertProperties, LenProperties
      <4> QED
        BY <4>1 DEF Shifted
    <3>5. \A j \in 1..Len(timer_list') : timer_list'[j].nanosecond < 2 * NS
      <4> SUFFICES ASSUME NEW j \in 1..Len(timer_list')
                   PROVE  timer_list'[j].nanosecond < 2 * NS
        OBVIOUS
      <4>1. CASE j < k
        <5>1. timer_list'[j] = timer_list[j] /\ j \in 1..Len(timer_list)
          BY <3>4, <4>1
        <5> QED
          BY <5>1 DEF Short
      <4>2. CASE j = k
        BY <3>2, <3>4, <4>2
      <4>3. CASE j > k
        <5>1. timer_list'[j] = timer_list[j - 1] /\ j - 1 \in 1..Len(timer_list)
          BY <3>4, <4>3
        <5> QED
          BY <5>1 DEF Short
      <4> QED
        BY <3>4, <4>1, <4>2, <4>3
    <3> QED
      BY <2>1, <3>5 DEF Short
  <2> QED
    BY <1>3, <2>2, <2>3 DEF AddInsert, NewEntry
<1>4. ASSUME ThreadPop PROVE Short'
  <2>1. /\ Len(timer_list) \in Nat \ {0} /\ Len(timer_list') = Len(timer_list) - 1
        /\ \A i \in 1..Len(timer_list) - 1 : timer_list'[i] = timer_list[i + 1]
    BY <1>4, HeadFacts DEF ThreadPop
  <2> QED
    BY <1>4, <2>1 DEF ThreadPop, Short
<1> QED
  BY <1>1, <1>2, <1>3, <1>4 DEF Next, vars, Tick, ThreadLock, ThreadIdle, ThreadReturn

(* A pair that is not later than another is not later in ticks, or has a   *)
(* missing carry and is later by less than a second.                       *)
LEMMA TicksPassed ==
  ASSUME NEW a \in Times, NEW b \in Times, NotLater(a, b), a[2] < 2 * NS
  PROVE  Ticks(b) >= Ticks(a) \/ (a[2] >= NS /\ Ticks(b) + NS > Ticks(a))
<1>1. PICK s \in Nat, n \in Nat, u \in Nat, v \in Nat : a = <<s, n>> /\ b = <<u, v>>
  BY DEF Times
<1>2. (s < u \/ (s = u /\ n <= v)) /\ n < 2 * NS
  BY <1>1 DEF NotLater
<1>3. Ticks(a) = s * NS + n /\ Ticks(b) = u * NS + v
  BY <1>1 DEF Ticks
<1>4. s * NS \in Nat /\ u * NS \in Nat /\ (s < u => u * NS >= s * NS + NS)
  <2>1. \A m \in Nat : m * NS \in Nat
    BY NSAssumption
  <2>2. ASSUME s < u PROVE u * NS >= s * NS + NS
    <3>1. PICK m \in Nat : u = s + 1 + m
      <4>1. u - s - 1 \in Nat /\ u = s + 1 + (u - s - 1)
        BY <2>2
      <4> QED
        BY <4>1
    <3>2. u * NS = s * NS + NS + m * NS
      BY <3>1, NSAssumption
    <3> QED
      BY <2>1, <3>2, NSAssumption
  <2> QED
    BY <2>1, <2>2
<1> HIDE DEF Ticks
<1>5. CASE s = u
  BY <1>2, <1>3, <1>4, <1>5, NSAssumption
<1>6. CASE s < u
  BY <1>1, <1>2, <1>3, <1>4, <1>6, NSAssumption
<1> QED
  BY <1>2, <1>5, <1>6

(* The timer timer_thread calls is the first of the list.                  *)
LEMMA CallsFirst ==
  ASSUME IInv, [Next]_vars, NEW i \in 1..Len(timer_list),
         calling' = timer_list[i].timer, calling # calling'
  PROVE  ThreadPop /\ i = 1 /\ Head(timer_list) = timer_list[1]
<1>1. timer_list[i] \in Entry
  BY ElementOfSeq DEF IInv, TypeOK
<1>2. ThreadPop
  BY <1>1, OnlyPopCalls, MaxAssumption DEF Entry, Timers
<1>3. Len(timer_list) \in Nat \ {0} /\ Head(timer_list) = timer_list[1]
  BY <1>2, HeadFacts DEF ThreadPop
<1>4. timer_list[i].timer = timer_list[1].timer
  BY <1>2, <1>3 DEF ThreadPop
<1>5. 1 \in 1..Len(timer_list)
  BY <1>3
<1> QED
  BY <1>2, <1>3, <1>4, <1>5 DEF IInv, Distinct

(* If callers give less than a second in nanoseconds, timer_thread calls   *)
(* the timers in the order of the times they are due, but for one whose    *)
(* nanoseconds should have carried into its seconds, which overtakes only  *)
(* timers due less than a second before it.                                *)
THEOREM EarliestFirst ==
  ASSUME Normalised
  PROVE  Spec => FiresEarliest
<1> DEFINE First ==
      \A i, j \in 1..Len(timer_list) :
        (calling' = timer_list[i].timer /\ calling # calling') =>
          \/ Ticks(At(timer_list[i])) <= Ticks(At(timer_list[j]))
          \/ /\ timer_list[i].nanosecond >= NS
             /\ Ticks(At(timer_list[i])) < Ticks(At(timer_list[j])) + NS
<1>1. ASSUME IInv, Short, [Next]_vars PROVE First
  <2> SUFFICES ASSUME NEW i \in 1..Len(timer_list), NEW j \in 1..Len(timer_list),
                      calling' = timer_list[i].timer, calling # calling'
               PROVE  \/ Ticks(At(timer_list[i])) <= Ticks(At(timer_list[j]))
                      \/ /\ timer_list[i].nanosecond >= NS
                         /\ Ticks(At(timer_list[i])) < Ticks(At(timer_list[j])) + NS
    OBVIOUS
  <2>1. At(timer_list[i]) \in Times /\ At(timer_list[j]) \in Times
    BY <1>1, AtTime, ElementOfSeq DEF IInv, TypeOK
  <2>2. i = 1
    BY <1>1, CallsFirst
  <2>3. NotLater(At(timer_list[i]), At(timer_list[j]))
    <3>1. CASE j = 1
      BY <2>1, <2>2, <3>1, Order
    <3>2. CASE j # 1
      BY <1>1, <2>2, <3>2 DEF IInv, Sorted
    <3> QED
      BY <3>1, <3>2
  <2>4. At(timer_list[i])[2] = timer_list[i].nanosecond /\ timer_list[i].nanosecond < 2 * NS
    BY <1>1 DEF At, Short
  <2>5. \/ Ticks(At(timer_list[j])) >= Ticks(At(timer_list[i]))
        \/ /\ timer_list[i].nanosecond >= NS
           /\ Ticks(At(timer_list[j])) + NS > Ticks(At(timer_list[i]))
    BY <2>1, <2>3, <2>4, TicksPassed
  <2>6. Ticks(At(timer_list[i])) \in Int /\ Ticks(At(timer_list[j])) \in Int
    BY <2>1, NSAssumption DEF Ticks, Times
  <2> HIDE DEF Ticks
  <2> QED
    BY <2>5, <2>6, NSAssumption
<1>2. Init => Short
  BY NSAssumption DEF Init, Short
<1>3. IInv /\ Short /\ [Next]_vars => Short'
  BY NextShort
<1> QED
  BY <1>1, <1>2, <1>3, Invariance, PTL DEF Spec, FiresEarliest

(* If callers give less than a second in nanoseconds, no timer is called   *)
(* before its delay has passed, but for one whose nanoseconds should have  *)
(* carried into its seconds, which is early by less than a second.         *)
THEOREM DelaysKept ==
  ASSUME Normalised
  PROVE  Spec => DelayKept
<1> DEFINE Kept ==
      \A i \in 1..Len(timer_list) :
        (calling' = timer_list[i].timer /\ calling # calling') =>
          \/ Ticks(clock) >= Ticks(At(timer_list[i]))
          \/ timer_list[i].nanosecond >= NS /\ Ticks(clock) + NS > Ticks(At(timer_list[i]))
<1>1. ASSUME IInv, Short, [Next]_vars PROVE Kept
  <2> SUFFICES ASSUME NEW i \in 1..Len(timer_list),
                      calling' = timer_list[i].timer, calling # calling'
               PROVE  \/ Ticks(clock) >= Ticks(At(timer_list[i]))
                      \/ /\ timer_list[i].nanosecond >= NS
                         /\ Ticks(clock) + NS > Ticks(At(timer_list[i]))
    OBVIOUS
  <2>1. timer_list[i] \in Entry
    BY <1>1, ElementOfSeq DEF IInv, TypeOK
  <2>2. ThreadPop /\ i = 1 /\ Head(timer_list) = timer_list[1]
    BY <1>1, CallsFirst
  <2>3. NotLater(At(timer_list[i]), now) /\ NotLater(now, clock)
    BY <1>1, <2>2 DEF ThreadPop, HeadIsDue, IInv, NowPast
  <2>4. At(timer_list[i]) \in Times /\ now \in Times /\ clock \in Times /\ clock[2] < NS
    BY <1>1, <2>1, AtTime DEF IInv, TypeOK
  <2>5. NotLater(At(timer_list[i]), clock)
    BY <2>3, <2>4, Order
  <2>6. At(timer_list[i])[2] = timer_list[i].nanosecond /\ timer_list[i].nanosecond < 2 * NS
    BY <1>1 DEF At, Short
  <2> QED
    BY <2>4, <2>5, <2>6, TicksPassed
<1>2. Init => Short
  BY NSAssumption DEF Init, Short
<1>3. IInv /\ Short /\ [Next]_vars => Short'
  BY NextShort
<1> QED
  BY <1>1, <1>2, <1>3, Invariance, PTL DEF Spec, DelayKept
=============================================================================
