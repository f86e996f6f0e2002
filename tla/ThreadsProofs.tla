---------------------------- MODULE ThreadsProofs ----------------------------
(***************************************************************************)
(* Theorems about the thread manager, for any number of threads, any slice *)
(* and any sleeping times.  IInv of Threads is the inductive invariant.    *)
(***************************************************************************)
EXTENDS Threads, TLAPS

(* s lists each of the threads 1..n once.                                  *)
Lists(s, n) ==
  /\ \A i, j \in 1..Len(s) : s[i] = s[j] => i = j
  /\ \A t \in 1..n : \E i \in 1..Len(s) : s[i] = t
  /\ \A i \in 1..Len(s) : s[i] <= n

(* Rotate gives a sequence of the same length over the same set.           *)
LEMMA RotateType ==
  ASSUME NEW S, NEW s \in Seq(S), NEW k \in 1..Len(s)
  PROVE  /\ Rotate(s, k) \in Seq(S)
         /\ Len(Rotate(s, k)) = Len(s)
         /\ \A i \in 1..Len(s) :
              Rotate(s, k)[i] = s[IF i + k <= Len(s) THEN i + k ELSE i + k - Len(s)]
<1> DEFINE n == Len(s)
           f(i) == IF i + k <= n THEN i + k ELSE i + k - n
<1>1. n \in Nat /\ \A i \in 1..n : f(i) \in 1..n
  OBVIOUS
<1>2. \A i \in 1..n : s[f(i)] \in S
  BY <1>1
<1>3. Rotate(s, k) = [i \in 1..n |-> s[f(i)]]
  BY DEF Rotate
<1>4. QED
  BY <1>1, <1>2, <1>3

(* Rotating the ring neither loses nor doubles a thread.                   *)
LEMMA RotateLists ==
  ASSUME NEW S, NEW s \in Seq(S), NEW k \in 1..Len(s), NEW n \in Nat, Lists(s, n)
  PROVE  Lists(Rotate(s, k), n)
<1> DEFINE r == Rotate(s, k)
           f(i) == IF i + k <= Len(s) THEN i + k ELSE i + k - Len(s)
<1>1. Len(r) = Len(s) /\ Len(s) \in Nat /\ \A i \in 1..Len(s) : r[i] = s[f(i)]
  BY RotateType
<1>2. \A i \in 1..Len(s) : f(i) \in 1..Len(s)
  OBVIOUS
<1>3. \A i, j \in 1..Len(s) : f(i) = f(j) => i = j
  OBVIOUS
<1>4. \A i, j \in 1..Len(r) : r[i] = r[j] => i = j
  <2> SUFFICES ASSUME NEW i \in 1..Len(s), NEW j \in 1..Len(s), s[f(i)] = s[f(j)]
               PROVE  i = j
    BY <1>1
  <2> QED
    BY <1>2, <1>3 DEF Lists
<1>5. \A t \in 1..n : \E i \in 1..Len(r) : r[i] = t
  <2> TAKE t \in 1..n
  <2>1. PICK j \in 1..Len(s) : s[j] = t
    BY DEF Lists
  <2>2. PICK i \in 1..Len(s) : f(i) = j
    <3> DEFINE g == IF j > k THEN j - k ELSE j - k + Len(s)
    <3>1. g \in 1..Len(s) /\ f(g) = j
      OBVIOUS
    <3> QED
      BY <3>1
  <2> QED
    BY <1>1, <2>1, <2>2
<1>6. \A i \in 1..Len(r) : r[i] <= n
  <2> SUFFICES ASSUME NEW i \in 1..Len(s) PROVE s[f(i)] <= n
    BY <1>1
  <2> QED
    BY <1>2 DEF Lists
<1> QED
  BY <1>4, <1>5, <1>6 DEF Lists

(* kthread_create's link operation.                                        *)
LEMMA InsertLists ==
  ASSUME NEW S, S \subseteq Int, NEW s \in Seq(S), Len(s) >= 1,
         NEW n \in Nat, n + 1 \in S, Lists(s, n)
  PROVE  /\ InsertAfterHead(s, n + 1) \in Seq(S)
         /\ Len(InsertAfterHead(s, n + 1)) = Len(s) + 1
         /\ InsertAfterHead(s, n + 1)[1] = s[1]
         /\ Lists(InsertAfterHead(s, n + 1), n + 1)
<1> DEFINE r == InsertAfterHead(s, n + 1)
           e(i) == IF i = 1 THEN s[1] ELSE IF i = 2 THEN n + 1 ELSE s[i - 1]
<1>1. Len(s) \in Nat /\ \A i \in 1..Len(s) : s[i] \in S
  OBVIOUS
<1>2. \A i \in 1..Len(s) + 1 : e(i) \in S
  BY <1>1
<1>3. r = [i \in 1..Len(s) + 1 |-> e(i)]
  BY DEF InsertAfterHead
<1>4. r \in Seq(S) /\ Len(r) = Len(s) + 1 /\ \A i \in 1..Len(s) + 1 : r[i] = e(i)
  <2> HIDE DEF e, r
  <2>1. Len(s) + 1 \in Nat
    BY <1>1
  <2>2. [i \in 1..Len(s) + 1 |-> e(i)] \in Seq(S)
    BY <1>2, <2>1
  <2>3. Len([i \in 1..Len(s) + 1 |-> e(i)]) = Len(s) + 1
    BY <1>2, <2>1
  <2> QED
    BY <1>3, <2>2, <2>3
<1>5. \A i, j \in 1..Len(r) : r[i] = r[j] => i = j
  <2> SUFFICES ASSUME NEW i \in 1..Len(s) + 1, NEW j \in 1..Len(s) + 1, e(i) = e(j)
               PROVE  i = j
    BY <1>4
  <2>1. \A a, b \in 1..Len(s) : s[a] = s[b] => a = b
    BY DEF Lists
  <2>2. \A a \in 1..Len(s) : s[a] # n + 1
    <3> TAKE a \in 1..Len(s)
    <3>1. n + 1 <= n => FALSE
      OBVIOUS
    <3> QED
      BY <3>1 DEF Lists
  <2> QED
    BY <2>1, <2>2, <1>1
<1>6. \A t \in 1..n + 1 : \E i \in 1..Len(r) : r[i] = t
  <2> TAKE t \in 1..n + 1
  <2>1. CASE t = n + 1
    <3>1. 2 \in 1..Len(s) + 1 /\ e(2) = n + 1
      BY <1>1
    <3> QED
      BY <3>1, <2>1, <1>4
  <2>2. CASE t \in 1..n
    <3>1. PICK j \in 1..Len(s) : s[j] = t
      BY <2>2 DEF Lists
    <3>2. CASE j = 1
      BY <3>1, <3>2, <1>1, <1>4
    <3>3. CASE j # 1
      <4>1. j + 1 \in 1..Len(s) + 1 /\ e(j + 1) = s[j]
        BY <3>3, <1>1
      <4> QED
        BY <4>1, <3>1, <1>4
    <3> QED
      BY <3>2, <3>3
  <2> QED
    BY <2>1, <2>2
<1>7. \A i \in 1..Len(r) : r[i] <= n + 1
  <2> SUFFICES ASSUME NEW i \in 1..Len(s) + 1 PROVE e(i) <= n + 1
    BY <1>4
  <2>1. \A a \in 1..Len(s) : s[a] \in Int /\ s[a] <= n
    BY <1>1 DEF Lists
  <2>2. \A x \in Int : x <= n => x <= n + 1
    OBVIOUS
  <2> QED
    BY <2>1, <2>2, <1>1
<1> QED
  BY <1>1, <1>4, <1>5, <1>6, <1>7 DEF Lists

-----------------------------------------------------------------------------
(* What a status function must satisfy for a switch to be safe, k being    *)
(* the thread killed in handle_irq.                                        *)
Sound(st, k) ==
  /\ st \in [Tids -> SUBSET StatusBits]
  /\ \A t \in Tids : "SLEEP" \in st[t] =>
       st[t] = {"ALIVE", "SLEEP"} \/ (st[t] = {"SLEEP"} /\ t = k)

(* thread_switch: the ring keeps its threads; the scan ends if there is a  *)
(* runnable thread; the thread switched to is alive, neither suspended nor *)
(* asleep, or it is the sleeper killed in handle_irq.                      *)
LEMMA SwitchSafe ==
  ASSUME TypeOK, RingHoldsAll, hung = "no",
         NEW st, NEW wk, NEW k, Sound(st, k), ThreadSwitch(st, wk)
  PROVE  /\ ring' \in Seq(Tids) /\ Len(ring') = Len(ring) /\ Lists(ring', tid_counter)
         /\ status' \in [Tids -> SUBSET StatusBits]
         /\ hung' \in {"no", "spin", "scan"}
         /\ hung' = "scan" => \A t \in 1..tid_counter : st[t] # {"ALIVE"}
         /\ hung' = "no" =>
              /\ kthread_spinlock = 0
              /\ \/ status'[ring'[1]] = {"ALIVE"} /\ "ALIVE" \in st[ring'[1]]
                 \/ st[ring'[1]] = {"SLEEP"} /\ status'[ring'[1]] = {} /\ ring'[1] = k
         /\ hung' # "no" => ring' = ring /\ status' = st
         /\ \A t \in Tids : \/ status'[t] = st[t]
                            \/ /\ hung' = "no" /\ t = ring'[1]
                               /\ "SLEEP" \in st[t] /\ "SLEEP" \notin status'[t]
<1>0. /\ ring \in Seq(Tids) /\ Len(ring) = tid_counter /\ tid_counter \in Nat
      /\ tid_counter >= 1 /\ Tids \subseteq Int /\ 1..tid_counter \subseteq Tids
      /\ Lists(ring, tid_counter)
  BY MaxTidAssumption DEF TypeOK, RingHoldsAll, Lists, Tids
<1>1. ASSUME NEW t \in 1..tid_counter, st[t] = {"ALIVE"}
      PROVE  Candidates(st, wk) # {}
  <2>2. PICK i \in 1..Len(ring) : ring[i] = t
    BY <1>0 DEF Lists
  <2> DEFINE d == IF i = 1 THEN Len(ring) ELSE i - 1
  <2>3. d \in 1..Len(ring) /\ (IF 1 + d <= Len(ring) THEN 1 + d ELSE 1 + d - Len(ring)) = i
    BY <1>0
  <2> HIDE DEF d
  <2>4. Rotate(ring, d)[1] = t
    <3>1. 1 \in 1..Len(ring) /\ ring \in Seq(Tids)
      BY <1>0
    <3>2. Rotate(ring, d)[1] = ring[IF 1 + d <= Len(ring) THEN 1 + d ELSE 1 + d - Len(ring)]
      BY <3>1, <2>3, RotateType
    <3> QED
      BY <3>2, <2>2, <2>3
  <2>5. Schedulable(t, st, wk)
    BY <1>1 DEF Schedulable
  <2> QED
    BY <2>3, <2>4, <2>5 DEF Candidates
<1>2. CASE kthread_spinlock # 0
  BY <1>0, <1>2 DEF ThreadSwitch, Sound
<1>3. CASE kthread_spinlock = 0 /\ Candidates(st, wk) = {}
  <2>1. hung' = "scan" /\ status' = st /\ ring' = ring
    BY <1>3 DEF ThreadSwitch
  <2>2. \A t \in 1..tid_counter : st[t] # {"ALIVE"}
    BY <1>1, <1>3
  <2> QED
    BY <1>0, <2>1, <2>2 DEF Sound
<1>4. CASE kthread_spinlock = 0 /\ Candidates(st, wk) # {}
  <2>1. PICK d \in Candidates(st, wk) :
           /\ ring' = Rotate(ring, d)
           /\ status' = [st EXCEPT ![Rotate(ring, d)[1]] = @ \ {"SLEEP"}]
           /\ UNCHANGED hung
    BY <1>4 DEF ThreadSwitch
  <2>2. d \in 1..Len(ring) /\ Schedulable(Rotate(ring, d)[1], st, wk)
    BY DEF Candidates
  <2>3. ring' \in Seq(Tids) /\ Len(ring') = Len(ring) /\ Lists(ring', tid_counter)
    BY <1>0, <2>1, <2>2, RotateType, RotateLists
  <2> DEFINE c == ring'[1]
  <2>4. c \in Tids
    BY <2>3, <1>0
  <2>5. /\ st[c] \in SUBSET StatusBits
        /\ \/ st[c] \ {"SLEEP"} = {"ALIVE"} /\ "ALIVE" \in st[c]
           \/ st[c] = {"SLEEP"} /\ st[c] \ {"SLEEP"} = {} /\ c = k
        /\ st[c] \ {"SLEEP"} = st[c] \/ "SLEEP" \in st[c]
    <3>1. st[c] \in SUBSET StatusBits
      BY <2>4 DEF Sound
    <3>2. CASE "SLEEP" \in st[c]
      <4>1. st[c] = {"ALIVE", "SLEEP"} \/ (st[c] = {"SLEEP"} /\ c = k)
        BY <2>4, <3>2 DEF Sound
      <4> QED
        BY <3>1, <3>2, <4>1
    <3>3. CASE "SLEEP" \notin st[c]
      <4>1. "SUSPEND" \notin st[c] /\ "ALIVE" \in st[c]
        BY <2>1, <2>2, <3>3 DEF Schedulable
      <4> QED
        BY <3>1, <3>3, <4>1 DEF StatusBits
    <3> QED
      BY <3>2, <3>3, <3>1
  <2>6. status' = [st EXCEPT ![c] = st[c] \ {"SLEEP"}]
    BY <2>1, <2>4 DEF Sound
  <2>7. status' \in [Tids -> SUBSET StatusBits] /\ status'[c] = st[c] \ {"SLEEP"}
    <3>1. st[c] \ {"SLEEP"} \in SUBSET StatusBits
      BY <2>5
    <3> QED
      BY <2>4, <2>6, <3>1 DEF Sound
  <2>8. \A t \in Tids : \/ status'[t] = st[t]
                        \/ t = c /\ "SLEEP" \in st[t] /\ "SLEEP" \notin status'[t]
    <3> TAKE t \in Tids
    <3>1. CASE t # c
      <4> DEFINE x == st[c] \ {"SLEEP"}
      <4>1. status' = [st EXCEPT ![c] = x] /\ st \in [Tids -> SUBSET StatusBits]
        BY <2>6 DEF Sound
      <4>2. c \in Tids /\ DOMAIN st = Tids
        BY <2>4, <4>1
      <4> HIDE DEF x, c
      <4> QED
        BY <3>1, <4>1, <4>2
    <3>2. CASE t = c
      <4>1. "SLEEP" \notin status'[c]
        BY <2>7
      <4>2. status'[c] = st[c] \/ "SLEEP" \in st[c]
        BY <2>5, <2>7
      <4>3. \/ status'[c] = st[c]
            \/ "SLEEP" \in st[c] /\ "SLEEP" \notin status'[c]
        BY <4>1, <4>2
      <4> HIDE DEF c
      <4> QED
        BY <3>2, <4>3, Zenon
    <3> QED
      BY <3>1, <3>2
  <2> QED
    BY <1>4, <2>1, <2>3, <2>5, <2>7, <2>8
<1> QED
  BY <1>2, <1>3, <1>4 DEF TypeOK

-----------------------------------------------------------------------------
(* What IInv says of the thread executing.                                 *)
LEMMA CurrentFacts ==
  ASSUME IInv
  PROVE  /\ current \in Tids /\ current \in 1..tid_counter
         /\ tid_counter \in Nat /\ tid_counter <= MaxTid /\ Len(ring) = tid_counter
         /\ ring \in Seq(Tids) /\ Len(ring) >= 1
         /\ Tids \subseteq Int /\ 1 \in Tids /\ 0 \notin Tids
         /\ Lists(ring, tid_counter)
         /\ pc[current] \notin {"body", "unlock"} => kthread_spinlock = 0
<1>1. /\ ring \in Seq(Tids) /\ Len(ring) = tid_counter /\ tid_counter \in 1..MaxTid
      /\ MaxTid \in Nat /\ MaxTid >= 4
  BY MaxTidAssumption DEF IInv, TypeOK, Tids
<1>2. Len(ring) >= 1 /\ 1 \in 1..Len(ring) /\ Tids \subseteq Int /\ 1 \in Tids /\ 0 \notin Tids
  BY <1>1 DEF Tids
<1>3. current \in Tids
  BY <1>1, <1>2 DEF current
<1>4. Lists(ring, tid_counter)
  BY DEF IInv, RingHoldsAll, Lists
<1>5. current <= tid_counter
  BY <1>2, <1>4 DEF current, Lists
<1>6. current \in 1..tid_counter
  BY <1>1, <1>3, <1>5 DEF Tids
<1>7. pc[current] \notin {"body", "unlock"} => kthread_spinlock = 0
  BY <1>3 DEF IInv, HolderIsCurrent
<1> QED
  BY <1>1, <1>2, <1>3, <1>4, <1>6, <1>7

(* What IInv says of the status bits.                                      *)
LEMMA StatusSound ==
  ASSUME IInv
  PROVE  Sound(status, kirq_spinlock)
BY DEF Sound, IInv, TypeOK, SleepersAlive

(* The invariant holds initially.                                          *)
LEMMA InitIInv == Init => IInv
<1> SUFFICES ASSUME Init PROVE IInv
  OBVIOUS
<1>0. MaxTid \in Nat /\ MaxTid >= 4 /\ 1 \in Tids /\ 0 \notin Tids
  BY MaxTidAssumption DEF Tids
<1>1. ring \in Seq(Tids) /\ Len(ring) = 1 /\ ring[1] = 1 /\ current = 1
  BY <1>0 DEF Init, current
<1>2. TypeOK
  <2>1. status \in [Tids -> SUBSET StatusBits]
    BY DEF Init, StatusBits
  <2>2. NoCall \in Calls
    BY <1>0, MaxSleepAssumption DEF NoCall, Calls, AllOps
  <2> QED
    BY <1>0, <1>1, <2>1, <2>2, ReloadAssumption, MaxSleepAssumption
       DEF TypeOK, Init, Tids, Stages
<1>3. RingHoldsAll
  BY <1>1 DEF RingHoldsAll, Init
<1>4. HolderIsCurrent /\ ScanTerminates
  BY <1>0 DEF HolderIsCurrent, ScanTerminates, Init
<1>5. SleepersAlive /\ CurrentRunnable /\ LockerDead
  BY <1>0, <1>1 DEF SleepersAlive, CurrentRunnable, LockerDead, Init
<1>6. Boot /\ Unborn
  BY <1>0 DEF Boot, Unborn, Init, Reserved
<1> QED
  BY <1>2, <1>3, <1>4, <1>5, <1>6 DEF IInv

-----------------------------------------------------------------------------
(* Actions that leave the ring alone and keep the thread executing.        *)

(* What a step of a thread other than idle, and than init before its end,  *)
(* does to itself cannot disturb the facts about the other threads.        *)
LEMMA FrameOthers ==
  ASSUME IInv, current # idle, current = 1 => boot = "done", current # kirq_spinlock,
         \A u \in Tids : u # current => pc'[u] = pc[u] /\ status'[u] = status[u],
         "SLEEP" \in status'[current] => status'[current] = {"ALIVE", "SLEEP"},
         hung = "no", current' = current,
         UNCHANGED <<tid_counter, boot, idle, kirq_spinlock>>
  PROVE  SleepersAlive' /\ LockerDead' /\ Boot' /\ Unborn'
<1>0. /\ tid_counter \in Nat /\ tid_counter <= MaxTid /\ MaxTid \in Nat
      /\ 1 \in Tids /\ Tids = 1..MaxTid /\ current \in 1..tid_counter
  BY CurrentFacts, MaxTidAssumption DEF Tids
<1>1. Boot'
  <2>0. Boot
    BY DEF IInv
  <2>1. idle # 0 => idle \in Tids
    BY <1>0 DEF IInv, Boot
  <2>2. idle = 0 => current # 1
    BY <2>0 DEF Boot
  <2>3. /\ idle = 0 => status'[1] = status[1]
        /\ idle # 0 => status'[idle] = status[idle] /\ pc'[idle] = pc[idle]
        /\ boot # "done" => pc'[1] = pc[1]
    BY <1>0, <2>1, <2>2
  <2>4. idle = 0 <=> boot \notin {"return", "done"}
    BY <2>0 DEF Boot
  <2>5. idle = 0 => \/ status[1] = {"ALIVE"}
                    \/ kirq_spinlock = 1 /\ status[1] = {}
    BY <2>0 DEF Boot
  <2>6. boot # "done" => pc[1] \in {"run", "int30"}
    BY <2>0 DEF Boot
  <2>7. idle # 0 => /\ idle \in 2..tid_counter
                    /\ status[idle] = {"ALIVE"} \/ (kirq_spinlock = idle /\ status[idle] = {})
                    /\ pc[idle] = "run"
    BY <2>0 DEF Boot
  <2> QED
    BY <2>2, <2>3, <2>4, <2>5, <2>6, <2>7 DEF Boot
<1>2. Unborn'
  <2>1. Reserved' = Reserved
    BY DEF Reserved
  <2>2. \A u \in Tids : u > tid_counter => u # current
    BY <1>0
  <2> QED
    BY <2>1, <2>2 DEF IInv, Unborn
<1>3. SleepersAlive'
  <2> SUFFICES ASSUME NEW t \in Tids, "SLEEP" \in status'[t]
               PROVE  \/ status'[t] = {"ALIVE", "SLEEP"}
                      \/ status'[t] = {"SLEEP"} /\ kirq_spinlock' = t /\ pc'[t] = "int30"
    BY DEF SleepersAlive
  <2>1. CASE t = current
    BY <2>1
  <2>2. CASE t # current
    BY <2>2 DEF IInv, SleepersAlive
  <2> QED
    BY <2>1, <2>2
<1>4. LockerDead'
  <2>1. kirq_spinlock # 0 => kirq_spinlock \in Tids /\ kirq_spinlock \in 1..tid_counter
                              /\ "ALIVE" \notin status[kirq_spinlock]
    BY <1>0 DEF IInv, LockerDead
  <2>2. kirq_spinlock # 0 => status'[kirq_spinlock] = status[kirq_spinlock]
    BY <2>1
  <2> QED
    BY <2>1, <2>2 DEF LockerDead
<1> QED
  BY <1>1, <1>2, <1>3, <1>4

LEMMA EnableStep ==
  ASSUME IInv, BootEnable
  PROVE  IInv'
<1>1. current' = current /\ boot = "sti" /\ boot' = "module" /\ idle = 0
  BY DEF BootEnable, current, IInv, Boot
<1>2. TypeOK' /\ RingHoldsAll' /\ ScanTerminates' /\ HolderIsCurrent'
      /\ SleepersAlive' /\ CurrentRunnable'
  BY <1>1 DEF IInv, BootEnable, TypeOK, RingHoldsAll, ScanTerminates,
     HolderIsCurrent, SleepersAlive, CurrentRunnable, Stages
<1>3. Boot' /\ Unborn' /\ LockerDead'
  BY <1>1 DEF IInv, BootEnable, Boot, Unborn, Reserved, LockerDead
<1> QED
  BY <1>2, <1>3 DEF IInv

LEMMA ReturnStep ==
  ASSUME IInv, BootReturn
  PROVE  IInv'
<1>0. /\ current' = current /\ current = 1 /\ 1 \in Tids /\ pc[1] = "run"
      /\ idle # 0 /\ idle # 1 /\ kthread_spinlock = 0 /\ 0 \notin Tids /\ hung = "no"
      /\ kirq_spinlock # 1
  BY CurrentFacts DEF BootReturn, current, IInv, Boot, Running
<1>1. pc' = [pc EXCEPT ![1] = "lock"] /\ boot' = "done"
  BY DEF BootReturn
<1>2. TypeOK'
  <2>1. [op |-> "kill", tid |-> "own", ticks |-> 0] \in Calls
    BY <1>0, MaxSleepAssumption DEF Calls, AllOps
  <2> QED
    BY <2>1, <1>0 DEF IInv, BootReturn, TypeOK, Stages
<1>3. RingHoldsAll' /\ ScanTerminates' /\ LockerDead'
  BY DEF IInv, BootReturn, RingHoldsAll, ScanTerminates, LockerDead
<1>a. SleepersAlive'
  BY <1>0, <1>1 DEF IInv, BootReturn, SleepersAlive, CurrentRunnable, TypeOK
<1>4. HolderIsCurrent' /\ CurrentRunnable'
  BY <1>0, <1>1 DEF IInv, BootReturn, HolderIsCurrent, CurrentRunnable, TypeOK
<1>5. Boot' /\ Unborn'
  <2>1. tid_counter >= 1
    BY CurrentFacts
  <2> QED
    BY <1>0, <1>1, <2>1 DEF IInv, BootReturn, Boot, Unborn, TypeOK, Reserved
<1> QED
  BY <1>2, <1>3, <1>a, <1>4, <1>5 DEF IInv

LEMMA YieldStep ==
  ASSUME IInv, Yield
  PROVE  IInv'
<1>0. /\ current' = current /\ current \in Tids /\ pc[current] = "run"
      /\ current # 1 /\ current # idle /\ kthread_spinlock = 0 /\ 0 \notin Tids
      /\ current \in 1..tid_counter /\ kirq_spinlock # current /\ hung = "no"
      /\ status[current] = {"ALIVE"}
  BY CurrentFacts DEF Yield, current, Running, Worker, IInv, CurrentRunnable
<1>1. pc' = [pc EXCEPT ![current] = "int30"]
  BY DEF Yield
<1>2. TypeOK' /\ RingHoldsAll' /\ ScanTerminates'
  BY <1>0 DEF IInv, Yield, TypeOK, RingHoldsAll, ScanTerminates
<1>3. HolderIsCurrent' /\ CurrentRunnable'
  BY <1>0, <1>1 DEF IInv, Yield, HolderIsCurrent, CurrentRunnable, TypeOK
<1>4. SleepersAlive' /\ LockerDead' /\ Boot' /\ Unborn'
  <2>1. UNCHANGED <<status, tid_counter, boot, idle, kirq_spinlock>>
    BY DEF Yield
  <2>2. \A u \in Tids : u # current => pc'[u] = pc[u]
    BY <1>0, <1>1 DEF IInv, TypeOK
  <2>3. current # idle /\ (current = 1 => boot = "done")
    BY <1>0, <1>1
  <2> QED
    BY <1>0, <2>1, <2>2, <2>3, FrameOthers
<1> QED
  BY <1>2, <1>3, <1>4 DEF IInv

LEMMA EnterStep ==
  ASSUME IInv, NEW c \in Calls, Enter(c)
  PROVE  IInv'
<1>0. /\ current' = current /\ current \in Tids /\ pc[current] = "run"
      /\ current # 1 /\ current # idle /\ kthread_spinlock = 0 /\ 0 \notin Tids
      /\ current \in 1..tid_counter /\ kirq_spinlock # current /\ hung = "no"
      /\ status[current] = {"ALIVE"}
  BY CurrentFacts DEF Enter, current, Running, Worker, IInv, CurrentRunnable
<1>1. pc' = [pc EXCEPT ![current] = "lock"]
  BY DEF Enter
<1>2. TypeOK' /\ RingHoldsAll' /\ ScanTerminates'
  BY <1>0 DEF IInv, Enter, TypeOK, RingHoldsAll, ScanTerminates
<1>3. HolderIsCurrent' /\ CurrentRunnable'
  BY <1>0, <1>1 DEF IInv, Enter, HolderIsCurrent, CurrentRunnable, TypeOK
<1>4. SleepersAlive' /\ LockerDead' /\ Boot' /\ Unborn'
  <2>1. UNCHANGED <<status, tid_counter, boot, idle, kirq_spinlock>>
    BY DEF Enter
  <2>2. \A u \in Tids : u # current => pc'[u] = pc[u]
    BY <1>0, <1>1 DEF IInv, TypeOK
  <2>3. current # idle /\ (current = 1 => boot = "done")
    BY <1>0, <1>1
  <2> QED
    BY <1>0, <2>1, <2>2, <2>3, FrameOthers
<1> QED
  BY <1>2, <1>3, <1>4 DEF IInv

LEMMA SpinLockStep ==
  ASSUME IInv, SpinLock
  PROVE  IInv'
<1>0. /\ current' = current /\ current \in Tids /\ pc[current] = "lock"
      /\ kthread_spinlock = 0 /\ 0 \notin Tids /\ current \in 1..tid_counter
      /\ kirq_spinlock # current /\ hung = "no"
  BY CurrentFacts DEF SpinLock, current, Running
<1>1. pc' = [pc EXCEPT ![current] = "body"] /\ kthread_spinlock' = current
  BY DEF SpinLock
<1>2. current # idle /\ (current = 1 => boot = "done")
  BY <1>0 DEF IInv, Boot
<1>3. TypeOK' /\ RingHoldsAll' /\ ScanTerminates'
  <2>1. TypeOK'
    BY <1>0, <1>1 DEF IInv, SpinLock, TypeOK, Tids
  <2>2. RingHoldsAll' /\ ScanTerminates'
    BY DEF IInv, SpinLock, RingHoldsAll, ScanTerminates
  <2> QED
    BY <2>1, <2>2
<1>4. HolderIsCurrent' /\ CurrentRunnable'
  BY <1>0, <1>1 DEF IInv, SpinLock, HolderIsCurrent, CurrentRunnable, TypeOK
<1>5. SleepersAlive' /\ LockerDead' /\ Boot' /\ Unborn'
  <2>1. UNCHANGED <<status, tid_counter, boot, idle, kirq_spinlock>>
    BY DEF SpinLock
  <2>2. \A u \in Tids : u # current => pc'[u] = pc[u]
    BY <1>0, <1>1 DEF IInv, TypeOK
  <2>3. current # idle /\ (current = 1 => boot = "done")
    BY <1>0, <1>1, <1>2
  <2>4. "SLEEP" \in status'[current] => status'[current] = {"ALIVE", "SLEEP"}
    BY <1>0, <2>1 DEF IInv, SleepersAlive
  <2> QED
    BY <1>0, <2>1, <2>2, <2>3, <2>4, FrameOthers
<1> QED
  BY <1>3, <1>4, <1>5 DEF IInv

LEMMA UnlockStep ==
  ASSUME IInv, Unlock
  PROVE  IInv'
<1>0. /\ current' = current /\ current \in Tids /\ pc[current] = "unlock"
      /\ kthread_spinlock = current /\ 0 \notin Tids /\ current \in 1..tid_counter
      /\ kirq_spinlock # current /\ hung = "no"
      /\ NoCall \in Calls /\ hung = "no" /\ hung' = "no"
  BY CurrentFacts, MaxSleepAssumption
     DEF Unlock, current, Running, IInv, HolderIsCurrent, NoCall, Calls, AllOps
<1>1. /\ pc' = [pc EXCEPT ![current] =
                  IF call[current].op = "attribute" THEN "run" ELSE "int30"]
      /\ kthread_spinlock' = 0
  BY DEF Unlock
<1>2. current # idle /\ (current = 1 => boot = "done")
  BY <1>0 DEF IInv, Boot
<1>3. TypeOK' /\ RingHoldsAll' /\ ScanTerminates'
  <2>1. TypeOK'
    <3>1. pc' \in [Tids -> {"run", "lock", "body", "unlock", "int30"}]
      BY <1>0, <1>1 DEF IInv, TypeOK
    <3>2. call' \in [Tids -> Calls] /\ kthread_spinlock' \in 0..MaxTid
      BY <1>0, MaxTidAssumption DEF IInv, TypeOK, Unlock
    <3> QED
      BY <3>1, <3>2 DEF IInv, Unlock, TypeOK
  <2>2. RingHoldsAll' /\ ScanTerminates'
    BY DEF IInv, Unlock, RingHoldsAll, ScanTerminates
  <2> QED
    BY <2>1, <2>2
<1>4. HolderIsCurrent'
  BY <1>0, <1>1 DEF IInv, Unlock, HolderIsCurrent, TypeOK
<1>5. CurrentRunnable'
  BY <1>0, <1>1 DEF IInv, Unlock, CurrentRunnable, TypeOK
<1>6. SleepersAlive' /\ LockerDead' /\ Boot' /\ Unborn'
  <2>1. UNCHANGED <<status, tid_counter, boot, idle, kirq_spinlock>>
    BY DEF Unlock
  <2>2. \A u \in Tids : u # current => pc'[u] = pc[u]
    BY <1>0, <1>1 DEF IInv, TypeOK
  <2>3. current # idle /\ (current = 1 => boot = "done")
    BY <1>0, <1>1, <1>2
  <2>4. "SLEEP" \in status'[current] => status'[current] = {"ALIVE", "SLEEP"}
    BY <1>0, <2>1 DEF IInv, SleepersAlive
  <2> QED
    BY <1>0, <2>1, <2>2, <2>3, <2>4, FrameOthers
<1> QED
  BY <1>3, <1>4, <1>5, <1>6 DEF IInv

LEMMA BodyStep ==
  ASSUME IInv, Body
  PROVE  IInv'
<1>0. /\ current' = current /\ current \in Tids /\ pc[current] = "body"
      /\ kthread_spinlock = current /\ 0 \notin Tids /\ current \in 1..tid_counter
      /\ hung = "no" /\ status[current] = {"ALIVE"} /\ call[current] \in Calls
      /\ kirq_spinlock # current
  BY CurrentFacts
     DEF Body, current, Running, IInv, HolderIsCurrent, CurrentRunnable, TypeOK
<1>1. current # idle /\ (current = 1 => boot = "done") 
  BY <1>0 DEF IInv, Boot
<1>2. CASE call[current].tid # "own"
  <2>1. hung' = "fault" /\ UNCHANGED <<ring, status, wake, pc, call, kthread_spinlock,
          kirq_spinlock, tid_counter, thread_ticks, boot, idle>>
    BY <1>2 DEF Body
  <2>a. TypeOK'
    BY <2>1 DEF IInv, TypeOK
  <2>b. RingHoldsAll' /\ ScanTerminates' /\ CurrentRunnable'
    BY <2>1, <1>0 DEF IInv, RingHoldsAll, ScanTerminates, CurrentRunnable
  <2>2. SleepersAlive' /\ HolderIsCurrent'
    BY <2>1, <1>0 DEF IInv, SleepersAlive, HolderIsCurrent
  <2>3. Boot' /\ Unborn'
    BY <2>1 DEF IInv, Boot, Unborn, Reserved
  <2>4. LockerDead'
    BY <2>1 DEF LockerDead
  <2> QED
    BY <2>a, <2>b, <2>2, <2>3, <2>4 DEF IInv
<1>3. CASE call[current].tid = "own"
  <2> DEFINE op == call[current].op
             ns == NewStatus(op, {"ALIVE"})
  <2>1. /\ status' = [status EXCEPT ![current] = ns]
        /\ wake' = [wake EXCEPT ![current] =
                      IF op = "sleep" THEN call[current].ticks ELSE @]
        /\ pc' = [pc EXCEPT ![current] = "unlock"]
        /\ UNCHANGED <<hung, ring, call, kthread_spinlock, kirq_spinlock, tid_counter,
                       thread_ticks, boot, idle>>
    BY <1>0, <1>3 DEF Body, IInv, TypeOK
  <2>2. op \in AllOps /\ call[current].ticks \in 0..MaxSleep
    BY <1>0 DEF Calls
  <2>3. /\ ns \in SUBSET StatusBits
        /\ "SLEEP" \in ns => ns = {"ALIVE", "SLEEP"}
        /\ op = "attribute" => ns = {"ALIVE"}
    <3>1. CASE op = "kill"
      BY <3>1 DEF NewStatus, StatusBits
    <3>2. CASE op = "suspend"
      BY <3>2 DEF NewStatus, StatusBits
    <3>3. CASE op = "resume"
      BY <3>3 DEF NewStatus, StatusBits
    <3>4. CASE op = "sleep"
      BY <3>4 DEF NewStatus, StatusBits
    <3>5. CASE op = "attribute"
      BY <3>5 DEF NewStatus, StatusBits
    <3> QED
      BY <2>2, <3>1, <3>2, <3>3, <3>4, <3>5 DEF AllOps
  <2> HIDE DEF ns
  <2>4. TypeOK' /\ RingHoldsAll' /\ ScanTerminates'
    BY <1>0, <2>1, <2>2, <2>3 DEF IInv, TypeOK, RingHoldsAll, ScanTerminates
  <2>5. HolderIsCurrent'
    BY <1>0, <2>1 DEF IInv, TypeOK, HolderIsCurrent
  <2>6. CurrentRunnable'
    BY <1>0, <2>1, <2>3 DEF IInv, TypeOK, CurrentRunnable
  <2>7. SleepersAlive' /\ LockerDead' /\ Boot' /\ Unborn'
    <3>1. \A u \in Tids : u # current => pc'[u] = pc[u] /\ status'[u] = status[u]
      BY <1>0, <2>1 DEF IInv, TypeOK
    <3>2. status'[current] = ns
      BY <1>0, <2>1 DEF IInv, TypeOK
    <3> QED
      BY <1>0, <1>1, <2>1, <2>3, <3>1, <3>2, FrameOthers
  <2> QED
    BY <2>4, <2>5, <2>6, <2>7 DEF IInv
<1> QED
  BY <1>2, <1>3

-----------------------------------------------------------------------------
(* Actions that create a thread.                                           *)

LEMMA CreateEffect ==
  ASSUME IInv, Running("run"), tid_counter < MaxTid, KthreadCreate
  PROVE  /\ ring' \in Seq(Tids) /\ Len(ring') = tid_counter + 1
         /\ current' = current /\ Lists(ring', tid_counter + 1)
         /\ tid_counter' = tid_counter + 1 /\ tid_counter + 1 \in Tids
         /\ current # tid_counter + 1 /\ 1 # tid_counter + 1
         /\ status' = [status EXCEPT ![tid_counter + 1] = {"ALIVE"}]
         /\ pc' = [pc EXCEPT ![current] = "int30"]
         /\ hung = "no" /\ hung' = "no" /\ kthread_spinlock = 0 /\ kirq_spinlock # current
<1>1. kthread_spinlock = 0 /\ hung = "no" /\ kirq_spinlock # current
  BY CurrentFacts DEF Running
<1>2. /\ tid_counter' = tid_counter + 1
      /\ ring' = InsertAfterHead(ring, tid_counter + 1)
      /\ status' = [status EXCEPT ![tid_counter + 1] = {"ALIVE"}]
      /\ pc' = [pc EXCEPT ![current] = "int30"]
      /\ hung' = hung
  BY <1>1 DEF KthreadCreate
<1>3. /\ tid_counter \in Nat /\ ring \in Seq(Tids) /\ Len(ring) >= 1 /\ Tids \subseteq Int
      /\ Lists(ring, tid_counter) /\ Len(ring) = tid_counter /\ current \in 1..tid_counter
  BY CurrentFacts
<1>4. tid_counter + 1 \in Tids /\ current # tid_counter + 1 /\ 1 # tid_counter + 1
  BY <1>3, MaxTidAssumption DEF Tids
<1>5. /\ ring' \in Seq(Tids) /\ Len(ring') = tid_counter + 1 /\ ring'[1] = ring[1]
      /\ Lists(ring', tid_counter + 1)
  BY <1>2, <1>3, <1>4, InsertLists
<1> QED
  BY <1>1, <1>2, <1>4, <1>5 DEF current

LEMMA CreateKeeps ==
  ASSUME IInv, Running("run"), tid_counter < MaxTid, KthreadCreate,
         UNCHANGED <<wake, call, kthread_spinlock, kirq_spinlock, thread_ticks>>,
         boot' \in Stages, idle' \in 0..MaxTid
  PROVE  /\ TypeOK' /\ RingHoldsAll' /\ ScanTerminates' /\ HolderIsCurrent'
         /\ SleepersAlive' /\ CurrentRunnable' /\ LockerDead'
<1>0. current \in Tids /\ pc[current] = "run"
  BY CurrentFacts DEF Running
<1>a. /\ status \in [Tids -> SUBSET StatusBits] /\ tid_counter + 1 \in Tids
      /\ status' = [status EXCEPT ![tid_counter + 1] = {"ALIVE"}]
  BY CreateEffect DEF IInv, TypeOK
<1>1. TypeOK'
  <2>1. status' \in [Tids -> SUBSET StatusBits]
    <3>1. {"ALIVE"} \in SUBSET StatusBits
      BY DEF StatusBits
    <3> QED
      BY <1>a, <3>1
  <2>2. pc' \in [Tids -> {"run", "lock", "body", "unlock", "int30"}]
    BY CreateEffect, <1>0 DEF IInv, TypeOK
  <2>3. ring' \in Seq(Tids) /\ Len(ring') = tid_counter' /\ tid_counter' \in Tids
    BY CreateEffect
  <2> QED
    BY <2>1, <2>2, <2>3, CreateEffect DEF IInv, TypeOK
<1>2. RingHoldsAll' /\ ScanTerminates'
  <2>1. Lists(ring', tid_counter') /\ hung' = "no"
    BY CreateEffect
  <2> QED
    BY <2>1 DEF RingHoldsAll, ScanTerminates, Lists
<1>3. HolderIsCurrent'
  BY CreateEffect, <1>0 DEF IInv, HolderIsCurrent, TypeOK
<1>4. SleepersAlive'
  <2> SUFFICES ASSUME NEW t \in Tids, "SLEEP" \in status'[t]
               PROVE  \/ status'[t] = {"ALIVE", "SLEEP"}
                      \/ status'[t] = {"SLEEP"} /\ kirq_spinlock' = t /\ pc'[t] = "int30"
    BY DEF SleepersAlive
  <2>1. t # tid_counter + 1
    BY <1>a
  <2>2. kirq_spinlock = t => pc'[t] = pc[t]
    BY <1>0, CreateEffect DEF IInv, TypeOK
  <2> QED
    BY <1>a, <2>1, <2>2 DEF IInv, SleepersAlive
<1>5. CurrentRunnable'
  <2>1. pc'[current'] = "int30" /\ kirq_spinlock' # current'
    BY CreateEffect, <1>0 DEF IInv, TypeOK
  <2> QED
    BY <2>1 DEF CurrentRunnable
<1>6. LockerDead'
  <2>1. /\ hung = "no" /\ tid_counter \in Nat /\ tid_counter' = tid_counter + 1
        /\ 1..tid_counter \subseteq Tids
    BY CreateEffect, CurrentFacts, MaxTidAssumption DEF Tids
  <2>2. kirq_spinlock # 0 => /\ kirq_spinlock \in 1..tid_counter
                             /\ "ALIVE" \notin status[kirq_spinlock]
    BY <2>1 DEF IInv, LockerDead
  <2>3. kirq_spinlock # 0 => /\ kirq_spinlock \in 1..tid_counter + 1
                             /\ kirq_spinlock # tid_counter + 1 /\ kirq_spinlock \in Tids
    BY <2>1, <2>2
  <2> QED
    BY <1>a, <2>1, <2>2, <2>3 DEF LockerDead
<1> QED
  BY <1>1, <1>2, <1>3, <1>4, <1>5, <1>6

LEMMA TimerStep ==
  ASSUME IInv, BootTimer
  PROVE  IInv'
<1>0. /\ Running("run") /\ current = 1 /\ boot = "ktimer_init" /\ KthreadCreate
      /\ boot' = "sti" /\ UNCHANGED <<wake, call, kthread_spinlock, kirq_spinlock, thread_ticks, idle>>
  BY DEF BootTimer
<1>1. /\ Reserved = 3 /\ Reserved' = 2 /\ tid_counter + 3 <= MaxTid
      /\ tid_counter \in Nat /\ MaxTid \in Nat /\ 1 \in Tids
  BY <1>0, CurrentFacts, MaxTidAssumption DEF Reserved, IInv, Unborn
<1>2. idle = 0 /\ status[1] = {"ALIVE"}
  BY <1>0 DEF IInv, Boot, Running
<1>3. /\ tid_counter' = tid_counter + 1 /\ 1 # tid_counter + 1
      /\ status' = [status EXCEPT ![tid_counter + 1] = {"ALIVE"}]
      /\ pc' = [pc EXCEPT ![1] = "int30"]
  BY <1>0, <1>1, CreateEffect
<1>4. /\ TypeOK' /\ RingHoldsAll' /\ ScanTerminates' /\ HolderIsCurrent'
      /\ SleepersAlive' /\ CurrentRunnable' /\ LockerDead'
  BY <1>0, <1>1, <1>2, CreateKeeps DEF Stages
<1>5. Boot'
  BY <1>0, <1>1, <1>2, <1>3 DEF Boot, IInv, TypeOK
<1>6. Unborn'
  BY <1>0, <1>1, <1>3, CurrentFacts DEF Unborn, IInv, TypeOK, Tids
<1> QED
  BY <1>4, <1>5, <1>6 DEF IInv

LEMMA ModuleStep ==
  ASSUME IInv, BootModule
  PROVE  IInv'
<1>0. /\ Running("run") /\ current = 1 /\ boot = "module" /\ boot' = "idle"
      /\ UNCHANGED <<wake, call, kthread_spinlock, kirq_spinlock, thread_ticks, idle>>
  BY DEF BootModule
<1>1. /\ Reserved = 2 /\ Reserved' = 1 /\ tid_counter + 2 <= MaxTid
      /\ tid_counter \in Nat /\ MaxTid \in Nat /\ 1 \in Tids
  BY <1>0, CurrentFacts, MaxTidAssumption DEF Reserved, IInv, Unborn
<1>2. idle = 0 /\ status[1] = {"ALIVE"}
  BY <1>0 DEF IInv, Boot, Running
<1>3. CASE KthreadCreate
  <2>1. /\ tid_counter' = tid_counter + 1 /\ 1 # tid_counter + 1
        /\ status' = [status EXCEPT ![tid_counter + 1] = {"ALIVE"}]
        /\ pc' = [pc EXCEPT ![1] = "int30"]
    BY <1>0, <1>1, <1>3, CreateEffect
  <2>2. /\ TypeOK' /\ RingHoldsAll' /\ ScanTerminates' /\ HolderIsCurrent'
        /\ SleepersAlive' /\ CurrentRunnable' /\ LockerDead'
    BY <1>0, <1>1, <1>2, <1>3, CreateKeeps DEF Stages
  <2>3. Boot'
    BY <1>0, <1>1, <1>2, <2>1 DEF Boot, IInv, TypeOK
  <2>4. Unborn'
    BY <1>0, <1>1, <2>1, CurrentFacts DEF Unborn, IInv, TypeOK, Tids
  <2> QED
    BY <2>2, <2>3, <2>4 DEF IInv
<1>4. CASE UNCHANGED <<ring, status, pc, tid_counter, hung>>
  <2>1. TypeOK'
    BY <1>0, <1>4 DEF IInv, TypeOK, Stages
  <2>2. RingHoldsAll' /\ ScanTerminates' /\ HolderIsCurrent' /\ SleepersAlive'
        /\ CurrentRunnable' /\ LockerDead'
    BY <1>0, <1>4 DEF IInv, RingHoldsAll, ScanTerminates, HolderIsCurrent, SleepersAlive,
       CurrentRunnable, LockerDead, current
  <2>3. Boot'
    BY <1>0, <1>2, <1>4 DEF IInv, Boot
  <2>4. Unborn'
    BY <1>1, <1>4 DEF IInv, Unborn
  <2> QED
    BY <2>1, <2>2, <2>3, <2>4 DEF IInv
<1> QED
  BY <1>3, <1>4 DEF BootModule

LEMMA IdleStep ==
  ASSUME IInv, BootIdle
  PROVE  IInv'
<1>0. /\ Running("run") /\ current = 1 /\ boot = "idle" /\ KthreadCreate
      /\ boot' = "return" /\ idle' = tid_counter + 1
      /\ UNCHANGED <<wake, call, kthread_spinlock, kirq_spinlock, thread_ticks>>
  BY DEF BootIdle
<1>1. /\ Reserved = 1 /\ Reserved' = 0 /\ tid_counter + 1 <= MaxTid
      /\ tid_counter \in Nat /\ tid_counter >= 1 /\ MaxTid \in Nat /\ 1 \in Tids
  BY <1>0, CurrentFacts, MaxTidAssumption DEF Reserved, IInv, Unborn
<1>2. /\ tid_counter' = tid_counter + 1 /\ 1 # tid_counter + 1 /\ tid_counter + 1 \in Tids
      /\ status' = [status EXCEPT ![tid_counter + 1] = {"ALIVE"}]
      /\ pc' = [pc EXCEPT ![1] = "int30"]
  BY <1>0, <1>1, CreateEffect
<1>3. pc[tid_counter + 1] = "run"
  BY <1>1, <1>2 DEF IInv, Unborn
<1>4. /\ TypeOK' /\ RingHoldsAll' /\ ScanTerminates' /\ HolderIsCurrent'
      /\ SleepersAlive' /\ CurrentRunnable' /\ LockerDead'
  <2>1. tid_counter < MaxTid /\ boot' \in Stages /\ idle' \in 0..MaxTid
    BY <1>0, <1>1 DEF Stages
  <2> QED
    BY <1>0, <2>1, CreateKeeps
<1>5. Boot'
  BY <1>0, <1>1, <1>2, <1>3 DEF Boot, IInv, TypeOK
<1>6. Unborn'
  BY <1>0, <1>1, <1>2, CurrentFacts DEF Unborn, IInv, TypeOK, Tids
<1> QED
  BY <1>4, <1>5, <1>6 DEF IInv

LEMMA CreateStep ==
  ASSUME IInv, Create
  PROVE  IInv'
<1>0. /\ Running("run") /\ current # 1 /\ current # idle /\ KthreadCreate
      /\ tid_counter + Reserved < MaxTid
      /\ UNCHANGED <<wake, call, kthread_spinlock, kirq_spinlock, thread_ticks, boot, idle>>
  BY DEF Create, Worker
<1>1. /\ Reserved \in Nat /\ Reserved' = Reserved
      /\ tid_counter \in Nat /\ tid_counter >= 1 /\ MaxTid \in Nat /\ 1 \in Tids
      /\ current \in Tids /\ current <= tid_counter
  <2>1. Reserved \in Nat
    BY DEF Reserved, IInv, TypeOK, Stages
  <2>2. Reserved' = Reserved
    BY <1>0 DEF Reserved
  <2> QED
    BY <2>1, <2>2, CurrentFacts, MaxTidAssumption
<1>2. /\ tid_counter' = tid_counter + 1 /\ tid_counter + 1 \in Tids /\ tid_counter < MaxTid
      /\ 1 # tid_counter + 1
      /\ status' = [status EXCEPT ![tid_counter + 1] = {"ALIVE"}]
      /\ pc' = [pc EXCEPT ![current] = "int30"]
  BY <1>0, <1>1, CreateEffect
<1>3. /\ TypeOK' /\ RingHoldsAll' /\ ScanTerminates' /\ HolderIsCurrent'
      /\ SleepersAlive' /\ CurrentRunnable' /\ LockerDead'
  <2>1. boot' \in Stages /\ idle' \in 0..MaxTid
    BY <1>0 DEF IInv, TypeOK
  <2> QED
    BY <1>0, <1>2, <2>1, CreateKeeps
<1>4. Boot'
  <2>1. idle # 0 => idle \in 2..tid_counter + 1 /\ idle \in Tids /\ idle # tid_counter + 1
    BY <1>1 , CurrentFacts DEF IInv, Boot, Tids
  <2>2. Boot /\ current' = current /\ current # 1 /\ kirq_spinlock' = kirq_spinlock
    BY <1>0, <1>2, CreateEffect DEF IInv
  <2>3. /\ status'[1] = status[1] /\ pc'[1] = pc[1]
        /\ idle # 0 => status'[idle] = status[idle] /\ pc'[idle] = pc[idle]
    BY <1>0, <1>1, <1>2, <2>1 DEF IInv, TypeOK
  <2>4. idle = 0 => \/ status[1] = {"ALIVE"}
                    \/ kirq_spinlock = 1 /\ status[1] = {}
    BY <2>2 DEF Boot
  <2>5. idle # 0 => /\ status[idle] = {"ALIVE"} \/ (kirq_spinlock = idle /\ status[idle] = {})
                    /\ pc[idle] = "run"
    BY <2>2 DEF Boot
  <2>6. /\ idle = 0 <=> boot \notin {"return", "done"}
        /\ boot # "done" => pc[1] \in {"run", "int30"}
    BY <2>2 DEF Boot
  <2> QED
    BY <1>0, <1>2, <2>1, <2>2, <2>3, <2>4, <2>5, <2>6 DEF Boot
<1>5. Unborn'
  <2>1. \A t \in Tids : t > tid_counter + 1 => t > tid_counter /\ t # current
    BY <1>1 DEF Tids
  <2> QED
    BY <1>0, <1>1, <1>2, <2>1 DEF Unborn, IInv, TypeOK
<1> QED
  BY <1>3, <1>4, <1>5 DEF IInv

-----------------------------------------------------------------------------
(* Actions that switch threads.                                            *)

(* What a switch keeps, whatever the status bits st and the holder of      *)
(* kirq_spinlock it leaves behind.                                         *)
LEMMA SwitchKeeps ==
  ASSUME IInv, hung = "no", NEW st, NEW wk, Sound(st, kirq_spinlock'), ThreadSwitch(st, wk),
         idle = 0 => st[1] = {"ALIVE"} \/ (kirq_spinlock' = 1 /\ st[1] = {}),
         idle # 0 => st[idle] = {"ALIVE"} \/ (kirq_spinlock' = idle /\ st[idle] = {}),
         kirq_spinlock' \in 0..MaxTid,
         kirq_spinlock' # 0 => /\ kirq_spinlock' \in 1..tid_counter
                               /\ "ALIVE" \notin st[kirq_spinlock'],
         \A t \in Tids : st[t] = {"SLEEP"} => pc'[t] = "int30",
         wake' \in [Tids -> 0..MaxSleep], thread_ticks' \in 0..Reload,
         pc' \in [Tids -> {"run", "lock", "body", "unlock", "int30"}],
         \A t \in Tids : pc'[t] = pc[t] \/ (pc[t] = "int30" /\ pc'[t] = "run"),
         UNCHANGED <<call, kthread_spinlock, tid_counter, boot, idle>>
  PROVE  IInv'
<1>0. TypeOK /\ RingHoldsAll /\ HolderIsCurrent /\ Boot /\ Unborn
  BY DEF IInv
<1> DEFINE c == ring'[1]
           k == kirq_spinlock'
<1>1. /\ ring' \in Seq(Tids) /\ Len(ring') = Len(ring) /\ Lists(ring', tid_counter)
      /\ status' \in [Tids -> SUBSET StatusBits]
      /\ hung' \in {"no", "spin", "scan"}
      /\ hung' = "scan" => \A t \in 1..tid_counter : st[t] # {"ALIVE"}
      /\ hung' = "no" =>
           /\ kthread_spinlock = 0
           /\ \/ status'[c] = {"ALIVE"} /\ "ALIVE" \in st[c]
              \/ st[c] = {"SLEEP"} /\ status'[c] = {} /\ c = k
      /\ hung' # "no" => ring' = ring /\ status' = st
      /\ \A t \in Tids : \/ status'[t] = st[t]
                         \/ /\ hung' = "no" /\ t = c
                            /\ "SLEEP" \in st[t] /\ "SLEEP" \notin status'[t]
  BY <1>0, SwitchSafe
<1>a. /\ 1 \in 1..tid_counter /\ 1 \in Tids /\ 1..tid_counter \subseteq Tids
      /\ idle # 0 => idle \in 1..tid_counter /\ idle \in Tids
  BY <1>0, CurrentFacts, MaxTidAssumption DEF Boot, Tids
<1>b. c \in Tids
  BY <1>1, CurrentFacts
<1>2. TypeOK'
  BY <1>0, <1>1 DEF TypeOK
<1>3. RingHoldsAll'
  BY <1>1 DEF RingHoldsAll, Lists
<1>c. ScanTerminates'
  <2> SUFFICES ASSUME hung' = "scan" PROVE k = IF idle = 0 THEN 1 ELSE idle
    BY DEF ScanTerminates
  <2>1. \A t \in 1..tid_counter : st[t] # {"ALIVE"}
    BY <1>1
  <2> QED
    BY <1>a, <2>1
<1>4. HolderIsCurrent'
  <2>1. \A t \in Tids : pc'[t] \in {"body", "unlock"} <=> pc[t] \in {"body", "unlock"}
    OBVIOUS
  <2>2. CASE hung' = "no"
    BY <1>0, <1>1, <2>1, <2>2 DEF HolderIsCurrent
  <2>3. CASE hung' # "no"
    BY <1>0, <1>1, <2>1, <2>3 DEF HolderIsCurrent, current
  <2> QED
    BY <2>2, <2>3
<1>5. SleepersAlive'
  <2> SUFFICES ASSUME NEW t \in Tids, "SLEEP" \in status'[t]
               PROVE  \/ status'[t] = {"ALIVE", "SLEEP"}
                      \/ status'[t] = {"SLEEP"} /\ k = t /\ pc'[t] = "int30"
    BY DEF SleepersAlive
  <2>1. status'[t] = st[t]
    BY <1>1
  <2>2. st[t] = {"ALIVE", "SLEEP"} \/ (st[t] = {"SLEEP"} /\ t = k)
    BY <2>1 DEF Sound
  <2> QED
    BY <2>1, <2>2
<1>d. hung' = "no" => \/ status'[c] = {"ALIVE"} /\ c # k
                      \/ status'[c] = {} /\ pc'[c] = "int30"
  <2>1. "ALIVE" \in st[c] => c # k
    BY <1>b, CurrentFacts
  <2> QED
    BY <1>1, <1>b, <2>1
<1>6. CurrentRunnable'
  <2>1. CASE hung' # "no"
    BY <2>1 DEF CurrentRunnable
  <2>2. CASE hung' = "no" /\ status'[c] = {"ALIVE"} /\ c # k
    BY <2>2 DEF CurrentRunnable, current
  <2>3. CASE hung' = "no" /\ status'[c] = {} /\ pc'[c] = "int30"
    BY <2>3 DEF CurrentRunnable, current
  <2> QED
    BY <1>d, <2>1, <2>2, <2>3
<1>e. LockerDead'
  <2> SUFFICES ASSUME hung' = "no", k # 0
               PROVE  k \in 1..tid_counter /\ "ALIVE" \notin status'[k]
    BY DEF LockerDead
  <2>1. k \in 1..tid_counter /\ k \in Tids /\ "ALIVE" \notin st[k]
    BY <1>a
  <2>2. CASE k = c
    <3>1. status'[c] = {}
      BY <1>1, <2>1, <2>2
    <3> QED
      BY <2>1, <2>2, <3>1
  <2>3. CASE k # c
    BY <1>1, <2>1, <2>3
  <2> QED
    BY <2>2, <2>3
<1>7. Boot'
  <2>1. \A t \in Tids : st[t] = {"ALIVE"} => status'[t] = {"ALIVE"}
    BY <1>1
  <2>2. \A t \in Tids : st[t] = {} => status'[t] = {} /\ (hung' = "no" => c # t)
    BY <1>1
  <2>3. idle = 0 => \/ status'[1] = {"ALIVE"}
                    \/ k = 1 /\ status'[1] = {} /\ (hung' = "no" => c # 1)
    BY <1>a, <2>1, <2>2
  <2>4. idle # 0 => status'[idle] = {"ALIVE"} \/ (k = idle /\ status'[idle] = {})
    BY <1>a, <2>1, <2>2
  <2>5. idle # 0 => pc'[idle] = "run"
    BY <1>0, <1>a DEF Boot
  <2>6. boot # "done" => pc'[1] \in {"run", "int30"}
    BY <1>0, <1>a DEF Boot
  <2>7. (idle = 0 <=> boot \notin {"return", "done"}) /\ (idle # 0 => idle \in 2..tid_counter)
    BY <1>0 DEF Boot
  <2> HIDE DEF c, k
  <2>8. k = kirq_spinlock' /\ current' = c
    BY DEF k, c, current
  <2> QED
    BY <2>3, <2>4, <2>5, <2>6, <2>7, <2>8 DEF Boot
<1>8. Unborn'
  <2>1. Reserved' = Reserved
    BY DEF Reserved
  <2> QED
    BY <1>0, <2>1 DEF Unborn
<1> QED
  BY <1>2, <1>3, <1>c, <1>4, <1>5, <1>6, <1>e, <1>7, <1>8 DEF IInv

(* The facts SwitchKeeps asks for, of the status bits as they are.         *)
LEMMA StatusFacts ==
  ASSUME IInv, hung = "no"
  PROVE  /\ idle = 0 => status[1] = {"ALIVE"} \/ (kirq_spinlock = 1 /\ status[1] = {})
         /\ idle # 0 => status[idle] = {"ALIVE"} \/ (kirq_spinlock = idle /\ status[idle] = {})
         /\ kirq_spinlock \in 0..MaxTid
         /\ kirq_spinlock # 0 => /\ kirq_spinlock \in 1..tid_counter
                                 /\ "ALIVE" \notin status[kirq_spinlock]
         /\ \A t \in Tids : status[t] = {"SLEEP"} => pc[t] = "int30" /\ kirq_spinlock = t
<1>1. \A t \in Tids : status[t] = {"SLEEP"} => pc[t] = "int30" /\ kirq_spinlock = t
  <2> SUFFICES ASSUME NEW t \in Tids, status[t] = {"SLEEP"}
               PROVE  pc[t] = "int30" /\ kirq_spinlock = t
    OBVIOUS
  <2>1. "SLEEP" \in status[t] /\ "ALIVE" \notin status[t]
    OBVIOUS
  <2>2. status[t] # {"ALIVE", "SLEEP"}
    BY <2>1
  <2> QED
    BY <2>1, <2>2 DEF IInv, SleepersAlive
<1>2. Boot /\ LockerDead /\ TypeOK
  BY DEF IInv
<1>3. /\ idle = 0 => status[1] = {"ALIVE"} \/ (kirq_spinlock = 1 /\ status[1] = {})
      /\ idle # 0 => status[idle] = {"ALIVE"} \/ (kirq_spinlock = idle /\ status[idle] = {})
  BY <1>2 DEF Boot
<1>4. /\ kirq_spinlock \in 0..MaxTid
      /\ kirq_spinlock # 0 => /\ kirq_spinlock \in 1..tid_counter
                              /\ "ALIVE" \notin status[kirq_spinlock]
  BY <1>2 DEF LockerDead, TypeOK
<1> QED
  BY <1>1, <1>3, <1>4

LEMMA Int30Step ==
  ASSUME IInv, Int30
  PROVE  IInv'
<1>1. /\ hung = "no" /\ pc[current] = "int30" /\ pc' = [pc EXCEPT ![current] = "run"]
      /\ ThreadSwitch(status, wake) /\ kirq_spinlock # current
      /\ UNCHANGED <<wake, call, kthread_spinlock, kirq_spinlock, tid_counter,
                     thread_ticks, boot, idle>>
  BY DEF Int30, Running
<1>2. /\ pc' \in [Tids -> {"run", "lock", "body", "unlock", "int30"}]
      /\ \A t \in Tids : pc'[t] = pc[t] \/ (pc[t] = "int30" /\ pc'[t] = "run")
      /\ \A t \in Tids : t # current => pc'[t] = pc[t]
  BY <1>1, CurrentFacts DEF IInv, TypeOK
<1>3. wake' \in [Tids -> 0..MaxSleep] /\ thread_ticks' \in 0..Reload
  BY <1>1 DEF IInv, TypeOK
<1>4. \A t \in Tids : status[t] = {"SLEEP"} => pc'[t] = "int30"
  BY <1>1, <1>2, StatusFacts
<1>5. Sound(status, kirq_spinlock')
  BY <1>1, StatusSound
<1> QED
  BY <1>1, <1>2, <1>3, <1>4, <1>5, StatusFacts, SwitchKeeps

(* Killing the thread executing, in module code or anywhere outside the    *)
(* critical section: k holds kirq_spinlock afterwards.                     *)
LEMMA KillSound ==
  ASSUME IInv, hung = "no", kthread_spinlock = 0, kirq_spinlock # current,
         NEW k, \/ k = kirq_spinlock /\ current # 1 /\ current # idle /\ pc[current] = "run"
                \/ kirq_spinlock = 0 /\ k = current
  PROVE  LET st == [status EXCEPT ![current] = @ \ {"ALIVE"}]
         IN  /\ Sound(st, k)
             /\ idle = 0 => st[1] = {"ALIVE"} \/ (k = 1 /\ st[1] = {})
             /\ idle # 0 => st[idle] = {"ALIVE"} \/ (k = idle /\ st[idle] = {})
             /\ k \in 0..MaxTid
             /\ k # 0 => k \in 1..tid_counter /\ "ALIVE" \notin st[k]
             /\ \A t \in Tids : st[t] = {"SLEEP"} => pc[t] = "int30"
<1> DEFINE st == [status EXCEPT ![current] = @ \ {"ALIVE"}]
<1>0. /\ current \in Tids /\ current \in 1..tid_counter /\ 1 \in Tids
      /\ status \in [Tids -> SUBSET StatusBits] /\ Tids = 1..MaxTid
      /\ tid_counter \in Nat /\ tid_counter <= MaxTid /\ MaxTid \in Nat
      /\ idle # 0 => idle \in Tids
  <2>1. TypeOK /\ Boot
    BY DEF IInv
  <2>2. /\ current \in Tids /\ current \in 1..tid_counter /\ 1 \in Tids
        /\ status \in [Tids -> SUBSET StatusBits] /\ Tids = 1..MaxTid
        /\ tid_counter \in Nat /\ tid_counter <= MaxTid /\ MaxTid \in Nat
    BY <2>1, CurrentFacts, MaxTidAssumption DEF TypeOK, Tids
  <2>3. idle # 0 => idle \in 2..tid_counter
    BY <2>1 DEF Boot
  <2> QED
    BY <2>2, <2>3
<1>1. /\ st \in [Tids -> SUBSET StatusBits]
      /\ st[current] = status[current] \ {"ALIVE"}
      /\ \A t \in Tids : t # current => st[t] = status[t]
  <2>1. status[current] \ {"ALIVE"} \in SUBSET StatusBits
    BY <1>0
  <2> QED
    BY <1>0, <2>1
<1>2. pc[current] # "int30" => status[current] = {"ALIVE"}
  <2>1. pc[current] \notin {"body", "unlock"}
    BY <1>0, CurrentFacts DEF IInv, HolderIsCurrent
  <2>2. pc[current] \in {"run", "lock", "body", "unlock", "int30"}
    BY <1>0 DEF IInv, TypeOK
  <2> QED
    BY <2>1, <2>2 DEF IInv, CurrentRunnable
<1>3. "SLEEP" \in status[current] =>
        status[current] = {"ALIVE", "SLEEP"} /\ pc[current] = "int30"
  <2>1. "SLEEP" \notin {"ALIVE"}
    OBVIOUS
  <2> QED
    BY <1>0, <1>2, <2>1 DEF IInv, SleepersAlive
<1>4. \A t \in Tids : t # current /\ "SLEEP" \in status[t] =>
        \/ status[t] = {"ALIVE", "SLEEP"}
        \/ status[t] = {"SLEEP"} /\ kirq_spinlock = t /\ pc[t] = "int30"
  BY DEF IInv, SleepersAlive
<1>5. Sound(st, k) /\ \A t \in Tids : st[t] = {"SLEEP"} => pc[t] = "int30"
  <2>1. ASSUME NEW t \in Tids, "SLEEP" \in st[t]
        PROVE  /\ st[t] = {"ALIVE", "SLEEP"} \/ (st[t] = {"SLEEP"} /\ t = k)
               /\ st[t] = {"SLEEP"} => pc[t] = "int30"
    <3>1. CASE t = current
      <4>1. status[t] = {"ALIVE", "SLEEP"} /\ pc[t] = "int30"
        BY <1>1, <1>3, <2>1, <3>1
      <4>2. st[t] = {"SLEEP"}
        BY <1>1, <3>1, <4>1
      <4>3. k = current
        BY <3>1, <4>1
      <4> QED
        BY <3>1, <4>1, <4>2, <4>3
    <3>2. CASE t # current
      <4>1. \/ status[t] = {"ALIVE", "SLEEP"}
            \/ status[t] = {"SLEEP"} /\ kirq_spinlock = t /\ pc[t] = "int30"
        BY <1>1, <1>4, <2>1, <3>2
      <4>2. kirq_spinlock = t => k = t
        BY <1>0, CurrentFacts
      <4>3. {"ALIVE", "SLEEP"} # {"SLEEP"}
        <5>1. "ALIVE" \in {"ALIVE", "SLEEP"} /\ "ALIVE" \notin {"SLEEP"}
          OBVIOUS
        <5> QED
          BY <5>1
      <4> QED
        BY <1>1, <3>2, <4>1, <4>2, <4>3
    <3> QED
      BY <3>1, <3>2
  <2>2. \A t \in Tids : st[t] = {"SLEEP"} => "SLEEP" \in st[t]
    OBVIOUS
  <2> HIDE DEF st
  <2> QED
    BY <1>1, <2>1, <2>2 DEF Sound
<1>6. k \in 0..MaxTid /\ (k # 0 => k \in 1..tid_counter /\ "ALIVE" \notin st[k])
  <2>1. CASE k = kirq_spinlock
    <3>1. k # 0 => k \in Tids /\ k \in 1..tid_counter /\ "ALIVE" \notin status[k]
      BY <1>0, <2>1, StatusFacts
    <3>2. k # 0 => k # current
      BY <2>1
    <3> QED
      BY <1>1, <2>1, <3>1, <3>2, StatusFacts
  <2>2. CASE k = current
    BY <1>0, <1>1, <2>2
  <2> QED
    BY <2>1, <2>2
<1>7. idle = 0 => st[1] = {"ALIVE"} \/ (k = 1 /\ st[1] = {})
  <2> SUFFICES ASSUME idle = 0 PROVE st[1] = {"ALIVE"} \/ (k = 1 /\ st[1] = {})
    OBVIOUS
  <2>1. CASE current # 1
    <3>1. kirq_spinlock = 1 => k = 1
      BY CurrentFacts
    <3> QED
      BY <1>0, <1>1, <2>1, <3>1, StatusFacts
  <2>2. CASE current = 1
    <3>1. status[1] = {"ALIVE"}
      BY <2>2 DEF IInv, Boot
    <3>2. k = 1
      BY <2>2
    <3> QED
      BY <1>1, <2>2, <3>1, <3>2
  <2> QED
    BY <2>1, <2>2
<1>8. idle # 0 => st[idle] = {"ALIVE"} \/ (k = idle /\ st[idle] = {})
  <2> SUFFICES ASSUME idle # 0 PROVE st[idle] = {"ALIVE"} \/ (k = idle /\ st[idle] = {})
    OBVIOUS
  <2>1. CASE current # idle
    <3>1. kirq_spinlock = idle => k = idle
      BY CurrentFacts
    <3> QED
      BY <1>0, <1>1, <2>1, <3>1, StatusFacts
  <2>2. CASE current = idle
    <3>1. status[idle] = {"ALIVE"}
      BY <2>2, StatusFacts
    <3>2. k = idle
      BY <2>2
    <3> QED
      BY <1>1, <2>2, <3>1, <3>2
  <2> QED
    BY <2>1, <2>2
<1> HIDE DEF st
<1>9. /\ Sound(st, k)
      /\ idle = 0 => st[1] = {"ALIVE"} \/ (k = 1 /\ st[1] = {})
      /\ idle # 0 => st[idle] = {"ALIVE"} \/ (k = idle /\ st[idle] = {})
      /\ k \in 0..MaxTid
      /\ k # 0 => k \in 1..tid_counter /\ "ALIVE" \notin st[k]
      /\ \A t \in Tids : st[t] = {"SLEEP"} => pc[t] = "int30"
  BY <1>5, <1>6, <1>7, <1>8
<1> QED
  BY <1>9 DEF st

(* A switch away from a thread that has just been killed.                  *)
LEMMA KillStep ==
  ASSUME IInv, hung = "no", kthread_spinlock = 0, kirq_spinlock # current,
         \/ /\ kirq_spinlock' = kirq_spinlock /\ current # 1 /\ current # idle
            /\ pc[current] = "run"
         \/ kirq_spinlock = 0 /\ kirq_spinlock' = current,
         ThreadSwitch([status EXCEPT ![current] = @ \ {"ALIVE"}], wake),
         UNCHANGED <<wake, pc, call, kthread_spinlock, tid_counter, thread_ticks, boot, idle>>
  PROVE  IInv'
<1> DEFINE st == [status EXCEPT ![current] = @ \ {"ALIVE"}]
           k == kirq_spinlock'
<1>1. /\ Sound(st, k)
      /\ idle = 0 => st[1] = {"ALIVE"} \/ (k = 1 /\ st[1] = {})
      /\ idle # 0 => st[idle] = {"ALIVE"} \/ (k = idle /\ st[idle] = {})
      /\ k \in 0..MaxTid
      /\ k # 0 => k \in 1..tid_counter /\ "ALIVE" \notin st[k]
      /\ \A t \in Tids : st[t] = {"SLEEP"} => pc[t] = "int30"
  BY KillSound
<1>2. /\ pc' \in [Tids -> {"run", "lock", "body", "unlock", "int30"}]
      /\ \A t \in Tids : pc'[t] = pc[t]
      /\ wake' \in [Tids -> 0..MaxSleep] /\ thread_ticks' \in 0..Reload
  BY DEF IInv, TypeOK
<1>3. ThreadSwitch(st, wake)
  OBVIOUS
<1> HIDE DEF st
<1> QED
  BY <1>1, <1>2, <1>3, SwitchKeeps

LEMMA ExceptionStep ==
  ASSUME IInv, HandleException
  PROVE  IInv'
<1>1. /\ hung = "no" /\ pc[current] = "run" /\ current # 1 /\ current # idle
      /\ kirq_spinlock # current
  BY DEF HandleException, Running, Worker
<1>2. kthread_spinlock = 0
  BY <1>1, CurrentFacts
<1> QED
  BY <1>1, <1>2, KillStep DEF HandleException

(* A step that only leaves the processor spinning, perhaps after taking    *)
(* kirq_spinlock.                                                          *)
LEMMA HangStep ==
  ASSUME IInv, hung = "no", hung' = "spin", kirq_spinlock' \in 0..MaxTid,
         kirq_spinlock # 0 => kirq_spinlock' = kirq_spinlock,
         UNCHANGED <<ring, status, wake, pc, call, kthread_spinlock, tid_counter,
                     thread_ticks, boot, idle>>
  PROVE  IInv'
<1>1. TypeOK'
  BY DEF IInv, TypeOK
<1>2. RingHoldsAll' /\ ScanTerminates' /\ HolderIsCurrent' /\ CurrentRunnable'
      /\ LockerDead'
  BY DEF IInv, RingHoldsAll, ScanTerminates, HolderIsCurrent, CurrentRunnable, LockerDead,
     current
<1>3. SleepersAlive'
  <2>1. \A t \in Tids : kirq_spinlock = t => kirq_spinlock' = t
    BY CurrentFacts
  <2> QED
    BY <2>1 DEF IInv, SleepersAlive
<1>4. Boot'
  <2>1. Boot /\ 1 # 0
    BY DEF IInv
  <2> QED
    BY <2>1 DEF Boot
<1>5. Unborn'
  BY DEF IInv, Unborn, Reserved
<1> QED
  BY <1>1, <1>2, <1>3, <1>4, <1>5 DEF IInv

LEMMA StrayStep ==
  ASSUME IInv, StrayIrq
  PROVE  IInv'
<1>0. /\ hung = "no" /\ kirq_spinlock # current /\ kirq_spinlock \in 0..MaxTid
      /\ current \in 0..MaxTid
      /\ UNCHANGED <<wake, pc, call, kthread_spinlock, tid_counter, thread_ticks, boot, idle>>
  BY CurrentFacts, MaxTidAssumption DEF StrayIrq, IInv, TypeOK, Tids
<1>1. CASE kirq_spinlock # 0
  <2>1. hung' = "spin" /\ UNCHANGED <<ring, status, kirq_spinlock>>
    BY <1>1 DEF StrayIrq
  <2> QED
    BY <1>0, <2>1, HangStep
<1>2. CASE kirq_spinlock = 0 /\ kthread_spinlock # 0
  <2>1. hung' = "spin" /\ UNCHANGED <<ring, status>> /\ kirq_spinlock' = current
    BY <1>2 DEF StrayIrq
  <2> QED
    BY <1>0, <1>2, <2>1, HangStep
<1>3. CASE kirq_spinlock = 0 /\ kthread_spinlock = 0
  <2>1. /\ kirq_spinlock' = current
        /\ ThreadSwitch([status EXCEPT ![current] = @ \ {"ALIVE"}], wake)
    BY <1>3 DEF StrayIrq
  <2> QED
    BY <1>0, <1>3, <2>1, KillStep
<1> QED
  BY <1>1, <1>2, <1>3

LEMMA IrqEndStep ==
  ASSUME IInv, IrqEnd
  PROVE  IInv'
<1>0. /\ hung = "no" /\ kirq_spinlock = current /\ kirq_spinlock' = 0 /\ current' = current
      /\ current \in Tids /\ 0 \notin Tids /\ 1 \in Tids
      /\ UNCHANGED <<ring, status, wake, pc, call, kthread_spinlock, tid_counter,
                     thread_ticks, boot, idle, hung>>
  BY CurrentFacts DEF IrqEnd, current
<1>1. pc[current] = "int30" /\ status[current] = {}
  BY <1>0 DEF IInv, CurrentRunnable
<1>2. TypeOK' /\ RingHoldsAll' /\ ScanTerminates' /\ HolderIsCurrent' /\ LockerDead'
  <2>1. TypeOK'
    BY <1>0, MaxTidAssumption DEF IInv, TypeOK
  <2> QED
    BY <1>0, <2>1 DEF IInv, RingHoldsAll, ScanTerminates, HolderIsCurrent, LockerDead
<1>3. CurrentRunnable'
  BY <1>0, <1>1 DEF CurrentRunnable
<1>4. SleepersAlive'
  BY <1>0, <1>1 DEF IInv, SleepersAlive
<1>5. Boot'
  <2>1. idle # 0 => current # idle
    BY <1>1 DEF IInv, Boot
  <2>2. idle # 0 => status[idle] = {"ALIVE"}
    BY <1>0, <2>1 DEF IInv, Boot
  <2>3. idle = 0 => status[1] = {"ALIVE"}
    BY <1>0 DEF IInv, Boot
  <2> QED
    BY <1>0, <2>2, <2>3 DEF IInv, Boot
<1>6. Unborn'
  BY <1>0 DEF IInv, Unborn, Reserved
<1> QED
  BY <1>2, <1>3, <1>4, <1>5, <1>6 DEF IInv

LEMMA TickStep ==
  ASSUME IInv, Tick
  PROVE  IInv'
<1>1. /\ hung = "no" /\ kirq_spinlock \in 0..MaxTid
      /\ UNCHANGED <<pc, call, kthread_spinlock, kirq_spinlock, tid_counter, boot, idle>>
  BY DEF Tick, IInv, TypeOK
<1>2. CASE kirq_spinlock # 0
  <2>1. hung' = "spin" /\ UNCHANGED <<ring, status, wake, thread_ticks>>
    BY <1>2 DEF Tick
  <2> QED
    BY <1>1, <2>1, HangStep
<1>3. CASE kirq_spinlock = 0
  <2>1. wake' = [t \in Tids |-> IF wake[t] > 0 THEN wake[t] - 1 ELSE 0]
    BY <1>3 DEF Tick
  <2>2. wake' \in [Tids -> 0..MaxSleep]
    <3>1. \A t \in Tids : wake[t] \in 0..MaxSleep
      BY DEF IInv, TypeOK
    <3> QED
      BY <2>1, <3>1, MaxSleepAssumption
  <2>3. /\ pc' \in [Tids -> {"run", "lock", "body", "unlock", "int30"}]
        /\ \A t \in Tids : pc'[t] = pc[t]
    BY <1>1 DEF IInv, TypeOK
  <2>4. CASE thread_ticks = 0
    <3>1. thread_ticks' = Reload /\ ThreadSwitch(status, wake')
      BY <1>3, <2>4 DEF Tick
    <3>2. thread_ticks' \in 0..Reload
      BY <3>1, ReloadAssumption
    <3>3. Sound(status, kirq_spinlock')
      BY <1>1, StatusSound
    <3>4. \A t \in Tids : status[t] = {"SLEEP"} => pc'[t] = "int30"
      BY <1>1, <2>3, StatusFacts
    <3> QED
      BY <1>1, <2>2, <2>3, <3>1, <3>2, <3>3, <3>4, StatusFacts, SwitchKeeps
  <2>5. CASE thread_ticks # 0
    <3>1. thread_ticks' = thread_ticks - 1 /\ UNCHANGED <<ring, status, hung>>
      BY <1>3, <2>5 DEF Tick
    <3>2. thread_ticks' \in 0..Reload
      BY <2>5, <3>1, ReloadAssumption DEF IInv, TypeOK
    <3>3. TypeOK'
      BY <1>1, <2>2, <3>1, <3>2 DEF IInv, TypeOK
    <3>4. RingHoldsAll' /\ ScanTerminates' /\ HolderIsCurrent' /\ SleepersAlive'
          /\ CurrentRunnable' /\ LockerDead'
      BY <1>1, <3>1 DEF IInv, RingHoldsAll, ScanTerminates, HolderIsCurrent, SleepersAlive,
         CurrentRunnable, LockerDead, current
    <3>5. Boot' /\ Unborn'
      BY <1>1, <3>1 DEF IInv, Boot, Unborn, Reserved, current
    <3> QED
      BY <3>3, <3>4, <3>5 DEF IInv
  <2> QED
    BY <2>4, <2>5
<1> QED
  BY <1>2, <1>3

-----------------------------------------------------------------------------
(* Every step keeps the invariant.                                         *)
LEMMA NextIInv == IInv /\ [Next]_vars => IInv'
<1> SUFFICES ASSUME IInv, [Next]_vars PROVE IInv'
  OBVIOUS
<1>1. CASE BootStep
  BY <1>1, TimerStep, EnableStep, ModuleStep, IdleStep, ReturnStep DEF BootStep
<1>2. CASE Create \/ Yield
  BY <1>2, CreateStep, YieldStep
<1>3. CASE \E c \in Calls : c.op \in Ops /\ Enter(c)
  BY <1>3, EnterStep
<1>4. CASE KernelStep
  BY <1>4, SpinLockStep, BodyStep, UnlockStep, Int30Step DEF KernelStep
<1>5. CASE HandleException \/ StrayIrq \/ IrqEnd \/ Tick
  BY <1>5, ExceptionStep, StrayStep, IrqEndStep, TickStep
<1>6. CASE UNCHANGED vars
  <2>0. TypeOK' /\ RingHoldsAll' /\ ScanTerminates'
    BY <1>6 DEF vars, IInv, TypeOK, RingHoldsAll, ScanTerminates
  <2>1. HolderIsCurrent' /\ SleepersAlive' /\ CurrentRunnable' /\ LockerDead'
    BY <1>6 DEF vars, IInv, HolderIsCurrent, SleepersAlive, CurrentRunnable, LockerDead,
       current
  <2>2. Boot' /\ Unborn'
    BY <1>6 DEF vars, IInv, Boot, Unborn, Reserved, current
  <2> QED
    BY <2>0, <2>1, <2>2 DEF IInv
<1> QED
  BY <1>1, <1>2, <1>3, <1>4, <1>5, <1>6 DEF Next, Stuck

(* The inductive invariant holds in every behaviour of the thread manager. *)
THEOREM Invariance == Spec => []IInv
<1>1. Init => IInv
  BY InitIInv
<1>2. IInv /\ [Next]_vars => IInv'
  BY NextIInv
<1> QED
  BY <1>1, <1>2, PTL DEF Spec

(* Types are correct for any number of threads.                            *)
THEOREM TypeCorrect == Spec => []TypeOK
<1>1. IInv => TypeOK
  BY DEF IInv
<1> QED
  BY <1>1, Invariance, PTL

(* The circular list holds exactly the threads created.                    *)
THEOREM RingComplete == Spec => []RingHoldsAll
<1>1. IInv => RingHoldsAll
  BY DEF IInv
<1> QED
  BY <1>1, Invariance, PTL

(* The loop of schedule_thread finds a thread, unless an interrupt without *)
(* handler killed the thread it falls back on.                             *)
THEOREM SchedulerTerminates == Spec => []ScanTerminates
<1>1. IInv => ScanTerminates
  BY DEF IInv
<1> QED
  BY <1>1, Invariance, PTL

(* No thread is switched out while it holds kthread_spinlock.              *)
THEOREM LockDiscipline == Spec => []HolderIsCurrent
<1>1. IInv => HolderIsCurrent
  BY DEF IInv
<1> QED
  BY <1>1, Invariance, PTL

(* A killed or suspended thread does not get the processor again, but for  *)
(* a sleeper killed by an interrupt without handler, which gets no further *)
(* than its int 0x30.                                                      *)
THEOREM NoResurrection == Spec => StoppedStayStopped
<1> DEFINE c == ring'[1]
           Right == \/ status'[c] = {"ALIVE"}
                    \/ status'[c] = {} /\ kirq_spinlock' = c /\ pc'[c] = "int30"
           P == c # ring[1] => Right
<1>1. IInv /\ [Next]_vars => [P]_vars
  <2> SUFFICES ASSUME IInv, [Next]_vars, c # ring[1] PROVE Right
    OBVIOUS
  <2>0. TypeOK /\ RingHoldsAll
    BY DEF IInv
  <2>1. ASSUME KthreadCreate, Running("run"), tid_counter < MaxTid PROVE FALSE
    BY <2>1, CreateEffect DEF current
  <2>2. CASE BootStep
    <3>1. boot \in {"ktimer_init", "module", "idle"} => tid_counter < MaxTid
      BY CurrentFacts, MaxTidAssumption DEF IInv, Unborn, Reserved
    <3> QED
      BY <2>1, <2>2, <3>1 DEF BootStep, BootTimer, BootEnable, BootModule, BootIdle, BootReturn
  <2>3. CASE Create
    <3>1. tid_counter < MaxTid
      <4>1. Reserved \in Nat
        BY DEF Reserved, IInv, TypeOK, Stages
      <4>2. tid_counter + Reserved < MaxTid /\ tid_counter \in Nat
        BY <2>3, CurrentFacts DEF Create
      <4> QED
        BY <4>1, <4>2, MaxTidAssumption
    <3> QED
      BY <2>1, <2>3, <3>1 DEF Create
  <2>4. CASE Yield \/ SpinLock \/ Body \/ Unlock \/ IrqEnd
    BY <2>4 DEF Yield, SpinLock, Body, Unlock, IrqEnd
  <2>5. CASE \E cc \in Calls : cc.op \in Ops /\ Enter(cc)
    BY <2>5 DEF Enter
  <2>6. ASSUME NEW st, NEW wk, Sound(st, kirq_spinlock'), hung = "no", ThreadSwitch(st, wk),
               \A t \in Tids : st[t] = {"SLEEP"} => pc'[t] = "int30"
        PROVE  Right
    <3>1. /\ ring' \in Seq(Tids) /\ Len(ring') = Len(ring)
          /\ hung' # "no" => ring' = ring
          /\ hung' = "no" =>
               \/ status'[c] = {"ALIVE"}
               \/ st[c] = {"SLEEP"} /\ status'[c] = {} /\ c = kirq_spinlock'
      BY <2>0, <2>6, SwitchSafe
    <3>2. c \in Tids
      BY <3>1, CurrentFacts
    <3> QED
      BY <2>6, <3>1, <3>2
  <2>7. CASE Int30
    <3>1. /\ hung = "no" /\ kirq_spinlock # current /\ kirq_spinlock' = kirq_spinlock
          /\ ThreadSwitch(status, wake)
          /\ pc' = [pc EXCEPT ![current] = "run"]
      BY <2>7 DEF Int30, Running
    <3>2. \A t \in Tids : status[t] = {"SLEEP"} => pc'[t] = "int30"
      BY <3>1, StatusFacts DEF IInv, TypeOK
    <3>3. Sound(status, kirq_spinlock')
      BY <3>1, StatusSound
    <3> QED
      BY <2>6, <3>1, <3>2, <3>3
  <2>8. CASE Tick
    <3>1. CASE kirq_spinlock = 0 /\ thread_ticks = 0
      <4>1. /\ hung = "no" /\ kirq_spinlock' = kirq_spinlock /\ pc' = pc
            /\ ThreadSwitch(status, wake')
        BY <2>8, <3>1 DEF Tick
      <4>2. \A t \in Tids : status[t] = {"SLEEP"} => pc'[t] = "int30"
        BY <4>1, StatusFacts
      <4>3. Sound(status, kirq_spinlock')
        BY <4>1, StatusSound
      <4> QED
        BY <2>6, <4>1, <4>2, <4>3
    <3>2. CASE kirq_spinlock # 0 \/ thread_ticks # 0
      BY <2>8, <3>2 DEF Tick
    <3> QED
      BY <3>1, <3>2
  <2> DEFINE st == [status EXCEPT ![current] = @ \ {"ALIVE"}]
  <2>9. CASE HandleException
    <3>1. /\ hung = "no" /\ pc[current] = "run" /\ current # 1 /\ current # idle
          /\ kirq_spinlock # current /\ kirq_spinlock' = kirq_spinlock /\ pc' = pc
          /\ ThreadSwitch(st, wake)
      BY <2>9 DEF HandleException, Running, Worker
    <3>2. kthread_spinlock = 0
      BY <3>1, CurrentFacts
    <3>3. Sound(st, kirq_spinlock') /\ \A t \in Tids : st[t] = {"SLEEP"} => pc'[t] = "int30"
      BY <3>1, <3>2, KillSound
    <3> HIDE DEF st
    <3> QED
      BY <2>6, <3>1, <3>3
  <2>10. CASE StrayIrq
    <3>1. CASE kirq_spinlock # 0 \/ kthread_spinlock # 0
      BY <2>10, <3>1 DEF StrayIrq
    <3>2. CASE kirq_spinlock = 0 /\ kthread_spinlock = 0
      <4>1. /\ hung = "no" /\ kirq_spinlock # current /\ kirq_spinlock' = current /\ pc' = pc
            /\ ThreadSwitch(st, wake)
        BY <2>10, <3>2 DEF StrayIrq
      <4>2. Sound(st, kirq_spinlock') /\ \A t \in Tids : st[t] = {"SLEEP"} => pc'[t] = "int30"
        BY <3>2, <4>1, KillSound
      <4> HIDE DEF st
      <4> QED
        BY <2>6, <4>1, <4>2
    <3> QED
      BY <3>1, <3>2
  <2>11. CASE UNCHANGED vars
    BY <2>11 DEF vars
  <2> QED
    BY <2>2, <2>3, <2>4, <2>5, <2>7, <2>8, <2>9, <2>10, <2>11 DEF Next, KernelStep, Stuck
<1> QED
  BY <1>1, Invariance, PTL DEF Spec, StoppedStayStopped
=============================================================================
