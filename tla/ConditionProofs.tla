--------------------------- MODULE ConditionProofs ---------------------------
(***************************************************************************)
(* Proofs about the mutex and the condition variables, for any threads,    *)
(* any word length and whatever the uncleared page holds.                  *)
(***************************************************************************)
EXTENDS Condition, FiniteSetTheorems, TLAPS

(* Where a thread has the condition's spinlock, and where it may be.       *)
LockPlaces == {"wait_load", "wait_fill", "wait_count", "wait_thread", "wait_unlock",
               "signal_resume", "broadcast_resume"}
Places == LockPlaces \cup {"out", "lock_load", "lock_store", "unlock_load", "unlock_store",
                           "unlock_again", "wait_lock", "wait_suspend", "suspended",
                           "signal", "broadcast"}

TypeOK ==
  /\ thread \in Words /\ count \in Words
  /\ pc \in [Procs -> Places] /\ reg \in [Procs -> Nat] /\ holds \in [Procs -> Nat]
  /\ turns \in BOOLEAN /\ hung \in BOOLEAN
  /\ lock \in {{}, {0}} \cup {{t} : t \in Procs}
  /\ entry_next \in Nat /\ first \in 0..MaxLeft
  /\ entry \in [Slots -> [thread : Nat, mutex_count : Nat]]
  /\ \A t \in Procs : pc[t] \in {"lock_store", "unlock_store"} => reg[t] \in Words

(* A thread between taking the spinlock and giving it back has it, and what*)
(* it has loaded of entry_next is not stale when it is stored.             *)
Owned ==
  \A t \in Procs :
    /\ pc[t] \in LockPlaces => lock = {t}
    /\ pc[t] = "wait_fill" => reg[t] = entry_next

(* The entries made since the start are one for each waiter.               *)
Waiters == {t \in Procs : pc[t] \in Filled}
Made == first..entry_next - 1

Entries ==
  /\ entry_next = first + Cardinality(Waiters)
  /\ \A i \in Made : entry[i].thread \in Waiters
  /\ \A i, j \in Made : entry[i].thread = entry[j].thread => i = j
  /\ \A t \in Waiters : \E i \in Made : entry[i].thread = t

(* What a thread finds in the mutex wherever it is, while they take turns. *)
Fits(t) ==
  /\ pc[t] \in {"out", "signal", "broadcast", "signal_resume", "broadcast_resume"}
       => holds[t] = 0 \/ (holds[t] = 1 /\ thread = t /\ count = 1)
  /\ pc[t] \in {"lock_load", "lock_store"} => holds[t] = 0 /\ thread = t /\ count = 0
  /\ pc[t] = "lock_store" => reg[t] = 1
  /\ pc[t] \in {"unlock_load", "unlock_store", "wait_lock", "wait_load", "wait_fill", "wait_count"}
       => holds[t] = 0 /\ thread = 0 /\ count = 1
  /\ pc[t] = "unlock_store" => reg[t] = 0
  /\ pc[t] \in {"unlock_again", "wait_thread"} => holds[t] = 0 /\ thread = 0 /\ count = 0
  /\ pc[t] \in {"wait_unlock", "wait_suspend", "suspended"} => holds[t] = 0

Turns ==
  turns =>
    /\ \A t \in Procs : Fits(t)
    /\ \A t \in Procs : Apart(t) \/ Alone(t)
    /\ (\A t \in Procs : Apart(t)) => thread = 0 /\ count = 0

IInv == TypeOK /\ Owned /\ Entries /\ Turns

-----------------------------------------------------------------------------
(* Words, and what the operations on them that the mutex uses do.          *)

LEMMA Sizes == M \in Nat \ {0} /\ 0 \in Words /\ \A t \in Procs : t \in Words /\ t # 0 /\ M >= 2
<1>1. M \in Int
  BY WAssumption DEF M
<1>2. 0 \in 0..M - 1 /\ Procs \subseteq 1..M - 1
  BY MutexAssumption DEF Words
<1> QED
  BY <1>1, <1>2 DEF Words

LEMMA Wraps == \A n \in Int : n % M \in Words
BY Sizes DEF Words

LEMMA Small == \A n \in Words : n % M = n
BY Sizes DEF Words

(* katomic_compare returns whether the words are equal and leaves their    *)
(* difference.                                                             *)
LEMMA Compared ==
  ASSUME NEW x \in Words, NEW y \in Words
  PROVE  /\ katomic_compare(x, y).mem \in Words
         /\ katomic_compare(x, y).eax = IF x = y THEN 1 ELSE 0
         /\ x = y => katomic_compare(x, y).mem = 0
         /\ ~katomic_compare(x, y).refused
<1>1. x \in Int /\ y \in Int /\ (x - y) % M \in Words
  BY Sizes, Wraps DEF Words
<1>2. (x - y) % M = 0 <=> x = y
  BY Sizes DEF Words
<1> QED
  BY <1>1, <1>2 DEF katomic_compare, sete, Alu, Cpu

(* The test of kmutex_lock's loop succeeds whoever has the mutex.          *)
LEMMA Tested ==
  ASSUME NEW x \in Words, NEW t \in Procs
  PROVE  LockTest(x, t).eax = 1 /\ LockTest(x, t).mem = IF x = 0 THEN t ELSE x
BY DEF LockTest, katomic_compare_and_set_if_equal, sete, xor, cmpxchgl, Cpu

LEMMA Set == \A x, y : katomic_set(x, y).mem = y
BY DEF katomic_set, Cpu

-----------------------------------------------------------------------------
(* What a step of thread t leaves of each conjunct.                        *)

LEMMA WaitersKept ==
  ASSUME TypeOK, NEW t \in Procs, NEW to, Goto(t, to), pc[t] \in Filled <=> to \in Filled
  PROVE  Waiters' = Waiters
BY DEF TypeOK, Goto, Waiters

LEMMA EntriesKept ==
  ASSUME Entries, UNCHANGED <<entry_next, entry, first>>, Waiters' = Waiters
  PROVE  Entries'
BY DEF Entries, Made

(* The mutex fits the threads after a step of the only one that uses it, or*)
(* of one that does not.                                                   *)
LEMMA TurnsKept ==
  ASSUME TypeOK, Turns, NEW t \in Procs,
         \A u \in Procs \ {t} : pc'[u] = pc[u] /\ holds'[u] = holds[u] /\ reg'[u] = reg[u],
         turns' => /\ turns
                   /\ Fits(t)'
                   /\ \/ Alone(t) /\ (Apart(t)' => thread' = 0 /\ count' = 0)
                      \/ Apart(t) /\ Apart(t)' /\ UNCHANGED <<thread, count>>
  PROVE  Turns'
<1> SUFFICES ASSUME turns'
             PROVE  /\ \A u \in Procs : Fits(u)'
                    /\ \A u \in Procs : Apart(u)' \/ Alone(u)'
                    /\ (\A u \in Procs : Apart(u)') => thread' = 0 /\ count' = 0
  BY DEF Turns
<1>1. \A u \in Procs \ {t} : Apart(u)' <=> Apart(u)
  BY DEF Apart
<1>2. /\ \A u \in Procs : Fits(u)
      /\ \A u \in Procs : Apart(u) \/ Alone(u)
      /\ (\A u \in Procs : Apart(u)) => thread = 0 /\ count = 0
  BY DEF Turns
<1>3. CASE Alone(t) /\ (Apart(t)' => thread' = 0 /\ count' = 0)
  <2>1. \A u \in Procs \ {t} : Fits(u)'
    <3> SUFFICES ASSUME NEW u \in Procs \ {t} PROVE Fits(u)'
      OBVIOUS
    <3>1. Apart(u) /\ pc'[u] = pc[u] /\ holds'[u] = holds[u]
      BY <1>3 DEF Alone
    <3> QED
      BY <3>1 DEF Apart, Fits
  <2>2. Alone(t)' /\ \A u \in Procs \ {t} : Apart(u)'
    BY <1>1, <1>3 DEF Alone
  <2> QED
    BY <1>3, <2>1, <2>2
<1>4. CASE Apart(t) /\ Apart(t)' /\ UNCHANGED <<thread, count>>
  <2>1. \A u \in Procs \ {t} : Fits(u)'
    BY <1>2, <1>4 DEF Fits
  <2>2. \A u \in Procs : Apart(u)' <=> Apart(u)
    BY <1>1, <1>4
  <2>3. \A u \in Procs : Apart(u)' \/ Alone(u)'
    BY <1>2, <2>2 DEF Alone
  <2> QED
    BY <1>2, <1>4, <2>1, <2>2, <2>3
<1> QED
  BY <1>3, <1>4

-----------------------------------------------------------------------------
(* The calls and the steps of the mutex.                                   *)

LEMMA KmutexLockStep ==
  ASSUME IInv, NEW t \in Procs, KmutexLock(t), UNCHANGED condVars
  PROVE  IInv'
<1> USE DEF IInv, condVars
<1>0. /\ thread' = IF thread = 0 THEN t ELSE thread
      /\ Goto(t, "lock_load") /\ pc[t] = "out"
  BY Tested DEF KmutexLock, TypeOK
<1>1. TypeOK'
  BY <1>0, Sizes DEF TypeOK, KmutexLock, Goto, Places, LockPlaces
<1>2. Owned'
  BY <1>0 DEF TypeOK, KmutexLock, Goto, Owned, LockPlaces
<1>3. Entries'
  BY <1>0, WaitersKept, EntriesKept DEF Filled
<1>4. Turns'
  <2>1. turns' => turns /\ Alone(t) /\ holds[t] = 0
    BY DEF KmutexLock
  <2>2. turns' => thread = 0 /\ count = 0
    BY <1>0, <2>1 DEF Turns, Alone, Apart
  <2>3. pc'[t] = "lock_load" /\ holds'[t] = holds[t]
    BY <1>0 DEF TypeOK, Goto, KmutexLock
  <2>4. turns' => Fits(t)' /\ ~Apart(t)'
    BY <1>0, <2>1, <2>2, <2>3 DEF Fits, Apart, KmutexLock
  <2> QED
    BY <1>0, <2>1, <2>4, TurnsKept DEF TypeOK, KmutexLock, Goto
<1> QED
  BY <1>1, <1>2, <1>3, <1>4

LEMMA KmutexTestStep ==
  ASSUME IInv, NEW t \in Procs, KmutexTest(t), UNCHANGED condVars
  PROVE  IInv'
<1> USE DEF IInv, condVars
<1>1. TypeOK'
  BY Compared, Sizes DEF TypeOK, KmutexTest
<1>2. Owned'
  BY DEF KmutexTest, Owned
<1>3. Entries'
  BY EntriesKept DEF KmutexTest, Waiters
<1>4. Turns'
  BY DEF KmutexTest, Turns
<1> QED
  BY <1>1, <1>2, <1>3, <1>4

(* In turns a thread that has the mutex is alone with it.                  *)
LEMMA HolderAlone ==
  ASSUME Turns, turns, NEW t \in Procs, ~Apart(t)
  PROVE  Fits(t) /\ Alone(t)
BY DEF Turns

LEMMA KmutexUnlockStep ==
  ASSUME IInv, NEW t \in Procs, KmutexUnlock(t), UNCHANGED condVars
  PROVE  IInv'
<1> USE DEF IInv, condVars
<1>0. /\ thread' \in Words
      /\ \/ thread # t /\ Goto(t, "out")
         \/ thread = t /\ thread' = 0 /\ Goto(t, "unlock_load")
      /\ pc[t] = "out" /\ holds[t] > 0 /\ holds' = [holds EXCEPT ![t] = @ - 1]
      /\ UNCHANGED <<count, reg, turns>>
  BY Compared, Sizes DEF KmutexUnlock, TypeOK
<1>1. TypeOK'
  BY <1>0 DEF TypeOK, Goto, Places, LockPlaces
<1>2. Owned'
  BY <1>0 DEF TypeOK, Goto, Owned, LockPlaces
<1>3. Entries'
  BY <1>0, WaitersKept, EntriesKept DEF Filled
<1>4. Turns'
  <2>1. turns => Fits(t) /\ Alone(t)
    BY <1>0, HolderAlone DEF Apart
  <2>2. turns => thread = t /\ count = 1 /\ holds[t] = 1
    BY <1>0, <2>1 DEF Fits, TypeOK
  <2>3. turns => pc'[t] = "unlock_load" /\ holds'[t] = 0
    BY <1>0, <2>2 DEF TypeOK, Goto
  <2>4. turns => Fits(t)' /\ ~Apart(t)'
    BY <1>0, <2>2, <2>3 DEF Fits, Apart
  <2> QED
    BY <1>0, <2>1, <2>4, TurnsKept DEF TypeOK, Goto
<1> QED
  BY <1>1, <1>2, <1>3, <1>4

LEMMA LockLoadStep ==
  ASSUME IInv, NEW t \in Procs, LockLoad(t), UNCHANGED condVars
  PROVE  IInv'
<1> USE DEF IInv, condVars
<1>1. TypeOK'
  <2>1. (count + 1) % M \in Words /\ (count + 1) % M \in Nat
    BY Sizes, Wraps DEF TypeOK, Words
  <2> QED
    BY <2>1 DEF TypeOK, LockLoad, Goto, Places, LockPlaces
<1>2. Owned'
  BY DEF TypeOK, Goto, LockLoad, Owned, LockPlaces
<1>3. Entries'
  BY WaitersKept, EntriesKept DEF Filled, LockLoad
<1>4. Turns'
  <2>1. turns => Fits(t) /\ Alone(t)
    BY HolderAlone DEF Apart, LockLoad
  <2>2. turns => Fits(t)' /\ (Apart(t)' => thread' = 0 /\ count' = 0)
    <3>1. turns => (count + 1) % M = 1
      BY <2>1, Sizes DEF Fits, LockLoad
    <3> QED
      BY <2>1, <3>1 DEF TypeOK, Fits, Apart, LockLoad, Goto
  <2> QED
    BY <2>1, <2>2, TurnsKept DEF TypeOK, LockLoad, Goto
<1> QED
  BY <1>1, <1>2, <1>3, <1>4

LEMMA LockStoreStep ==
  ASSUME IInv, NEW t \in Procs, LockStore(t), UNCHANGED condVars
  PROVE  IInv'
<1> USE DEF IInv, condVars
<1>1. TypeOK'
  BY DEF TypeOK, LockStore, Goto, Places, LockPlaces
<1>2. Owned'
  BY DEF TypeOK, Goto, LockStore, Owned, LockPlaces
<1>3. Entries'
  BY WaitersKept, EntriesKept DEF Filled, LockStore
<1>4. Turns'
  <2>1. turns => Fits(t) /\ Alone(t)
    BY HolderAlone DEF Apart, LockStore
  <2>2. turns => Fits(t)' /\ (Apart(t)' => thread' = 0 /\ count' = 0)
    BY <2>1 DEF TypeOK, Fits, Apart, LockStore, Goto
  <2> QED
    BY <2>1, <2>2, TurnsKept DEF TypeOK, LockStore, Goto
<1> QED
  BY <1>1, <1>2, <1>3, <1>4

LEMMA UnlockLoadStep ==
  ASSUME IInv, NEW t \in Procs, UnlockLoad(t), UNCHANGED condVars
  PROVE  IInv'
<1> USE DEF IInv, condVars
<1>1. TypeOK'
  <2>1. (count - 1) % M \in Words /\ (count - 1) % M \in Nat
    BY Sizes, Wraps DEF TypeOK, Words
  <2> QED
    BY <2>1 DEF TypeOK, UnlockLoad, Goto, Places, LockPlaces
<1>2. Owned'
  BY DEF TypeOK, Goto, UnlockLoad, Owned, LockPlaces
<1>3. Entries'
  BY WaitersKept, EntriesKept DEF Filled, UnlockLoad
<1>4. Turns'
  <2>1. turns => Fits(t) /\ Alone(t)
    BY HolderAlone DEF Apart, UnlockLoad
  <2>2. turns => Fits(t)' /\ (Apart(t)' => thread' = 0 /\ count' = 0)
    BY <2>1, Sizes, Small DEF TypeOK, Fits, Apart, UnlockLoad, Goto
  <2> QED
    BY <2>1, <2>2, TurnsKept DEF TypeOK, UnlockLoad, Goto
<1> QED
  BY <1>1, <1>2, <1>3, <1>4

LEMMA UnlockStoreStep ==
  ASSUME IInv, NEW t \in Procs, UnlockStore(t), UNCHANGED condVars
  PROVE  IInv'
<1> USE DEF IInv, condVars
<1>1. TypeOK'
  BY DEF TypeOK, UnlockStore, Goto, Places, LockPlaces
<1>2. Owned'
  BY DEF TypeOK, Goto, UnlockStore, Owned, LockPlaces
<1>3. Entries'
  BY WaitersKept, EntriesKept DEF Filled, UnlockStore
<1>4. Turns'
  <2>1. turns => Fits(t) /\ Alone(t)
    BY HolderAlone DEF Apart, UnlockStore
  <2>2. turns => Fits(t)' /\ (Apart(t)' => thread' = 0 /\ count' = 0)
    BY <2>1 DEF TypeOK, Fits, Apart, UnlockStore, Goto
  <2> QED
    BY <2>1, <2>2, TurnsKept DEF TypeOK, UnlockStore, Goto
<1> QED
  BY <1>1, <1>2, <1>3, <1>4

LEMMA UnlockAgainStep ==
  ASSUME IInv, NEW t \in Procs, UnlockAgain(t), UNCHANGED condVars
  PROVE  IInv'
<1> USE DEF IInv, condVars
<1>1. TypeOK'
  BY Set, Sizes DEF TypeOK, UnlockAgain, Goto, Places, LockPlaces
<1>2. Owned'
  BY DEF TypeOK, Goto, UnlockAgain, Owned, LockPlaces
<1>3. Entries'
  BY WaitersKept, EntriesKept DEF Filled, UnlockAgain
<1>4. Turns'
  <2>1. turns => Fits(t) /\ Alone(t)
    BY HolderAlone DEF Apart, UnlockAgain
  <2>2. turns => Fits(t)' /\ (Apart(t)' => thread' = 0 /\ count' = 0)
    BY <2>1, Set DEF TypeOK, Fits, Apart, UnlockAgain, Goto
  <2> QED
    BY <2>1, <2>2, TurnsKept DEF TypeOK, UnlockAgain, Goto
<1> QED
  BY <1>1, <1>2, <1>3, <1>4

-----------------------------------------------------------------------------
(* The calls and the steps of the condition variable.                      *)

LEMMA WaitLoadStep ==
  ASSUME IInv, NEW t \in Procs, WaitLoad(t)
  PROVE  IInv'
<1> USE DEF IInv, condVars
<1>1. TypeOK'
  BY DEF TypeOK, WaitLoad, Goto, Places, LockPlaces
<1>2. Owned'
  BY DEF TypeOK, Goto, WaitLoad, Owned, LockPlaces
<1>3. Entries'
  BY WaitersKept, EntriesKept DEF Filled, WaitLoad
<1>4. Turns'
  <2>1. turns => Fits(t) /\ Alone(t)
    BY HolderAlone DEF Apart, WaitLoad
  <2>2. turns => Fits(t)' /\ (Apart(t)' => thread' = 0 /\ count' = 0)
    BY <2>1 DEF TypeOK, Fits, Apart, WaitLoad, Goto
  <2> QED
    BY <2>1, <2>2, TurnsKept DEF TypeOK, WaitLoad, Goto
<1> QED
  BY <1>1, <1>2, <1>3, <1>4

LEMMA WaitCountStep ==
  ASSUME IInv, NEW t \in Procs, WaitCount(t)
  PROVE  IInv'
<1> USE DEF IInv, condVars
<1>1. TypeOK'
  BY Sizes DEF TypeOK, WaitCount, Goto, Places, LockPlaces
<1>2. Owned'
  BY DEF TypeOK, Goto, WaitCount, Owned, LockPlaces
<1>3. Entries'
  BY WaitersKept, EntriesKept DEF Filled, WaitCount
<1>4. Turns'
  <2>1. turns => Fits(t) /\ Alone(t)
    BY HolderAlone DEF Apart, WaitCount
  <2>2. turns => Fits(t)' /\ (Apart(t)' => thread' = 0 /\ count' = 0)
    BY <2>1 DEF TypeOK, Fits, Apart, WaitCount, Goto
  <2> QED
    BY <2>1, <2>2, TurnsKept DEF TypeOK, WaitCount, Goto
<1> QED
  BY <1>1, <1>2, <1>3, <1>4

LEMMA WaitThreadStep ==
  ASSUME IInv, NEW t \in Procs, WaitThread(t)
  PROVE  IInv'
<1> USE DEF IInv, condVars
<1>1. TypeOK'
  BY Set, Sizes DEF TypeOK, WaitThread, Goto, Places, LockPlaces
<1>2. Owned'
  BY DEF TypeOK, Goto, WaitThread, Owned, LockPlaces
<1>3. Entries'
  BY WaitersKept, EntriesKept DEF Filled, WaitThread
<1>4. Turns'
  <2>1. turns => Fits(t) /\ Alone(t)
    BY HolderAlone DEF Apart, WaitThread
  <2>2. turns => Fits(t)' /\ (Apart(t)' => thread' = 0 /\ count' = 0)
    BY <2>1, Set DEF TypeOK, Fits, Apart, WaitThread, Goto
  <2> QED
    BY <2>1, <2>2, TurnsKept DEF TypeOK, WaitThread, Goto
<1> QED
  BY <1>1, <1>2, <1>3, <1>4

LEMMA WaitUnlockStep ==
  ASSUME IInv, NEW t \in Procs, WaitUnlock(t)
  PROVE  IInv'
<1> USE DEF IInv, condVars
<1>1. TypeOK'
  BY DEF TypeOK, WaitUnlock, Goto, Places, LockPlaces
<1>2. Owned'
  BY DEF TypeOK, Goto, WaitUnlock, Owned, LockPlaces
<1>3. Entries'
  BY WaitersKept, EntriesKept DEF Filled, WaitUnlock
<1>4. Turns'
  <2>1. turns => Fits(t)
    BY DEF Turns
  <2>2. turns => Fits(t)' /\ Apart(t) /\ Apart(t)'
    BY <2>1 DEF TypeOK, Fits, Apart, WaitUnlock, Goto
  <2> QED
    BY <2>1, <2>2, TurnsKept DEF TypeOK, WaitUnlock, Goto
<1> QED
  BY <1>1, <1>2, <1>3, <1>4

LEMMA WaitSuspendStep ==
  ASSUME IInv, NEW t \in Procs, WaitSuspend(t)
  PROVE  IInv'
<1> USE DEF IInv, condVars
<1>1. TypeOK'
  BY DEF TypeOK, WaitSuspend, Goto, Places, LockPlaces
<1>2. Owned'
  BY DEF TypeOK, Goto, WaitSuspend, Owned, LockPlaces
<1>3. Entries'
  BY WaitersKept, EntriesKept DEF Filled, WaitSuspend
<1>4. Turns'
  <2>1. turns => Fits(t)
    BY DEF Turns
  <2>2. turns => Fits(t)' /\ Apart(t) /\ Apart(t)'
    BY <2>1 DEF TypeOK, Fits, Apart, WaitSuspend, Goto
  <2> QED
    BY <2>1, <2>2, TurnsKept DEF TypeOK, WaitSuspend, Goto
<1> QED
  BY <1>1, <1>2, <1>3, <1>4

LEMMA KconditionWaitStep ==
  ASSUME IInv, NEW t \in Procs, KconditionWait(t)
  PROVE  IInv'
<1> USE DEF IInv, condVars
<1>0. /\ thread' \in Words
      /\ \/ thread # t /\ Goto(t, "out") /\ holds' = [holds EXCEPT ![t] = @]
         \/ thread = t /\ thread' = 0 /\ Goto(t, "wait_lock") /\ holds' = [holds EXCEPT ![t] = 0]
      /\ pc[t] = "out"
      /\ UNCHANGED <<count, reg, condVars>>
  <2>1. thread \in Words /\ t \in Words
    BY Sizes DEF TypeOK
  <2>2. /\ pc[t] = "out" /\ UNCHANGED <<count, reg, condVars>>
        /\ thread' = katomic_compare(thread, t).mem
        /\ Goto(t, IF katomic_compare(thread, t).eax = 0 THEN "out" ELSE "wait_lock")
        /\ holds' = [holds EXCEPT ![t] = IF katomic_compare(thread, t).eax = 0 THEN @ ELSE 0]
    BY DEF KconditionWait
  <2>3. CASE thread = t
    <3>1. katomic_compare(thread, t).eax # 0 /\ katomic_compare(thread, t).mem = 0
      BY <2>1, <2>3, Compared
    <3> QED
      BY <2>1, <2>2, <2>3, <3>1, Sizes
  <2>4. CASE thread # t
    <3>1. katomic_compare(thread, t).eax = 0 /\ katomic_compare(thread, t).mem \in Words
      BY <2>1, <2>4, Compared
    <3> QED
      BY <2>1, <2>2, <2>4, <3>1
  <2> QED
    BY <2>3, <2>4
<1>turn. turns' \in BOOLEAN /\ (turns' => turns /\ holds[t] > 0)
  BY DEF KconditionWait
<1>1. TypeOK'
  BY <1>0, <1>turn DEF TypeOK, Goto, Places, LockPlaces
<1>2. Owned'
  BY <1>0 DEF TypeOK, Goto, Owned, LockPlaces
<1>3. Entries'
  BY <1>0, WaitersKept, EntriesKept DEF Filled
<1>4. Turns'
  <2>1. turns' => turns /\ holds[t] > 0 /\ Fits(t) /\ Alone(t)
    BY <1>turn, HolderAlone DEF Apart, TypeOK
  <2>2. turns' => thread = t /\ count = 1
    BY <1>0, <2>1 DEF Fits, TypeOK
  <2>3. turns' => pc'[t] = "wait_lock" /\ holds'[t] = 0
    BY <1>0, <2>2 DEF TypeOK, Goto
  <2>4. turns' => Fits(t)' /\ ~Apart(t)'
    BY <1>0, <2>2, <2>3 DEF Fits, Apart
  <2> QED
    BY <1>0, <2>1, <2>4, TurnsKept DEF TypeOK, Goto
<1> QED
  BY <1>1, <1>2, <1>3, <1>4

(* The index a waiter has loaded is of an entry the table has, since the   *)
(* waiters before it are others than itself.                               *)
LEMMA EntryFree ==
  ASSUME IInv, NEW t \in Procs, pc[t] \notin Filled
  PROVE  /\ IsFiniteSet(Waiters) /\ Cardinality(Waiters) \in Nat
         /\ t \notin Waiters /\ entry_next \in Slots /\ Made \subseteq Slots
<1>1. IsFiniteSet(Procs)
  <2>1. M - 1 \in Int /\ IsFiniteSet(1..M - 1)
    BY Sizes, FS_Interval
  <2> QED
    BY <2>1, MutexAssumption, FS_Subset
<1>2. Waiters \subseteq Procs \ {t} /\ t \notin Waiters
  BY DEF Waiters
<1>3. /\ IsFiniteSet(Procs \ {t}) /\ Cardinality(Procs \ {t}) = Cardinality(Procs) - 1
      /\ Cardinality(Procs) \in Nat
  BY <1>1, FS_RemoveElement, FS_CardinalityType
<1>4. /\ IsFiniteSet(Waiters) /\ Cardinality(Waiters) \in Nat
      /\ Cardinality(Waiters) <= Cardinality(Procs \ {t})
  BY <1>2, <1>3, FS_Subset, FS_CardinalityType
<1>5. entry_next \in Slots
  BY <1>3, <1>4, MaxLeftAssumption DEF IInv, TypeOK, Entries, Slots
<1>6. Made \subseteq Slots
  BY <1>3, <1>5, MaxLeftAssumption DEF Made, Slots, IInv, TypeOK
<1> QED
  BY <1>2, <1>4, <1>5, <1>6

LEMMA WaitFillStep ==
  ASSUME IInv, NEW t \in Procs, WaitFill(t)
  PROVE  IInv'
<1> USE DEF IInv, condVars
<1>0. /\ pc[t] = "wait_fill" /\ reg[t] = entry_next /\ entry_next' = entry_next + 1
      /\ entry' = [entry EXCEPT ![entry_next] = [thread |-> t, mutex_count |-> count]]
  BY DEF WaitFill, Owned
<1>1. /\ IsFiniteSet(Waiters) /\ Cardinality(Waiters) \in Nat /\ t \notin Waiters
      /\ entry_next \in Slots /\ Made \subseteq Slots
  BY <1>0, EntryFree DEF Filled
<1>2. TypeOK'
  <2>1. t \in Nat /\ count \in Nat
    BY Sizes DEF TypeOK, Words
  <2>2. entry' \in [Slots -> [thread : Nat, mutex_count : Nat]]
    BY <1>0, <2>1 DEF TypeOK
  <2> QED
    BY <1>0, <2>2 DEF TypeOK, WaitFill, Goto, Places, LockPlaces
<1>3. Owned'
  BY DEF TypeOK, Goto, WaitFill, Owned, LockPlaces
<1>4. Entries'
  <2>1. Waiters' = Waiters \cup {t}
    BY DEF Waiters, WaitFill, Goto, TypeOK, Filled
  <2>2. Cardinality(Waiters') = Cardinality(Waiters) + 1
    BY <1>1, <2>1, FS_AddElement
  <2>3. Cardinality(Waiters) \in Nat /\ first' = first /\ first \in Nat
    BY <1>1 DEF WaitFill, TypeOK
  <2>4. entry_next' = first' + Cardinality(Waiters')
    BY <1>0, <2>2, <2>3 DEF Entries
  <2>5. Made' = Made \cup {entry_next} /\ entry_next \notin Made
    BY <1>0, <2>3 DEF Made, Entries, TypeOK
  <2>6. /\ entry'[entry_next].thread = t
        /\ \A i \in Made : entry'[i].thread = entry[i].thread
    BY <1>0, <1>1, <2>5 DEF TypeOK
  <2> HIDE DEF IInv
  <2>7. /\ \A i \in Made : entry[i].thread \in Waiters
        /\ \A i, j \in Made : entry[i].thread = entry[j].thread => i = j
        /\ \A u \in Waiters : \E i \in Made : entry[i].thread = u
    BY DEF IInv, Entries
  <2>8. \A i \in Made' : entry'[i].thread \in Waiters'
    BY <2>1, <2>5, <2>6, <2>7
  <2>9. \A i, j \in Made' : entry'[i].thread = entry'[j].thread => i = j
    BY <1>1, <2>5, <2>6, <2>7
  <2>10. \A u \in Waiters' : \E i \in Made' : entry'[i].thread = u
    BY <2>1, <2>5, <2>6, <2>7
  <2> QED
    BY <2>4, <2>8, <2>9, <2>10 DEF Entries
<1>5. Turns'
  <2>1. turns => Fits(t) /\ Alone(t)
    BY HolderAlone DEF Apart, WaitFill
  <2>2. turns => Fits(t)' /\ (Apart(t)' => thread' = 0 /\ count' = 0)
    BY <2>1 DEF TypeOK, Fits, Apart, WaitFill, Goto
  <2> QED
    BY <2>1, <2>2, TurnsKept DEF TypeOK, WaitFill, Goto
<1> QED
  BY <1>2, <1>3, <1>4, <1>5

(* A thread that takes the spinlock finds nobody else between taking it and*)
(* giving it back.                                                         *)
LEMMA SpinLockStep ==
  ASSUME IInv, NEW t \in Procs, NEW at, NEW to, SpinLock(t, at, to),
         \/ at = "wait_lock" /\ to = "wait_load"
         \/ at = "signal" /\ to = "signal_resume"
         \/ at = "broadcast" /\ to = "broadcast_resume"
  PROVE  IInv'
<1> USE DEF IInv
<1>1. TypeOK'
  BY DEF TypeOK, SpinLock, Goto, Places, LockPlaces
<1>2. Owned'
  BY DEF TypeOK, Goto, SpinLock, Owned, LockPlaces
<1>3. Entries'
  BY WaitersKept, EntriesKept DEF Filled, SpinLock
<1>4. Turns'
  <2>1. turns => Fits(t) /\ (Apart(t) \/ Alone(t))
    BY DEF Turns
  <2>2. Fits(t) => Fits(t)'
    BY DEF TypeOK, Fits, SpinLock, Goto
  <2>3. Apart(t)' <=> Apart(t)
    BY DEF TypeOK, Apart, SpinLock, Goto
  <2>4. turns => (Apart(t) /\ Apart(t)') \/ (Alone(t) /\ ~Apart(t)')
    BY <2>1, <2>3
  <2> QED
    BY <2>1, <2>2, <2>4, TurnsKept DEF TypeOK, SpinLock, Goto
<1> QED
  BY <1>1, <1>2, <1>3, <1>4

LEMMA KconditionSignalStep ==
  ASSUME IInv, NEW t \in Procs, KconditionSignal(t)
  PROVE  IInv'
<1> USE DEF IInv, condVars
<1>0. /\ pc[t] = "out" /\ (Goto(t, "signal") \/ Goto(t, "broadcast"))
      /\ UNCHANGED <<thread, count, reg, holds, turns, condVars>>
  BY DEF KconditionSignal, Signals, ResumeIn
<1>1. TypeOK'
  BY <1>0 DEF TypeOK, Goto, Places, LockPlaces
<1>2. Owned'
  BY <1>0 DEF TypeOK, Goto, Owned, LockPlaces
<1>3. Entries'
  BY <1>0, WaitersKept, EntriesKept DEF Filled
<1>4. Turns'
  <2>1. turns => Fits(t) /\ (Apart(t) \/ Alone(t))
    BY DEF Turns
  <2>2. Fits(t) => Fits(t)'
    BY <1>0 DEF TypeOK, Fits, Goto
  <2>3. Apart(t)' <=> Apart(t)
    BY <1>0 DEF TypeOK, Apart, Goto
  <2>4. turns => (Apart(t) /\ Apart(t)') \/ (Alone(t) /\ ~Apart(t)')
    BY <2>1, <2>3
  <2> QED
    BY <1>0, <2>1, <2>2, <2>4, TurnsKept DEF TypeOK, Goto
<1> QED
  BY <1>1, <1>2, <1>3, <1>4

LEMMA SignalResumeStep ==
  ASSUME IInv, NEW t \in Procs, NEW f \in Signals, SignalResume(t, f)
  PROVE  IInv'
<1> USE DEF IInv, condVars
<1>0. /\ pc[t] \in {"signal_resume", "broadcast_resume"} /\ Goto(t, "out")
      /\ lock' \in {lock, {}} /\ hung' \in BOOLEAN
      /\ UNCHANGED <<thread, count, reg, holds, turns, entry_next, entry, first>>
  <2>1. pc[t] \in {"signal_resume", "broadcast_resume"}
    BY DEF SignalResume, Signals, ResumeIn
  <2>2. hung' \in BOOLEAN
    BY DEF SignalResume
  <2>3. lock' \in {lock, {}}
    BY DEF SignalResume
  <2> QED
    BY <2>1, <2>2, <2>3 DEF SignalResume
<1>1. TypeOK'
  BY <1>0 DEF TypeOK, Goto, Places, LockPlaces
<1>2. Owned'
  BY <1>0 DEF TypeOK, Goto, Owned, LockPlaces
<1>3. Entries'
  BY <1>0, WaitersKept, EntriesKept DEF Filled
<1>4. Turns'
  <2>1. turns => Fits(t) /\ (Apart(t) \/ Alone(t))
    BY DEF Turns
  <2>2. Fits(t) => Fits(t)'
    BY <1>0 DEF TypeOK, Fits, Goto
  <2>3. Apart(t)' <=> Apart(t)
    BY <1>0 DEF TypeOK, Apart, Goto
  <2>4. turns => (Apart(t) /\ Apart(t)') \/ (Alone(t) /\ ~Apart(t)')
    BY <2>1, <2>3
  <2> QED
    BY <1>0, <2>1, <2>2, <2>4, TurnsKept DEF TypeOK, Goto
<1> QED
  BY <1>1, <1>2, <1>3, <1>4

-----------------------------------------------------------------------------
(* The inductive invariant holds at the start, and every step keeps it.    *)

LEMMA InitHolds == Init => IInv
<1> SUFFICES ASSUME Init PROVE IInv
  OBVIOUS
<1> USE DEF Init, MutexInit
<1>1. TypeOK
  <2>1. Leftovers \subseteq Words /\ Words \subseteq Nat
    BY Sizes, MutexAssumption DEF Words
  <2>2. entry \in [Slots -> [thread : Nat, mutex_count : Nat]]
    BY <2>1
  <2>3. lock \in {{}, {0}} /\ turns \in BOOLEAN /\ hung \in BOOLEAN
    BY Zenon
  <2> QED
    BY <2>1, <2>2, <2>3 DEF TypeOK, Places
<1>2. Owned
  BY DEF Owned, LockPlaces
<1>3. Entries
  <2>1. Waiters = {} /\ Cardinality(Waiters) = 0
    BY FS_EmptySet DEF Waiters, Filled
  <2>2. Made = {}
    BY <1>1 DEF Made, TypeOK
  <2> QED
    BY <1>1, <2>1, <2>2 DEF Entries, TypeOK
<1>4. Turns
  BY DEF Turns, Fits, Apart, Alone
<1> QED
  BY <1>1, <1>2, <1>3, <1>4 DEF IInv

LEMMA NextKeeps == IInv /\ [Next]_vars => IInv'
<1>1. ASSUME IInv, UNCHANGED vars PROVE IInv'
  BY <1>1 DEF IInv, vars, mutexVars, condVars, TypeOK, Owned, Entries, Turns, Waiters, Made,
              Fits, Apart, Alone
<1>2. ASSUME IInv, NEW t \in Procs, Call(t) PROVE IInv'
  BY <1>2, KmutexLockStep, KmutexTestStep, KmutexUnlockStep, KconditionWaitStep,
     KconditionSignalStep DEF Call, MutexCall
<1>3. ASSUME IInv, NEW t \in Procs, Step(t) PROVE IInv'
  <2>1. ASSUME SpinLock(t, "wait_lock", "wait_load") PROVE IInv'
    BY <1>3, <2>1, SpinLockStep
  <2>2. ASSUME NEW f \in Signals, SpinLock(t, f, ResumeIn[f]) PROVE IInv'
    BY <1>3, <2>2, SpinLockStep DEF Signals, ResumeIn
  <2>3. ASSUME NEW f \in Signals, SignalResume(t, f) PROVE IInv'
    BY <1>3, <2>3, SignalResumeStep
  <2>4. ASSUME MutexStep(t), UNCHANGED condVars PROVE IInv'
    BY <1>3, <2>4, LockLoadStep, LockStoreStep, UnlockLoadStep, UnlockStoreStep,
       UnlockAgainStep DEF MutexStep
  <2>5. ASSUME WaitLoad(t) \/ WaitFill(t) \/ WaitCount(t) \/ WaitThread(t) \/ WaitUnlock(t)
                 \/ WaitSuspend(t)
        PROVE  IInv'
    BY <1>3, <2>5, WaitLoadStep, WaitFillStep, WaitCountStep, WaitThreadStep, WaitUnlockStep,
       WaitSuspendStep
  <2> QED
    BY <1>3, <2>1, <2>2, <2>3, <2>4, <2>5 DEF Step
<1> QED
  BY <1>1, <1>2, <1>3 DEF Next

(* In every state the words have their types, a thread that is in the      *)
(* condition's protected part has its spinlock, and the mutex fits the     *)
(* threads as long as they take turns.                                     *)
THEOREM Invariance == Spec => []IInv
BY InitHolds, NextKeeps, PTL DEF Spec

(* kcondition_wait makes exactly one entry for each thread that waits, in  *)
(* a slot of its own inside the table, however many come to wait together. *)
THEOREM WaitersEntered == Spec => []EntriesAreWaiters
<1>1. IInv => EntriesAreWaiters
  <2> SUFFICES ASSUME IInv, NEW t \in Procs
               PROVE  Cardinality({i \in Made : entry[i].thread = t})
                        = IF pc[t] \in Filled THEN 1 ELSE 0
    BY DEF EntriesAreWaiters, Made
  <2>1. CASE pc[t] \in Filled
    <3>1. PICK i \in Made : entry[i].thread = t
      BY <2>1 DEF IInv, Entries, Waiters
    <3>2. {j \in Made : entry[j].thread = t} = {i}
      BY <3>1 DEF IInv, Entries
    <3> QED
      BY <2>1, <3>2, FS_Singleton
  <2>2. CASE pc[t] \notin Filled
    <3>1. {j \in Made : entry[j].thread = t} = {}
      BY <2>2 DEF IInv, Entries, Waiters
    <3> QED
      BY <2>2, <3>1, FS_EmptySet
  <2> QED
    BY <2>1, <2>2
<1> QED
  BY <1>1, Invariance, PTL

(* Threads that use the mutex in turns find it naming its owner and        *)
(* counting 1, or naming nobody and counting 0.                            *)
THEOREM MutexInTurns == Spec => []TurnsWork
<1>1. IInv => TurnsWork
  <2> SUFFICES ASSUME IInv, turns
               PROVE  /\ \A t \in Procs : holds[t] > 0 /\ pc[t] = "out" => thread = t /\ count = 1
                      /\ (\A t \in Procs : Apart(t)) => thread = 0 /\ count = 0
    BY DEF TurnsWork
  <2>1. \A t \in Procs : Fits(t) /\ holds[t] \in Nat
    BY DEF IInv, Turns, TypeOK
  <2> QED
    BY <2>1 DEF IInv, Turns, Fits
<1> QED
  BY <1>1, Invariance, PTL

-----------------------------------------------------------------------------
(* The atomic operations, for words of any length.                         *)

LEMMA Counted ==
  ASSUME NEW x \in Words
  PROVE  /\ Leaves(katomic_inc(x), IF x = M - 1 THEN 0 ELSE x + 1)
         /\ Leaves(katomic_dec(x), IF x = 0 THEN M - 1 ELSE x - 1)
<1>1. /\ (x + 1) % M = IF x = M - 1 THEN 0 ELSE x + 1
      /\ (x - 1) % M = IF x = 0 THEN M - 1 ELSE x - 1
  BY Sizes DEF Words
<1> QED
  BY <1>1 DEF Leaves, katomic_inc, katomic_dec, Alu, Cpu

LEMMA CountedAndTested ==
  ASSUME NEW x \in Words
  PROVE  /\ Leaves(katomic_inc_and_test(x), katomic_inc(x).mem)
         /\ Returns(katomic_inc_and_test(x), katomic_inc(x).mem = 0)
         /\ Leaves(katomic_dec_and_test(x), katomic_dec(x).mem)
         /\ Returns(katomic_dec_and_test(x), katomic_dec(x).mem = 0)
<1>1. ASSUME NEW v
      PROVE  LET s == sete(Alu(Cpu(x, 0), v))
             IN  Leaves(s, v % M) /\ Returns(s, v % M = 0) /\ Alu(Cpu(x, 0), v).mem = v % M
  BY DEF Leaves, Returns, sete, Alu, Cpu
<1> QED
  BY <1>1 DEF katomic_inc_and_test, katomic_inc, katomic_dec_and_test, katomic_dec

(* A subtraction takes back what an addition added, across the wrap too.   *)
LEMMA Added ==
  ASSUME NEW x \in Words, NEW y \in Words
  PROVE  /\ Leaves(katomic_add(x, y), (x + y) % M)
         /\ Leaves(katomic_sub(katomic_add(x, y).mem, y), x)
<1>1. (((x + y) % M) - y) % M = x
  <2>1. x + y < M => (x + y) % M = x + y
    BY Sizes DEF Words
  <2>2. x + y >= M => (x + y) % M = x + y - M
    BY Sizes DEF Words
  <2>3. x % M = x /\ (x - M) % M = x
    BY Sizes DEF Words
  <2>4. ((x + y) % M) - y \in {x, x - M}
    BY <2>1, <2>2, Sizes DEF Words
  <2> QED
    BY <2>3, <2>4
<1> QED
  BY <1>1 DEF Leaves, katomic_add, katomic_sub, Alu, Cpu

LEMMA Exchanged ==
  ASSUME NEW x \in Words, NEW y \in Words, NEW v \in Words
  PROVE  Leaves(katomic_compare_and_set_if_equal(x, y, v), IF x = y THEN v ELSE x)
BY DEF Leaves, katomic_compare_and_set_if_equal, sete, xor, cmpxchgl, Cpu

LEMMA BitsSet ==
  ASSUME NEW x \in Words, NEW b \in Bits
  PROVE  /\ Leaves(katomic_bit_set(x, b), SetBit(x, b, 1))
         /\ Leaves(katomic_bit_reset(x, b), SetBit(x, b, 0))
         /\ Leaves(katomic_bit_test_and_set(x, b), SetBit(x, b, 1))
         /\ Returns(katomic_bit_test_and_set(x, b), Bit(x, b) = 1)
         /\ Leaves(katomic_bit_test_and_reset(x, b), SetBit(x, b, 0))
         /\ Returns(katomic_bit_test_and_reset(x, b), Bit(x, b) = 1)
<1> DEFINE p == 2^b
<1>1. p \in Int /\ p > 0 /\ x \in Int
  BY WAssumption, PowerAssumption, Sizes DEF Bits, Words
<1> HIDE DEF p
<1>2. (x \div p) % 2 \in {0, 1}
  <2>1. x \div p \in Int
    BY <1>1
  <2> QED
    BY <2>1
<1>3. Bit(x, b) \in {0, 1}
  BY <1>2 DEF Bit, p
<1>4. /\ x + (1 - Bit(x, b)) * p = x - Bit(x, b) * p + 1 * p
      /\ x - Bit(x, b) * p = x - Bit(x, b) * p + 0 * p
  BY <1>1, <1>3
<1>5. /\ x + (1 - Bit(x, b)) * 2^b = SetBit(x, b, 1)
      /\ x - Bit(x, b) * 2^b = SetBit(x, b, 0)
  BY <1>4 DEF SetBit, p
<1> QED
  BY <1>5 DEF Leaves, Returns, katomic_bit_set, katomic_bit_reset, katomic_bit_test_and_set,
              katomic_bit_test_and_reset, btsl, btrl, setc, Cpu

(* Whatever word of whatever length the mutex is left with, the atomic     *)
(* operations of atomic.c do to it and return what their names say, but for*)
(* the five that Agrees excepts.                                           *)
THEOREM AtomicsExact == Spec => []AtomicsAgree
<1>1. IInv => AtomicsAgree
  <2> SUFFICES ASSUME IInv PROVE Agrees(thread)
    BY DEF AtomicsAgree
  <2>1. thread \in Words
    BY DEF IInv, TypeOK
  <2>2. /\ katomic_get(thread).eax = thread /\ Leaves(katomic_get(thread), thread)
        /\ \A y \in Words : Leaves(katomic_set(thread, y), y)
    BY DEF Leaves, katomic_get, katomic_set, Cpu
  <2>3. \A y \in Words : Returns(katomic_compare(thread, y), thread = y)
    BY <2>1, Compared DEF Returns
  <2> QED
    BY <2>1, <2>2, <2>3, Counted, CountedAndTested, Added, Exchanged, BitsSet DEF Agrees
<1> QED
  BY <1>1, Invariance, PTL
=============================================================================
