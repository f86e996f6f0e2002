-------------------------------- MODULE Mutex --------------------------------
(***************************************************************************)
(* The mutex of arch/ia32/mutex.c: the word that names its owner and the   *)
(* count of nested locks.  The build does not optimise, so that count++    *)
(* and --count load, store and (to test it) load again, and a thread may   *)
(* be interrupted between any two of these steps.                          *)
(***************************************************************************)
EXTENDS Atomic

CONSTANTS Procs,      \* thread numbers
          MaxDepth,   \* bound: nested locks of a thread
          Leftovers   \* what the words of a page hold that is not cleared

ASSUME MutexAssumption ==
  Procs \subseteq 1..M - 1 /\ MaxDepth \in Nat /\ 0 \in Leftovers /\ Leftovers \subseteq Words

VARIABLES
  thread,   \* mutex->thread
  count,    \* mutex->count
  pc,       \* where each thread is
  reg,      \* the register of a thread that holds a count or an index, 0 once used
  holds,    \* history: locks that returned less unlocks that were called
  turns     \* history: the threads have used the mutex in turns

mutexVars == <<thread, count, pc, reg, holds, turns>>

(* kmutex_create asks for a page that is not cleared.                      *)
MutexInit ==
  /\ thread \in Leftovers /\ count \in Leftovers
  /\ pc = [t \in Procs |-> "out"]
  /\ reg = [t \in Procs |-> 0]
  /\ holds = [t \in Procs |-> 0]
  /\ turns = (thread = 0 /\ count = 0)

Goto(t, at) == pc' = [pc EXCEPT ![t] = at]

(* A thread that neither has the mutex nor is in a function that changes   *)
(* it, and the threads but t being so.                                     *)
Apart(t) ==
  holds[t] = 0 /\ pc[t] \notin {"lock_load", "lock_store", "unlock_load", "unlock_store",
                                "unlock_again", "wait_lock", "wait_load", "wait_fill",
                                "wait_count", "wait_thread"}
Alone(t) == \A u \in Procs \ {t} : Apart(u)

(* The test of kmutex_lock's loop, katomic_compare_and_set_if_equal ||     *)
(* katomic_compare.  The first always returns 1, so that the second is not *)
(* called, and nobody ever yields and tries again.                         *)
LockTest(mem, t) ==
  LET s == katomic_compare_and_set_if_equal(mem, 0, t)
  IN  IF s.eax # 0 THEN s ELSE katomic_compare(s.mem, t)

KmutexLock(t) ==
  /\ pc[t] = "out" /\ holds[t] < MaxDepth
  /\ LET s == LockTest(thread, t)
     IN  /\ thread' = s.mem
         /\ Goto(t, IF s.eax # 0 THEN "lock_load" ELSE "out")
  /\ turns' = (turns /\ Alone(t) /\ holds[t] = 0)
  /\ UNCHANGED <<count, reg, holds>>

LockLoad(t) ==
  /\ pc[t] = "lock_load"
  /\ reg' = [reg EXCEPT ![t] = (count + 1) % M]
  /\ Goto(t, "lock_store")
  /\ UNCHANGED <<thread, count, holds, turns>>

LockStore(t) ==
  /\ pc[t] = "lock_store"
  /\ count' = reg[t]
  /\ holds' = [holds EXCEPT ![t] = @ + 1]
  /\ reg' = [reg EXCEPT ![t] = 0]
  /\ Goto(t, "out")
  /\ UNCHANGED <<thread, turns>>

(* kmutex_test, whose comparison subtracts from the word.  Called for      *)
(* itself it leaves a mutex that no longer names its owner.                *)
KmutexTest(t) ==
  /\ pc[t] = "out"
  /\ thread' = katomic_compare(thread, t).mem
  /\ turns' = FALSE
  /\ UNCHANGED <<count, pc, reg, holds>>

(* kmutex_unlock, up to its early return.  Threads unlock what they locked.*)
KmutexUnlock(t) ==
  /\ pc[t] = "out" /\ holds[t] > 0
  /\ LET s == katomic_compare(thread, t)
     IN  /\ thread' = s.mem
         /\ Goto(t, IF s.eax = 0 THEN "out" ELSE "unlock_load")
  /\ holds' = [holds EXCEPT ![t] = @ - 1]
  /\ UNCHANGED <<count, reg, turns>>

UnlockLoad(t) ==
  /\ pc[t] = "unlock_load"
  /\ reg' = [reg EXCEPT ![t] = (count - 1) % M]
  /\ Goto(t, "unlock_store")
  /\ UNCHANGED <<thread, count, holds, turns>>

(* Faulty variants of a definition stand before it, for mutation testing.  *)
UnlockStore_KeepsCount(t) ==
  /\ pc[t] = "unlock_store"
  /\ Goto(t, "unlock_again")
  /\ UNCHANGED <<thread, count, reg, holds, turns>>

UnlockStore(t) ==
  /\ pc[t] = "unlock_store"
  /\ count' = reg[t]
  /\ reg' = [reg EXCEPT ![t] = 0]
  /\ Goto(t, "unlock_again")
  /\ UNCHANGED <<thread, holds, turns>>

UnlockAgain(t) ==
  /\ pc[t] = "unlock_again"
  /\ thread' = IF count = 0 THEN katomic_set(thread, 0).mem ELSE thread
  /\ Goto(t, "out")
  /\ UNCHANGED <<count, reg, holds, turns>>

MutexStep(t) ==
  LockLoad(t) \/ LockStore(t) \/ UnlockLoad(t) \/ UnlockStore(t) \/ UnlockAgain(t)
MutexCall(t) == KmutexLock(t) \/ KmutexTest(t) \/ KmutexUnlock(t)

-----------------------------------------------------------------------------
(* On whatever word the mutex is left with (it takes every value), the     *)
(* atomic operations do to the word, and return, what their names say, but *)
(* for the five named with Agrees.                                         *)
AtomicsAgree == (\A t \in Procs : pc[t] = "out" /\ holds[t] = 0) => Agrees(thread)

(* Two threads never have the mutex at the same time.                      *)
MutualExclusion == \A t, u \in Procs : holds[t] > 0 /\ holds[u] > 0 => t = u

(* As long as nobody asks for the mutex while another thread has it or is  *)
(* in one of its functions, nobody nests it and nobody calls kmutex_test,  *)
(* the mutex is what it seems: at rest it names the one thread that has it *)
(* and counts 1, or else names nobody and counts 0, so that every          *)
(* kmutex_unlock and kcondition_wait finds its caller the owner.           *)
TurnsWork ==
  turns =>
    /\ \A t \in Procs : holds[t] > 0 /\ pc[t] = "out" => thread = t /\ count = 1
    /\ (\A t \in Procs : Apart(t)) => thread = 0 /\ count = 0
=============================================================================
