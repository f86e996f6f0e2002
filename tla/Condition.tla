------------------------------ MODULE Condition ------------------------------
(***************************************************************************)
(* The condition variables of arch/ia32/condition.c, on top of the mutex.  *)
(* A waiter makes an entry under the condition's spinlock, releases the    *)
(* mutex and suspends itself; kcondition_signal and kcondition_broadcast   *)
(* resume the threads of the entries.  kthread_resume finds no thread but  *)
(* its caller (thread.c, find_thread): for any other it dereferences a     *)
(* null pointer with kthread_spinlock held and the kernel hangs.  No       *)
(* waiter is ever resumed, so that the rest of kcondition_wait never runs. *)
(* kcondition_timedwait returns -1 and changes nothing.                    *)
(***************************************************************************)
EXTENDS Mutex, FiniteSets

CONSTANT MaxLeft   \* bound: entries an uncleared page seems to hold

ASSUME MaxLeftAssumption == MaxLeft \in Nat

VARIABLES
  lock,         \* the set with the thread that has condition->lock, or {}; {0}: set from the start
  entry_next,   \* condition->entry_next
  entry,        \* the thread and mutex_count of condition->entry_array
  first,        \* history: entry_next at the start
  hung          \* a signal has stopped the kernel

condVars == <<lock, entry_next, entry, first, hung>>
vars == <<mutexVars, condVars>>

Slots == 0..MaxLeft + Cardinality(Procs) - 1

(* kcondition_create asks for a page that is not cleared.                  *)
Init ==
  /\ MutexInit
  /\ lock \in {{}, IF Leftovers = {0} THEN {} ELSE {0}}
  /\ entry_next \in Leftovers \cap 0..MaxLeft
  /\ \E l \in Leftovers : entry = [i \in Slots |-> [thread |-> l, mutex_count |-> l]]
  /\ first = entry_next
  /\ hung = FALSE

(* kspinlock_lock(&condition->lock), from one place in the code to the next.*)
SpinLock_NoTest(t, at, then) ==
  /\ pc[t] = at
  /\ lock' = {t}
  /\ Goto(t, then)
  /\ UNCHANGED <<thread, count, reg, holds, turns, entry_next, entry, first, hung>>

SpinLock(t, at, then) ==
  /\ pc[t] = at /\ lock = {}
  /\ lock' = {t}
  /\ Goto(t, then)
  /\ UNCHANGED <<thread, count, reg, holds, turns, entry_next, entry, first, hung>>

-----------------------------------------------------------------------------
(* kcondition_wait: kmutex_test and the early return.                      *)
KconditionWait(t) ==
  /\ pc[t] = "out"
  /\ LET s == katomic_compare(thread, t)
     IN  /\ thread' = s.mem
         /\ Goto(t, IF s.eax = 0 THEN "out" ELSE "wait_lock")
         /\ holds' = [holds EXCEPT ![t] = IF s.eax = 0 THEN @ ELSE 0]
  /\ turns' = (turns /\ holds[t] > 0)
  /\ UNCHANGED <<count, reg, condVars>>

(* entry_next++ loads and stores, and the entry is filled.                 *)
WaitLoad(t) ==
  /\ pc[t] = "wait_load"
  /\ reg' = [reg EXCEPT ![t] = entry_next]
  /\ Goto(t, "wait_fill")
  /\ UNCHANGED <<thread, count, holds, turns, condVars>>

WaitFill(t) ==
  /\ pc[t] = "wait_fill"
  /\ entry_next' = reg[t] + 1
  /\ entry' = [entry EXCEPT ![reg[t]] = [thread |-> t, mutex_count |-> count]]
  /\ reg' = [reg EXCEPT ![t] = 0]
  /\ Goto(t, "wait_count")
  /\ UNCHANGED <<thread, count, holds, turns, lock, first, hung>>

(* The mutex is released, whoever may have locked it since the test.       *)
WaitCount(t) ==
  /\ pc[t] = "wait_count"
  /\ count' = 0
  /\ Goto(t, "wait_thread")
  /\ UNCHANGED <<thread, reg, holds, turns, condVars>>

WaitThread(t) ==
  /\ pc[t] = "wait_thread"
  /\ thread' = katomic_set(thread, 0).mem
  /\ Goto(t, "wait_unlock")
  /\ UNCHANGED <<count, reg, holds, turns, condVars>>

WaitUnlock(t) ==
  /\ pc[t] = "wait_unlock"
  /\ lock' = {}
  /\ Goto(t, "wait_suspend")
  /\ UNCHANGED <<thread, count, reg, holds, turns, entry_next, entry, first, hung>>

(* kthread_suspend(current), for good.                                     *)
WaitSuspend(t) ==
  /\ pc[t] = "wait_suspend"
  /\ Goto(t, "suspended")
  /\ UNCHANGED <<thread, count, reg, holds, turns, condVars>>

(* kcondition_signal and kcondition_broadcast: one entry, or all, is       *)
(* resumed before the lock is released.                                    *)
ResumeIn == [signal |-> "signal_resume", broadcast |-> "broadcast_resume"]
Signals == DOMAIN ResumeIn

KconditionSignal(t) ==
  /\ pc[t] = "out"
  /\ \E f \in Signals : Goto(t, f)
  /\ UNCHANGED <<thread, count, reg, holds, turns, condVars>>

Resumed(f) == IF f = "broadcast" \/ entry_next = 0 THEN 0..entry_next - 1 ELSE {0}

(* find_thread, called by thread t: it finds its caller and nobody else.   *)
FindThread(t, tid) == tid = t

(* A return inside the test for entries, which leaves the lock taken.      *)
SignalResume_ReturnsEarly(t, f) ==
  /\ pc[t] = ResumeIn[f]
  /\ hung' = \E i \in Resumed(f) : ~FindThread(t, entry[i].thread)
  /\ lock' = IF hung' \/ entry_next = 0 THEN lock ELSE {}
  /\ Goto(t, "out")
  /\ UNCHANGED <<thread, count, reg, holds, turns, entry_next, entry, first>>

SignalResume(t, f) ==
  /\ pc[t] = ResumeIn[f]
  /\ hung' = \E i \in Resumed(f) : ~FindThread(t, entry[i].thread)
  /\ lock' = IF hung' THEN lock ELSE {}
  /\ Goto(t, "out")
  /\ UNCHANGED <<thread, count, reg, holds, turns, entry_next, entry, first>>

-----------------------------------------------------------------------------
(* A thread in one of the functions goes on.                               *)
Step(t) ==
  /\ ~hung
  /\ \/ MutexStep(t) /\ UNCHANGED condVars
     \/ WaitLoad(t) \/ WaitFill(t) \/ WaitCount(t) \/ WaitThread(t) \/ WaitUnlock(t)
     \/ WaitSuspend(t)
     \/ \E f \in Signals : SignalResume(t, f)
     \/ SpinLock(t, "wait_lock", "wait_load")
     \/ \E f \in Signals : SpinLock(t, f, ResumeIn[f])

(* A thread calls one of the functions.                                    *)
Call(t) ==
  /\ ~hung
  /\ \/ MutexCall(t) /\ UNCHANGED condVars
     \/ KconditionWait(t) \/ KconditionSignal(t)

Next == \E t \in Procs : Step(t) \/ Call(t)

(* A thread inside a function gets the processor again and again.          *)
Spec == Init /\ [][Next]_vars /\ \A t \in Procs : WF_vars(Step(t))

-----------------------------------------------------------------------------
Filled == {"wait_count", "wait_thread", "wait_unlock", "wait_suspend", "suspended"}

(* Every thread that waits has one entry of its own, made before it lets   *)
(* go of the mutex, and nobody else has one: entries are not lost or       *)
(* written twice when threads come to wait together, and the table cannot  *)
(* fill up with fewer threads than it has entries.                         *)
EntriesAreWaiters ==
  \A t \in Procs :
    Cardinality({i \in first..entry_next - 1 : entry[i].thread = t})
      = IF pc[t] \in Filled THEN 1 ELSE 0

(* A thread that takes the condition's spinlock gives it back, also when   *)
(* it has nobody to resume, unless the kernel hangs.                       *)
LockFreed == \A t \in Procs : lock = {t} ~> lock = {} \/ hung
=============================================================================
