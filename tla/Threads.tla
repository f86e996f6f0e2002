------------------------------- MODULE Threads -------------------------------
(***************************************************************************)
(* The thread manager of the kernel: arch/ia32/thread.c with the spinlock  *)
(* that guards it (spinlock.c), the software interrupt 0x30 that switches  *)
(* threads (entry.S), the RTC interrupt that preempts (irq.c, time.c), an  *)
(* interrupt on a line without handler, which kills the thread it meets    *)
(* (irq.c), and the boot sequence that creates the first threads (init.c). *)
(*                                                                         *)
(* One processor: at any moment the thread Head(ring) executes.  Code that *)
(* runs with interrupts disabled (interrupt gates, irqsave sections) is    *)
(* one action; code that runs with interrupts enabled is one action per    *)
(* step an RTC interrupt may fall between.  kspinlock_lock leaves          *)
(* interrupts enabled, so a tick may arrive inside its critical section.   *)
(***************************************************************************)
EXTENDS Integers, Sequences

CONSTANTS MaxTid,    \* bound on tid_counter (the code stops when memory runs out)
          Reload,    \* reload value of thread_ticks (11 in time.c)
          MaxSleep,  \* longest sleep, in RTC ticks
          Ops        \* the calls below that threads make

ASSUME MaxTidAssumption == MaxTid \in Nat /\ MaxTid >= 4
ASSUME ReloadAssumption == Reload \in Nat
ASSUME MaxSleepAssumption == MaxSleep \in Nat

VARIABLES
  ring,              \* the circular list of threads, current_thread first
  status,            \* the status bits of each thread
  wake,              \* ticks left until the deadline of a sleeping thread
  pc,                \* where each thread is in the kernel
  call,              \* the call a thread is in
  kthread_spinlock,  \* the thread whose kspinlock_lock set the lock bit, or 0
  kirq_spinlock,     \* the thread killed in handle_irq, which holds the lock, or 0
  tid_counter,       \* the last tid given out
  thread_ticks,      \* RTC interrupts until the next forced switch
  boot,              \* how far init() has got
  idle,              \* the tid of the idle thread, 0 before it exists
  hung               \* "no", or how the processor got stuck with interrupts off

vars == <<ring, status, wake, pc, call, kthread_spinlock, kirq_spinlock,
          tid_counter, thread_ticks, boot, idle, hung>>

Tids == 1..MaxTid

StatusBits == {"ALIVE", "SLEEP", "SUSPEND"}

(* The calls that take kthread_spinlock with interrupts enabled.           *)
(* "attribute" stands for kthread_priority_set/get and kthread_key_set/get,*)
(* whose fields no other thread code reads.                                *)
AllOps == {"kill", "suspend", "resume", "sleep", "attribute"}

ASSUME OpsAssumption == Ops \subseteq AllOps

(* A call names the calling thread itself or another one.                  *)
Calls == {c \in [op : AllOps, tid : {"own", "other"}, ticks : 0..MaxSleep] :
            c.op # "sleep" => c.ticks = 0}

NoCall == [op |-> "attribute", tid |-> "own", ticks |-> 0]

Stages == {"ktimer_init", "sti", "module", "idle", "return", "done"}

current == ring[1]

-----------------------------------------------------------------------------
(* init() runs with interrupts off until kirq_enable_all; every created    *)
(* thread starts with eflags 0x200.                                        *)
InterruptsEnabled == current = 1 => boot \notin {"ktimer_init", "sti"}

(* The thread that executes is outside the interrupt handlers.             *)
Running(step) ==
  hung = "no" /\ pc[current] = step /\ kirq_spinlock # current

(* Threads that run module code: everything but init and idle.             *)
Worker == current \notin {1, idle}

(* The ring seen k threads further on.                                     *)
Rotate(s, k) ==
  [i \in 1..Len(s) |-> s[IF i + k <= Len(s) THEN i + k ELSE i + k - Len(s)]]

(* Faulty variants of a definition stand before it, for mutation testing.  *)
InsertAfterHead_DropsRest(s, e) == <<s[1], e>>

InsertAfterHead(s, e) ==
  [i \in 1..Len(s) + 1 |-> IF i = 1 THEN s[1] ELSE IF i = 2 THEN e ELSE s[i - 1]]

Schedulable_IgnoresSuspend(t, st, wk) ==
  IF "SLEEP" \in st[t] THEN wk[t] = 0 ELSE "ALIVE" \in st[t]

Schedulable_NeverWakes(t, st, wk) == st[t] = {"ALIVE"}

(* The tests schedule_thread makes on one thread, in its order: a sleeping *)
(* thread is taken as soon as its deadline has passed, whatever its other  *)
(* bits say.                                                               *)
Schedulable(t, st, wk) ==
  IF "SLEEP" \in st[t] THEN wk[t] = 0
  ELSE "SUSPEND" \notin st[t] /\ "ALIVE" \in st[t]

Candidates_NotCurrent(st, wk) ==
  {k \in 1..Len(ring) - 1 : Schedulable(Rotate(ring, k)[1], st, wk)}

Candidates_CurrentFirst(st, wk) ==
  {k \in 0..Len(ring) - 1 : Schedulable(Rotate(ring, k)[1], st, wk)}

(* The distances from current_thread at which the scan may stop; distance  *)
(* Len(ring) is current_thread itself.                                     *)
Candidates(st, wk) ==
  {k \in 1..Len(ring) : Schedulable(Rotate(ring, k)[1], st, wk)}

ThreadSwitch_NoLock(st, wk) ==
  \E k \in Candidates(st, wk) :
    /\ \A j \in Candidates(st, wk) : k <= j
    /\ ring' = Rotate(ring, k)
    /\ status' = [st EXCEPT ![Rotate(ring, k)[1]] = @ \ {"SLEEP"}]
    /\ UNCHANGED hung

(* thread_switch: spin on the lock with interrupts off, scan the ring for  *)
(* the first thread that may run, clear its SLEEP bit and switch to it.    *)
(* The scan has no end when there is no such thread.                       *)
ThreadSwitch(st, wk) ==
  IF kthread_spinlock # 0
  THEN hung' = "spin" /\ status' = st /\ UNCHANGED ring
  ELSE IF Candidates(st, wk) = {}
  THEN hung' = "scan" /\ status' = st /\ UNCHANGED ring
  ELSE \E k \in Candidates(st, wk) :
         /\ \A j \in Candidates(st, wk) : k <= j
         /\ ring' = Rotate(ring, k)
         /\ status' = [st EXCEPT ![Rotate(ring, k)[1]] = @ \ {"SLEEP"}]
         /\ UNCHANGED hung

KthreadCreate_ReusesTid ==
  IF kthread_spinlock # 0
  THEN hung' = "spin" /\ UNCHANGED <<ring, status, pc, tid_counter>>
  ELSE /\ tid_counter' = tid_counter + 1
       /\ ring' = InsertAfterHead(ring, tid_counter)
       /\ status' = [status EXCEPT ![tid_counter] = {"ALIVE"}]
       /\ pc' = [pc EXCEPT ![current] = "int30"]
       /\ UNCHANGED hung

(* kthread_create up to its int 0x30: link the new thread after the        *)
(* current one inside an irqsave section.                                  *)
KthreadCreate ==
  IF kthread_spinlock # 0
  THEN hung' = "spin" /\ UNCHANGED <<ring, status, pc, tid_counter>>
  ELSE /\ tid_counter' = tid_counter + 1
       /\ ring' = InsertAfterHead(ring, tid_counter + 1)
       /\ status' = [status EXCEPT ![tid_counter + 1] = {"ALIVE"}]
       /\ pc' = [pc EXCEPT ![current] = "int30"]
       /\ UNCHANGED hung

-----------------------------------------------------------------------------
(* After kthread_setup: one thread, linked to itself.                      *)
Init ==
  /\ ring = <<1>>
  /\ status = [t \in Tids |-> IF t = 1 THEN {"ALIVE"} ELSE {}]
  /\ wake = [t \in Tids |-> 0]
  /\ pc = [t \in Tids |-> "run"]
  /\ call = [t \in Tids |-> NoCall]
  /\ kthread_spinlock = 0
  /\ kirq_spinlock = 0
  /\ tid_counter = 1
  /\ thread_ticks = 0
  /\ boot = "ktimer_init"
  /\ idle = 0
  /\ hung = "no"

(* init(): ktimer_init creates the timer thread.                           *)
BootTimer ==
  /\ Running("run") /\ current = 1 /\ boot = "ktimer_init"
  /\ KthreadCreate
  /\ boot' = "sti"
  /\ UNCHANGED <<wake, call, kthread_spinlock, kirq_spinlock,
                 thread_ticks, idle>>

(* init(): kirq_enable_all.                                                *)
BootEnable ==
  /\ Running("run") /\ current = 1 /\ boot = "sti"
  /\ boot' = "module"
  /\ UNCHANGED <<ring, status, wake, pc, call, kthread_spinlock, kirq_spinlock,
                 tid_counter, thread_ticks, idle, hung>>

(* init(): the loaded modules gave an entry point, or they did not.        *)
BootModule ==
  /\ Running("run") /\ current = 1 /\ boot = "module"
  /\ \/ KthreadCreate
     \/ UNCHANGED <<ring, status, pc, tid_counter, hung>>
  /\ boot' = "idle"
  /\ UNCHANGED <<wake, call, kthread_spinlock, kirq_spinlock,
                 thread_ticks, idle>>

(* init(): create the idle thread.                                         *)
BootIdle ==
  /\ Running("run") /\ current = 1 /\ boot = "idle"
  /\ KthreadCreate
  /\ boot' = "return"
  /\ idle' = tid_counter + 1
  /\ UNCHANGED <<wake, call, kthread_spinlock, kirq_spinlock,
                 thread_ticks>>

(* init() returns into kthread_kill_current, pushed by start.S.            *)
BootReturn ==
  /\ Running("run") /\ current = 1 /\ boot = "return"
  /\ boot' = "done"
  /\ pc' = [pc EXCEPT ![1] = "lock"]
  /\ call' = [call EXCEPT ![1] = [op |-> "kill", tid |-> "own", ticks |-> 0]]
  /\ UNCHANGED <<ring, status, wake, kthread_spinlock, kirq_spinlock,
                 tid_counter, thread_ticks, idle, hung>>

BootStep == BootTimer \/ BootEnable \/ BootModule \/ BootIdle \/ BootReturn

(* The tids init() has yet to use: the bound on the others' creations.     *)
Reserved ==
  CASE boot = "ktimer_init"       -> 3
    [] boot \in {"sti", "module"} -> 2
    [] boot = "idle"              -> 1
    [] boot \in {"return", "done"} -> 0

(* A thread calls kthread_create.                                          *)
Create ==
  /\ Running("run") /\ Worker
  /\ tid_counter + Reserved < MaxTid
  /\ KthreadCreate
  /\ UNCHANGED <<wake, call, kthread_spinlock, kirq_spinlock,
                 thread_ticks, boot, idle>>

(* A thread calls kthread_yield.                                           *)
Yield ==
  /\ Running("run") /\ Worker
  /\ pc' = [pc EXCEPT ![current] = "int30"]
  /\ UNCHANGED <<ring, status, wake, call, kthread_spinlock, kirq_spinlock,
                 tid_counter, thread_ticks, boot, idle, hung>>

(* A thread enters one of the calls in Ops; returning from the thread      *)
(* function enters kthread_kill for the thread itself.                     *)
Enter(c) ==
  /\ Running("run") /\ Worker
  /\ pc' = [pc EXCEPT ![current] = "lock"]
  /\ call' = [call EXCEPT ![current] = c]
  /\ UNCHANGED <<ring, status, wake, kthread_spinlock, kirq_spinlock,
                 tid_counter, thread_ticks, boot, idle, hung>>

(* kspinlock_lock(&kthread_spinlock), interrupts still enabled.            *)
SpinLock ==
  /\ Running("lock")
  /\ kthread_spinlock = 0
  /\ kthread_spinlock' = current
  /\ pc' = [pc EXCEPT ![current] = "body"]
  /\ UNCHANGED <<ring, status, wake, call, kirq_spinlock, tid_counter,
                 thread_ticks, boot, idle, hung>>

NewStatus_KillKeepsAlive(op, s) ==
  CASE op = "suspend" -> s \cup {"SUSPEND"}
    [] op = "resume"  -> s \ {"SUSPEND"}
    [] op = "sleep"   -> s \cup {"SLEEP"}
    [] OTHER          -> s

(* What a call does to the status bits of the thread it found.             *)
NewStatus(op, s) ==
  CASE op = "kill"      -> s \ {"ALIVE"}
    [] op = "suspend"   -> s \cup {"SUSPEND"}
    [] op = "resume"    -> s \ {"SUSPEND"}
    [] op = "sleep"     -> s \cup {"SLEEP"}
    [] op = "attribute" -> s

(* find_thread and the update.  thread_list is never assigned, so a tid    *)
(* other than the current one is not found; the null pointer faults, and   *)
(* the fault handler's kthread_kill_current spins on the lock this thread  *)
(* holds, with interrupts off.                                             *)
Body ==
  /\ Running("body")
  /\ IF call[current].tid = "own"
     THEN /\ status' = [status EXCEPT ![current] = NewStatus(call[current].op, @)]
          /\ wake' = [wake EXCEPT ![current] =
                        IF call[current].op = "sleep" THEN call[current].ticks ELSE @]
          /\ pc' = [pc EXCEPT ![current] = "unlock"]
          /\ UNCHANGED hung
     ELSE hung' = "fault" /\ UNCHANGED <<status, wake, pc>>
  /\ UNCHANGED <<ring, call, kthread_spinlock, kirq_spinlock, tid_counter,
                 thread_ticks, boot, idle>>

(* kspinlock_unlock; kill, suspend, resume and sleep of the current thread *)
(* go on to int 0x30.                                                      *)
Unlock ==
  /\ Running("unlock")
  /\ kthread_spinlock' = 0
  /\ pc' = [pc EXCEPT ![current] =
              IF call[current].op = "attribute" THEN "run" ELSE "int30"]
  /\ call' = [call EXCEPT ![current] = NoCall]
  /\ UNCHANGED <<ring, status, wake, kirq_spinlock, tid_counter, thread_ticks,
                 boot, idle, hung>>

(* int 0x30.                                                               *)
Int30 ==
  /\ Running("int30")
  /\ pc' = [pc EXCEPT ![current] = "run"]
  /\ ThreadSwitch(status, wake)
  /\ UNCHANGED <<wake, call, kthread_spinlock, kirq_spinlock, tid_counter,
                 thread_ticks, boot, idle>>

(* A processor exception in module code: the handler kills the current     *)
(* thread and switches away, all with interrupts off.                      *)
HandleException ==
  /\ Running("run") /\ Worker
  /\ ThreadSwitch([status EXCEPT ![current] = @ \ {"ALIVE"}], wake)
  /\ UNCHANGED <<wake, pc, call, kthread_spinlock, kirq_spinlock, tid_counter,
                 thread_ticks, boot, idle>>

(* An interrupt on a line without handler: handle_irq takes kirq_spinlock  *)
(* and calls handle_exception, which kills whatever thread was interrupted *)
(* (idle and init too, and inside the calls below as well) and switches    *)
(* away, the lock still held.  With either lock taken it spins for ever.   *)
StrayIrq ==
  /\ hung = "no" /\ InterruptsEnabled /\ kirq_spinlock # current
  /\ IF kirq_spinlock # 0
     THEN hung' = "spin" /\ UNCHANGED <<ring, status, kirq_spinlock>>
     ELSE /\ kirq_spinlock' = current
          /\ IF kthread_spinlock # 0
             THEN hung' = "spin" /\ UNCHANGED <<ring, status>>
             ELSE ThreadSwitch([status EXCEPT ![current] = @ \ {"ALIVE"}], wake)
  /\ UNCHANGED <<wake, pc, call, kthread_spinlock, tid_counter, thread_ticks,
                 boot, idle>>

(* The killed thread is switched to again: handle_exception returns into   *)
(* handle_irq, which unlocks and returns to where the thread was.          *)
IrqEnd ==
  /\ hung = "no" /\ kirq_spinlock = current
  /\ kirq_spinlock' = 0
  /\ UNCHANGED <<ring, status, wake, pc, call, kthread_spinlock, tid_counter,
                 thread_ticks, boot, idle, hung>>

(* The RTC interrupt: time passes, and when thread_ticks has run out the   *)
(* handler asks for a switch.  With kirq_spinlock lost, handle_irq spins.  *)
Tick ==
  /\ hung = "no" /\ InterruptsEnabled /\ kirq_spinlock # current
  /\ IF kirq_spinlock # 0
     THEN hung' = "spin" /\ UNCHANGED <<ring, status, wake, thread_ticks>>
     ELSE /\ wake' = [t \in Tids |-> IF wake[t] > 0 THEN wake[t] - 1 ELSE 0]
          /\ IF thread_ticks = 0
             THEN thread_ticks' = Reload /\ ThreadSwitch(status, wake')
             ELSE /\ thread_ticks' = thread_ticks - 1
                  /\ UNCHANGED <<ring, status, hung>>
  /\ UNCHANGED <<pc, call, kthread_spinlock, kirq_spinlock, tid_counter, boot,
                 idle>>

(* A stuck processor stays stuck.                                          *)
Stuck == hung # "no" /\ UNCHANGED vars

KernelStep == SpinLock \/ Body \/ Unlock \/ Int30

Next ==
  \/ BootStep
  \/ Create
  \/ Yield
  \/ \E c \in Calls : c.op \in Ops /\ Enter(c)
  \/ KernelStep
  \/ HandleException
  \/ StrayIrq
  \/ IrqEnd
  \/ Tick
  \/ Stuck

(* The RTC keeps interrupting, and the code of init() and of the kernel    *)
(* calls is executed whenever its thread keeps getting the processor: a    *)
(* slice is Reload + 1 ticks long.  The end of handle_irq runs with        *)
(* interrupts off.                                                         *)
Fairness ==
  /\ WF_vars(Tick)
  /\ WF_vars(IrqEnd)
  /\ SF_vars(BootStep)
  /\ SF_vars(current = 1 /\ KernelStep)

Spec == Init /\ [][Next]_vars /\ Fairness

-----------------------------------------------------------------------------
TypeOK ==
  /\ ring \in Seq(Tids) /\ Len(ring) = tid_counter
  /\ tid_counter \in Tids
  /\ status \in [Tids -> SUBSET StatusBits]
  /\ wake \in [Tids -> 0..MaxSleep]
  /\ pc \in [Tids -> {"run", "lock", "body", "unlock", "int30"}]
  /\ call \in [Tids -> Calls]
  /\ kthread_spinlock \in 0..MaxTid
  /\ kirq_spinlock \in 0..MaxTid
  /\ thread_ticks \in 0..Reload
  /\ boot \in Stages
  /\ idle \in 0..MaxTid
  /\ hung \in {"no", "spin", "scan", "fault"}

(* kthread_create's pointer updates and the rotation of current_thread     *)
(* lose no thread and link none twice: the circular list always holds      *)
(* exactly the threads created so far.                                     *)
RingHoldsAll ==
  /\ \A i, j \in 1..Len(ring) : ring[i] = ring[j] => i = j
  /\ \A t \in 1..tid_counter : \E i \in 1..Len(ring) : ring[i] = t
  /\ \A i \in 1..Len(ring) : ring[i] <= tid_counter

(* The loop of schedule_thread has no bound and runs with interrupts off.  *)
(* It ends, because init is runnable until it has created the idle thread  *)
(* and the idle thread is runnable ever after, unless an interrupt without *)
(* handler killed just that thread (and left kirq_spinlock locked).        *)
ScanTerminates ==
  hung = "scan" => kirq_spinlock = IF idle = 0 THEN 1 ELSE idle

(* No thread is switched out inside the critical section of                *)
(* kthread_spinlock: the lock is held exactly while its owner is the       *)
(* thread executing between lock and unlock.                               *)
HolderIsCurrent ==
  /\ kthread_spinlock # 0 => kthread_spinlock = current
  /\ \A t \in Tids : pc[t] \in {"body", "unlock"} <=> kthread_spinlock = t

(* schedule_thread takes an expired sleeper without looking at ALIVE or    *)
(* SUSPEND; still a switch goes to a thread that was neither killed nor    *)
(* suspended, and is no longer marked asleep.  The one exception is a      *)
(* thread that an interrupt without handler killed between the unlock and  *)
(* the int 0x30 of kthread_sleep: it is switched to, dead, inside          *)
(* handle_irq, and gets as far as that int 0x30.                           *)
StoppedStayStopped ==
  [][ring'[1] # ring[1] =>
       \/ status'[ring'[1]] = {"ALIVE"}
       \/ /\ status'[ring'[1]] = {}
          /\ kirq_spinlock' = ring'[1]
          /\ pc'[ring'[1]] = "int30"]_vars

(* Round robin does not starve: a thread the scan may take is taken within *)
(* finitely many ticks, unless the processor gets stuck first.             *)
ReadyRuns ==
  \A t \in Tids : Schedulable(t, status, wake) ~> (current = t \/ hung # "no")

(* A thread in kthread_sleep runs again once its time has passed.          *)
SleeperWakes ==
  \A t \in Tids : "SLEEP" \in status[t] ~> ("SLEEP" \notin status[t] \/ hung # "no")

(* init() gets to its end and is dead afterwards.                          *)
InitEnds == <>("ALIVE" \notin status[1] \/ hung # "no")

-----------------------------------------------------------------------------
(* What the proofs need besides.                                           *)

(* A thread marked asleep is not suspended, and alive unless it was killed *)
(* in handle_irq just before its int 0x30: only the thread itself,         *)
(* executing, can have set any of its bits.                                *)
SleepersAlive ==
  \A t \in Tids : "SLEEP" \in status[t] =>
    \/ status[t] = {"ALIVE", "SLEEP"}
    \/ status[t] = {"SLEEP"} /\ kirq_spinlock = t /\ pc[t] = "int30"

(* The thread executing is runnable, but for the steps between its call's  *)
(* update and the switch, and for the end of handle_irq.                   *)
CurrentRunnable ==
  hung = "no" =>
    /\ pc[current] \in {"run", "lock", "body"} => status[current] = {"ALIVE"}
    /\ (pc[current] = "unlock" /\ call[current].op = "attribute")
         => status[current] = {"ALIVE"}
    /\ kirq_spinlock = current => pc[current] = "int30" /\ status[current] = {}

(* The thread that took kirq_spinlock with it is dead.                     *)
LockerDead ==
  kirq_spinlock # 0 /\ hung = "no" =>
    kirq_spinlock \in 1..tid_counter /\ "ALIVE" \notin status[kirq_spinlock]

(* Until the idle thread exists, init has not ended; the idle thread never *)
(* leaves its loop; either may have been killed in handle_irq.             *)
Boot ==
  /\ idle = 0 <=> boot \notin {"return", "done"}
  /\ idle = 0 => \/ status[1] = {"ALIVE"}
                 \/ kirq_spinlock = 1 /\ status[1] = {}
                      /\ (hung = "no" => current # 1)
  /\ boot # "done" => pc[1] \in {"run", "int30"}
  /\ idle # 0 => /\ idle \in 2..tid_counter
                 /\ \/ status[idle] = {"ALIVE"}
                    \/ kirq_spinlock = idle /\ status[idle] = {}
                 /\ pc[idle] = "run"

(* Threads not created yet have done nothing.                              *)
Unborn ==
  /\ \A t \in Tids : t > tid_counter => pc[t] = "run"
  /\ tid_counter + Reserved <= MaxTid

IInv == /\ TypeOK /\ RingHoldsAll /\ ScanTerminates /\ HolderIsCurrent
        /\ SleepersAlive /\ CurrentRunnable /\ LockerDead /\ Boot /\ Unborn

-----------------------------------------------------------------------------
(* The calls of kinterface.h that take a thread argument work on a thread  *)
(* other than the caller; in the code such a call hangs the kernel.        *)
OtherThreadCallsReturn == hung # "fault"
=============================================================================
