-------------------------------- MODULE Timer --------------------------------
(***************************************************************************)
(* The timers of arch/ia32/timer.c: a list sorted by deadline, filled by   *)
(* ktimer_add and emptied by timer_thread, both under ktimer_spinlock with *)
(* interrupts enabled.  The clock moves on while either of them is between *)
(* ktime_get and its use of the result.  Locals that are dead are reset.   *)
(* ktimer_remove has an empty body and is no action.                       *)
(***************************************************************************)
EXTENDS Integers, Sequences

CONSTANTS Clients,    \* threads that call ktimer_add
          Callback,   \* ktimer_add called by a timer function, in timer_thread
          NS,         \* nanoseconds per second, in clock ticks
          MaxSecond,  \* bound: the clock is not followed further
          MaxTimers,  \* bound on timer_count
          Delays      \* <<second, nanosecond>> arguments of ktimer_add

ASSUME NSAssumption == NS \in Nat /\ NS >= 1
ASSUME MaxAssumption == MaxSecond \in Nat /\ MaxTimers \in Nat
ASSUME DelaysAssumption == Delays \subseteq Nat \X Nat
ASSUME CallbackAssumption ==
  Callback \notin Clients /\ {"free", "timer_thread"} \cap (Clients \cup {Callback}) = {}

Procs == Clients \cup {Callback}

VARIABLES
  clock,        \* <<current_second, current_nanosecond>>
  timer_list,   \* the list: records of timer number and deadline
  timer_count,  \* the last timer number given out
  lock,         \* who holds ktimer_spinlock
  pc,           \* where each caller of ktimer_add is
  deadline,     \* local_second, local_nanosecond of each caller
  tpc,          \* where timer_thread is
  now,          \* local_second, local_nanosecond of timer_thread
  calling,      \* the number of the timer whose function is running, or 0
  fired         \* how often the function of each timer has been called

vars == <<clock, timer_list, timer_count, lock, pc, deadline, tpc, now,
          calling, fired>>

Timers == 1..MaxTimers
Free == "free"
TimerThread == "timer_thread"

(* The comparison of both functions: a is not later than b.                *)
NotLater(a, b) == a[1] < b[1] \/ (a[1] = b[1] /\ a[2] <= b[2])

(* The deadline a list entry holds.                                        *)
At(e) == <<e.second, e.nanosecond>>

(* local_second += second, local_nanosecond += nanosecond: no carry.       *)
Plus(t, d) == <<t[1] + d[1], t[2] + d[2]>>

(* Faulty variants of a definition stand before it, for mutation testing.  *)
Position_Backwards(s, d) ==
  CHOOSE i \in 1..Len(s) + 1 :
    /\ i <= Len(s) => NotLater(At(s[i]), d)
    /\ \A j \in 1..i - 1 : ~NotLater(At(s[j]), d)

(* The search loop of ktimer_add stops at the first entry that is not      *)
(* earlier than d.                                                         *)
Position(s, d) ==
  CHOOSE i \in 1..Len(s) + 1 :
    /\ i <= Len(s) => NotLater(d, At(s[i]))
    /\ \A j \in 1..i - 1 : ~NotLater(d, At(s[j]))

InsertBefore(s, i, e) ==
  [j \in 1..Len(s) + 1 |-> IF j < i THEN s[j] ELSE IF j = i THEN e ELSE s[j - 1]]

Init ==
  /\ clock = <<0, 0>>
  /\ timer_list = <<>>
  /\ timer_count = 0
  /\ lock = Free
  /\ pc = [p \in Procs |-> "out"]
  /\ deadline = [p \in Procs |-> <<0, 0>>]
  /\ tpc = "lock"
  /\ now = <<0, 0>>
  /\ calling = 0
  /\ fired = [t \in Timers |-> 0]

(* The periodic interrupt counts one more tick.  The clock was set by      *)
(* ktime_init before ktimer_init; a later resynchronisation of a clock     *)
(* that is in step does not put it back (Clock!NotPutBack).                *)
Tick ==
  /\ clock # <<MaxSecond, NS - 1>>
  /\ clock' = IF clock[2] < NS - 1 THEN <<clock[1], clock[2] + 1>>
              ELSE <<clock[1] + 1, 0>>
  /\ UNCHANGED <<timer_list, timer_count, lock, pc, deadline, tpc, now,
                 calling, fired>>

AddLock_NoTest(p, d) ==
  /\ pc[p] = "out"
  /\ p = Callback => tpc = "call"
  /\ timer_count < MaxTimers
  /\ lock' = p
  /\ pc' = [pc EXCEPT ![p] = "insert"]
  /\ deadline' = [deadline EXCEPT ![p] = Plus(clock, d)]
  /\ UNCHANGED <<clock, timer_list, timer_count, tpc, now, calling, fired>>

(* ktimer_add takes the lock and computes the deadline.  A timer function  *)
(* may add timers while timer_thread runs it.                              *)
AddLock(p, d) ==
  /\ pc[p] = "out" /\ lock = Free
  /\ p = Callback => tpc = "call"
  /\ timer_count < MaxTimers
  /\ lock' = p
  /\ pc' = [pc EXCEPT ![p] = "insert"]
  /\ deadline' = [deadline EXCEPT ![p] = Plus(clock, d)]
  /\ UNCHANGED <<clock, timer_list, timer_count, tpc, now, calling, fired>>

(* The rest of ktimer_add: insert a new entry, or give up when there is no *)
(* page for it; unlock and return.                                         *)
AddInsert(p) ==
  /\ pc[p] = "insert"
  /\ \/ /\ timer_count' = timer_count + 1
        /\ timer_list' =
             InsertBefore(timer_list, Position(timer_list, deadline[p]),
               [timer |-> timer_count + 1,
                second |-> deadline[p][1], nanosecond |-> deadline[p][2]])
     \/ UNCHANGED <<timer_list, timer_count>>
  /\ lock' = Free
  /\ pc' = [pc EXCEPT ![p] = "out"]
  /\ deadline' = [deadline EXCEPT ![p] = <<0, 0>>]
  /\ UNCHANGED <<clock, tpc, now, calling, fired>>

(* timer_thread takes the lock and reads the clock.                        *)
ThreadLock ==
  /\ tpc = "lock" /\ lock = Free
  /\ lock' = TimerThread
  /\ tpc' = "check"
  /\ now' = clock
  /\ UNCHANGED <<clock, timer_list, timer_count, pc, deadline, calling, fired>>

HeadIsDue_SecondOnly == timer_list # <<>> /\ Head(timer_list).second <= now[1]

HeadIsDue_SameSecond ==
  /\ timer_list # <<>>
  /\ Head(timer_list).second = now[1] /\ Head(timer_list).nanosecond <= now[2]

HeadIsDue == timer_list # <<>> /\ NotLater(At(Head(timer_list)), now)

ThreadPop_KeepsEntry ==
  /\ tpc = "check" /\ HeadIsDue
  /\ calling' = Head(timer_list).timer
  /\ fired' = [fired EXCEPT ![Head(timer_list).timer] = @ + 1]
  /\ lock' = Free
  /\ tpc' = "call"
  /\ now' = <<0, 0>>
  /\ UNCHANGED <<clock, timer_list, timer_count, pc, deadline>>

ThreadPop_TakesLast ==
  /\ tpc = "check" /\ HeadIsDue
  /\ timer_list' = SubSeq(timer_list, 1, Len(timer_list) - 1)
  /\ calling' = timer_list[Len(timer_list)].timer
  /\ fired' = [fired EXCEPT ![timer_list[Len(timer_list)].timer] = @ + 1]
  /\ lock' = Free
  /\ tpc' = "call"
  /\ now' = <<0, 0>>
  /\ UNCHANGED <<clock, timer_count, pc, deadline>>

(* timer_thread takes the first entry off the list if it is due, unlocks   *)
(* and calls its function.                                                 *)
ThreadPop ==
  /\ tpc = "check" /\ HeadIsDue
  /\ timer_list' = Tail(timer_list)
  /\ calling' = Head(timer_list).timer
  /\ fired' = [fired EXCEPT ![Head(timer_list).timer] = @ + 1]
  /\ lock' = Free
  /\ tpc' = "call"
  /\ now' = <<0, 0>>
  /\ UNCHANGED <<clock, timer_count, pc, deadline>>

(* timer_thread has nothing to do: unlock and yield.                       *)
ThreadIdle ==
  /\ tpc = "check" /\ ~HeadIsDue
  /\ lock' = Free
  /\ tpc' = "lock"
  /\ now' = <<0, 0>>
  /\ UNCHANGED <<clock, timer_list, timer_count, pc, deadline, calling, fired>>

(* The timer function returns.                                             *)
ThreadReturn ==
  /\ tpc = "call" /\ pc[Callback] = "out"
  /\ calling' = 0
  /\ tpc' = "lock"
  /\ UNCHANGED <<clock, timer_list, timer_count, lock, pc, deadline, now, fired>>

Next ==
  \/ Tick
  \/ \E p \in Procs : (\E d \in Delays : AddLock(p, d)) \/ AddInsert(p)
  \/ ThreadLock \/ ThreadPop \/ ThreadIdle \/ ThreadReturn

(* The clock ticks; a thread inside the critical section is scheduled      *)
(* again; timer_thread gets the lock, since every holder gives it back and *)
(* yields or returns; timer functions return.                              *)
Fairness ==
  /\ WF_vars(Tick)
  /\ \A p \in Procs : WF_vars(AddInsert(p))
  /\ SF_vars(ThreadLock)
  /\ WF_vars(ThreadPop \/ ThreadIdle)
  /\ SF_vars(ThreadReturn)

Spec == Init /\ [][Next]_vars /\ Fairness

-----------------------------------------------------------------------------
(* The list is sorted by deadline at all times, although each insertion    *)
(* uses a clock value read earlier.                                        *)
Sorted ==
  \A i, j \in 1..Len(timer_list) :
    i < j => NotLater(At(timer_list[i]), At(timer_list[j]))

(* The list is changed by one thread at a time: whoever is between taking  *)
(* and releasing ktimer_spinlock is its holder.                            *)
LockHeld ==
  /\ \A p \in Procs : pc[p] = "insert" <=> lock = p
  /\ tpc = "check" <=> lock = TimerThread

(* No timer is lost and none fires twice: every number given out is in the *)
(* list or has fired, never both and never twice.                          *)
EachOnce ==
  \A t \in Timers :
    LET places == {i \in 1..Len(timer_list) : timer_list[i].timer = t}
    IN  IF t <= timer_count
        THEN \/ fired[t] = 0 /\ \E i \in 1..Len(timer_list) : places = {i}
             \/ fired[t] = 1 /\ places = {}
        ELSE fired[t] = 0 /\ places = {}

(* A time in clock ticks: what the pair means, carried or not.             *)
Ticks(t) == t[1] * NS + t[2]

(* timer_thread never calls a function while a timer that is due earlier,  *)
(* in time, stays in the list.  The exception is a timer whose nanoseconds *)
(* should have carried into its seconds: it stands too far in front in the *)
(* list and may overtake timers that are due less than a second before it. *)
FiresEarliest ==
  [][\A i, j \in 1..Len(timer_list) :
       (calling' = timer_list[i].timer /\ calling # calling') =>
         \/ Ticks(At(timer_list[i])) <= Ticks(At(timer_list[j]))
         \/ /\ timer_list[i].nanosecond >= NS
            /\ Ticks(At(timer_list[i])) < Ticks(At(timer_list[j])) + NS]_vars

(* A timer is not called before the delay given to ktimer_add has passed,  *)
(* counted in ticks from the clock ktimer_add read.  The exception is a    *)
(* timer whose nanoseconds should have carried into its seconds; that one  *)
(* may be early, by less than a second.                                    *)
DelayKept ==
  [][\A i \in 1..Len(timer_list) :
       (calling' = timer_list[i].timer /\ calling # calling') =>
         \/ Ticks(clock) >= Ticks(At(timer_list[i]))
         \/ timer_list[i].nanosecond >= NS /\ Ticks(clock) + NS > Ticks(At(timer_list[i]))]_vars

(* A timer in the list whose deadline the clock reaches is called, even    *)
(* while clients and timer functions keep adding others.                   *)
TimerFires ==
  \A t \in Timers :
    (\E i \in 1..Len(timer_list) :
        timer_list[i].timer = t /\ NotLater(At(timer_list[i]), <<MaxSecond, NS - 1>>))
    ~> (calling = t)
=============================================================================
