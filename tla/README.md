# A TLA+ model of RJK

RJK is a small single-processor kernel for ia32 PCs: preemptive threads,
spinlocks, read/write locks, mutexes, condition variables, timers, a clock
driven by the RTC chip, interrupt lines, a page allocator with demand paging,
and an interface table through which one loaded ELF module calls all of it.
This directory models it in TLA+, checks it with TLC and proves the central
results with TLAPS. Source paths below are relative to `arch/ia32/`.

## 1. Inventory

| Part | State | Operations | Talks to | What is hard |
|---|---|---|---|---|
| Threads (`thread.c`, `entry.S`, `init.c`) | ring of threads, status bits, sleep deadlines, `kthread_spinlock`, `tid_counter` | create, yield, sleep, kill, suspend, resume, priority, key, switch | RTC interrupt (`rc` of the handler asks for a switch), exceptions (kill the current thread), clock | the lock is taken with interrupts on; an interrupt without a handler kills whatever thread it meets; the scheduler scan has no bound; `find_thread` |
| Spinlocks (`spinlock.c`) | bit 31 of a word | lock, unlock, irqsave variants | everything | preemption inside a section |
| Read/write lock (`rwlock.c`) | one packed word | read/write lock/unlock | threads (yield) | several writers, a count and a flag in one half-word |
| Timers (`timer.c`) | sorted list, `timer_count` | add, remove, `timer_thread` | clock, memory, timer functions that add timers | clock read early, no carry, polling |
| Clock (`time.c`) | second, nanosecond, two down-counters | init, RTC handler, get, set | RTC chip, IRQ 8, scheduler | lost periodic interrupts, updates during init, resynchronisation |
| Calendar (`time.c: read_rtc`) | none | BCD date to seconds | RTC chip | leap years, unsigned month arithmetic |
| Interrupt lines (`irq.c`) | handlers, `cached_irq_mask`, the masks in two controllers | assign, unassign, enable, disable, `handle_irq` | devices, exception path | mask and controller in two steps, spurious interrupts and the unconditional re-enable, lock lost on a missing handler |
| Memory (`memory.c`) | linear page states, zones, page directory, lists of virtual blocks | linear allocate/map, virtual allocate/unallocate, page fault, ELF placement, boot set-up | every part that creates objects | page tables taken inside other operations, runs marked at their end only, exhaustion, boundaries |
| Mutex, atomics (`mutex.c`, `atomic.c`) | owner word, count; single words | lock, unlock, test; get, set, add, compare, masks, bits | threads (yield) | flags between inline instructions, loads and stores of the count, a page that is not cleared |
| Condition variables (`condition.c`) | spinlock, array of waiters | wait, signal, broadcast | mutex, suspend/resume | test, release and suspend in separate steps |
| Printing (`printf.c`) | video memory, cursor, `kprintf_spinlock` | directives, numbers, strings, scrolling screen | everybody, the exception handler | lookahead in formats, number lengths and signs, overlapping copies, a fault inside the section |
| Processor and ports (`processor.c`, `ioport.c`), interface table (`internal.c`) | none | single instructions, a table | – | – |

Every hazard met while reading is in `PROJECT.json`, at its line, with the
properties that would catch it.

## 2. Plan

1. **Done:** Threads (core), with proofs; RWLock with its abstract
   specification and proofs; Timer; Clock; Calendar; Irq; Memory; Mutex on the
   instructions of `atomic.c`, and Condition on top of it; Format and Console.
   All invariants and action properties of Threads, RWLock, Timer, Clock,
   Calendar, Irq, Mutex and Condition are proved, and those of Memory that hold
   for every layout; section 5 says what stays with TLC, and why.
2. **Worth adding:** memory and threads composed (a thread creation that runs
   out of memory, a page fault inside a thread call).

## 3. Modules

| Module | Models | State and actions |
|---|---|---|
| `Threads` | `thread.c`, the lock calls it makes, `int 0x30`, RTC tick, exceptions, boot order | `ring` is the circular list seen from `current_thread`; `kthread_create` inserts after the head, a switch rotates. A call with interrupts enabled is the steps `Enter`, `SpinLock`, `Body`, `Unlock`, `Int30`; irqsave sections and interrupt gates are single actions. An interrupt without a handler (`StrayIrq`) comes wherever interrupts are enabled, kills the interrupted thread and leaves `kirq_spinlock` held by it; `IrqEnd` is the end of `handle_irq` when such a thread is switched to again. `hung` records the three ways the processor can stop with interrupts off: `spin`, `scan`, `fault` |
| `ThreadsProofs` | – | inductive invariant and six theorems |
| `RWLock`, `RWLockAbs` | `rwlock.c`; what a read/write lock promises | `low` and `writers` are the two halves of the word, arithmetic modulo `2 * HALF`; a function body runs under bit 31 (`spin`) |
| `RWLockProofs` | – | the word invariant and the refinement, proved |
| `Timer` | `timer.c` | one action from lock to clock reading, one for the rest of the section |
| `TimerProofs` | – | what insertion does to a sorted list; inductive invariant and six theorems |
| `Clock` | `time.c` without `read_rtc`, and the chip | chip events, `ktime_init` and the handler each in two steps (the acknowledge, the rest), `ktime_set` |
| `ClockProofs` | – | inductive invariant and four theorems |
| `Calendar` | `read_rtc` | a walk through the calendar by the Gregorian rules, compared with the formula |
| `CalendarProofs` | – | the formula from day to day, and its 32 bits |
| `Irq` | `irq.c`, and the controllers | steps of the calls under `kirq_spinlock`; interrupts of devices and spurious ones; `handle_irq` in its four cases: with a handler, with one that calls `kirq_*` itself, without one, with the lock taken |
| `IrqProofs` | – | inductive invariant and four theorems |
| `Memory` | `memory.c`, set-up and order of `init.c` | one action per operation; tables are threaded through operators in a record `mem`. Up to the last segment loaded only what `init()` calls happens: mapping the screen, virtual pages and their faults, `read_elf` |
| `MemoryProofs` | – | the lists of virtual blocks, the search for free pages, page tables and what the blocks find in them; inductive invariant and seven theorems |
| `Atomic` | `atomic.c` | no state: each function is what its instructions do to the word, to `eax` and to the flags |
| `Mutex` | `mutex.c` | `thread` and `count` are the mutex; one action per load or store of the unoptimised code; `holds` and `turns` are history |
| `Condition` | `condition.c`, composed with `Mutex` | the condition's spinlock and entries; the steps of `kcondition_wait` up to its suspension; signal and broadcast |
| `ConditionProofs` | – | words and atomic operations; inductive invariant of mutex and condition, four theorems |
| `Format` | `kvsprintf`, `write_number_*`, `write_string` | operators from a format and its arguments to a text |
| `Console` | `kprintf`, `raw_print`, `kmemory_virtual_copy` | `video`, `video_next`; one action for a whole `kprintf`, which is an irqsave section |
| `MC*` | – | constants for TLC; `MCDevices` puts `Irq`, `Clock` and `Calendar`, which share no variable, into one run |

Definitions named `X_Something` just before `X` are faulty variants of `X`; with
each of them in place of `X` the property named in `PROJECT.json` fails.

Abstractions worth knowing:

* Time in `Threads` is ticks until a sleeper's deadline; `Timer` has the
  seconds and nanoseconds and their missing carry.
* In `Threads` an exception is one in module code, and a stray interrupt comes
  once: its thread keeps `kirq_spinlock`, so the next interrupt of any line, the
  RTC's included, spins with interrupts off. Exceptions inside kernel code other
  than the one of `find_thread`, and the NMI, are not modelled.
* The clock of `Timer` only goes forward, by one tick. That resynchronisation does
  not put back a clock that is in step is `NotPutBack` of `Clock`; what a `ktime_set`
  does to timers that wait is not modelled, since nothing says what it should.
* In `Clock` the handler is through with an update before the next one, a second
  later; periodic events may come, and be lost, at any time.
* Priorities, keys, stacks, registers and FPU state are not represented; no
  thread code depends on them.
* Calls with a thread argument other than the caller are included and lead to
  `hung = "fault"`, as `thread_list` is never assigned.
* A page table accessed while unmapped is `hung = "fault"` in `Memory`: with
  RAM that is zero at power-up the access faults and the fault handler spins on
  `kmemory_spinlock`; other contents give an equally lost machine.
* In `Irq` one program counter suffices: the processor leaves a thread inside
  `kirq_spinlock` only for an interrupt, and that one never returns. Line 2 is the
  cascade: open from `kirq_init` on, without a device, and the way of lines 8 to 15
  to the processor. Lines 7 and 15 are where a controller reports an interrupt whose
  cause is gone, masked or not.
* The build neither optimises nor defines `CPU`: `Mutex` has a step per memory
  access of `count++` and `--count`, and `Atomic` the instructions for
  processors above the 386.
* `kmutex_create` and `kcondition_create` take pages that are not cleared.
  `Leftovers` are the values found there, `MaxLeft` bounds the entries that an
  uncleared condition seems to have.
* `Format` has words of 6, 5 and 4 bits in place of 32, 16 and 8; the limits of
  the padding (six bits, an array of 68) are the code's. A kfloat is a number of
  thousandths in exact arithmetic.
* `kvsprintf` into a client's buffer is checked before anything is printed, since
  it shares no state with the screen.
* `Memory` leaves out `VIRTUAL_ZERO` and page contents, and the calls that do
  nothing (`kmemory_linear_page_unallocate`, `kmemory_linear_page_unmap`). Where a
  page table shares its page with data, what one overwrites in the other is not
  followed; `FramesDisjoint` says that it happens.
* `read_elf` takes no lock and is preempted like any thread; each segment is one
  action, as until `init()` has loaded the modules the only other thread is
  `timer_thread`, which asks for no memory before a client has added a timer.
* `kmemory_linear_page_map` is called for the pages in `Devices`, anywhere from page 1
  up to the virtual pages at 0x10000000, in memory or behind it.

## 4. Runs

Passing:

| Run | Shows | Bounds, and why they are enough |
|---|---|---|
| `threads` | `RingHoldsAll`, `ScanTerminates`, `HolderIsCurrent`, `StoppedStayStopped`; `ReadyRuns`, `SleeperWakes`, `InitEnds` | 4 threads: init, timer thread, idle and one that modules create, or the module thread; kill, suspend and sleep of the caller, with sleeps of 0 and 1 ticks; a slice of 2 ticks, so that ticks fall with and without a switch. Resuming oneself and the attribute calls leave everything as it was; calls on other threads are in `threads_other`. The proofs cover every size and every call |
| `rwlock` | `WordCountsHolders`, `FlagHasWriter`, the refinement of `RWLockAbs`, `WriterEnters` | 4 threads, one of which writes, with a reader count that overflows at 3; the proofs cover every number of readers, and the first two properties every number of writers |
| `timer` | `Sorted`, `LockHeld`, `EachOnce`, `FiresEarliest`, `DelayKept`, `TimerFires` | 2 clients and the callback, 3 timers, 9 clock values, delays with and without equal deadlines, with and without a carry that is missing |
| `devices` | `MaskWritten`, `DisabledStaysMasked`, `LockLostOnlyIfBare`; `InSync`, `NanosecondInRange`, `NotPutBack`; `ReadsTheDate` | the cascade, one line of each controller and both spurious ones; 3 periodic events a second, resynchronisation every 3rd update, 8 seconds: two resynchronisations with a `ktime_set` anywhere; every day 1970–2101: all kinds of leap years the chip will meet, and 2100. Each part moves while the others stand at their beginning. The proofs cover every set of lines, every rate and every later date |
| `memory` | `TypeOK`, `SharedOnlyUnmarked`, `BlocksApart`, `OnlyUsedMapped`, `StopsForCause`, `ContentsKept`, `LostOnlyWithBlock` | 20 pages in regions of 10, so that memory ends with a region as that of the documented machine does, and the page behind it is given out; all 3 zones; a segment of two pages; devices below 1 MB and across the end of the linear tables; run until memory is exhausted, a page table faults or a device lies behind the tables (all three happen) |
| `sync` | `AtomicsAgree`, `TurnsWork`, `EntriesAreWaiters`, `LockFreed` | 2 threads, words of 3 bits (all of their values are met), 2 nested locks, pages that hold 0 or 1. Interference between two threads is what the properties are about; the third would find the same words |
| `printing` | `StopsAtNul`, `NumberDenoted`, `FloatCut`, `ScreenShowsTail` | every argument of a word, all bases, flags, lengths, no width and a width of 12, precisions around the limit of 63; kfloats of either sign below and above 1; a screen of 3 rows of 4, with messages that wrap, end a row, hold newlines and fault |

Violations, each a disagreement between the code and what its interface,
comments or README say (details in `PROJECT.json`, `findings`):

* `threads_other`: kill, suspend, resume and sleep hang for another thread.
* `memory_frames`: a page has two users. The FIXME in `get_free_pages`
  (`memory.c:561`) asks that a run be marked as a whole; only its end is, and a page
  table taken while the run is being mapped lands on its first page. The passing run
  has the same machine and shows that nothing else is shared (`SharedOnlyUnmarked`).
* `printing_width`: the width in a directive, documented at `printf.c:12` and used by
  `"%02x"` in `irq.c:67`, does not pad a number.
* `rwlock_two_writers`: two writing threads get in together.
* `mutex`: two threads that lock one mutex both get it, since
  `katomic_compare_and_set_if_equal` always returns 1.

Other behaviours the models have, and a user of the kernel should know, without
a run of their own:

* A tick whose slice has run out, inside a `kthread_spinlock` section, makes
  `thread_switch` spin for ever with interrupts off (`hung = "spin"` in
  `Threads`); the thread properties hold up to that point and the liveness
  properties are stated unless it happens.
* An interrupt on a line without a handler kills whatever thread it interrupts. If
  that is the idle thread (or init before there is one) and no other is runnable, the
  scan of `schedule_thread` never ends (`hung = "scan"`, the exception in
  `ScanTerminates`). If it falls between the unlock and the `int 0x30` of
  `kthread_sleep`, the dead thread is switched to when its time has come and gets as
  far as that `int 0x30` (the exception in `StoppedStayStopped`). In any case
  `kirq_spinlock` stays taken, and the next tick spins on it.
* A spurious interrupt opens a line that was disabled, or, without a handler, loses
  `kirq_spinlock` (the exceptions in `DisabledStaysMasked` and `LockLostOnlyIfBare`). A
  handler that calls one of the `kirq_*` functions spins on the lock `handle_irq` holds.
* With two writing threads a reader may also enter beside a writer: the last
  writer out clears the flag although another one waits (`WriteUnlock`).
* `ktimer_remove` is empty: a removed timer fires.
* The nanoseconds of a delay are not carried into the seconds: such a timer fires up
  to a second early, and out of its turn (the exceptions in `DelayKept` and
  `FiresEarliest`).
* `kmemory_virtual_page_unallocate` passes its arguments to `set_linear_entry` in
  the wrong places (`Unallocated`), so the linear pages of a block are lost.
* The first allocation that enters a new 4 MB region writes a page table through
  a mapping that does not exist yet (`SetVirtual`; `hung = "fault"` in `Memory`).
  Boot can end that way too, unnoticed because paging is still off: when the page
  of the first thread is the first one of a region, the table taken for it is never
  mapped (`kthread_setup`, after `kmemory_virtual_setup`), and the first table or
  page needed there faults.
* When memory ends at a multiple of 4 MB, the page behind its end is marked
  available (`FirstAvailable`).
* `kmemory_linear_page_map` of a page behind the linear tables stops the kernel: the
  store into the missing table faults (`hung = "device"`).
* When memory runs out, `get_free_pages` loops with interrupts off; its callers'
  tests for 0 are never reached.
* `katomic_compare` subtracts from the word it is to compare, so that `kmutex_test`
  and a nested `kmutex_unlock` leave a mutex that names no owner; the mask
  operations and `katomic_bit_get` are LOCKed instructions the processor refuses.
  A mutex works as long as threads take turns (`TurnsWork`), on a page that
  happens to be zero.
* `kcondition_signal` and `kcondition_broadcast` hang as soon as there is a
  waiter: they call `kthread_resume` for another thread.
* `"%#o"` gets no prefix; `"%lld"` prints nothing, since `write_number_kuint64` is empty
  (the exception in `NumberDenoted`); a `%s` through a bad pointer faults inside the printing section
  and the fault handler spins on `kprintf_spinlock`; a text of more than 4095
  characters overflows the buffer; an infinite kfloat is never printed to its end.

Fairness:

* `Threads`: the RTC keeps interrupting (WF of `Tick`), and the end of `handle_irq`
  runs with interrupts off (WF of `IrqEnd`). A thread that is
  scheduled again and again executes (SF): a slice is `Reload + 1` ticks of the
  RTC, some twelve milliseconds, and its next steps are a few instructions. Only
  init's own steps are assumed fair; modules may do as they like.
* `RWLock`: SF of taking bit 31, since waiting threads yield without it; holders
  give the lock back.
* `Timer`: the clock ticks; sections are finished; timer functions return; SF of
  `timer_thread` getting the lock, as its holders leave the section between any
  two slices.
* `Condition`: a thread inside a function gets the processor again (WF of its
  steps). Nobody is assumed to call anything.

Liveness is stated "unless the processor is stuck", so that it does not depend on
the hangs listed above.

## 5. Proofs

`ThreadsProofs` proves for every `MaxTid >= 4`, `Reload`, `MaxSleep` and `Ops`:

* `Invariance`: `Spec => []IInv`. `IInv` adds to the checked invariants
  `SleepersAlive` (a thread marked asleep is not suspended, and alive unless an
  interrupt without a handler killed it at its `int 0x30`; needed because the scheduler
  looks at nothing else for a sleeper), `CurrentRunnable` (the running thread is alive
  except between its call's update and the switch, and at the end of `handle_irq`),
  `LockerDead` (the thread that took `kirq_spinlock` with it is dead: it can come back
  only as that sleeper), `Boot` (init is runnable until the idle thread exists, and the
  idle thread ever after, unless the one in question was killed in `handle_irq`; needed
  for the end of the scan) and `Unborn`.
* From it `TypeCorrect`, `RingComplete`, `SchedulerTerminates`, `LockDiscipline`
  and the action property `NoResurrection`.

The proof has lemmas on `Rotate` and `InsertAfterHead` (they keep the set of
threads), one on `ThreadSwitch`, and a step per action.

`RWLockProofs` proves for every finite `Procs` and every `HALF >= 1`:

* `WordInvariance`, for every set of writers: the word counts its holders and
  the flag has a writer. Together with the type invariant (`WInv`) this is
  inductive as it stands; there are lemmas on the wrapping arithmetic and one
  per function.
* `Refinement`, assuming `SingleWriter` (at most one thread writes): `Spec`
  implements `RWLockAbs`. Its invariant `SInv` adds to `WInv` that only writers
  write, that the flag is set as long as the writer waits or is inside, and that
  readers and writer exclude each other. The assumption is needed:
  `rwlock_two_writers` is a counterexample without it.

* `FlagNotLeft`: `FlagHasWriter` by itself, for every set of writers.

`TimerProofs`, for every set of clients, delays, `NS >= 1` and bound on timers:

* `IInv` says that the list is sorted, that no timer is in it twice, that the
  ones added and not in it were called once (`EachOnce` needs both), that whoever
  is inside the section holds the lock, that a client about to insert has a number
  to give, and that the clock value `timer_thread` uses is not ahead of the clock.
  From it `ListSorted`, `LockDiscipline` and `NoneLost`.
* `EarliestFirst` and `DelaysKept` are about deadlines in time (`Ticks`), while the list
  is sorted by uncarried pairs. They assume `Normalised`, that callers give less than a
  second in nanoseconds; the invariant for it is that a deadline's nanoseconds stay below
  two seconds. Then the order of pairs is the order in time but for the timers whose
  carry is missing, the exception both properties state. Without the assumption a timer
  may be early by any amount.
* What insertion does is stated once (`PositionFound`, `InsertProperties`): the
  position exists, everything before it is due earlier and everything from it on no
  earlier. The position is found through `LeastNumber`: a nonempty set of numbers has a least
  element, which stands in for induction.
* The clients and the callback must not be named like the free lock or the timer
  thread (`CallbackAssumption`).

`ClockProofs`, for every rate of the chip, `TimeReload >= 1` (the code has 37)
and `ThreadReload`: `IInv` relates the down-counter to the updates since the last
`ktime_set` (so the next reading of the chip comes in time) and the nanoseconds to
the periodic interrupts since the last update, with the update that is pending in
register C or in the handler counted as owed (`Owed`, `NewSecond`). From it `Synchronised`,
`NanosecondBelow` and the action property `NeverPutBack`.

`CalendarProofs`, for every date from 1970 on: the days counted by the Gregorian
rules are what the formula gives. The step is proved within a month (`SameMonth`),
from month to month (`NextMonth`, where February is split by the leap rule) and
from year to year (`NextYear`); `ReadBack` shows that the BCD registers lose
nothing. `MinutesFit` assumes `LastYear <= 9999`, which is what a century register
of two digits can hold, and shows that unsigned 32 bit arithmetic suffices.

`IrqProofs`, for every set of lines: `IInv` adds to the three properties which
line a call has changed and not yet written (`WriteDue`), and that a line the
kernel's mask leaves open is wanted open by a thread, or was opened by a spurious
interrupt, and, unless one was ever enabled without, has a handler (`OpenLines`).

`ConditionProofs`, for every set of threads, every word length `W`, every depth of
nesting and whatever the uncleared pages hold:

* `Owned`: a thread inside the protected part has the condition's spinlock, and
  the `entry_next` it loaded is not stale when it is stored. `Entries`: the entries
  made so far are one for each waiter, and as many as the waiters; that a waiter's
  index lies inside the table (`EntryFree`) follows by counting. `Turns`: what a
  thread finds in the mutex at each place of its code, as long as they take turns,
  and that at most one thread is not apart from it. From it `WaitersEntered` and
  `MutexInTurns`.
* `AtomicsExact`: every operation of `atomic.c` but the five that are wrong, for
  every word. It rests on `PowerAssumption`, that powers of 2 are positive: true of
  every `W`, but the provers have no facts about `^`.

`MemoryProofs`, for every sequence of requests and every layout that meets three
assumptions of `Memory`:

* `LayoutAssumption`: the low zone ends inside the first region, the DMA zone and
  the virtual addresses start with one, as 1 MB, 16 MB and 0x10000000 do; devices
  are anywhere from page 1 to 0x10000000.
* `MachineAssumption`: the kernel and its linear tables fit, and memory ends below the
  segments of `module.elf`, which end below 0x10000000. A module is linked without a
  script, so at ld's 0x08048000: this is memory below 128 MB. The kernel does not test
  it, and with more memory an identity mapping and a segment may meet in one entry.
* `BootAssumption`: when `setup()` ends, a page table that is not mapped lies in a
  region whose table is not mapped either. The sweep of `kmemory_virtual_setup` maps
  the tables in front of it; this fails only if memory is so short that one
  is taken from behind it. It is about one computed state, which TLC evaluates on
  the layout of the run. It holds at true size (`T = 1024`, `LowEnd = 256`,
  `DmaEnd = 4096`) for the machine of 4 MB that the repository's README starts
  (`qemu-system-i386 ... -m 4M`, `MemPages = 1024`) with the kernel's end at pages 257,
  290, 600 and 900; there no table is left unmapped.

The theorems:

* `Invariance`, `Separated`: the blocks of both lists lie below `virtual_address`,
  pairwise a page apart; moving a block from one list to the other (`Moved`) and
  adding one at `virtual_address` keep that, whatever happens to the page tables.
* `FullInvariance`: `FullInv` adds the page tables. `Sound` is what the search for
  free pages needs and keeps: only pages that were available at boot are, and no run is
  cut in two where the search of the DMA zone starts (`DmaNext`; otherwise
  `get_free_pages` would stop for ever with such a run left).
  `Tabled` and `Fresh`: entries are only in regions that have a table, and no available
  page is mapped at its own address; without this a new table could be one that is
  in use. `Steady`: tables that are not mapped stay so, and no block of
  virtual addresses has one. `WellUsed` ties the tables to the lists: all regions of
  a block have a table (giving a block back reads them without a test), and entries
  above `VBase` belong to blocks in use, whose first page has one.
* From it `Typed`, `OnlyUsed`, `Stops` (the kernel stops inside the allocator for three
  reasons only) and the action property `ContentsStay`: all of them speak of the result of an operation that takes page tables on its way, and none
  is inductive without `Tabled` and `Steady`.

Along these lines: a `Loop` keeps what each round keeps. It is a recursive function, and
one lemma per body (`SetLinearLoop` and the like) shows by induction on the rounds, over
sets of states instead of a predicate parameter, that it passes from `I[0]` to `I[n]`.
`Got` says what `get_free_pages` returns: a run of free pages (`RunFound`, through
the least element of `Ends`) or the truth that there is none (`NoRun`).
`SetVirtualEntry` recurses on page tables it finds missing; that it ends, and maps its
page or faults because of tables that wait for each other (`Before`, `After`), is
`EntryIsSet`, by induction on the number of missing tables. Then each operation has a
lemma, and `FullInv` a step per action.

Only model-checked:

* Everything under fairness (`ReadyRuns`, `SleeperWakes`, `InitEnds`, `WriterEnters`,
  `TimerFires`, `LockFreed`): the provers have no `ENABLED`.
* `SharedOnlyUnmarked` and `LostOnlyWithBlock` of `Memory`, which are not theorems for
  every layout: `get_free_pages` marks only the last page of a run, and does not reset
  its count between its two passes over a zone, so that a run may begin with the last
  pages looked at and go on with the first.
* `Format` and `Console`, whose operators are recursive.

## 6. Not modelled

* The end of `kcondition_wait` (after its suspension): nothing reaches it, because
  no thread can be resumed by another.
* Binary rounding, infinities and NaN in `write_number_kfloat`.
* The interface table, port and processor access: a static table and single
  instructions without state of their own.
* The example module, whose calls are part of what `Threads` lets threads do.
* ELF header checks, and the memory accessors other than `kmemory_virtual_copy`:
  they keep no state. (`kmemory_virtual_fill` writes 0 and the value in turn, and
  the accessors for arrays copy nothing.)
* Register and FPU save areas in `entry.S`.
