------------------------------- MODULE RWLock --------------------------------
(***************************************************************************)
(* The read/write lock of arch/ia32/rwlock.c.  One 32 bit word holds, from *)
(* the low end, a signed 16 bit reader count whose sign bit is the         *)
(* "a writer wants in" flag, a 15 bit writer count and, in bit 31, the     *)
(* spinlock (spinlock.c) under which every other bit is read and written.  *)
(* Interrupts are enabled while it is held, so a thread may be preempted   *)
(* between taking the bit and the body of the function, which releases it. *)
(* A thread whose test fails releases the bit, yields and tries again.     *)
(***************************************************************************)
EXTENDS Integers, FiniteSets

CONSTANTS Procs,    \* threads that use the lock
          Writers,  \* those of them that also lock for writing
          HALF      \* 2^15: the sign bit of the reader count

ASSUME ProcsAssumption == IsFiniteSet(Procs) /\ Writers \subseteq Procs
ASSUME HalfAssumption == HALF \in Nat /\ HALF >= 1

VARIABLES
  low,      \* the low 16 bits, unsigned
  writers,  \* the writer count, bits 16 to 30
  spin,     \* the set with the thread that holds bit 31, or {}
  pc        \* the function each thread is in

vars == <<low, writers, spin, pc>>

(* Where a thread spins for bit 31.                                        *)
Wanting == {"read_lock", "read_unlock", "write_lock", "first_waits",
            "other_waits", "write_unlock"}

(* As a kint16 the reader count is positive.                               *)
Positive(v) == v \in 1..HALF - 1

Flag == low >= HALF
ReaderCount == IF Flag THEN low - HALF ELSE low

Init ==
  /\ low = 0 /\ writers = 0 /\ spin = {}
  /\ pc = [p \in Procs |-> "out"]

(* A thread calls one of the four functions.                               *)
Call(p) ==
  /\ \/ pc[p] = "out" /\ pc' = [pc EXCEPT ![p] = "read_lock"]
     \/ pc[p] = "out" /\ p \in Writers /\ pc' = [pc EXCEPT ![p] = "write_lock"]
     \/ pc[p] = "reading" /\ pc' = [pc EXCEPT ![p] = "read_unlock"]
     \/ pc[p] = "writing" /\ pc' = [pc EXCEPT ![p] = "write_unlock"]
  /\ UNCHANGED <<low, writers, spin>>

(* kspinlock_lock(lock).                                                   *)
SpinLock(p) ==
  /\ pc[p] \in Wanting /\ spin = {}
  /\ spin' = {p}
  /\ UNCHANGED <<low, writers, pc>>

(* The body of a function, which runs with bit 31 set and then clears it.  *)
Holding(p, at) == spin = {p} /\ pc[p] = at /\ spin' = {}

(* Faulty variants of a definition stand before it, for mutation testing.  *)
ReadLock_KeepsIncrement(p) ==
  /\ Holding(p, "read_lock")
  /\ low' = (low + 1) % (2 * HALF)
  /\ pc' = [pc EXCEPT ![p] = IF Positive(low') THEN "reading" ELSE @]
  /\ UNCHANGED writers

(* krwlock_read_lock: increment; keep it only if the result is positive.   *)
ReadLock(p) ==
  /\ Holding(p, "read_lock")
  /\ LET v == (low + 1) % (2 * HALF)
     IN  IF Positive(v)
         THEN low' = v /\ pc' = [pc EXCEPT ![p] = "reading"]
         ELSE low' = (v - 1) % (2 * HALF) /\ UNCHANGED pc
  /\ UNCHANGED writers

(* krwlock_read_unlock.                                                    *)
ReadUnlock(p) ==
  /\ Holding(p, "read_unlock")
  /\ low' = (low - 1) % (2 * HALF)
  /\ pc' = [pc EXCEPT ![p] = "out"]
  /\ UNCHANGED writers

Blocked_FirstIgnoresReaders(wait) ==
  wait = "other_waits" /\ (ReaderCount # 0 \/ writers # 0)

(* The loop tests of krwlock_write_lock: a writer that found the flag set  *)
(* waits for readers and writers, one that set it only for readers.        *)
Blocked(wait) == ReaderCount # 0 \/ (wait = "other_waits" /\ writers # 0)

WriteEnter(p, wait) ==
  IF Blocked(wait)
  THEN pc' = [pc EXCEPT ![p] = wait] /\ UNCHANGED writers
  ELSE pc' = [pc EXCEPT ![p] = "writing"] /\ writers' = writers + 1

(* krwlock_write_lock: test and set the flag, then the first loop test.    *)
WriteLock(p) ==
  /\ Holding(p, "write_lock")
  /\ low' = IF Flag THEN low ELSE low + HALF
  /\ WriteEnter(p, IF Flag THEN "other_waits" ELSE "first_waits")

(* krwlock_write_lock: another turn of the loop.                           *)
WriteRetry(p) ==
  /\ \E wait \in {"first_waits", "other_waits"} :
       Holding(p, wait) /\ WriteEnter(p, wait)
  /\ UNCHANGED low

WriteUnlock_KeepsFlag(p) ==
  /\ Holding(p, "write_unlock")
  /\ writers' = writers - 1
  /\ pc' = [pc EXCEPT ![p] = "out"]
  /\ UNCHANGED low

WriteUnlock_KeepsCount(p) ==
  /\ Holding(p, "write_unlock")
  /\ low' = IF writers = 1 THEN low - HALF ELSE low
  /\ pc' = [pc EXCEPT ![p] = "out"]
  /\ UNCHANGED writers

(* krwlock_write_unlock: the last writer out clears the flag.              *)
WriteUnlock(p) ==
  /\ Holding(p, "write_unlock")
  /\ writers' = writers - 1
  /\ low' = IF writers = 1 THEN ReaderCount ELSE low
  /\ pc' = [pc EXCEPT ![p] = "out"]

Body(p) == ReadLock(p) \/ ReadUnlock(p) \/ WriteLock(p) \/ WriteRetry(p) \/ WriteUnlock(p)

Next == \E p \in Procs : Call(p) \/ SpinLock(p) \/ Body(p)

(* A thread inside a function gets the processor again and again, and does *)
(* not find bit 31 taken every time: it is held for a few instructions of  *)
(* a slice of twelve ticks, and a thread that must wait yields without it. *)
(* Threads that hold the lock give it back.                                *)
Fairness ==
  \A p \in Procs :
    /\ SF_vars(SpinLock(p))
    /\ WF_vars(Body(p))
    /\ WF_vars(pc[p] # "out" /\ Call(p))

Spec == Init /\ [][Next]_vars /\ Fairness

-----------------------------------------------------------------------------
Reading == {p \in Procs : pc[p] \in {"reading", "read_unlock"}}
Writing == {p \in Procs : pc[p] \in {"writing", "write_unlock"}}
Waiting == {p \in Procs : pc[p] \in {"first_waits", "other_waits"}}

TypeOK ==
  /\ low \in 0..2 * HALF - 1
  /\ writers \in Nat
  /\ spin = {} \/ \E p \in Procs : spin = {p} /\ pc[p] \in Wanting
  /\ pc \in [Procs -> Wanting \cup {"out", "reading", "writing"}]

(* The lock word counts the holders exactly, however the increments that   *)
(* are taken back, the wrap of the 16 bit count at its limit and the flag  *)
(* in its sign bit interleave: readers in the low 15 bits, writers above.  *)
WordCountsHolders ==
  /\ ReaderCount = Cardinality(Reading)
  /\ writers = Cardinality(Writing)

(* The flag that turns readers away is never left behind: while it is set  *)
(* some writer is waiting or inside.                                       *)
FlagHasWriter == Flag => Writing \cup Waiting # {}

(* Two writers are never inside together.                                  *)
OneWriter == \A p, q \in Writing : p = q

(* The lock implements the abstract read/write lock.                       *)
Abs == INSTANCE RWLockAbs WITH readers <- Reading, writer <- Writing
ImplementsRWLock == Abs!AbsSpec

(* Readers that come and go do not starve a writer.                        *)
WriterEnters == \A p \in Procs : pc[p] = "write_lock" ~> pc[p] = "writing"
=============================================================================
