---------------------------- MODULE RWLockProofs -----------------------------
(***************************************************************************)
(* Theorems about the read/write lock, for any finite set of threads and   *)
(* any width of the reader count.                                          *)
(***************************************************************************)
EXTENDS RWLock, FiniteSetTheorems, TLAPS

(* The arithmetic of a count that wraps at M.                              *)
LEMMA WrapUp ==
  ASSUME NEW M \in Nat, M >= 1, NEW x \in 0..M - 1
  PROVE  (x + 1) % M = IF x = M - 1 THEN 0 ELSE x + 1
OBVIOUS

LEMMA WrapDown ==
  ASSUME NEW M \in Nat, M >= 1, NEW x \in 0..M - 1
  PROVE  (x - 1) % M = IF x = 0 THEN M - 1 ELSE x - 1
OBVIOUS

WInv == TypeOK /\ WordCountsHolders /\ FlagHasWriter

(* The holders are finitely many.                                          *)
LEMMA Finite ==
  /\ IsFiniteSet(Reading) /\ IsFiniteSet(Writing)
  /\ Cardinality(Reading) \in Nat /\ Cardinality(Writing) \in Nat
<1>1. Reading \in SUBSET Procs /\ Writing \in SUBSET Procs
  BY DEF Reading, Writing
<1>2. IsFiniteSet(Reading) /\ IsFiniteSet(Writing)
  BY <1>1, ProcsAssumption, FS_Subset
<1> QED
  BY <1>2, FS_CardinalityType

LEMMA InitWInv == Init => WInv
<1> SUFFICES ASSUME Init PROVE WInv
  OBVIOUS
<1>1. TypeOK
  BY HalfAssumption DEF Init, TypeOK, Wanting
<1>2. Reading = {} /\ Writing = {}
  BY DEF Init, Reading, Writing
<1>3. WordCountsHolders
  BY <1>2, FS_EmptySet, HalfAssumption DEF WordCountsHolders, Init, ReaderCount, Flag
<1>4. FlagHasWriter
  BY HalfAssumption DEF FlagHasWriter, Init, Flag
<1> QED
  BY <1>1, <1>3, <1>4 DEF WInv

(* A step that moves no thread in or out of the lock.                      *)
LEMMA NoMove ==
  ASSUME WInv, TypeOK', Reading' = Reading, Writing' = Writing, Waiting \subseteq Waiting',
         UNCHANGED <<low, writers>>
  PROVE  WInv'
BY DEF WInv, WordCountsHolders, FlagHasWriter, ReaderCount, Flag

LEMMA CallKeeps ==
  ASSUME WInv, NEW p \in Procs, Call(p)
  PROVE  WInv'
<1>1. PICK x \in Wanting \cup {"out", "reading", "writing"} :
        /\ pc' = [pc EXCEPT ![p] = x]
        /\ \/ pc[p] = "out" /\ x \in {"read_lock", "write_lock"}
           \/ pc[p] = "reading" /\ x = "read_unlock"
           \/ pc[p] = "writing" /\ x = "write_unlock"
  BY DEF Call, Wanting
<1>2. UNCHANGED <<low, writers, spin>>
  BY DEF Call
<1>3. pc \in [Procs -> Wanting \cup {"out", "reading", "writing"}]
  BY DEF WInv, TypeOK
<1>4. TypeOK'
  BY <1>1, <1>2, <1>3 DEF WInv, TypeOK, Wanting
<1>5. Reading' = Reading /\ Writing' = Writing /\ Waiting' = Waiting
  BY <1>1, <1>3 DEF Reading, Writing, Waiting
<1> QED
  BY <1>2, <1>4, <1>5, NoMove

LEMMA SpinLockKeeps ==
  ASSUME WInv, NEW p \in Procs, SpinLock(p)
  PROVE  WInv'
<1>1. TypeOK'
  BY DEF WInv, TypeOK, SpinLock
<1>2. Reading' = Reading /\ Writing' = Writing /\ Waiting' = Waiting /\ UNCHANGED <<low, writers>>
  BY DEF SpinLock, Reading, Writing, Waiting
<1> QED
  BY <1>1, <1>2, NoMove

(* krwlock_read_lock adds itself to the readers only while the flag is     *)
(* clear, and undoes its increment exactly otherwise.                      *)
LEMMA ReadLockEffect ==
  ASSUME WInv, NEW p \in Procs, ReadLock(p)
  PROVE  /\ pc[p] = "read_lock" /\ spin' = {} /\ writers' = writers
         /\ \/ /\ low + 1 < HALF /\ low' = low + 1
               /\ pc' = [pc EXCEPT ![p] = "reading"]
            \/ low' = low /\ pc' = pc
<1> DEFINE M == 2 * HALF
           v == (low + 1) % M
<1>1. M \in Nat /\ M >= 1 /\ low \in 0..M - 1 /\ HALF \in Nat /\ HALF >= 1
  BY HalfAssumption DEF WInv, TypeOK
<1>2. v = IF low = M - 1 THEN 0 ELSE low + 1
  BY <1>1, WrapUp
<1>3. v \in 0..M - 1
  BY <1>1, <1>2
<1>4. (v - 1) % M = IF v = 0 THEN M - 1 ELSE v - 1
  BY <1>1, <1>3, WrapDown
<1>5. (v - 1) % M = low
  BY <1>1, <1>2, <1>4
<1>6. Positive(v) => low + 1 < HALF /\ v = low + 1
  BY <1>1, <1>2 DEF Positive
<1>7. /\ pc[p] = "read_lock" /\ spin' = {} /\ writers' = writers
      /\ IF Positive(v)
         THEN low' = v /\ pc' = [pc EXCEPT ![p] = "reading"]
         ELSE low' = (v - 1) % M /\ UNCHANGED pc
  BY DEF ReadLock, Holding
<1> HIDE DEF v
<1> QED
  BY <1>5, <1>6, <1>7

LEMMA ReadLockKeeps ==
  ASSUME WInv, NEW p \in Procs, ReadLock(p)
  PROVE  WInv'
<1>0. /\ pc \in [Procs -> Wanting \cup {"out", "reading", "writing"}]
      /\ low \in 0..2 * HALF - 1 /\ HALF \in Nat /\ HALF >= 1
      /\ pc[p] = "read_lock" /\ spin' = {} /\ writers' = writers
  BY ReadLockEffect, HalfAssumption DEF WInv, TypeOK
<1>1. CASE low' = low /\ pc' = pc
  <2>1. TypeOK'
    BY <1>0, <1>1 DEF WInv, TypeOK
  <2>2. Reading' = Reading /\ Writing' = Writing /\ Waiting' = Waiting
    BY <1>1 DEF Reading, Writing, Waiting
  <2> QED
    BY <1>0, <1>1, <2>1, <2>2, NoMove
<1>2. CASE low + 1 < HALF /\ low' = low + 1 /\ pc' = [pc EXCEPT ![p] = "reading"]
  <2>1. TypeOK'
    BY <1>0, <1>2 DEF WInv, TypeOK
  <2>2. Reading' = Reading \cup {p} /\ p \notin Reading /\ Writing' = Writing
    BY <1>0, <1>2 DEF Reading, Writing
  <2>3. Cardinality(Reading') = Cardinality(Reading) + 1
    BY <2>2, Finite, FS_AddElement
  <2>4. ReaderCount' = ReaderCount + 1 /\ ~Flag'
    BY <1>0, <1>2 DEF ReaderCount, Flag
  <2> QED
    BY <1>0, <2>1, <2>2, <2>3, <2>4, Finite DEF WInv, WordCountsHolders, FlagHasWriter
<1> QED
  BY <1>1, <1>2, ReadLockEffect

LEMMA ReadUnlockEffect ==
  ASSUME WInv, NEW p \in Procs, ReadUnlock(p)
  PROVE  WInv' /\ (Flag => Flag')
<1>0. /\ pc \in [Procs -> Wanting \cup {"out", "reading", "writing"}]
      /\ low \in 0..2 * HALF - 1 /\ HALF \in Nat /\ HALF >= 1
      /\ pc[p] = "read_unlock" /\ spin' = {} /\ writers' = writers
      /\ pc' = [pc EXCEPT ![p] = "out"] /\ low' = (low - 1) % (2 * HALF)
  BY HalfAssumption DEF WInv, TypeOK, ReadUnlock, Holding
<1>1. Reading' = Reading \ {p} /\ p \in Reading /\ Writing' = Writing /\ Waiting' = Waiting
  BY <1>0 DEF Reading, Writing, Waiting
<1>2. Cardinality(Reading') = Cardinality(Reading) - 1 /\ Cardinality(Reading) # 0
  BY <1>1, Finite, FS_RemoveElement, FS_EmptySet
<1>3. ReaderCount >= 1 /\ low >= 1
  BY <1>0, <1>2, Finite DEF WInv, WordCountsHolders, ReaderCount, Flag
<1>4. low' = low - 1
  <2>1. 2 * HALF \in Nat /\ 2 * HALF >= 1
    BY <1>0
  <2> QED
    BY <1>0, <1>3, <2>1, WrapDown
<1>5. ReaderCount' = ReaderCount - 1 /\ (Flag' <=> Flag)
  BY <1>0, <1>3, <1>4 DEF ReaderCount, Flag
<1>6. TypeOK'
  BY <1>0, <1>3, <1>4 DEF WInv, TypeOK
<1> QED
  BY <1>0, <1>1, <1>2, <1>5, <1>6 DEF WInv, WordCountsHolders, FlagHasWriter

(* A writer that tests its condition: it goes in or goes on waiting.       *)
LEMMA WriteEnterEffect ==
  ASSUME WInv, NEW p \in Procs, pc[p] \in {"write_lock", "first_waits", "other_waits"},
         NEW wait \in {"first_waits", "other_waits"}, spin' = {}, WriteEnter(p, wait),
         low' \in 0..2 * HALF - 1, ReaderCount' = ReaderCount
  PROVE  /\ WInv'
         /\ Reading' = Reading
         /\ \/ Writing' = Writing \cup {p} /\ p \notin Writing /\ ReaderCount = 0
            \/ Writing' = Writing
         /\ p \in Writing' \cup Waiting'
<1>0. pc \in [Procs -> Wanting \cup {"out", "reading", "writing"}] /\ writers \in Nat
  BY DEF WInv, TypeOK
<1>1. CASE Blocked(wait)
  <2>1. pc' = [pc EXCEPT ![p] = wait] /\ writers' = writers
    BY <1>1 DEF WriteEnter
  <2>2. Reading' = Reading /\ Writing' = Writing /\ p \in Waiting'
    BY <1>0, <2>1 DEF Reading, Writing, Waiting
  <2>3. TypeOK'
    BY <1>0, <2>1 DEF TypeOK, Wanting
  <2> QED
    BY <2>1, <2>2, <2>3 DEF WInv, WordCountsHolders, FlagHasWriter
<1>2. CASE ~Blocked(wait)
  <2>1. pc' = [pc EXCEPT ![p] = "writing"] /\ writers' = writers + 1 /\ ReaderCount = 0
    BY <1>2 DEF WriteEnter, Blocked
  <2>2. Reading' = Reading /\ Writing' = Writing \cup {p} /\ p \notin Writing
    BY <1>0, <2>1 DEF Reading, Writing
  <2>3. Cardinality(Writing') = Cardinality(Writing) + 1
    BY <2>2, Finite, FS_AddElement
  <2>4. TypeOK'
    BY <1>0, <2>1 DEF TypeOK
  <2> QED
    BY <2>1, <2>2, <2>3, <2>4 DEF WInv, WordCountsHolders, FlagHasWriter
<1> QED
  BY <1>1, <1>2

LEMMA WriteLockEffect ==
  ASSUME WInv, NEW p \in Procs, WriteLock(p)
  PROVE  /\ WInv' /\ Flag'
         /\ Reading' = Reading
         /\ \/ Writing' = Writing \cup {p} /\ p \notin Writing /\ ReaderCount = 0
            \/ Writing' = Writing
         /\ pc[p] = "write_lock"
<1>1. /\ pc[p] = "write_lock" /\ spin' = {}
      /\ low' = IF Flag THEN low ELSE low + HALF
      /\ WriteEnter(p, IF Flag THEN "other_waits" ELSE "first_waits")
  BY DEF WriteLock, Holding
<1>2. low' \in 0..2 * HALF - 1 /\ Flag' /\ ReaderCount' = ReaderCount
  BY <1>1, HalfAssumption DEF WInv, TypeOK, Flag, ReaderCount
<1> QED
  BY <1>1, <1>2, WriteEnterEffect

LEMMA WriteRetryEffect ==
  ASSUME WInv, NEW p \in Procs, WriteRetry(p)
  PROVE  /\ WInv' /\ low' = low
         /\ Reading' = Reading
         /\ \/ Writing' = Writing \cup {p} /\ p \notin Writing /\ ReaderCount = 0
            \/ Writing' = Writing
         /\ pc[p] \in {"first_waits", "other_waits"}
<1>1. PICK wait \in {"first_waits", "other_waits"} :
         pc[p] = wait /\ spin' = {} /\ WriteEnter(p, wait) /\ low' = low
  BY DEF WriteRetry, Holding
<1>2. low' \in 0..2 * HALF - 1 /\ ReaderCount' = ReaderCount
  BY <1>1 DEF WInv, TypeOK, Flag, ReaderCount
<1> QED
  BY <1>1, <1>2, WriteEnterEffect

LEMMA WriteUnlockEffect ==
  ASSUME WInv, NEW p \in Procs, WriteUnlock(p)
  PROVE  /\ WInv'
         /\ Reading' = Reading /\ Writing' = Writing \ {p} /\ p \in Writing
         /\ Waiting' = Waiting /\ pc' = [pc EXCEPT ![p] = "out"]
<1>0. /\ pc \in [Procs -> Wanting \cup {"out", "reading", "writing"}]
      /\ low \in 0..2 * HALF - 1 /\ HALF \in Nat /\ HALF >= 1
      /\ pc[p] = "write_unlock" /\ spin' = {} /\ writers' = writers - 1
      /\ low' = (IF writers = 1 THEN ReaderCount ELSE low)
      /\ pc' = [pc EXCEPT ![p] = "out"]
  BY HalfAssumption DEF WInv, TypeOK, WriteUnlock, Holding
<1>1. Reading' = Reading /\ Writing' = Writing \ {p} /\ p \in Writing /\ Waiting' = Waiting
  BY <1>0 DEF Reading, Writing, Waiting
<1>2. /\ Cardinality(Writing') = Cardinality(Writing) - 1
      /\ Cardinality(Writing) # 0 /\ Cardinality(Writing) \in Nat
      /\ writers = Cardinality(Writing)
  BY <1>1, Finite, FS_RemoveElement, FS_EmptySet DEF WInv, WordCountsHolders
<1>3. writers' \in Nat /\ writers' = Cardinality(Writing')
  BY <1>0, <1>2
<1>4. low' \in 0..2 * HALF - 1 /\ ReaderCount' = ReaderCount
  BY <1>0 DEF ReaderCount, Flag
<1>5. TypeOK'
  BY <1>0, <1>3, <1>4 DEF TypeOK
<1>6. FlagHasWriter'
  <2>1. CASE writers = 1
    BY <1>0, <2>1 DEF FlagHasWriter, Flag, ReaderCount
  <2>2. CASE writers # 1
    <3>1. Cardinality(Writing') # 0 /\ IsFiniteSet(Writing')
      BY <1>1, <1>2, <2>2, Finite, FS_RemoveElement
    <3>2. Writing' # {}
      BY <3>1, FS_EmptySet
    <3> QED
      BY <3>2 DEF FlagHasWriter
  <2> QED
    BY <2>1, <2>2
<1> QED
  BY <1>0, <1>1, <1>3, <1>4, <1>5, <1>6 DEF WInv, WordCountsHolders

LEMMA NextWInv == WInv /\ [Next]_vars => WInv'
<1> SUFFICES ASSUME WInv, [Next]_vars PROVE WInv'
  OBVIOUS
<1>1. CASE UNCHANGED vars
  <2>1. TypeOK' /\ Reading' = Reading /\ Writing' = Writing /\ Waiting' = Waiting
    BY <1>1 DEF vars, WInv, TypeOK, Reading, Writing, Waiting
  <2> QED
    BY <1>1, <2>1, NoMove DEF vars
<1>2. CASE Next
  <2>1. PICK p \in Procs : Call(p) \/ SpinLock(p) \/ Body(p)
    BY <1>2 DEF Next
  <2> QED
    BY <2>1, CallKeeps, SpinLockKeeps, ReadLockKeeps, ReadUnlockEffect, WriteLockEffect,
       WriteRetryEffect, WriteUnlockEffect DEF Body
<1> QED
  BY <1>1, <1>2

(* With any number of readers and writers the lock word counts the         *)
(* holders, and the flag never outlives the writers.                       *)
THEOREM WordInvariance == Spec => [](TypeOK /\ WordCountsHolders /\ FlagHasWriter)
<1>1. Init => WInv
  BY InitWInv
<1>2. WInv /\ [Next]_vars => WInv'
  BY NextWInv
<1>3. WInv => TypeOK /\ WordCountsHolders /\ FlagHasWriter
  BY DEF WInv
<1> QED
  BY <1>1, <1>2, <1>3, PTL DEF Spec

(* The writer flag of the word, which keeps new readers out, is not left   *)
(* set when the last writer has gone, with any number of writers that come *)
(* and go.                                                                 *)
THEOREM FlagNotLeft == Spec => []FlagHasWriter
BY WordInvariance, PTL

-----------------------------------------------------------------------------
(* With a single writing thread the lock does what it promises.  The flag  *)
(* is then set for as long as the writer waits or is inside, and so no     *)
(* reader comes in behind it.                                              *)
SingleWriter == \A p, q \in Writers : p = q

WriteSteps == {"write_lock", "first_waits", "other_waits", "writing", "write_unlock"}

OnlyWritersWrite == \A p \in Procs : pc[p] \in WriteSteps => p \in Writers

FlagWhileWriter == Writing \cup Waiting # {} => Flag

Excluded == Writing = {} \/ Reading = {}

SInv == WInv /\ OnlyWritersWrite /\ FlagWhileWriter /\ Excluded

AbsStep == [Abs!AbsNext]_<<Reading, Writing>>

LEMMA InitSInv == Init => SInv /\ Abs!AbsInit
<1> SUFFICES ASSUME Init PROVE SInv /\ Abs!AbsInit
  OBVIOUS
<1>1. Reading = {} /\ Writing = {} /\ Waiting = {}
  BY DEF Init, Reading, Writing, Waiting
<1>2. OnlyWritersWrite
  BY DEF OnlyWritersWrite, Init, WriteSteps
<1> QED
  BY <1>1, <1>2, InitWInv DEF SInv, FlagWhileWriter, Excluded, Abs!AbsInit

(* A thread at a step of the writer's functions is the only one.           *)
LEMMA OnlyOne ==
  ASSUME SingleWriter, OnlyWritersWrite, NEW p \in Procs, pc[p] \in WriteSteps
  PROVE  Writing \cup Waiting \subseteq {p}
BY DEF SingleWriter, OnlyWritersWrite, Writing, Waiting, WriteSteps

LEMMA NoReaders ==
  ASSUME WInv, ReaderCount = 0
  PROVE  Reading = {}
BY Finite, FS_EmptySet DEF WInv, WordCountsHolders

LEMMA QuietStep ==
  ASSUME SInv, WInv', OnlyWritersWrite', Reading' = Reading, Writing' = Writing,
         Waiting' = Waiting, low' = low
  PROVE  SInv' /\ AbsStep
BY DEF SInv, FlagWhileWriter, Excluded, Flag, AbsStep

LEMMA CallRefines ==
  ASSUME SInv, NEW p \in Procs, Call(p)
  PROVE  SInv' /\ AbsStep
<1>1. PICK x \in Wanting \cup {"out", "reading", "writing"} :
        /\ pc' = [pc EXCEPT ![p] = x]
        /\ \/ pc[p] = "out" /\ x = "read_lock"
           \/ pc[p] = "out" /\ x = "write_lock" /\ p \in Writers
           \/ pc[p] = "reading" /\ x = "read_unlock"
           \/ pc[p] = "writing" /\ x = "write_unlock"
  BY DEF Call, Wanting
<1>2. pc \in [Procs -> Wanting \cup {"out", "reading", "writing"}]
  BY DEF SInv, WInv, TypeOK
<1>3. Reading' = Reading /\ Writing' = Writing /\ Waiting' = Waiting
  BY <1>1, <1>2 DEF Reading, Writing, Waiting
<1>4. OnlyWritersWrite'
  BY <1>1, <1>2 DEF SInv, OnlyWritersWrite, WriteSteps
<1>5. low' = low /\ WInv'
  BY CallKeeps DEF Call, SInv
<1> QED
  BY <1>3, <1>4, <1>5, QuietStep

LEMMA SpinLockRefines ==
  ASSUME SInv, NEW p \in Procs, SpinLock(p)
  PROVE  SInv' /\ AbsStep
<1>1. pc' = pc /\ low' = low /\ WInv'
  BY SpinLockKeeps DEF SpinLock, SInv
<1>2. Reading' = Reading /\ Writing' = Writing /\ Waiting' = Waiting /\ OnlyWritersWrite'
  BY <1>1 DEF Reading, Writing, Waiting, SInv, OnlyWritersWrite
<1> QED
  BY <1>1, <1>2, QuietStep

LEMMA ReadLockRefines ==
  ASSUME SInv, NEW p \in Procs, ReadLock(p)
  PROVE  SInv' /\ AbsStep
<1>0. /\ pc \in [Procs -> Wanting \cup {"out", "reading", "writing"}]
      /\ low \in 0..2 * HALF - 1 /\ HALF \in Nat /\ pc[p] = "read_lock" /\ WInv'
  BY ReadLockEffect, ReadLockKeeps, HalfAssumption DEF SInv, WInv, TypeOK
<1>1. CASE low' = low /\ pc' = pc
  <2>1. Reading' = Reading /\ Writing' = Writing /\ Waiting' = Waiting /\ OnlyWritersWrite'
    BY <1>1 DEF Reading, Writing, Waiting, SInv, OnlyWritersWrite
  <2> QED
    BY <1>0, <1>1, <2>1, QuietStep
<1>2. CASE low + 1 < HALF /\ low' = low + 1 /\ pc' = [pc EXCEPT ![p] = "reading"]
  <2>1. Writing = {} /\ Waiting = {}
    BY <1>0, <1>2 DEF SInv, FlagWhileWriter, Flag
  <2>2. /\ Reading' = Reading \cup {p} /\ p \notin Reading
        /\ Writing' = Writing /\ Waiting' = Waiting
    BY <1>0, <1>2 DEF Reading, Writing, Waiting
  <2>3. OnlyWritersWrite'
    BY <1>0, <1>2 DEF SInv, OnlyWritersWrite, WriteSteps
  <2>4. Abs!EnterRead(p)
    BY <2>1, <2>2 DEF Abs!EnterRead
  <2> QED
    BY <1>0, <2>1, <2>2, <2>3, <2>4 DEF SInv, FlagWhileWriter, Excluded, AbsStep, Abs!AbsNext
<1> QED
  BY <1>1, <1>2, ReadLockEffect DEF SInv

LEMMA ReadUnlockRefines ==
  ASSUME SInv, NEW p \in Procs, ReadUnlock(p)
  PROVE  SInv' /\ AbsStep
<1>0. /\ pc \in [Procs -> Wanting \cup {"out", "reading", "writing"}]
      /\ pc[p] = "read_unlock" /\ pc' = [pc EXCEPT ![p] = "out"] /\ WInv'
  BY ReadUnlockEffect DEF SInv, WInv, TypeOK, ReadUnlock, Holding
<1>1. /\ Reading' = Reading \ {p} /\ p \in Reading
      /\ Writing' = Writing /\ Waiting' = Waiting
  BY <1>0 DEF Reading, Writing, Waiting
<1>2. OnlyWritersWrite'
  BY <1>0 DEF SInv, OnlyWritersWrite, WriteSteps
<1>3. Flag => Flag'
  BY ReadUnlockEffect DEF SInv
<1>4. Abs!LeaveRead(p)
  BY <1>1 DEF Abs!LeaveRead
<1> QED
  BY <1>0, <1>1, <1>2, <1>3, <1>4 DEF SInv, FlagWhileWriter, Excluded, AbsStep, Abs!AbsNext

(* A writer that goes in finds the lock empty.                             *)
LEMMA EnterRefines ==
  ASSUME SingleWriter, SInv, WInv', OnlyWritersWrite', Flag', NEW p \in Procs,
         pc[p] \in {"write_lock", "first_waits", "other_waits"}, Reading' = Reading,
         \/ Writing' = Writing \cup {p} /\ p \notin Writing /\ ReaderCount = 0
         \/ Writing' = Writing
  PROVE  SInv' /\ AbsStep
<1>1. Writing = {}
  BY OnlyOne DEF SInv, WriteSteps, Writing
<1>2. CASE Writing' = Writing
  BY <1>1, <1>2 DEF SInv, FlagWhileWriter, Excluded, AbsStep
<1>3. CASE Writing' = Writing \cup {p} /\ ReaderCount = 0
  <2>1. Reading = {}
    BY <1>3, NoReaders DEF SInv
  <2>2. Abs!EnterWrite(p)
    BY <1>1, <1>3, <2>1 DEF Abs!EnterWrite
  <2> QED
    BY <2>1, <2>2 DEF SInv, FlagWhileWriter, Excluded, AbsStep, Abs!AbsNext
<1> QED
  BY <1>2, <1>3

(* A thread that stays among the steps of a writer.                        *)
LEMMA WriterStays ==
  ASSUME SInv, NEW p \in Procs, NEW wait, WriteEnter(p, wait), pc[p] \in WriteSteps
  PROVE  OnlyWritersWrite'
BY DEF SInv, WInv, TypeOK, OnlyWritersWrite, WriteEnter

LEMMA WriteLockRefines ==
  ASSUME SingleWriter, SInv, NEW p \in Procs, WriteLock(p)
  PROVE  SInv' /\ AbsStep
<1>1. pc[p] = "write_lock" /\ WriteEnter(p, IF Flag THEN "other_waits" ELSE "first_waits")
  BY DEF WriteLock, Holding
<1>2. OnlyWritersWrite'
  BY <1>1, WriterStays DEF WriteSteps
<1> QED
  BY <1>1, <1>2, WriteLockEffect, EnterRefines DEF SInv

LEMMA WriteRetryRefines ==
  ASSUME SingleWriter, SInv, NEW p \in Procs, WriteRetry(p)
  PROVE  SInv' /\ AbsStep
<1>1. PICK wait \in {"first_waits", "other_waits"} : pc[p] = wait /\ WriteEnter(p, wait)
  BY DEF WriteRetry, Holding
<1>2. OnlyWritersWrite'
  BY <1>1, WriterStays DEF WriteSteps
<1>3. Flag /\ low' = low
  BY <1>1 DEF SInv, FlagWhileWriter, Waiting, WriteRetry
<1>4. Flag'
  BY <1>3 DEF Flag
<1> QED
  BY <1>1, <1>2, <1>4, WriteRetryEffect, EnterRefines DEF SInv

LEMMA WriteUnlockRefines ==
  ASSUME SingleWriter, SInv, NEW p \in Procs, WriteUnlock(p)
  PROVE  SInv' /\ AbsStep
<1>1. /\ WInv' /\ Reading' = Reading /\ Writing' = Writing \ {p} /\ p \in Writing
      /\ Waiting' = Waiting /\ pc' = [pc EXCEPT ![p] = "out"]
  BY WriteUnlockEffect DEF SInv
<1>2. pc[p] = "write_unlock" /\ pc \in [Procs -> Wanting \cup {"out", "reading", "writing"}]
  BY DEF WriteUnlock, Holding, SInv, WInv, TypeOK
<1>3. Writing = {p} /\ Waiting = {}
  BY <1>1, <1>2, OnlyOne DEF SInv, WriteSteps, Waiting
<1>4. OnlyWritersWrite'
  BY <1>1, <1>2 DEF SInv, OnlyWritersWrite, WriteSteps
<1>5. Abs!LeaveWrite(p)
  BY <1>1, <1>3 DEF Abs!LeaveWrite
<1> QED
  BY <1>1, <1>3, <1>4, <1>5 DEF SInv, FlagWhileWriter, Excluded, AbsStep, Abs!AbsNext

LEMMA NextRefines ==
  ASSUME SingleWriter
  PROVE  SInv /\ [Next]_vars => SInv' /\ AbsStep
<1> SUFFICES ASSUME SInv, [Next]_vars PROVE SInv' /\ AbsStep
  OBVIOUS
<1>1. CASE UNCHANGED vars
  <2>1. /\ Reading' = Reading /\ Writing' = Writing /\ Waiting' = Waiting
        /\ OnlyWritersWrite' /\ low' = low
    BY <1>1 DEF vars, Reading, Writing, Waiting, SInv, OnlyWritersWrite
  <2> QED
    BY <1>1, <2>1, NextWInv, QuietStep DEF SInv
<1>2. CASE Next
  <2>1. PICK p \in Procs : Call(p) \/ SpinLock(p) \/ Body(p)
    BY <1>2 DEF Next
  <2> QED
    BY <2>1, CallRefines, SpinLockRefines, ReadLockRefines, ReadUnlockRefines,
       WriteLockRefines, WriteRetryRefines, WriteUnlockRefines DEF Body
<1> QED
  BY <1>1, <1>2

(* With one writing thread, whatever the readers do, rwlock.c implements   *)
(* the abstract read/write lock.                                           *)
THEOREM Refinement ==
  ASSUME SingleWriter
  PROVE  Spec => ImplementsRWLock
<1>1. Init => SInv /\ Abs!AbsInit
  BY InitSInv
<1>2. SInv /\ [Next]_vars => SInv' /\ AbsStep
  BY NextRefines
<1>3. AbsStep => [Abs!AbsNext]_(Abs!absVars)
  BY DEF AbsStep, Abs!absVars
<1> QED
  BY <1>1, <1>2, <1>3, PTL DEF Spec, ImplementsRWLock, Abs!AbsSpec
=============================================================================
