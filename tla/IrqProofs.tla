----------------------------- MODULE IrqProofs -------------------------------
(***************************************************************************)
(* Theorems about the interrupt lines, for any set of lines.               *)
(***************************************************************************)
EXTENDS Irq, TLAPS

TypeOK ==
  /\ handler \subseteq Lines /\ cached_irq_mask \subseteq Lines
  /\ pic \subseteq Lines /\ request \subseteq DeviceLines
  /\ enabled \subseteq Lines /\ spurious \subseteq SpuriousLines
  /\ kirq_spinlock \in {"free", "thread", "handler", "dead"}
  /\ pc \in {"run", "update", "write", "unlock"}
  /\ call \in [op : Ops, irq : Lines] \cup {NoCall}
  /\ pc # "run" => call \in [op : Ops, irq : Lines]

(* A call between its update and its write has changed its own line only,  *)
(* and one that unassigns the line has masked it.                          *)
WriteDue ==
  pc = "write" =>
    /\ \A j \in Lines \ {call.irq} : j \in pic <=> j \in cached_irq_mask
    /\ call.op = "kirq_unassign_irq" => call.irq \in cached_irq_mask

(* The kernel's mask leaves open only lines that a thread wants open or a  *)
(* spurious interrupt opened, and, as long as no line was enabled without  *)
(* one, lines with a handler; but for the cascade.                         *)
OpenLines ==
  \A i \in Lines \ cached_irq_mask :
    /\ i \in enabled \cup spurious
    /\ bare \/ i \in handler \/ i = Cascade

IInv == TypeOK /\ MaskWritten /\ WriteDue /\ OpenLines /\ LockLostOnlyIfBare

(* The write of one controller's byte brings both masks to agree, if they  *)
(* differed at one of its lines at most.                                   *)
LEMMA WriteAgrees ==
  ASSUME NEW masks \in SUBSET Lines, NEW cached \in SUBSET Lines, NEW i \in Lines,
         \A j \in Lines \ {i} : j \in masks <=> j \in cached
  PROVE  WritePic(masks, i, cached) = cached
BY DEF WritePic, SameController

LEMMA InitIInv == IrqInit => IInv
BY DEF IrqInit, DeviceLines, Cascade, IInv, TypeOK, MaskWritten, WriteDue, OpenLines, LockLostOnlyIfBare, NoCall

LEMMA LockStep ==
  ASSUME IInv, NEW op \in Ops, NEW i \in Lines, Lock(op, i)
  PROVE  IInv'
BY DEF IInv, Lock, TypeOK, MaskWritten, WriteDue, OpenLines, LockLostOnlyIfBare

(* One step per function: Update changes the mask and the wish together.   *)
LEMMA UpdateStep ==
  ASSUME IInv, Update
  PROVE  IInv'
<1> DEFINE i == call.irq
<1>1. /\ pc = "update" /\ call \in [op : Ops, irq : Lines] /\ i \in Lines
      /\ pic = cached_irq_mask /\ kirq_spinlock = "thread"
  BY DEF IInv, Update, TypeOK, MaskWritten, LockLostOnlyIfBare
<1>2. UNCHANGED <<pic, request, kirq_spinlock, call, hung>>
  BY DEF Update
<1>3. CASE call.op = "kirq_assign_irq" /\ i \in handler /\ Assign(i)
  BY <1>1, <1>2, <1>3
  DEF IInv, Assign, TypeOK, MaskWritten, WriteDue, OpenLines, LockLostOnlyIfBare
<1>4. CASE call.op = "kirq_assign_irq" /\ i \notin handler /\ Assign(i)
  BY <1>1, <1>2, <1>4
  DEF IInv, Assign, EnableInternal, TypeOK, MaskWritten, WriteDue, OpenLines, LockLostOnlyIfBare
<1>5. CASE call.op = "kirq_unassign_irq" /\ Unassign(i)
  BY <1>1, <1>2, <1>5
  DEF IInv, Unassign, DisableInternal, TypeOK, MaskWritten, WriteDue, OpenLines, LockLostOnlyIfBare
<1>6. CASE /\ call.op = "kirq_enable_irq" /\ EnableInternal(i)
           /\ bare' = (bare \/ i \in DeviceLines \ handler) /\ UNCHANGED handler
  BY <1>1, <1>2, <1>6
  DEF DeviceLines, IInv, EnableInternal, TypeOK, MaskWritten, WriteDue, OpenLines, LockLostOnlyIfBare
<1>7. CASE call.op = "kirq_disable_irq" /\ DisableInternal(i) /\ UNCHANGED <<handler, bare>>
  BY <1>1, <1>2, <1>7
  DEF IInv, DisableInternal, TypeOK, MaskWritten, WriteDue, OpenLines, LockLostOnlyIfBare
<1> QED
  BY <1>3, <1>4, <1>5, <1>6, <1>7 DEF Update

LEMMA WriteStep ==
  ASSUME IInv, Write
  PROVE  IInv'
<1>1. call.irq \in Lines /\ pic' = cached_irq_mask
  BY WriteAgrees DEF IInv, Write, TypeOK, WriteDue
<1> QED
  BY <1>1 DEF IInv, Write, TypeOK, MaskWritten, WriteDue, OpenLines, LockLostOnlyIfBare

LEMMA UnlockStep ==
  ASSUME IInv, Unlock
  PROVE  IInv'
BY DEF IInv, Unlock, TypeOK, MaskWritten, WriteDue, OpenLines, LockLostOnlyIfBare

(* An interrupt found the lock free, so both masks agree: the line that    *)
(* interrupts is open in both, or the interrupt is spurious.               *)
LEMMA Interrupting ==
  ASSUME IInv, NEW i \in Lines, Deliver(i), kirq_spinlock = "free"
  PROVE  /\ pc = "run" /\ pic = cached_irq_mask
         /\ request' \subseteq DeviceLines
         /\ spurious' \subseteq SpuriousLines /\ spurious \subseteq spurious'
         /\ i \in spurious' \/ (i \in DeviceLines /\ i \notin cached_irq_mask)
<1>1. pc = "run" /\ pic = cached_irq_mask
  BY DEF IInv, LockLostOnlyIfBare, MaskWritten
<1> QED
  BY <1>1 DEF Deliver, Interrupts, InterruptsSpuriously, IInv, TypeOK

(* Masking a line, or opening it and nothing else, is written in full.     *)
LEMMA OneLineWritten ==
  ASSUME IInv, NEW i \in Lines, pic = cached_irq_mask
  PROVE  /\ WritePic(pic, i, MaskAfter(i)) = MaskAfter(i)
         /\ WritePic(pic, i, cached_irq_mask \cup {i}) = cached_irq_mask \cup {i}
         /\ MaskAfter(i) \subseteq Lines /\ cached_irq_mask \cup {i} \subseteq Lines
BY WriteAgrees DEF IInv, TypeOK, MaskAfter

LEMMA HandleIrqStep ==
  ASSUME IInv, NEW i \in Lines, HandleIrq(i)
  PROVE  IInv'
<1>1. /\ pc = "run" /\ pic = cached_irq_mask
      /\ request' \subseteq DeviceLines
      /\ spurious' \subseteq SpuriousLines /\ spurious \subseteq spurious'
      /\ i \in spurious' \/ i \notin cached_irq_mask
  BY Interrupting DEF HandleIrq
<1>2. pic' = cached_irq_mask' /\ cached_irq_mask' = cached_irq_mask \ {i}
  BY <1>1, OneLineWritten DEF HandleIrq, MaskAfter
<1>3. /\ i \in handler /\ kirq_spinlock = "free"
      /\ UNCHANGED <<handler, kirq_spinlock, pc, call, hung, enabled, bare>>
  BY DEF HandleIrq
<1>4. TypeOK' /\ MaskWritten' /\ WriteDue'
  BY <1>1, <1>2, <1>3 DEF IInv, TypeOK, MaskWritten, WriteDue
<1>5. OpenLines' /\ LockLostOnlyIfBare'
  BY <1>1, <1>2, <1>3 DEF IInv, OpenLines, LockLostOnlyIfBare
<1> QED
  BY <1>4, <1>5 DEF IInv

(* handle_irq goes no further and leaves the line masked.                  *)
LEMMA MaskedStep ==
  ASSUME IInv, NEW i \in Lines, HandlerCalls(i) \/ HandleUnassigned(i)
  PROVE  IInv'
<1>1. Deliver(i) /\ kirq_spinlock = "free" /\ UNCHANGED <<handler, pc, call, enabled, bare>>
  BY DEF HandlerCalls, HandleUnassigned
<1>2. /\ pc = "run" /\ pic = cached_irq_mask
      /\ request' \subseteq DeviceLines
      /\ spurious' \subseteq SpuriousLines /\ spurious \subseteq spurious'
      /\ i \in spurious' \/ (i \in DeviceLines /\ i \notin cached_irq_mask)
  BY <1>1, Interrupting
<1>3. pic' = cached_irq_mask' /\ cached_irq_mask' = cached_irq_mask \cup {i}
  BY <1>2, OneLineWritten DEF HandlerCalls, HandleUnassigned
<1>4. \/ kirq_spinlock' = "handler" /\ hung'
      \/ kirq_spinlock' = "dead" /\ i \notin handler
  BY DEF HandlerCalls, HandleUnassigned
<1>5. TypeOK' /\ MaskWritten' /\ WriteDue'
  BY <1>1, <1>2, <1>3, <1>4 DEF IInv, TypeOK, MaskWritten, WriteDue
<1>6. OpenLines'
  BY <1>1, <1>2, <1>3 DEF IInv, OpenLines
<1>7. LockLostOnlyIfBare'
  BY <1>1, <1>2, <1>4 DEF IInv, OpenLines, LockLostOnlyIfBare, DeviceLines
<1> QED
  BY <1>5, <1>6, <1>7 DEF IInv

LEMMA QuietStep ==
  ASSUME IInv, request' \subseteq DeviceLines, hung => hung',
         UNCHANGED <<handler, cached_irq_mask, pic, kirq_spinlock, pc, call, enabled, bare, spurious>>
  PROVE  IInv'
BY DEF IInv, TypeOK, MaskWritten, WriteDue, OpenLines, LockLostOnlyIfBare

LEMMA NextIInv == IInv /\ [IrqNext]_irqVars => IInv'
<1> SUFFICES ASSUME IInv, [IrqNext]_irqVars PROVE IInv'
  OBVIOUS
<1>1. CASE \E op \in Ops, i \in Lines : Lock(op, i)
  BY <1>1, LockStep
<1>2. CASE Update
  BY <1>2, UpdateStep
<1>3. CASE Write
  BY <1>3, WriteStep
<1>4. CASE Unlock
  BY <1>4, UnlockStep
<1>5. ASSUME NEW i \in Lines, Request(i) PROVE IInv'
  BY <1>5, QuietStep DEF Request, IInv, TypeOK
<1>6. ASSUME NEW i \in Lines, HandleIrq(i) PROVE IInv'
  BY <1>6, HandleIrqStep
<1>7. ASSUME NEW i \in Lines, HandlerCalls(i) \/ HandleUnassigned(i) PROVE IInv'
  BY <1>7, MaskedStep
<1>8. ASSUME NEW i \in Lines, HandleBlocked(i) PROVE IInv'
  BY <1>8, QuietStep DEF HandleBlocked, IInv, TypeOK
<1>9. CASE UNCHANGED irqVars
  BY <1>9, QuietStep DEF irqVars, IInv, TypeOK
<1> QED
  BY <1>1, <1>2, <1>3, <1>4, <1>5, <1>6, <1>7, <1>8, <1>9 DEF IrqNext, Stuck

(* The inductive invariant of irq.c.                                       *)
THEOREM Invariance == IrqSpec => []IInv
BY InitIInv, NextIInv, PTL DEF IrqSpec

(* Whenever no call is between its update and its write, both interrupt    *)
(* controllers hold the kernel's mask.                                     *)
THEOREM MasksAgree == IrqSpec => []MaskWritten
<1>1. IInv => MaskWritten
  BY DEF IInv
<1> QED
  BY <1>1, Invariance, PTL

(* A line that a thread disabled or unassigned stays masked, but for one   *)
(* that handle_irq opens again after a spurious interrupt.                 *)
THEOREM DisabledMasked == IrqSpec => []DisabledStaysMasked
<1>1. IInv => DisabledStaysMasked
  BY DEF IInv, MaskWritten, OpenLines, DisabledStaysMasked
<1> QED
  BY <1>1, Invariance, PTL

(* handle_irq loses kirq_spinlock with a killed thread only if a line was  *)
(* enabled that had no handler or the interrupt was spurious; a handler    *)
(* keeps it only by calling for it again, and then spins for ever.         *)
THEOREM LockKept == IrqSpec => []LockLostOnlyIfBare
<1>1. IInv => LockLostOnlyIfBare
  BY DEF IInv
<1> QED
  BY <1>1, Invariance, PTL
=============================================================================
