--------------------------------- MODULE Irq ---------------------------------
(***************************************************************************)
(* Interrupt lines: arch/ia32/irq.c.  Threads assign handlers to lines and *)
(* mask or unmask them under kirq_spinlock, taken with interrupts enabled; *)
(* handle_irq takes the same lock with interrupts off.  On one processor   *)
(* only an interrupt can take the processor from a thread inside the lock, *)
(* and it never gives it back, so one program counter, that of the thread  *)
(* executing, is enough.                                                   *)
(***************************************************************************)
EXTENDS Integers

CONSTANTS Lines   \* the interrupt lines modelled, of 0..15

ASSUME LinesAssumption == Lines \subseteq 0..15

VARIABLES
  handler,           \* lines with a handler in interrupt_handler
  cached_irq_mask,   \* lines masked according to the kernel
  pic,               \* lines masked in the two interrupt controllers
  request,           \* lines whose device asks for an interrupt
  kirq_spinlock,     \* "free", "thread", "handler", or "dead": held by a
                     \* thread that was killed
  pc, call,          \* the step and the arguments of the kernel call
  hung,              \* an interrupt handler spins with interrupts off
  enabled,           \* history: lines a thread last assigned or enabled
  bare,              \* history: a line was enabled without a handler
  spurious           \* history: lines of which a spurious interrupt came
                     \* since a thread last disabled them

irqVars == <<handler, cached_irq_mask, pic, request, kirq_spinlock, pc, call,
             hung, enabled, bare, spurious>>

Ops == {"kirq_assign_irq", "kirq_unassign_irq", "kirq_enable_irq", "kirq_disable_irq"}

NoCall == [op |-> "none", irq |-> 0]

(* The second controller interrupts through line 2 of the first, which has *)
(* no device.                                                              *)
Cascade == 2
DeviceLines == Lines \ {Cascade}

(* The lowest line of each controller, on which it reports an interrupt    *)
(* whose cause is gone when the processor asks for it, masked or not.      *)
SpuriousLines == Lines \cap {7, 15}

(* Bit 3 of the line selects the controller whose mask byte is written.    *)
SameController(i) == {j \in Lines : j \div 8 = i \div 8}

(* Faulty variants of a definition stand before it, for mutation testing.  *)
WritePic_OneController(masks, i, cached) ==
  (masks \ SameController(0)) \cup (cached \cap SameController(0))

WritePic(masks, i, cached) == (masks \ SameController(i)) \cup (cached \cap SameController(i))

(* After kirq_init: every line masked but the cascade.                     *)
IrqInit ==
  /\ handler = {} /\ cached_irq_mask = DeviceLines /\ pic = DeviceLines
  /\ request = {}
  /\ kirq_spinlock = "free" /\ pc = "run" /\ call = NoCall
  /\ hung = FALSE
  /\ enabled = Lines \cap {Cascade} /\ bare = FALSE /\ spurious = {}

(* A thread calls one of the functions and, when it is free, takes the     *)
(* lock.                                                                   *)
Lock(op, i) ==
  /\ ~hung /\ pc = "run" /\ kirq_spinlock = "free"
  /\ kirq_spinlock' = "thread"
  /\ pc' = "update"
  /\ call' = [op |-> op, irq |-> i]
  /\ UNCHANGED <<handler, cached_irq_mask, pic, request, hung, enabled, bare, spurious>>

(* kirq_enable_irq_internal and kirq_disable_irq_internal: the mask, then  *)
(* (in Write) the controller.                                              *)
EnableInternal(i) ==
  /\ cached_irq_mask' = cached_irq_mask \ {i} /\ pc' = "write"
  /\ enabled' = enabled \cup {i} /\ UNCHANGED spurious

DisableInternal(i) ==
  /\ cached_irq_mask' = cached_irq_mask \cup {i} /\ pc' = "write"
  /\ enabled' = enabled \ {i} /\ spurious' = spurious \ {i}

(* A line has at most one handler; numbers from 16 on are refused.         *)
Assign(i) ==
  IF i \in handler
  THEN pc' = "unlock" /\ UNCHANGED <<handler, cached_irq_mask, enabled, bare, spurious>>
  ELSE handler' = handler \cup {i} /\ EnableInternal(i) /\ UNCHANGED bare

Unassign_NoMask(i) ==
  /\ handler' = handler \ {i} /\ pc' = "unlock"
  /\ UNCHANGED <<cached_irq_mask, enabled, bare, spurious>>

(* The handler is cleared after the line is masked, in Write.              *)
Unassign(i) == DisableInternal(i) /\ UNCHANGED <<handler, bare>>

Update ==
  /\ ~hung /\ pc = "update"
  /\ \/ call.op = "kirq_assign_irq" /\ Assign(call.irq)
     \/ call.op = "kirq_unassign_irq" /\ Unassign(call.irq)
     \/ /\ call.op = "kirq_enable_irq" /\ EnableInternal(call.irq)
        /\ bare' = (bare \/ call.irq \in DeviceLines \ handler) /\ UNCHANGED handler
     \/ /\ call.op = "kirq_disable_irq" /\ DisableInternal(call.irq)
        /\ UNCHANGED <<handler, bare>>
  /\ UNCHANGED <<pic, request, kirq_spinlock, call, hung>>

(* The write to the controller, and what is left of kirq_unassign_irq.     *)
Write ==
  /\ ~hung /\ pc = "write"
  /\ pic' = WritePic(pic, call.irq, cached_irq_mask)
  /\ handler' = IF call.op = "kirq_unassign_irq" THEN handler \ {call.irq} ELSE handler
  /\ pc' = "unlock"
  /\ UNCHANGED <<cached_irq_mask, request, kirq_spinlock, call, hung, enabled, bare, spurious>>

Unlock ==
  /\ ~hung /\ pc = "unlock"
  /\ kirq_spinlock' = "free" /\ pc' = "run" /\ call' = NoCall
  /\ UNCHANGED <<handler, cached_irq_mask, pic, request, hung, enabled, bare, spurious>>

(* A device asks for an interrupt.                                         *)
Request(i) ==
  /\ ~hung /\ i \in DeviceLines \ request
  /\ request' = request \cup {i}
  /\ UNCHANGED <<handler, cached_irq_mask, pic, kirq_spinlock, pc, call, hung,
                 enabled, bare, spurious>>

(* The controller of the line can reach the processor.                     *)
Connected(i) == i >= 8 => Cascade \notin pic

(* The processor is interrupted by line i: a device asks.                  *)
Interrupts(i) == ~hung /\ i \in request /\ i \notin pic /\ Connected(i)

(* A spurious interrupt, whether or not the line is masked.                *)
InterruptsSpuriously(i) == ~hung /\ i \in SpuriousLines /\ Connected(i)

(* The controller has delivered the interrupt i, with or without a cause.  *)
Deliver(i) ==
  \/ Interrupts(i) /\ request' = request \ {i} /\ UNCHANGED spurious
  \/ InterruptsSpuriously(i) /\ spurious' = spurious \cup {i} /\ UNCHANGED request

MaskAfter_WholeController(i) == cached_irq_mask \ SameController(i)

(* The mask handle_irq leaves: it masks the line on entry and calls        *)
(* kirq_enable_irq at its end, whether or not the line should be enabled.  *)
MaskAfter(i) == cached_irq_mask \ {i}

(* handle_irq interrupts a thread outside the lock; the line has a handler.*)
HandleIrq(i) ==
  /\ Deliver(i)
  /\ kirq_spinlock = "free" /\ i \in handler
  /\ cached_irq_mask' = MaskAfter(i)
  /\ pic' = WritePic(pic, i, MaskAfter(i))
  /\ UNCHANGED <<handler, kirq_spinlock, pc, call, hung, enabled, bare>>

(* As HandleIrq, but the handler itself calls one of the functions, which  *)
(* spins on the lock that handle_irq holds, with interrupts off.           *)
HandlerCalls(i) ==
  /\ Deliver(i)
  /\ kirq_spinlock = "free" /\ i \in handler
  /\ cached_irq_mask' = cached_irq_mask \cup {i}
  /\ pic' = WritePic(pic, i, cached_irq_mask \cup {i})
  /\ kirq_spinlock' = "handler" /\ hung' = TRUE
  /\ UNCHANGED <<handler, pc, call, enabled, bare>>

(* The line has no handler: handle_exception kills the interrupted thread  *)
(* and switches to another with kirq_spinlock held and the line masked.    *)
HandleUnassigned(i) ==
  /\ Deliver(i)
  /\ kirq_spinlock = "free" /\ i \notin handler
  /\ cached_irq_mask' = cached_irq_mask \cup {i}
  /\ pic' = WritePic(pic, i, cached_irq_mask \cup {i})
  /\ kirq_spinlock' = "dead"
  /\ UNCHANGED <<handler, pc, call, hung, enabled, bare>>

(* handle_irq finds the lock taken and spins with interrupts off.          *)
HandleBlocked(i) ==
  /\ Interrupts(i) \/ InterruptsSpuriously(i)
  /\ kirq_spinlock # "free"
  /\ hung' = TRUE
  /\ UNCHANGED <<handler, cached_irq_mask, pic, request, kirq_spinlock, pc,
                 call, enabled, bare, spurious>>

(* A stuck processor stays stuck, and a thread that waits for a lost lock  *)
(* waits for ever.                                                         *)
Stuck == (hung \/ kirq_spinlock = "dead") /\ UNCHANGED irqVars

IrqNext ==
  \/ \E op \in Ops, i \in Lines : Lock(op, i)
  \/ Update \/ Write \/ Unlock
  \/ \E i \in Lines :
       Request(i) \/ HandleIrq(i) \/ HandlerCalls(i) \/ HandleUnassigned(i)
         \/ HandleBlocked(i)
  \/ Stuck

IrqSpec == IrqInit /\ [][IrqNext]_irqVars

-----------------------------------------------------------------------------
(* Only the mask byte of one controller is written at a time; still the    *)
(* controllers hold the kernel's mask whenever no call is between its      *)
(* update and its write.                                                   *)
MaskWritten == pc # "write" => pic = cached_irq_mask

(* A line that a thread disabled or unassigned stays masked until a thread *)
(* enables or assigns it.  The exception: the kirq_enable_irq at the end   *)
(* of handle_irq opens a disabled line again after a spurious interrupt.   *)
DisabledStaysMasked ==
  pc # "write" => \A i \in Lines : i \notin pic => i \in enabled \cup spurious

(* An assigned line can only raise interrupts that find a handler, so      *)
(* handle_irq leaves kirq_spinlock held by a dead thread only if a line    *)
(* was enabled that had no handler, or an interrupt without a handler was  *)
(* spurious; else it is held by the thread that is in one of the calls, by *)
(* a handler that called one, and by none when they have returned.         *)
LockLostOnlyIfBare ==
  /\ kirq_spinlock = "dead" => bare \/ spurious \ handler # {}
  /\ pc # "run" <=> kirq_spinlock = "thread"
  /\ kirq_spinlock = "handler" => hung
=============================================================================
