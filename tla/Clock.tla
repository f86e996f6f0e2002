-------------------------------- MODULE Clock --------------------------------
(***************************************************************************)
(* The kernel clock of arch/ia32/time.c.  The real time clock chip raises  *)
(* a periodic event PER times a second and an update event once a second;  *)
(* both set a flag in its register C and interrupt.  Reading register C    *)
(* clears the flags, so periodic events the handler is late for are lost.  *)
(* rtc_irq_handler counts nanoseconds and seconds, and reads the chip      *)
(* again at every (TimeReload + 1)th update.  ktime_get, ktime_set and     *)
(* what the handler does after reading register C run with interrupts off: *)
(* each is one action.  The chip goes on between any two.                  *)
(***************************************************************************)
EXTENDS Integers

CONSTANTS NS,            \* nanoseconds per second
          PER,           \* periodic events per second (1024)
          TimeReload,    \* reload value of time_ticks (37)
          ThreadReload,  \* reload value of thread_ticks (11)
          MaxRtc,        \* bound on the seconds the chip counts
          SetSeconds,    \* second arguments of ktime_set
          SetNanos       \* nanosecond arguments of ktime_set

ASSUME PerAssumption == PER \in Nat /\ PER >= 1 /\ NS \in Nat /\ (NS \div PER) * PER < NS
ASSUME ReloadAssumption == TimeReload \in Nat \ {0} /\ ThreadReload \in Nat
ASSUME SetAssumption == MaxRtc \in Nat /\ SetSeconds \subseteq Nat /\ SetNanos \subseteq Nat

VARIABLES
  rtc,                 \* the time of day the chip holds, in seconds
  phase,               \* periodic events since the last update
  flags,               \* register C: "PF", "UF"
  stage,               \* how far ktime_init has got
  value,               \* register C as the handler that is running read it
  current_second, current_nanosecond, time_ticks, thread_ticks,
  rc,                  \* what the last rtc_irq_handler returned
  since                \* updates handled since the last ktime_set

vars == <<rtc, phase, flags, stage, value, current_second, current_nanosecond,
          time_ticks, thread_ticks, rc, since>>

STEP == NS \div PER

Init ==
  /\ rtc = 0
  /\ phase \in 0..PER
  /\ flags \in SUBSET {"PF", "UF"}
  /\ stage = "acknowledge" /\ value = {}
  /\ current_second = 0 /\ current_nanosecond = 0
  /\ time_ticks = 0 /\ thread_ticks = 0
  /\ rc = 0
  /\ since = 1

(* The chip: PER periodic events, then an update.                          *)
Periodic ==
  /\ phase < PER
  /\ phase' = phase + 1
  /\ flags' = flags \cup {"PF"}
  /\ UNCHANGED <<rtc, stage, value, current_second, current_nanosecond, time_ticks,
                 thread_ticks, rc, since>>

(* Once the handler is installed, it is through with an update before the  *)
(* next: a second is long enough.                                          *)
ChipUpdate ==
  /\ phase = PER /\ rtc < MaxRtc
  /\ stage = "on" => "UF" \notin flags \cup value
  /\ phase' = 0
  /\ rtc' = rtc + 1
  /\ flags' = flags \cup {"UF"}
  /\ UNCHANGED <<stage, value, current_second, current_nanosecond, time_ticks,
                 thread_ticks, rc, since>>

(* ktime_init: program the chip, read register C.                          *)
InitAcknowledge ==
  /\ stage = "acknowledge"
  /\ flags' = {}
  /\ stage' = "read"
  /\ UNCHANGED <<rtc, phase, value, current_second, current_nanosecond, time_ticks,
                 thread_ticks, rc, since>>

(* ktime_init: read_rtc, kirq_assign_irq.  An update may have come since.  *)
InitRead ==
  /\ stage = "read"
  /\ current_second' = rtc /\ current_nanosecond' = 0
  /\ stage' = "on"
  /\ UNCHANGED <<rtc, phase, flags, value, time_ticks, thread_ticks, rc, since>>

(* Faulty variants of a definition stand before it, for mutation testing.  *)
OnUpdate_NeverReads ==
  /\ current_nanosecond' = 0
  /\ since' = IF since <= TimeReload THEN since + 1 ELSE since
  /\ current_second' = current_second + 1
  /\ time_ticks' = IF time_ticks # 0 THEN time_ticks - 1 ELSE TimeReload

OnUpdate_KeepsNanosecond ==
  /\ since' = IF since <= TimeReload THEN since + 1 ELSE since
  /\ current_second' = IF time_ticks # 0 THEN current_second + 1 ELSE rtc
  /\ time_ticks' = IF time_ticks # 0 THEN time_ticks - 1 ELSE TimeReload
  /\ UNCHANGED current_nanosecond

(* The part of the handler for an update: count a second, or read the chip.*)
OnUpdate ==
  /\ current_nanosecond' = 0
  /\ since' = IF since <= TimeReload THEN since + 1 ELSE since
  /\ IF time_ticks # 0
     THEN current_second' = current_second + 1 /\ time_ticks' = time_ticks - 1
     ELSE current_second' = rtc /\ time_ticks' = TimeReload

OnPeriodic_Wraps ==
  /\ current_nanosecond' = (current_nanosecond + STEP) % (PER * STEP)
  /\ UNCHANGED <<current_second, time_ticks, since>>

(* The part for a periodic event alone.                                    *)
OnPeriodic ==
  /\ current_nanosecond' = current_nanosecond + STEP
  /\ UNCHANGED <<current_second, time_ticks, since>>

(* rtc_irq_handler reads, and so clears, register C.                       *)
HandlerAcknowledge ==
  /\ stage = "on" /\ value = {} /\ flags # {}
  /\ value' = flags /\ flags' = {}
  /\ UNCHANGED <<rtc, phase, stage, current_second, current_nanosecond,
                 time_ticks, thread_ticks, rc, since>>

(* The rest of rtc_irq_handler.  The chip may have raised events since.    *)
RtcIrqHandler ==
  /\ value # {}
  /\ value' = {}
  /\ IF "UF" \in value THEN OnUpdate ELSE OnPeriodic
  /\ IF thread_ticks = 0
     THEN thread_ticks' = ThreadReload /\ rc' = 1
     ELSE thread_ticks' = thread_ticks - 1 /\ rc' = 0
  /\ UNCHANGED <<rtc, phase, flags, stage>>

(* ktime_set.                                                              *)
KtimeSet(s, n) ==
  /\ stage = "on" /\ value = {}
  /\ current_second' = s /\ current_nanosecond' = n
  /\ since' = 0
  /\ UNCHANGED <<rtc, phase, flags, stage, value, time_ticks, thread_ticks, rc>>

(* The chip has reached the bound of the model and everything is handled.  *)
Finished ==
  /\ rtc = MaxRtc /\ phase = PER /\ flags = {} /\ value = {} /\ stage = "on"
  /\ UNCHANGED vars

Next ==
  \/ Periodic \/ ChipUpdate
  \/ InitAcknowledge \/ InitRead
  \/ HandlerAcknowledge \/ RtcIrqHandler
  \/ \E s \in SetSeconds, n \in SetNanos : KtimeSet(s, n)
  \/ Finished

Spec == Init /\ [][Next]_vars

-----------------------------------------------------------------------------
(* The updates that the handler has not counted yet.                       *)
Pending == IF "UF" \in flags \cup value THEN 1 ELSE 0

(* Whatever ktime_set was given, and even if an update falls into          *)
(* ktime_init between its acknowledge and its read of the chip, the kernel *)
(* agrees with the chip once TimeReload + 1 updates have been handled: it  *)
(* lags only by an update whose interrupt is pending or being handled.     *)
InSync == (stage = "on" /\ since > TimeReload) => current_second + Pending = rtc

(* The periodic additions of a second never add up to a whole one, so      *)
(* nanosecond stays below its range; a ktime_set can spoil only the second *)
(* it falls in.                                                            *)
NanosecondInRange == since > 0 => current_nanosecond < NS

(* The clock in step with the chip is never put back, except by ktime_set: *)
(* neither the reset of nanosecond nor the reading of the chip does it.    *)
NotPutBack ==
  [][(stage = "on" /\ since > TimeReload /\ since' # 0) =>
       \/ current_second' > current_second
       \/ current_second' = current_second /\ current_nanosecond' >= current_nanosecond]_vars
=============================================================================
