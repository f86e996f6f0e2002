---------------------------- MODULE ClockProofs ------------------------------
(***************************************************************************)
(* Theorems about the kernel clock, for any number of periodic events a    *)
(* second, any reload values and any arguments of ktime_set.               *)
(***************************************************************************)
EXTENDS Clock, TLAPS

TypeOK ==
  /\ rtc \in Nat /\ phase \in 0..PER
  /\ flags \in SUBSET {"PF", "UF"}
  /\ value \in SUBSET {"PF", "UF"} /\ ~("UF" \in flags /\ "UF" \in value)
  /\ stage \in {"acknowledge", "read", "on"}
  /\ current_second \in Nat /\ current_nanosecond \in Nat
  /\ time_ticks \in 0..TimeReload /\ thread_ticks \in 0..ThreadReload
  /\ rc \in {0, 1}
  /\ since \in 0..TimeReload + 1

(* Until ktime_init has read the chip nothing has been counted or set.     *)
Starting ==
  stage # "on" => value = {} /\ current_nanosecond = 0 /\ time_ticks = 0 /\ since = 1

(* While the clock is not in step with the chip, the updates handled since *)
(* ktime_set and those to come before the chip is read again are no more   *)
(* than the reload value.                                                  *)
ReadComes ==
  stage = "on" => current_second + Pending = rtc \/ since + time_ticks <= TimeReload

(* What a periodic event among the events e is going to add.               *)
Owed(e) == IF "PF" \in e /\ "UF" \notin e THEN STEP ELSE 0

(* nanosecond counts no more than the periodic events of this second, less *)
(* those that are pending or being handled; an update that is pending or   *)
(* being handled will reset it.                                            *)
Counted ==
  (stage # "acknowledge" /\ since > 0) =>
    /\ current_nanosecond + Owed(value) <= PER * STEP
    /\ "UF" \notin flags \cup value =>
         current_nanosecond + Owed(value) + Owed(flags) <= phase * STEP

(* A periodic event since the handler read that of an update is one of the *)
(* second that has begun.                                                  *)
NewSecond == "UF" \in value => Owed(flags) <= phase * STEP

IInv == TypeOK /\ Starting /\ ReadComes /\ Counted /\ NewSecond

(* The nanoseconds that n periodic events add up to.                       *)
LEMMA StepArithmetic ==
  /\ STEP \in Nat /\ PER * STEP \in Nat /\ PER * STEP < NS
  /\ \A n \in 0..PER : n * STEP \in Nat /\ n * STEP <= PER * STEP
  /\ \A n \in Nat : (n + 1) * STEP = n * STEP + STEP
<1>1. STEP \in Nat
  BY PerAssumption DEF STEP
<1>2. PER * STEP < NS
  BY PerAssumption, <1>1 DEF STEP
<1>3. ASSUME NEW n \in 0..PER PROVE n * STEP \in Nat /\ n * STEP <= PER * STEP
  BY <1>1, PerAssumption
<1>4. \A n \in Nat : (n + 1) * STEP = n * STEP + STEP
  BY <1>1
<1> QED
  BY <1>1, <1>2, <1>3, <1>4, PerAssumption

LEMMA OwedArithmetic ==
  /\ \A e \in SUBSET {"PF", "UF"} : Owed(e) \in Nat /\ Owed(e) <= STEP
  /\ Owed({}) = 0 /\ \A e \in SUBSET {"PF", "UF"} : "UF" \in e => Owed(e) = 0
BY StepArithmetic DEF Owed

LEMMA InitIInv == Init => IInv
<1> SUFFICES ASSUME Init PROVE IInv
  OBVIOUS
<1>1. TypeOK /\ Starting /\ ReadComes /\ Counted
  BY PerAssumption, ReloadAssumption DEF Init, TypeOK, Starting, ReadComes, Counted
<1>2. NewSecond
  BY DEF Init, NewSecond
<1> QED
  BY <1>1, <1>2 DEF IInv

LEMMA PeriodicStep ==
  ASSUME IInv, Periodic
  PROVE  IInv'
<1>1. TypeOK' /\ Starting' /\ ReadComes'
  BY PerAssumption DEF IInv, Periodic, TypeOK, Starting, ReadComes, Pending
<1>2. /\ phase' * STEP = phase * STEP + STEP /\ phase * STEP \in Nat /\ STEP \in Nat
      /\ PER * STEP \in Nat /\ current_nanosecond \in Nat
      /\ Owed(value) \in Nat /\ Owed(flags) \in Nat /\ Owed(flags') \in Nat
      /\ Owed(flags') <= STEP
      /\ ("UF" \in flags' <=> "UF" \in flags)
      /\ UNCHANGED <<stage, value, since, current_nanosecond>>
  BY StepArithmetic, OwedArithmetic DEF Periodic, IInv, TypeOK
<1>3. STEP' = STEP /\ Owed(flags)' = Owed(flags') /\ Owed(value)' = Owed(value)
  BY <1>2 DEF STEP, Owed
<1>4. Counted'
  BY <1>2, <1>3 DEF IInv, Counted
<1>5. NewSecond'
  BY <1>2, <1>3 DEF IInv, NewSecond
<1> QED
  BY <1>1, <1>4, <1>5 DEF IInv

LEMMA UpdateStep ==
  ASSUME IInv, ChipUpdate
  PROVE  IInv'
<1>1. "UF" \notin value /\ "UF" \in flags' /\ UNCHANGED <<stage, value, since, current_nanosecond>>
  BY DEF ChipUpdate, IInv, Starting
<1>2. TypeOK' /\ Starting'
  BY <1>1, PerAssumption DEF IInv, ChipUpdate, TypeOK, Starting
<1>3. ReadComes'
  BY <1>1 DEF IInv, ChipUpdate, TypeOK, ReadComes, Pending
<1>4. Counted' /\ NewSecond'
  BY <1>1 DEF IInv, Counted, NewSecond, Owed, STEP
<1> QED
  BY <1>2, <1>3, <1>4 DEF IInv

LEMMA InitSteps ==
  ASSUME IInv, InitAcknowledge \/ InitRead
  PROVE  IInv'
<1>1. phase * STEP \in Nat /\ PER * STEP \in Nat /\ STEP \in Nat /\ value = {} /\ value' = {}
  BY StepArithmetic DEF IInv, TypeOK, Starting, InitAcknowledge, InitRead
<1>2. CASE InitAcknowledge
  BY <1>1, <1>2
  DEF IInv, InitAcknowledge, TypeOK, Starting, ReadComes, Counted, NewSecond, Owed, STEP
<1>3. CASE InitRead
  <2>1. TypeOK' /\ Starting' /\ ReadComes' /\ NewSecond'
    BY <1>1, <1>3, ReloadAssumption
    DEF IInv, InitRead, TypeOK, Starting, ReadComes, NewSecond, Pending
  <2>2. Counted'
    BY <1>1, <1>3 DEF IInv, InitRead, Starting, Counted, Owed, STEP
  <2> QED
    BY <2>1, <2>2 DEF IInv
<1> QED
  BY <1>2, <1>3

(* The flags pass from the chip to the handler.                            *)
LEMMA AcknowledgeStep ==
  ASSUME IInv, HandlerAcknowledge
  PROVE  IInv'
<1>1. /\ value = {} /\ value' = flags /\ flags' = {} /\ stage = "on"
      /\ UNCHANGED <<rtc, phase, stage, current_second, current_nanosecond, time_ticks, since>>
  BY DEF HandlerAcknowledge
<1>2. TypeOK' /\ Starting' /\ ReadComes'
  BY <1>1 DEF IInv, HandlerAcknowledge, TypeOK, Starting, ReadComes, Pending
<1>3. /\ phase * STEP \in Nat /\ PER * STEP \in Nat /\ phase * STEP <= PER * STEP
      /\ Owed(flags) \in Nat /\ Owed({}) = 0 /\ ("UF" \in flags => Owed(flags) = 0)
      /\ current_nanosecond \in Nat
  BY StepArithmetic, OwedArithmetic DEF IInv, TypeOK
<1>4. STEP' = STEP /\ Owed(flags)' = Owed({}) /\ Owed(value)' = Owed(flags)
  BY <1>1 DEF STEP, Owed
<1>5. Counted'
  BY <1>1, <1>3, <1>4 DEF IInv, Counted
<1>6. NewSecond'
  BY <1>1, <1>3, <1>4 DEF NewSecond
<1> QED
  BY <1>2, <1>5, <1>6 DEF IInv

(* The handler counts a second, reads the chip or adds to nanosecond.      *)
LEMMA HandlerStep ==
  ASSUME IInv, RtcIrqHandler
  PROVE  IInv'
<1>1. /\ phase * STEP \in Nat /\ PER * STEP \in Nat /\ STEP \in Nat
      /\ Owed(flags) \in Nat /\ Owed({}) = 0
  BY StepArithmetic, OwedArithmetic DEF IInv, TypeOK
<1>2. thread_ticks' \in 0..ThreadReload /\ rc' \in {0, 1}
  BY ReloadAssumption DEF IInv, RtcIrqHandler, TypeOK
<1>3. stage = "on" /\ value # {} /\ value' = {} /\ UNCHANGED <<rtc, phase, flags, stage>>
  BY DEF RtcIrqHandler, IInv, Starting
<1>4. STEP' = STEP /\ Owed(flags)' = Owed(flags) /\ Owed(value)' = Owed({})
  BY <1>3 DEF STEP, Owed
<1>5. NewSecond'
  BY <1>3 DEF NewSecond
<1>6. CASE "UF" \in value
  <2>1. OnUpdate /\ "UF" \notin flags
    BY <1>6 DEF RtcIrqHandler, IInv, TypeOK
  <2>2. TypeOK'
    BY <1>2, <1>3, <2>1, ReloadAssumption DEF IInv, TypeOK, OnUpdate
  <2>3. Starting'
    BY <1>3 DEF Starting
  <2>4. Counted'
    BY <1>1, <1>3, <1>4, <1>6, <2>1 DEF IInv, NewSecond, Counted, OnUpdate
  <2>5. ReadComes'
    BY <1>3, <1>6, <2>1, ReloadAssumption DEF IInv, TypeOK, ReadComes, OnUpdate, Pending
  <2> QED
    BY <1>5, <2>2, <2>3, <2>4, <2>5 DEF IInv
<1>7. CASE "UF" \notin value
  <2>1. OnPeriodic /\ Owed(value) = STEP
    BY <1>3, <1>7 DEF RtcIrqHandler, IInv, TypeOK, Owed
  <2>2. TypeOK' /\ Starting' /\ ReadComes'
    BY <1>1, <1>2, <1>3, <1>7, <2>1 DEF IInv, TypeOK, Starting, ReadComes, OnPeriodic, Pending
  <2>3. Counted'
    BY <1>1, <1>3, <1>4, <1>7, <2>1 DEF IInv, TypeOK, Counted, OnPeriodic
  <2> QED
    BY <1>5, <2>2, <2>3 DEF IInv
<1> QED
  BY <1>6, <1>7

LEMMA SetStep ==
  ASSUME IInv, NEW s \in SetSeconds, NEW n \in SetNanos, KtimeSet(s, n)
  PROVE  IInv'
BY SetAssumption, ReloadAssumption
DEF IInv, KtimeSet, TypeOK, Starting, ReadComes, Counted, NewSecond, Owed, STEP

LEMMA NextIInv == IInv /\ [Next]_vars => IInv'
<1> SUFFICES ASSUME IInv, [Next]_vars PROVE IInv'
  OBVIOUS
<1>1. CASE UNCHANGED vars
  BY <1>1 DEF vars, IInv, TypeOK, Starting, ReadComes, Counted, NewSecond, Owed, Pending, STEP
<1> QED
  BY <1>1, PeriodicStep, UpdateStep, InitSteps, AcknowledgeStep, HandlerStep, SetStep DEF Next, Finished

(* The inductive invariant of the clock.                                   *)
THEOREM Invariance == Spec => []IInv
BY InitIInv, NextIInv, PTL DEF Spec

(* TimeReload + 1 updates after any ktime_set the kernel agrees with the   *)
(* chip, but for an update that rtc_irq_handler has not counted yet.       *)
THEOREM Synchronised == Spec => []InSync
<1>1. IInv => InSync
  BY ReloadAssumption DEF IInv, TypeOK, ReadComes, InSync
<1> QED
  BY <1>1, Invariance, PTL

(* The additions of rtc_irq_handler never make a whole second.             *)
THEOREM NanosecondBelow == Spec => []NanosecondInRange
<1>1. IInv => NanosecondInRange
  <2> SUFFICES ASSUME IInv, since > 0 PROVE current_nanosecond < NS
    BY DEF NanosecondInRange
  <2>1. /\ PER * STEP < NS /\ PER * STEP \in Nat /\ Owed(value) \in Nat
        /\ current_nanosecond \in Nat
    BY StepArithmetic, OwedArithmetic DEF IInv, TypeOK
  <2>2. CASE stage = "acknowledge"
    BY <2>2, PerAssumption, StepArithmetic DEF IInv, Starting
  <2>3. CASE stage # "acknowledge"
    BY <2>1, <2>3, PerAssumption DEF IInv, Counted
  <2> QED
    BY <2>2, <2>3
<1> QED
  BY <1>1, Invariance, PTL

(* Neither the reset of nanosecond nor the reading of the chip puts back a *)
(* clock that is in step with the chip.                                    *)
THEOREM NeverPutBack == Spec => NotPutBack
<1> DEFINE Forward ==
      (stage = "on" /\ since > TimeReload /\ since' # 0) =>
        \/ current_second' > current_second
        \/ current_second' = current_second /\ current_nanosecond' >= current_nanosecond
<1>1. ASSUME IInv, [Next]_vars PROVE Forward
  <2>1. TypeOK /\ current_second \in Nat /\ current_nanosecond \in Nat /\ STEP \in Nat
    BY <1>1, StepArithmetic DEF IInv, TypeOK
  <2>2. CASE UNCHANGED <<current_second, current_nanosecond>>
    BY <2>1, <2>2
  <2>3. CASE InitRead
    BY <2>3 DEF InitRead
  <2>4. CASE RtcIrqHandler /\ "UF" \in value
    BY <1>1, <2>1, <2>4, ReloadAssumption
    DEF RtcIrqHandler, OnUpdate, IInv, TypeOK, ReadComes, Pending
  <2>5. CASE RtcIrqHandler /\ "UF" \notin value
    BY <2>1, <2>5 DEF RtcIrqHandler, OnPeriodic
  <2>6. ASSUME NEW s \in SetSeconds, NEW n \in SetNanos, KtimeSet(s, n) PROVE Forward
    BY <2>6 DEF KtimeSet
  <2> QED
    BY <1>1, <2>2, <2>3, <2>4, <2>5, <2>6
    DEF Next, vars, Periodic, ChipUpdate, InitAcknowledge, HandlerAcknowledge, Finished
<1> QED
  BY <1>1, Invariance, PTL DEF Spec, NotPutBack
=============================================================================
