------------------------------ MODULE MCDevices ------------------------------
(***************************************************************************)
(* The parts of the kernel around its two devices on small instances: the  *)
(* lines of the interrupt controllers, the clock that the real time clock  *)
(* chip drives, and the calendar in which the chip counts.  They share no  *)
(* variable, so it is enough that each moves while the others stand at     *)
(* their beginning.                                                        *)
(***************************************************************************)
EXTENDS Irq, Clock, Calendar

MCTimes == {<<0, 0, 0>>, <<9, 10, 59>>, <<23, 59, 59>>}

ClockAtRest == Init /\ phase = 0 /\ flags = {}

DevicesInit == IrqInit /\ Init /\ DateInit

DevicesNext ==
  \/ IrqNext /\ ClockAtRest /\ DateInit /\ UNCHANGED <<vars, dateVars>>
  \/ Next /\ IrqInit /\ DateInit /\ UNCHANGED <<irqVars, dateVars>>
  \/ DateNext /\ IrqInit /\ ClockAtRest /\ UNCHANGED <<irqVars, vars>>

DevicesSpec == DevicesInit /\ [][DevicesNext]_<<irqVars, vars, dateVars>>
=============================================================================
