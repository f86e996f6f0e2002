------------------------------- MODULE MCMemory ------------------------------
(* The memory manager on small machines.                                   *)
EXTENDS Memory

(* The segments of the module init() loads.                                *)
TwoPages == {<<31, 2>>}

(* The screen, pages around the end of the linear tables, and behind them. *)
ScreenAndMore == {<<1, 1>>, <<28, 3>>}
=============================================================================
