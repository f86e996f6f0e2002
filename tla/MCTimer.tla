------------------------------- MODULE MCTimer -------------------------------
(* The timers on small instances.                                          *)
EXTENDS Timer

MCDelays == {<<0, 0>>, <<0, 2>>, <<1, 0>>}
=============================================================================
