------------------------------ MODULE MCThreads ------------------------------
(* The thread manager on small instances.                                  *)
EXTENDS Threads
=============================================================================
