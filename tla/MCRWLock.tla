------------------------------ MODULE MCRWLock -------------------------------
(* The read/write lock on small instances.                                 *)
EXTENDS RWLock
=============================================================================
