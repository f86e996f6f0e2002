------------------------------ MODULE RWLockAbs ------------------------------
(***************************************************************************)
(* What a read/write lock promises: any number of readers, or one writer.  *)
(***************************************************************************)
CONSTANT Procs

VARIABLES readers, writer   \* the sets of threads inside

absVars == <<readers, writer>>

AbsInit == readers = {} /\ writer = {}

EnterRead(p) ==
  /\ writer = {} /\ p \notin readers
  /\ readers' = readers \cup {p} /\ UNCHANGED writer

LeaveRead(p) ==
  /\ p \in readers
  /\ readers' = readers \ {p} /\ UNCHANGED writer

EnterWrite(p) ==
  /\ readers = {} /\ writer = {}
  /\ writer' = {p} /\ UNCHANGED readers

LeaveWrite(p) ==
  /\ writer = {p}
  /\ writer' = {} /\ UNCHANGED readers

AbsNext ==
  \E p \in Procs : EnterRead(p) \/ LeaveRead(p) \/ EnterWrite(p) \/ LeaveWrite(p)

AbsSpec == AbsInit /\ [][AbsNext]_absVars
=============================================================================
