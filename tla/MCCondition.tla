----------------------------- MODULE MCCondition -----------------------------
(* A mutex and a condition variable on small instances.                    *)
EXTENDS Condition
=============================================================================
