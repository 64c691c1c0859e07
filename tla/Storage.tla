------------------------------ MODULE Storage ------------------------------
(***************************************************************************)
(* The storage backend as the security components use it: a write is done  *)
(* when the call returns, or it raises and nothing was written.  Writes    *)
(* that fail are counted, to bound them.                                   *)
(***************************************************************************)
EXTENDS Integers

CONSTANT MaxFaults      \* bound: writes that fail

ASSUME MaxFaultsAssumption == MaxFaults \in Nat

VARIABLE faults         \* bound: writes that failed

\* A write, done or failed; at most one of an operation's writes fails,
\* because the exception ends the operation.
Storing(ok) ==
    /\ ok \in BOOLEAN
    /\ ok \/ faults < MaxFaults
    /\ faults' = IF ok THEN faults ELSE faults + 1
=============================================================================
