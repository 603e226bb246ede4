------------------------------- MODULE LeaseLock -------------------------------
(***************************************************************************)
(* What the distributed lock promises: at any time at most one caller      *)
(* holds a lease that has not run out, and it passes from one caller to    *)
(* another only through a moment in which nobody holds it.                 *)
(***************************************************************************)
CONSTANT Callers

VARIABLE holders   \* the callers with an unexpired lease

LockInit == holders = {}

Acquire(c) == holders = {} /\ holders' = {c}

\* Unlocked by the holder, or the lease ran out, or its process died.
GiveUp == holders' = {}

LockNext == (\E c \in Callers : Acquire(c)) \/ GiveUp

LockSpec == LockInit /\ [][LockNext]_holders
================================================================================
