------------------------------ MODULE MCRedisLock ------------------------------
(* Two goroutines of one process and one of another compete for a key.      *)
EXTENDS RedisLock, TLC

CONSTANTS a1, a2, b1, pA, pB, g1, g2, g3

MCCallers == {a1, a2, b1}
MCProcesses == {pA, pB}
MCHome == (a1 :> pA) @@ (a2 :> pA) @@ (b1 :> pB)
MCGates == {g1, g2, g3}
MCSymmetry == Permutations({a1, a2}) \cup Permutations(MCGates)
================================================================================
