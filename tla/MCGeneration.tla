---------------------------- MODULE MCGeneration ----------------------------
(* Instances of Generation for TLC.                                        *)
EXTENDS Generation, TLC

CONSTANTS t1, t2, k1, k2, m1, m2, p1, p2

(* Jobs, idle monitors and idle pollers are interchangeable.               *)
IdleSymmetry ==
    Permutations(Job) \cup Permutations(Monitor) \cup Permutations(Poller)

=============================================================================
