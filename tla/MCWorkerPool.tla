----------------------------- MODULE MCWorkerPool -----------------------------
(* Instances of WorkerPool for TLC.                                        *)
EXTENDS WorkerPool

CONSTANTS u1, s1, s2

OwnerOf == [t \in Task |-> u1]

=============================================================================
