------------------------------ MODULE MCBilling ------------------------------
(* Instances of Billing for TLC.                                           *)
EXTENDS Billing, TLC

CONSTANTS u1, u2, r1, r2, r3, p1, p2

OwnerOf == [r \in Request |-> u1]
PayerOf == [p \in Payment |-> IF p = p1 THEN u1 ELSE u2]

RequestSymmetry == Permutations(Request)

=============================================================================
