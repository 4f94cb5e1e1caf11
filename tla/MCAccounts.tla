------------------------------ MODULE MCAccounts ------------------------------
(* Instances of Accounts for TLC.                                          *)
EXTENDS Accounts, TLC

CONSTANTS u1, u2, r1, r2, p1, p2, g1, g2

OwnerOf == [r \in Request |-> u1]
PayerOf == [p \in Payment |-> u1]
WhoOf == [g \in Registration |-> u1]

ActorSymmetry == Permutations(Request) \cup Permutations(Registration)

=============================================================================
