---------------------------- MODULE MCRateLimiter ----------------------------
(* Instances of RateLimiter for TLC.                                       *)
EXTENDS RateLimiter, TLC

CONSTANTS x1, x2

NonceSymmetry == Permutations(Nonce)

=============================================================================
