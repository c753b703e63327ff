-------------------------- MODULE MCVerifyRateLimit --------------------------
(* Small instances of VerifyRateLimit for TLC. *)
EXTENDS VerifyRateLimit, TLC
CONSTANTS c1, c2

ClientSymmetry == Permutations({c1, c2})
=============================================================================
