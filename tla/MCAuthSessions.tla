---------------------------- MODULE MCAuthSessions ----------------------------
(* Small instances of AuthSessions for TLC. *)
EXTENDS AuthSessions, TLC
CONSTANTS r1, r2

RequestSymmetry == Permutations({r1, r2})
=============================================================================
