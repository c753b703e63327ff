------------------------ MODULE MCVerificationHistory ------------------------
(* Small instances of VerificationHistory for TLC. *)
EXTENDS VerificationHistory, TLC
CONSTANTS cgpa, degree, r1, r2

MCClaimSets == {{cgpa}, {degree}}
\* Requests are interchangeable, and so are the two claims.
SafeSymmetry == Permutations({r1, r2}) \cup Permutations({cgpa, degree})
=============================================================================
