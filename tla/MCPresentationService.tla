------------------------ MODULE MCPresentationService ------------------------
(* Small instances of PresentationService for TLC. *)
EXTENDS PresentationService, TLC
CONSTANTS cgpa, degree, r1, r2

MCOneClaimSet == {{cgpa}}
MCTwoClaims == {{cgpa, degree}}

\* Requests are interchangeable: sound for the safety runs only.
RequestSymmetry == Permutations({r1, r2})

\* The two claims are interchangeable too.
SafeSymmetry == RequestSymmetry \cup Permutations({cgpa, degree})
=============================================================================
