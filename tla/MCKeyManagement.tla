---------------------------- MODULE MCKeyManagement ----------------------------
(* Small instances of KeyManagement for TLC. *)
EXTENDS KeyManagement, TLC
CONSTANTS r1, r2

\* Requests and rows are interchangeable: the runs check invariants only.
RowSymmetry ==
    Permutations({r1, r2}) \cup Permutations(Credentials) \cup Permutations(Shares)
=============================================================================
