----------------------------- MODULE MCImportForm -----------------------------
(* Small instances of ImportForm for TLC. *)
EXTENDS ImportForm, MCOpenCertsImport
CONSTANTS h1, i1, i2, c1, c2, c3, t1

MCHolderOf == [t \in Tabs |-> h1]

\* A fault after which the holder may store the same import once more, and a
\* restart under the open page.
MCFormFaults == {"link", "crash"}

\* Identifiers and requests are interchangeable: for the safety run only.
IdSymmetry == RequestSymmetry \cup Permutations({i1, i2}) \cup Permutations({c1, c2, c3})
=============================================================================
