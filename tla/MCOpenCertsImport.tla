--------------------------- MODULE MCOpenCertsImport ---------------------------
(* Small instances of OpenCertsImport for TLC. *)
EXTENDS OpenCertsImport, TLC
CONSTANTS r1, r2

\* The public demo certificate, a tampered copy of it, and one of another issuer.
Demo == [intact |-> TRUE, issuerName |-> "Opencerts", identityLocation |-> "dev.opencerts.io",
         claims |-> {"institution", "course", "transcript"}]
Tampered == [Demo EXCEPT !.intact = FALSE]
Foreign == [Demo EXCEPT !.issuerName = "other"]
MCDemo == {Demo}
MCDocuments == {Demo, Tampered, Foreign}

\* A fragment of each type: all valid; a status TrustVC skips; a revoked document.
Three(integrity, status, identity) ==
    {[type |-> "DOCUMENT_INTEGRITY", status |-> integrity],
     [type |-> "DOCUMENT_STATUS", status |-> status],
     [type |-> "ISSUER_IDENTITY", status |-> identity]}
MCValid == {Three("VALID", "VALID", "VALID")}
MCRevoked == {Three("VALID", "INVALID", "VALID")}
MCTrustVcAnswers ==
    MCValid \cup MCRevoked
    \cup {Three("VALID", "SKIPPED", "VALID"), Three("INVALID", "VALID", "VALID")}

Summary(all, rest) ==
    [all |-> all, documentIntegrity |-> rest, documentStatus |-> rest, issuerIdentity |-> rest]
MCApiValid == {Summary(TRUE, TRUE)}
MCApiAnswers == MCApiValid \cup {Summary(FALSE, FALSE)}

MCAllFaults == FaultKinds
\* Faults after which the process is still there to give the import back.
MCHandledFaults == {"verify", "issue", "stored", "link", "linked"}

RequestSymmetry == Permutations({r1, r2})
=============================================================================
