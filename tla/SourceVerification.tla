-------------------------- MODULE SourceVerification --------------------------
(***************************************************************************)
(* What decides the fate of an imported OpenCerts document: the verifier's *)
(* summary of what TrustVC or the OpenCerts API answered, the issuer       *)
(* policy, and which of the document's claims are kept.  A document is the *)
(* record of what these decisions look at.                                 *)
(*   apps/api/src/imports/source-credential-verification-service.ts        *)
(*   apps/api/src/imports/issuer-policy.ts                                 *)
(*   apps/api/src/imports/academic-claim-normalizer.ts                     *)
(***************************************************************************)
EXTENDS Naturals, FiniteSets

CONSTANTS
    TrustVcAnswers,     \* sets of fragments TrustVC may answer with
    ApiAnswers          \* summaries the OpenCerts API may answer with

Modes == {"LOCAL_TRUSTVC", "OPENCERTS_API"}
PolicyModes == {"DEMO", "INSTITUTION_ONLY"}

FragmentTypes == {"DOCUMENT_INTEGRITY", "DOCUMENT_STATUS", "ISSUER_IDENTITY"}
Fragments ==
    [type: FragmentTypes, status: {"VALID", "INVALID", "ERROR", "SKIPPED"}]
Summaries ==
    [all: BOOLEAN, documentIntegrity: BOOLEAN, documentStatus: BOOLEAN, issuerIdentity: BOOLEAN]

ASSUME AnswersAssumption ==
    TrustVcAnswers \subseteq SUBSET Fragments /\ ApiAnswers \subseteq Summaries

\* Claim keys a document may carry; those hidden never leave the request.
HiddenKeys == {"transcript", "additionalData"}
DerivedPublicKeys ==
    {"recipientName", "institution", "credentialName", "course", "issuedOn", "graduationDate"}
ClaimKeys == HiddenKeys \cup DerivedPublicKeys

\* intact: the document's own signature holds.
DocumentType ==
    [intact: BOOLEAN, issuerName: {"Opencerts", "other"},
     identityLocation: {"opencerts.io", "dev.opencerts.io", "other"}, claims: SUBSET ClaimKeys]

-----------------------------------------------------------------------------
HasStatus(fragments, type, status) == [type |-> type, status |-> status] \in fragments
HasBlockingStatus(fragments, type) ==
    HasStatus(fragments, type, "INVALID") \/ HasStatus(fragments, type, "ERROR")
Passes(fragments, type) ==
    HasStatus(fragments, type, "VALID") \/ ~HasBlockingStatus(fragments, type)

SummarizeFragments(fragments, signatureValid) ==
    LET integrity == signatureValid /\ Passes(fragments, "DOCUMENT_INTEGRITY")
        status == Passes(fragments, "DOCUMENT_STATUS")
        identity == Passes(fragments, "ISSUER_IDENTITY")
    IN  [all |-> integrity /\ status /\ identity, documentIntegrity |-> integrity,
         documentStatus |-> status, issuerIdentity |-> identity]

\* The fragments that stand in for a signature check or a document check that
\* threw.  A document whose signature is invalid is not checked further.
SignatureThrew == {[type |-> "DOCUMENT_INTEGRITY", status |-> "ERROR"]}
DocumentThrew == {[type |-> "DOCUMENT_STATUS", status |-> "ERROR"],
                  [type |-> "ISSUER_IDENTITY", status |-> "ERROR"]}

\* Mutant: acceptance looks at the wrong part of the summary.
VerifyWithTrustVcByStatus(document) ==
    LET summaries ==
            {SummarizeFragments(SignatureThrew, FALSE)} \cup
            IF document.intact
            THEN {SummarizeFragments(f, TRUE) : f \in TrustVcAnswers \cup {DocumentThrew}}
            ELSE {SummarizeFragments({}, FALSE)}
    IN  {[summary |-> s, accepted |-> s.documentStatus] : s \in summaries}

VerifyWithTrustVc(document) ==
    LET summaries ==
            {SummarizeFragments(SignatureThrew, FALSE)} \cup
            IF document.intact
            THEN {SummarizeFragments(f, TRUE) : f \in TrustVcAnswers \cup {DocumentThrew}}
            ELSE {SummarizeFragments({}, FALSE)}
    IN  {[summary |-> s, accepted |-> s.documentIntegrity] : s \in summaries}

VerifyWithOpenCertsApi == {[summary |-> s, accepted |-> s.all] : s \in ApiAnswers}

VerifyResults(document, mode) ==
    IF mode = "OPENCERTS_API" THEN VerifyWithOpenCertsApi ELSE VerifyWithTrustVc(document)

-----------------------------------------------------------------------------
SampleMode(document) ==
    /\ document.issuerName = "Opencerts"
    /\ document.identityLocation \in {"dev.opencerts.io", "opencerts.io"}
PolicyAllows(policyMode, document) == policyMode = "DEMO" /\ SampleMode(document)

\* Mutant: every claim of the document is kept.
KeepClaims(claims) == claims

\* What of the normalized claims an import row keeps, and what a derived
\* credential carries.
PreviewClaims(claims) == claims \ HiddenKeys
DerivedClaims(claims) == claims \cap DerivedPublicKeys
=============================================================================
