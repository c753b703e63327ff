--------------------------- MODULE OpenCertsImport ---------------------------
(***************************************************************************)
(* The OpenCerts bridge of RevealID: a holder imports a document, the API  *)
(* verifies it and records the outcome, and a verified import is derived   *)
(* into a wallet credential.  The derivation has no transaction: it claims *)
(* the import, issues the credential, links it to the import, and gives    *)
(* the import back when one of the two last steps throws.                  *)
(*   apps/api/src/imports/opencerts-import-service.ts                      *)
(*   apps/api/src/credentials/credential-service.ts                        *)
(***************************************************************************)
EXTENDS SourceVerification

CONSTANTS
    Holders,        \* users with role HOLDER
    Imports,        \* identifiers of import rows
    Credentials,    \* identifiers of credentials
    Requests,       \* requests the process serves at a time
    Documents,      \* documents holders upload
    Faults,         \* the faults that may happen, see FaultKinds
    MaxFaults,      \* bound: faults in a behaviour
    None            \* an absent row or value

FaultKinds ==
    {"verify",      \* the verification service cannot be reached
     "claim",       \* the claim is committed, its answer is lost
     "issue",       \* issuing throws: no issuer, no holder, no key, no database
     "stored",      \* the credential is committed, the answer is lost
     "link",        \* the update to DERIVED is not made
     "linked",      \* the update to DERIVED is committed, its answer is lost
     "release",     \* the update that gives the import back is not made
     "crash"}       \* the process dies and starts again

ASSUME ImportAssumption ==
    /\ Documents \subseteq DocumentType
    /\ Faults \subseteq FaultKinds /\ MaxFaults \in Nat
    /\ None \notin Imports \cup Credentials \cup Documents \cup Summaries

VARIABLES
    import,         \* table SourceCredentialImport
    credential,     \* table Credential: the derived ones
    request,        \* the requests in progress
    faults,         \* faults so far
    orphans,        \* history: credentials of an import that a fault cut off
    abandoned       \* history: imports whose claim a fault left behind

vars == <<import, credential, request, faults, orphans, abandoned>>

-----------------------------------------------------------------------------
FailureCodes ==
    {"external_verification_unavailable", "source_verification_failed", "issuer_policy_failed"}
Outcomes == {"verified"} \cup FailureCodes
Statuses == {"VERIFIED", "DERIVING", "FAILED", "DERIVED"}

ImportRow ==
    [holder: Holders, summary: Summaries \cup {None},
     claims: (SUBSET ClaimKeys) \cup {None}, status: Statuses,
     failureCode: FailureCodes \cup {None}, derived: Credentials \cup {None}]
WithStatus(row, status, derived) ==
    [holder |-> row.holder, summary |-> row.summary, claims |-> row.claims,
     status |-> status, failureCode |-> row.failureCode, derived |-> derived]

CredentialRow == [holder: Holders, source: Imports, claims: SUBSET ClaimKeys]

\* An absent row is not a row.
ASSUME RowsAssumption == None \notin ImportRow /\ None \notin CredentialRow

DeriveSteps == {"claim", "issue", "link", "release"}
Steps == {"idle", "verify", "record"} \cup DeriveSteps
Request ==
    [step: Steps, id: Imports \cup {None}, row: ImportRow \cup {None},
     document: Documents \cup {None}, mode: Modes \cup {None}, policy: PolicyModes \cup {None},
     credential: Credentials \cup {None}]
Verify(h, d, mode, policy) ==
    [step |-> "verify", id |-> None,
     row |-> [holder |-> h, summary |-> None, claims |-> None, status |-> "FAILED",
              failureCode |-> "external_verification_unavailable", derived |-> None],
     document |-> d, mode |-> mode, policy |-> policy, credential |-> None]
Holding(step, id, row, c) ==
    [step |-> step, id |-> id, row |-> row, document |-> None, mode |-> None,
     policy |-> None, credential |-> c]
Idle == Holding("idle", None, None, None)
Go(q, step) == Holding(step, q.id, q.row, q.credential)

Init ==
    /\ import = [i \in Imports |-> None]
    /\ credential = [c \in Credentials |-> None]
    /\ request = [r \in Requests |-> Idle]
    /\ faults = 0
    /\ orphans = [i \in Imports |-> 0]
    /\ abandoned = {}

Fault(kind) ==
    /\ kind \in Faults
    /\ faults < MaxFaults
    /\ faults' = faults + 1

-----------------------------------------------------------------------------
(* importOpenCerts.  An upload that is too large, or that asks for source   *)
(* retention, is refused before anything happens.                          *)

\* Bound: every import in progress will find a free identifier.
RoomForImport ==
    Cardinality({r \in Requests : request[r].step \in {"verify", "record"}})
        < Cardinality({i \in Imports : import[i] = None})

ImportOpenCerts(r, h, d, mode, policy) ==
    /\ request[r] = Idle
    /\ RoomForImport
    /\ request' = [request EXCEPT ![r] = Verify(h, d, mode, policy)]
    /\ UNCHANGED <<import, credential, faults, orphans, abandoned>>

OutcomeOf(result, policy, document) ==
    IF ~result.accepted THEN "source_verification_failed"
    ELSE IF ~PolicyAllows(policy, document) THEN "issuer_policy_failed"
    ELSE "verified"

\* Mutant: a verified import gets a failure code too.
RecordWithCode(h, result, outcome, document) ==
    [holder |-> h, summary |-> result.summary, claims |-> PreviewClaims(document.claims),
     status |-> IF outcome = "verified" THEN "VERIFIED" ELSE "FAILED",
     failureCode |-> outcome, derived |-> None]

\* The claims are normalized only after the source is accepted.
RecordOf(h, result, outcome, document) ==
    [holder |-> h, summary |-> result.summary,
     claims |-> IF outcome = "source_verification_failed" THEN None
                ELSE PreviewClaims(document.claims),
     status |-> IF outcome = "verified" THEN "VERIFIED" ELSE "FAILED",
     failureCode |-> IF outcome = "verified" THEN None ELSE outcome, derived |-> None]

VerifySource(r) ==
    /\ request[r].step = "verify"
    /\ \E result \in VerifyResults(request[r].document, request[r].mode) :
           LET d == request[r].document
               row == RecordOf(request[r].row.holder, result,
                               OutcomeOf(result, request[r].policy, d), d)
           IN  request' = [request EXCEPT ![r] = Holding("record", None, row, None)]
    /\ UNCHANGED <<import, credential, faults, orphans, abandoned>>

VerifierUnavailable(r) ==
    /\ request[r].step = "verify"
    /\ Fault("verify")
    /\ request' = [request EXCEPT ![r] = Go(@, "record")]
    /\ UNCHANGED <<import, credential, orphans, abandoned>>

RecordImport(r, i) ==
    /\ request[r].step = "record"
    /\ import[i] = None
    /\ import' = [import EXCEPT ![i] = request[r].row]
    /\ request' = [request EXCEPT ![r] = Idle]
    /\ UNCHANGED <<credential, faults, orphans, abandoned>>

-----------------------------------------------------------------------------
(* deriveFromImport.  The refusals for an import of another holder, or in  *)
(* any status but VERIFIED, change nothing.                                *)

DeriveFromImport(r, h, i) ==
    /\ request[r] = Idle
    /\ import[i] # None
    /\ import[i].holder = h
    /\ import[i].status = "VERIFIED"
    /\ import[i].claims # None /\ import[i].summary # None
    /\ request' = [request EXCEPT ![r] = Holding("claim", i, import[i], None)]
    /\ UNCHANGED <<import, credential, faults, orphans, abandoned>>

Working(r, i) == request[r].step \in {"issue", "link", "release"} /\ request[r].id = i
\* The claims that requests leave behind when they stop where they are.
LeftBehind(R) ==
    {i \in Imports : import[i] # None /\ import[i].status = "DERIVING" /\ \E r \in R : Working(r, i)}

Claimed(i) == [import EXCEPT ![i] = WithStatus(@, "DERIVING", @.derived)]

\* Mutant: the claim does not look at the status.
ClaimAnyway(r) ==
    /\ request[r].step = "claim"
    /\ import' = Claimed(request[r].id)
    /\ request' = [request EXCEPT ![r] = Go(@, "issue")]
    /\ UNCHANGED <<credential, faults, orphans, abandoned>>

\* updateMany ... where status is VERIFIED: one of several claims succeeds.
ClaimImport(r) ==
    /\ request[r].step = "claim"
    /\ LET i == request[r].id
       IN  IF import[i].status = "VERIFIED"
           THEN /\ import' = Claimed(i)
                /\ request' = [request EXCEPT ![r] = Go(@, "issue")]
           ELSE /\ request' = [request EXCEPT ![r] = Idle]
                /\ UNCHANGED import
    /\ UNCHANGED <<credential, faults, orphans, abandoned>>

\* The claim stands outside the try: nobody gives the import back.
ClaimAnswerLost(r) ==
    /\ request[r].step = "claim"
    /\ import[request[r].id].status = "VERIFIED"
    /\ Fault("claim")
    /\ import' = Claimed(request[r].id)
    /\ request' = [request EXCEPT ![r] = Idle]
    /\ abandoned' = abandoned \cup {request[r].id}
    /\ UNCHANGED <<credential, orphans>>

Derived(q) ==
    [holder |-> q.row.holder, source |-> q.id, claims |-> DerivedClaims(q.row.claims)]
IssueDerivedAcademicCredential(r, c) ==
    /\ request[r].step = "issue"
    /\ credential[c] = None
    /\ credential' = [credential EXCEPT ![c] = Derived(request[r])]
    /\ request' = [request EXCEPT ![r] = Holding("link", @.id, @.row, c)]
    /\ UNCHANGED <<import, faults, orphans, abandoned>>

\* Mutant: issuing stands outside the try, like the claim.
IssueFailsUnhandled(r) ==
    /\ request[r].step = "issue"
    /\ Fault("issue")
    /\ request' = [request EXCEPT ![r] = Idle]
    /\ UNCHANGED <<import, credential, orphans, abandoned>>

IssueFails(r) ==
    /\ request[r].step = "issue"
    /\ Fault("issue")
    /\ request' = [request EXCEPT ![r] = Go(@, "release")]
    /\ UNCHANGED <<import, credential, orphans, abandoned>>

IssueAnswerLost(r, c) ==
    /\ request[r].step = "issue"
    /\ credential[c] = None
    /\ Fault("stored")
    /\ credential' = [credential EXCEPT ![c] = Derived(request[r])]
    /\ request' = [request EXCEPT ![r] = Go(@, "release")]
    /\ orphans' = [orphans EXCEPT ![request[r].id] = @ + 1]
    /\ UNCHANGED <<import, abandoned>>

\* Mutant: the status is set and the link forgotten.
LinkedStatus(q) == [import EXCEPT ![q.id] = WithStatus(@, "DERIVED", @.derived)]

Linked(q) == [import EXCEPT ![q.id] = WithStatus(@, "DERIVED", q.credential)]
LinkCredential(r) ==
    /\ request[r].step = "link"
    /\ import' = Linked(request[r])
    /\ request' = [request EXCEPT ![r] = Idle]
    /\ UNCHANGED <<credential, faults, orphans, abandoned>>

LinkFails(r) ==
    /\ request[r].step = "link"
    /\ Fault("link")
    /\ request' = [request EXCEPT ![r] = Go(@, "release")]
    /\ orphans' = [orphans EXCEPT ![request[r].id] = @ + 1]
    /\ UNCHANGED <<import, credential, abandoned>>

LinkAnswerLost(r) ==
    /\ request[r].step = "link"
    /\ Fault("linked")
    /\ import' = Linked(request[r])
    /\ request' = [request EXCEPT ![r] = Go(@, "release")]
    /\ UNCHANGED <<credential, orphans, abandoned>>

\* Mutants: the import is given back whatever its status; it is not given back.
ReleaseAnyway(r) ==
    /\ request[r].step = "release"
    /\ import' = [import EXCEPT ![request[r].id] = WithStatus(@, "VERIFIED", @.derived)]
    /\ request' = [request EXCEPT ![r] = Idle]
    /\ UNCHANGED <<credential, faults, orphans, abandoned>>
ThrowOnly(r) ==
    /\ request[r].step = "release"
    /\ request' = [request EXCEPT ![r] = Idle]
    /\ UNCHANGED <<import, credential, faults, orphans, abandoned>>

\* updateMany ... where status is DERIVING, then the error is thrown on.
ReleaseImport(r) ==
    /\ request[r].step = "release"
    /\ LET i == request[r].id
       IN  import' = IF import[i].status = "DERIVING"
                     THEN [import EXCEPT ![i] = WithStatus(@, "VERIFIED", @.derived)]
                     ELSE import
    /\ request' = [request EXCEPT ![r] = Idle]
    /\ UNCHANGED <<credential, faults, orphans, abandoned>>

ReleaseFails(r) ==
    /\ request[r].step = "release"
    /\ Fault("release")
    /\ request' = [request EXCEPT ![r] = Idle]
    /\ abandoned' = abandoned \cup LeftBehind({r})
    /\ UNCHANGED <<import, credential, orphans>>

Crash ==
    /\ Fault("crash")
    /\ request' = [r \in Requests |-> Idle]
    /\ orphans' = [i \in Imports |->
           orphans[i] + Cardinality({r \in Requests : request[r].step = "link" /\ request[r].id = i})]
    /\ abandoned' = abandoned \cup LeftBehind(Requests)
    /\ UNCHANGED <<import, credential>>

-----------------------------------------------------------------------------
Arrival(r) ==
    \/ \E h \in Holders, d \in Documents, mode \in Modes, policy \in PolicyModes :
           ImportOpenCerts(r, h, d, mode, policy)
    \/ \E h \in Holders, i \in Imports : DeriveFromImport(r, h, i)

ImportStep(r) ==
    \/ VerifySource(r)
    \/ VerifierUnavailable(r)
    \/ \E i \in Imports : RecordImport(r, i)

DeriveStep(r) ==
    \/ ClaimImport(r)
    \/ ClaimAnswerLost(r)
    \/ \E c \in Credentials : IssueDerivedAcademicCredential(r, c) \/ IssueAnswerLost(r, c)
    \/ IssueFails(r)
    \/ LinkCredential(r)
    \/ LinkFails(r)
    \/ LinkAnswerLost(r)
    \/ ReleaseImport(r)
    \/ ReleaseFails(r)

Next ==
    \/ \E r \in Requests : Arrival(r) \/ ImportStep(r) \/ DeriveStep(r)
    \/ Crash

\* The process goes on with a derivation it has accepted; a holder need not
\* come back, and an import waits on services outside the process.
Fairness == \A r \in Requests : WF_vars(DeriveStep(r))

Spec == Init /\ [][Next]_vars
FairSpec == Spec /\ Fairness

-----------------------------------------------------------------------------
(* Properties.                                                             *)

\* Tables, requests and counters keep their shape.
TypeOK ==
    /\ import \in [Imports -> ImportRow \cup {None}]
    /\ credential \in [Credentials -> CredentialRow \cup {None}]
    /\ request \in [Requests -> Request]
    /\ faults \in 0..MaxFaults
    /\ orphans \in [Imports -> Nat]
    /\ abandoned \subseteq Imports

\* The claim is a lock: of all the requests that read an import as VERIFIED at
\* most one issues a credential for it, the import stays DERIVING while it does,
\* and what it gives back is still its own.
DerivationExclusive ==
    \A i \in Imports, r \in Requests : Working(r, i) =>
        /\ import[i] # None
        /\ \/ import[i].status = "DERIVING"
           \/ request[r].step = "release" /\ import[i].status = "DERIVED"
        /\ \A p \in Requests : Working(p, i) => p = r

\* A DERIVED import is linked to a credential of its own holder that was made
\* from it, and no other import has a link at all.
DerivedIsBacked ==
    \A i \in Imports : import[i] # None =>
        LET c == import[i].derived
        IN  IF import[i].status = "DERIVED"
            THEN c \in Credentials /\ credential[c] # None
                 /\ credential[c].holder = import[i].holder /\ credential[c].source = i
            ELSE c = None

\* Every credential made from an import is accounted for: it is linked, a
\* request is about to link it, or it is one of those a fault cut off.
CredentialsAccountedFor ==
    \A i \in Imports :
        Cardinality({c \in Credentials : credential[c] # None /\ credential[c].source = i})
            = orphans[i]
              + (IF import[i] # None /\ import[i].status = "DERIVED" THEN 1 ELSE 0)
              + Cardinality({r \in Requests : request[r].step = "link" /\ request[r].id = i})

\* Transcripts, grades and student identifiers reach neither an import row nor a
\* derived credential, and a credential is made only from a verified import.
HiddenNeverStored ==
    /\ \A i \in Imports : import[i] # None /\ import[i].claims # None =>
           import[i].claims \cap HiddenKeys = {}
    /\ \A c \in Credentials : credential[c] # None =>
           /\ credential[c].claims \cap HiddenKeys = {}
           /\ import[credential[c].source].status # "FAILED"
           /\ credential[c].claims \subseteq import[credential[c].source].claims

\* A claimed import does not stay claimed: it is derived or given back.
DerivationSettles ==
    \A i \in Imports :
        (import[i] # None /\ import[i].status = "DERIVING")
            ~> (import[i] # None /\ import[i].status # "DERIVING")

\* An import is DERIVING with nobody deriving it exactly when a crash, a release
\* that failed or a claim whose answer was lost left it so; no other way leads
\* there, and none leads back.
AbandonedAccountedFor ==
    \A i \in Imports :
        i \in abandoned <=> /\ import[i] # None
                           /\ import[i].status = "DERIVING"
                           /\ ~\E r \in Requests : Working(r, i)

\* An import never ends up with two wallet credentials.
NoDuplicates ==
    \A c, e \in Credentials :
        credential[c] # None /\ credential[e] # None /\ credential[c].source = credential[e].source
            => c = e

\* The import table as the holder was promised it.
Lifecycle == INSTANCE ImportLifecycle WITH
    Results <- Credentials,
    status <- [i \in Imports |-> IF import[i] = None THEN None ELSE import[i].status],
    result <- [i \in Imports |-> IF import[i] = None THEN None ELSE import[i].derived]
\* Whatever fails or crashes, an import goes through its lifecycle and no other
\* way: FAILED and DERIVED are final and no credential serves two imports.
ImplementsLifecycle == Lifecycle!Spec
=============================================================================
