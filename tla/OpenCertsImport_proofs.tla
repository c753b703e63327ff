------------------------ MODULE OpenCertsImport_proofs ------------------------
(***************************************************************************)
(* What holds of the OpenCerts bridge for any holders, documents, imports  *)
(* and concurrent requests, and any number of faults and restarts.         *)
(***************************************************************************)
EXTENDS OpenCertsImport, FiniteSetTheorems, TLAPS

-----------------------------------------------------------------------------
(* The inductive invariant.                                                *)

\* What a request relies on when it goes on: the verdict it will record, the
\* import it read, which keeps its holder and claims, and the credential it has
\* stored for it.
RequestCoherent(r) ==
    LET q == request[r]
    IN  /\ q.step = "verify" =>
               /\ q.document \in Documents /\ q.mode \in Modes
        /\ q.step \in {"verify", "record"} =>
               /\ q.row # None
               /\ q.row.derived = None
               /\ q.row.status \in {"VERIFIED", "FAILED"}
               /\ q.row.claims # None => q.row.claims \cap HiddenKeys = {}
        /\ q.step \in DeriveSteps =>
               /\ q.id \in Imports
               /\ import[q.id] # None
               /\ import[q.id].status # "FAILED"
               /\ q.row # None
               /\ q.row.claims # None
               /\ q.row.holder = import[q.id].holder
               /\ q.row.claims = import[q.id].claims
        /\ q.step = "link" =>
               /\ q.credential \in Credentials
               /\ credential[q.credential] # None
               /\ credential[q.credential].source = q.id
               /\ credential[q.credential].holder = q.row.holder
RequestsCoherent == \A r \in Requests : RequestCoherent(r)

\* Of one import: the credentials stored for it, the requests about to link one,
\* and the parts of the safety properties that are about it.
Stored(i) == {c \in Credentials : credential[c] # None /\ credential[c].source = i}
Linking(i) == {r \in Requests : request[r].step = "link" /\ request[r].id = i}
IsDerived(i) == import[i] # None /\ import[i].status = "DERIVED"

\* Working(r, i), said of what a request is rather than of the request.
Busy(q, i) == q.step \in {"issue", "link", "release"} /\ q.id = i

ExclusiveAt(i) ==
    \A r \in Requests : Working(r, i) =>
        /\ import[i] # None
        /\ \/ import[i].status = "DERIVING"
           \/ request[r].step = "release" /\ import[i].status = "DERIVED"
        /\ \A p \in Requests : Working(p, i) => p = r
BackedAt(i) ==
    import[i] # None =>
        LET c == import[i].derived
        IN  IF import[i].status = "DERIVED"
            THEN c \in Credentials /\ credential[c] # None
                 /\ credential[c].holder = import[i].holder /\ credential[c].source = i
            ELSE c = None
AccountedAt(i) ==
    /\ IsFiniteSet(Stored(i))
    /\ Cardinality(Stored(i))
           = orphans[i] + (IF IsDerived(i) THEN 1 ELSE 0) + Cardinality(Linking(i))
AbandonedAt(i) ==
    i \in abandoned <=> /\ import[i] # None
                       /\ import[i].status = "DERIVING"
                       /\ ~\E r \in Requests : Working(r, i)
ImportCoherent(i) == ExclusiveAt(i) /\ BackedAt(i) /\ AccountedAt(i) /\ AbandonedAt(i)

\* The source of a credential is an import that was recorded.
SourcesRecorded ==
    \A c \in Credentials : credential[c] # None => import[credential[c].source] # None

Inv ==
    /\ TypeOK
    /\ HiddenNeverStored
    /\ SourcesRecorded
    /\ RequestsCoherent
    /\ \A i \in Imports : ImportCoherent(i)

LEMMA InvImplies ==
    Inv => /\ DerivationExclusive
           /\ DerivedIsBacked
           /\ CredentialsAccountedFor
           /\ AbandonedAccountedFor
<1> SUFFICES ASSUME Inv
             PROVE  /\ DerivationExclusive
                    /\ DerivedIsBacked
                    /\ CredentialsAccountedFor
                    /\ AbandonedAccountedFor
    OBVIOUS
<1>1. DerivationExclusive
    BY DEF Inv, ImportCoherent, ExclusiveAt, DerivationExclusive
<1>2. DerivedIsBacked
    BY DEF Inv, ImportCoherent, BackedAt, DerivedIsBacked
<1>3. CredentialsAccountedFor
    BY DEF Inv, ImportCoherent, AccountedAt, CredentialsAccountedFor, Stored, Linking, IsDerived
<1>4. AbandonedAccountedFor
    BY DEF Inv, ImportCoherent, AbandonedAt, AbandonedAccountedFor
<1> QED  BY <1>1, <1>2, <1>3, <1>4

-----------------------------------------------------------------------------
(* Operators.                                                              *)

LEMMA IdleType == Idle \in Request /\ Idle.step = "idle"
BY DEF Idle, Holding, Request, Steps

LEMMA SummariesType ==
    ASSUME NEW f, NEW valid \in BOOLEAN PROVE SummarizeFragments(f, valid) \in Summaries
BY DEF SummarizeFragments, Summaries, Passes, HasStatus, HasBlockingStatus

LEMMA VerifyResultsType ==
    ASSUME NEW d, NEW mode, NEW result \in VerifyResults(d, mode)
    PROVE  result.summary \in Summaries
<1>1. \A s \in ApiAnswers : s \in Summaries
    BY AnswersAssumption
<1>2. \A f : SummarizeFragments(f, TRUE) \in Summaries /\ SummarizeFragments(f, FALSE) \in Summaries
    BY SummariesType
<1>3. CASE mode = "OPENCERTS_API"
    BY <1>1, <1>3 DEF VerifyResults, VerifyWithOpenCertsApi
<1>4. CASE mode # "OPENCERTS_API"
    <2> DEFINE summaries ==
            {SummarizeFragments(SignatureThrew, FALSE)} \cup
            IF d.intact
            THEN {SummarizeFragments(f, TRUE) : f \in TrustVcAnswers \cup {DocumentThrew}}
            ELSE {SummarizeFragments({}, FALSE)}
    <2>1. summaries \subseteq Summaries
        BY <1>2
    <2>2. result \in {[summary |-> s, accepted |-> s.documentIntegrity] : s \in summaries}
        BY <1>4 DEF VerifyResults, VerifyWithTrustVc
    <2> HIDE DEF summaries
    <2> QED  BY <2>1, <2>2
<1> QED  BY <1>3, <1>4

LEMMA RecordOfType ==
    ASSUME NEW h \in Holders, NEW d \in Documents, NEW mode, NEW policy,
           NEW result \in VerifyResults(d, mode)
    PROVE  LET row == RecordOf(h, result, OutcomeOf(result, policy, d), d)
           IN  /\ row \in ImportRow
               /\ row.derived = None
               /\ row.status \in {"VERIFIED", "FAILED"}
               /\ row.claims # None => row.claims \cap HiddenKeys = {}
<1> DEFINE outcome == OutcomeOf(result, policy, d)
           row == RecordOf(h, result, outcome, d)
<1>1. result.summary \in Summaries
    BY VerifyResultsType
<1>2. PreviewClaims(d.claims) \in SUBSET ClaimKeys /\ PreviewClaims(d.claims) \cap HiddenKeys = {}
    BY ImportAssumption DEF PreviewClaims, DocumentType
<1>3. outcome \in Outcomes
    BY DEF OutcomeOf, Outcomes, FailureCodes
<1> HIDE DEF outcome
<1>4. row \in ImportRow
    BY <1>1, <1>2, <1>3 DEF RecordOf, ImportRow, Statuses, Outcomes
<1>5. row.derived = None /\ row.status \in {"VERIFIED", "FAILED"}
    BY DEF RecordOf
<1>6. row.claims # None => row.claims \cap HiddenKeys = {}
    BY <1>2 DEF RecordOf
<1> QED  BY <1>4, <1>5, <1>6 DEF outcome

-----------------------------------------------------------------------------
LEMMA InitInv == Init => Inv
<1> SUFFICES ASSUME Init PROVE Inv
    OBVIOUS
<1>1. TypeOK
    BY IdleType, ImportAssumption DEF Init, TypeOK
<1>2. HiddenNeverStored /\ SourcesRecorded
    BY DEF Init, HiddenNeverStored, SourcesRecorded
<1>3. RequestsCoherent
    BY IdleType DEF Init, RequestsCoherent, RequestCoherent, DeriveSteps
<1>4. ASSUME NEW i \in Imports PROVE ImportCoherent(i)
    <2>1. Stored(i) = {} /\ Linking(i) = {} /\ ~IsDerived(i) /\ orphans[i] = 0
        BY IdleType DEF Init, Stored, Linking, IsDerived
    <2>2. AccountedAt(i)
        BY <2>1, FS_EmptySet DEF AccountedAt
    <2>3. ExclusiveAt(i) /\ BackedAt(i) /\ AbandonedAt(i)
        BY IdleType DEF Init, ExclusiveAt, BackedAt, AbandonedAt, Working
    <2> QED  BY <2>2, <2>3 DEF ImportCoherent
<1> QED  BY <1>1, <1>2, <1>3, <1>4 DEF Inv

-----------------------------------------------------------------------------
(* What every step leaves alone.                                           *)

ImportsKept ==
    \A i \in Imports : import[i] # None =>
        /\ import'[i] # None
        /\ import'[i].holder = import[i].holder
        /\ import'[i].claims = import[i].claims
        /\ import[i].status # "FAILED" => import'[i].status # "FAILED"
CredentialsKept ==
    \A c \in Credentials : credential[c] # None => credential'[c] = credential[c]

LEMMA CoherenceKept ==
    ASSUME Inv, ImportsKept, CredentialsKept, NEW r \in Requests, request'[r] = request[r]
    PROVE  RequestCoherent(r)'
<1>1. RequestCoherent(r)
    BY DEF Inv, RequestsCoherent
<1> QED  BY <1>1 DEF RequestCoherent, ImportsKept, CredentialsKept

\* A step of request r that has nothing to do with import i.
LEMMA ElsewhereKept ==
    ASSUME Inv, CredentialsKept, NEW r \in Requests, NEW i \in Imports,
           \A p \in Requests \ {r} : request'[p] = request[p],
           ~Busy(request[r], i), ~Busy(request'[r], i),
           import'[i] = import[i], orphans'[i] = orphans[i], i \in abandoned' <=> i \in abandoned,
           \A c \in Credentials :
               credential'[c] # None /\ credential'[c].source = i => credential[c] # None
    PROVE  ImportCoherent(i)'
<1>1. ImportCoherent(i)
    BY DEF Inv
<1>2. \A p \in Requests : Working(p, i)' <=> Working(p, i)
    BY DEF Working, Busy
<1>3. ExclusiveAt(i)'
    BY <1>1 DEF ImportCoherent, ExclusiveAt, Working, Busy
<1>4. BackedAt(i)'
    BY <1>1 DEF ImportCoherent, BackedAt, CredentialsKept
<1>5. AccountedAt(i)'
    <2>1. Stored(i)' = Stored(i)
        BY DEF Stored, CredentialsKept
    <2>2. Linking(i)' = Linking(i)
        BY DEF Linking, Busy
    <2>3. IsDerived(i)' <=> IsDerived(i)
        BY DEF IsDerived
    <2> QED  BY <1>1, <2>1, <2>2, <2>3 DEF ImportCoherent, AccountedAt
<1>6. AbandonedAt(i)'
    BY <1>1, <1>2 DEF ImportCoherent, AbandonedAt
<1> QED  BY <1>3, <1>4, <1>5, <1>6 DEF ImportCoherent

LEMMA HiddenKept ==
    ASSUME Inv, ImportsKept, credential' = credential,
           \A i \in Imports : import'[i] # None => import[i] # None
    PROVE  HiddenNeverStored' /\ SourcesRecorded'
<1>1. \A c \in Credentials : credential[c] # None => credential[c].source \in Imports
    BY DEF Inv, TypeOK, CredentialRow
<1> QED  BY <1>1 DEF Inv, HiddenNeverStored, SourcesRecorded, ImportsKept

\* A step of request r about import i.
LEMMA StepAt ==
    ASSUME Inv, ImportsKept, CredentialsKept,
           NEW r \in Requests, NEW i \in Imports,
           \A p \in Requests \ {r} : request'[p] = request[p],
           \A j \in Imports : Busy(request[r], j) \/ Busy(request'[r], j) => j = i,
           \A j \in Imports \ {i} :
               /\ import'[j] = import[j] /\ orphans'[j] = orphans[j]
               /\ j \in abandoned' <=> j \in abandoned,
           \A c \in Credentials :
               credential'[c] # None /\ credential'[c].source # i => credential[c] # None,
           TypeOK', HiddenNeverStored' /\ SourcesRecorded', RequestCoherent(r)', ImportCoherent(i)'
    PROVE  Inv'
<1>1. RequestsCoherent'
    BY CoherenceKept DEF RequestsCoherent
<1>2. ASSUME NEW j \in Imports, j # i PROVE ImportCoherent(j)'
    BY <1>2, ElsewhereKept
<1> QED  BY <1>1, <1>2 DEF Inv

\* A step of request r before it has claimed anything.
LEMMA FrontStep ==
    ASSUME Inv, UNCHANGED <<import, credential, orphans, abandoned>>, faults' \in 0..MaxFaults,
           NEW r \in Requests, NEW q \in Request, request' = [request EXCEPT ![r] = q],
           request[r].step \in {"idle", "verify", "record", "claim"},
           q.step \in {"idle", "verify", "record", "claim"},
           RequestCoherent(r)'
    PROVE  Inv'
<1>1. request'[r] = q /\ \A p \in Requests \ {r} : request'[p] = request[p]
    BY DEF Inv, TypeOK
<1>2. TypeOK'
    BY DEF Inv, TypeOK
<1>3. ImportsKept /\ CredentialsKept
    BY DEF ImportsKept, CredentialsKept
<1>4. HiddenNeverStored' /\ SourcesRecorded'
    BY <1>3, HiddenKept
<1>5. RequestsCoherent'
    BY <1>1, <1>3, CoherenceKept DEF RequestsCoherent
<1>6. ASSUME NEW i \in Imports PROVE ImportCoherent(i)'
    <2>1. ~Busy(request[r], i) /\ ~Busy(request'[r], i)
        BY <1>1 DEF Busy
    <2> QED  BY <1>1, <1>3, <2>1, ElsewhereKept
<1> QED  BY <1>2, <1>4, <1>5, <1>6 DEF Inv

-----------------------------------------------------------------------------
(* Importing a document, and the part of a derivation before its claim.    *)

LEMMA ImportOpenCertsInv ==
    ASSUME Inv, NEW r \in Requests, NEW h \in Holders, NEW d \in Documents, NEW mode \in Modes,
           NEW policy \in PolicyModes, ImportOpenCerts(r, h, d, mode, policy)
    PROVE  Inv'
<1> DEFINE q == Verify(h, d, mode, policy)
<1>1. /\ request' = [request EXCEPT ![r] = q] /\ request[r].step = "idle"
      /\ UNCHANGED <<import, credential, faults, orphans, abandoned>>
    BY IdleType DEF ImportOpenCerts
<1>2. /\ q \in Request /\ q.step = "verify" /\ q.document = d /\ q.mode = mode
      /\ q.row \in ImportRow /\ q.row.derived = None /\ q.row.status = "FAILED"
      /\ q.row.claims = None
    BY DEF Verify, Request, Steps, ImportRow, Statuses, FailureCodes
<1> HIDE DEF q
<1>3. RequestCoherent(r)'
    BY <1>1, <1>2, RowsAssumption DEF RequestCoherent, DeriveSteps, Inv, TypeOK
<1> QED  BY <1>1, <1>2, <1>3, FrontStep DEF Inv, TypeOK

LEMMA VerifySourceInv ==
    ASSUME Inv, NEW r \in Requests, VerifySource(r)
    PROVE  Inv'
<1> DEFINE d == request[r].document
<1>1. request[r].step = "verify" /\ UNCHANGED <<import, credential, faults, orphans, abandoned>>
    BY DEF VerifySource
<1>2. request[r] \in Request /\ request[r].row \in ImportRow /\ d \in Documents
    BY <1>1 DEF Inv, TypeOK, RequestsCoherent, RequestCoherent, Request
<1>3. request[r].row.holder \in Holders
    BY <1>2 DEF ImportRow
<1>4. PICK result \in VerifyResults(d, request[r].mode) :
          request' = [request EXCEPT ![r] =
              Holding("record", None,
                  RecordOf(request[r].row.holder, result,
                           OutcomeOf(result, request[r].policy, d), d), None)]
    BY DEF VerifySource
<1> DEFINE row == RecordOf(request[r].row.holder, result,
                           OutcomeOf(result, request[r].policy, d), d)
           q == Holding("record", None, row, None)
<1>5. /\ row \in ImportRow /\ row.derived = None /\ row.status \in {"VERIFIED", "FAILED"}
      /\ row.claims # None => row.claims \cap HiddenKeys = {}
    BY <1>2, <1>3, RecordOfType
<1>6. request' = [request EXCEPT ![r] = q]
    BY <1>4
<1> HIDE DEF row
<1>7. q \in Request /\ q.step = "record" /\ q.row = row
    BY <1>5 DEF Holding, Request, Steps
<1> HIDE DEF q
<1>8. RequestCoherent(r)'
    BY <1>5, <1>6, <1>7, RowsAssumption DEF RequestCoherent, DeriveSteps, Inv, TypeOK
<1>9. faults' \in 0..MaxFaults
    BY <1>1 DEF Inv, TypeOK
<1> QED  BY <1>1, <1>6, <1>7, <1>8, <1>9, FrontStep

LEMMA FaultType == ASSUME Inv, NEW kind, Fault(kind) PROVE faults' \in 0..MaxFaults
BY ImportAssumption DEF Fault, Inv, TypeOK

LEMMA VerifierUnavailableInv ==
    ASSUME Inv, NEW r \in Requests, VerifierUnavailable(r)
    PROVE  Inv'
<1> DEFINE q == Go(request[r], "record")
<1>1. /\ request' = [request EXCEPT ![r] = q] /\ request[r].step = "verify"
      /\ UNCHANGED <<import, credential, orphans, abandoned>>
    BY DEF VerifierUnavailable
<1>2. q \in Request /\ q.step = "record" /\ q.row = request[r].row
    BY DEF Go, Holding, Inv, TypeOK, Request, Steps
<1> HIDE DEF q
<1>3. RequestCoherent(r)
    BY DEF Inv, RequestsCoherent
<1>4. RequestCoherent(r)'
    BY <1>1, <1>2, <1>3 DEF RequestCoherent, DeriveSteps, Inv, TypeOK
<1>5. faults' \in 0..MaxFaults
    BY FaultType DEF VerifierUnavailable
<1> QED  BY <1>1, <1>2, <1>4, <1>5, FrontStep

LEMMA DeriveFromImportInv ==
    ASSUME Inv, NEW r \in Requests, NEW h \in Holders, NEW i \in Imports,
           DeriveFromImport(r, h, i)
    PROVE  Inv'
<1> DEFINE q == Holding("claim", i, import[i], None)
<1>1. /\ request' = [request EXCEPT ![r] = q] /\ request[r].step = "idle"
      /\ UNCHANGED <<import, credential, faults, orphans, abandoned>>
      /\ import[i] # None /\ import[i].status = "VERIFIED" /\ import[i].claims # None
    BY IdleType DEF DeriveFromImport
<1>2. q \in Request /\ q.step = "claim" /\ q.id = i /\ q.row = import[i]
    BY <1>1 DEF Holding, Inv, TypeOK, Request, Steps, DeriveSteps
<1> HIDE DEF q
<1>3. RequestCoherent(r)'
    BY <1>1, <1>2 DEF RequestCoherent, DeriveSteps, Inv, TypeOK
<1>4. faults' \in 0..MaxFaults
    BY <1>1 DEF Inv, TypeOK
<1> QED  BY <1>1, <1>2, <1>3, <1>4, FrontStep

LEMMA RecordImportInv ==
    ASSUME Inv, NEW r \in Requests, NEW i \in Imports, RecordImport(r, i)
    PROVE  Inv'
<1> DEFINE row == request[r].row
<1>1. /\ request' = [request EXCEPT ![r] = Idle] /\ request[r].step = "record"
      /\ import[i] = None /\ import' = [import EXCEPT ![i] = row]
      /\ UNCHANGED <<credential, faults, orphans, abandoned>>
    BY DEF RecordImport
<1>2. request[r] \in Request /\ RequestCoherent(r) /\ ImportCoherent(i)
    BY DEF Inv, TypeOK, RequestsCoherent
<1>3. /\ row \in ImportRow /\ row # None /\ row.derived = None
      /\ row.status \in {"VERIFIED", "FAILED"}
      /\ row.claims # None => row.claims \cap HiddenKeys = {}
    BY <1>1, <1>2 DEF Request, RequestCoherent
<1> HIDE DEF row
<1>4. import'[i] = row /\ \A j \in Imports \ {i} : import'[j] = import[j]
    BY <1>1 DEF Inv, TypeOK
<1>5. request'[r] = Idle /\ \A p \in Requests \ {r} : request'[p] = request[p]
    BY <1>1 DEF Inv, TypeOK
<1>6. TypeOK'
    BY <1>1, <1>3, IdleType DEF Inv, TypeOK
<1>7. ImportsKept /\ CredentialsKept
    BY <1>1, <1>4 DEF ImportsKept, CredentialsKept
<1>8. HiddenNeverStored' /\ SourcesRecorded'
    <2>1. \A c \in Credentials : credential[c] # None =>
              credential[c].source \in Imports \ {i}
        BY <1>1 DEF Inv, TypeOK, CredentialRow, SourcesRecorded
    <2> QED  BY <1>1, <1>3, <1>4, <2>1 DEF Inv, HiddenNeverStored, SourcesRecorded
<1>9. RequestCoherent(r)'
    BY <1>5, IdleType DEF RequestCoherent, DeriveSteps
<1>10. ImportCoherent(i)'
    <2>1. \A p \in Requests : ~Working(p, i)
        BY <1>1, <1>2 DEF ImportCoherent, ExclusiveAt
    <2>2. \A p \in Requests : ~Working(p, i)'
        BY <1>5, <2>1, IdleType DEF Working
    <2>3. Stored(i)' = Stored(i) /\ Linking(i)' = Linking(i)
        BY <1>1, <2>1, <2>2 DEF Stored, Linking, Working
    <2>4. ~IsDerived(i) /\ ~IsDerived(i)'
        BY <1>1, <1>3, <1>4 DEF IsDerived
    <2>5. AccountedAt(i)'
        BY <1>1, <1>2, <2>3, <2>4 DEF ImportCoherent, AccountedAt
    <2>6. BackedAt(i)'
        BY <1>3, <1>4 DEF BackedAt
    <2>7. AbandonedAt(i)'
        BY <1>1, <1>2, <1>3, <1>4 DEF ImportCoherent, AbandonedAt
    <2> QED  BY <2>2, <2>5, <2>6, <2>7 DEF ImportCoherent, ExclusiveAt
<1>11. \A j \in Imports : ~Busy(request[r], j) /\ ~Busy(request'[r], j)
    BY <1>1, <1>5, IdleType DEF Busy
<1> QED  BY <1>1, <1>4, <1>5, <1>6, <1>7, <1>8, <1>9, <1>10, <1>11, StepAt

-----------------------------------------------------------------------------
(* The claim.                                                              *)

LEMMA WithStatusType ==
    ASSUME NEW row \in ImportRow, NEW status \in Statuses, NEW c \in Credentials \cup {None}
    PROVE  LET new == WithStatus(row, status, c)
           IN  /\ new \in ImportRow /\ new # None
               /\ new.holder = row.holder /\ new.claims = row.claims
               /\ new.status = status /\ new.derived = c
BY RowsAssumption DEF WithStatus, ImportRow

\* A VERIFIED import has nobody working on it, so it can be claimed.
LEMMA VerifiedIsFree ==
    ASSUME Inv, NEW i \in Imports, import[i] # None, import[i].status = "VERIFIED"
    PROVE  \A p \in Requests : ~Working(p, i)
BY DEF Inv, ImportCoherent, ExclusiveAt

\* What is true of the import after a claim, whether the claiming request goes on
\* or its answer was lost.
LEMMA ClaimedCoherent ==
    ASSUME Inv, NEW r \in Requests, NEW i \in Imports,
           import[i] # None, import[i].status = "VERIFIED", import' = Claimed(i),
           UNCHANGED <<credential, orphans>>,
           \A p \in Requests \ {r} : request'[p] = request[p],
           request'[r].step \in {"issue", "idle"}, Busy(request'[r], i) <=> request'[r].step = "issue",
           i \in abandoned' <=> request'[r].step = "idle"
    PROVE  ImportCoherent(i)' /\ ImportsKept /\ HiddenNeverStored' /\ SourcesRecorded'
<1> DEFINE row == WithStatus(import[i], "DERIVING", import[i].derived)
<1>1. import[i] \in ImportRow /\ import[i].derived \in Credentials \cup {None}
    BY DEF Inv, TypeOK, ImportRow
<1>2. /\ row # None /\ row.holder = import[i].holder /\ row.claims = import[i].claims
      /\ row.status = "DERIVING" /\ row.derived = import[i].derived
    <2>1. "DERIVING" \in Statuses
        BY DEF Statuses
    <2> HIDE DEF row
    <2> QED  BY <1>1, <2>1, WithStatusType DEF row
<1>3. import'[i] = row /\ \A j \in Imports \ {i} : import'[j] = import[j]
    BY DEF Inv, TypeOK, Claimed
<1> HIDE DEF row
<1>4. ImportCoherent(i)
    BY DEF Inv
<1>5. \A p \in Requests : ~Working(p, i)
    BY VerifiedIsFree
<1>6. ImportsKept
    BY <1>2, <1>3 DEF ImportsKept
<1>7. HiddenNeverStored' /\ SourcesRecorded'
    BY <1>3, <1>6, HiddenKept
<1>8. \A p \in Requests \ {r} : ~Working(p, i)'
    BY <1>5 DEF Working
<1>9. ExclusiveAt(i)'
    <2>1. ASSUME NEW p \in Requests, Working(p, i)' PROVE p = r
        BY <1>8, <2>1
    <2> QED  BY <1>2, <1>3, <2>1 DEF ExclusiveAt
<1>10. BackedAt(i)'
    BY <1>2, <1>3, <1>4 DEF ImportCoherent, BackedAt
<1>11. AccountedAt(i)'
    <2>1. Stored(i)' = Stored(i) /\ Linking(i)' = Linking(i)
        BY <1>5, <1>8 DEF Stored, Linking, Working
    <2>2. ~IsDerived(i) /\ ~IsDerived(i)'
        BY <1>2, <1>3 DEF IsDerived
    <2> QED  BY <1>4, <2>1, <2>2 DEF ImportCoherent, AccountedAt
<1>12. AbandonedAt(i)'
    BY <1>2, <1>3, <1>8 DEF AbandonedAt, Working, Busy
<1> QED  BY <1>6, <1>7, <1>9, <1>10, <1>11, <1>12 DEF ImportCoherent

LEMMA ClaimTypes ==
    ASSUME Inv, NEW i \in Imports, import[i] # None, import' = Claimed(i)
    PROVE  import' \in [Imports -> ImportRow \cup {None}]
<1>1. import[i] \in ImportRow /\ import[i].derived \in Credentials \cup {None}
    BY DEF Inv, TypeOK, ImportRow
<1>2. WithStatus(import[i], "DERIVING", import[i].derived) \in ImportRow
    BY <1>1, WithStatusType DEF Statuses
<1> QED  BY <1>2 DEF Inv, TypeOK, Claimed

LEMMA ClaimImportInv ==
    ASSUME Inv, NEW r \in Requests, ClaimImport(r)
    PROVE  Inv'
<1> DEFINE q == Go(request[r], "issue")
<1>1. request[r].step = "claim" /\ UNCHANGED <<credential, faults, orphans, abandoned>>
    BY DEF ClaimImport
<1>2. request[r] \in Request /\ RequestCoherent(r) /\ faults' \in 0..MaxFaults
    BY <1>1 DEF Inv, TypeOK, RequestsCoherent
<1>3. PICK i \in Imports : i = request[r].id /\ import[i] # None
    BY <1>1, <1>2 DEF RequestCoherent, DeriveSteps
<1>4. CASE import[i].status = "VERIFIED"
    <2>1. import' = Claimed(i) /\ request' = [request EXCEPT ![r] = q]
        BY <1>3, <1>4 DEF ClaimImport
    <2>2. /\ q \in Request /\ q.step = "issue" /\ q.id = i /\ q.row = request[r].row
        BY <1>2, <1>3 DEF Go, Holding, Request, Steps, DeriveSteps
    <2> HIDE DEF q
    <2>3. request'[r] = q /\ \A p \in Requests \ {r} : request'[p] = request[p]
        BY <2>1 DEF Inv, TypeOK
    <2>4. i \notin abandoned
        BY <1>3, <1>4 DEF Inv, ImportCoherent, AbandonedAt
    <2>5. ImportCoherent(i)' /\ ImportsKept /\ HiddenNeverStored' /\ SourcesRecorded'
        <3>1. Busy(request'[r], i)
            BY <2>2, <2>3 DEF Busy
        <3> QED  BY <1>1, <1>3, <1>4, <2>1, <2>2, <2>3, <2>4, <3>1, ClaimedCoherent
    <2>6. TypeOK'
        BY <1>1, <1>3, <2>1, <2>2, ClaimTypes DEF Inv, TypeOK
    <2>7. RequestCoherent(r)'
        BY <1>1, <1>2, <1>3, <2>2, <2>3, <2>5 DEF RequestCoherent, DeriveSteps, ImportsKept
    <2>8. /\ CredentialsKept
          /\ \A j \in Imports \ {i} :
                 /\ import'[j] = import[j] /\ orphans'[j] = orphans[j]
                 /\ j \in abandoned' <=> j \in abandoned
          /\ \A c \in Credentials :
                 credential'[c] # None /\ credential'[c].source # i => credential[c] # None
        BY <1>1, <2>1 DEF CredentialsKept, Claimed, Inv, TypeOK
    <2>9. \A j \in Imports : Busy(request[r], j) \/ Busy(request'[r], j) => j = i
        BY <1>1, <2>2, <2>3 DEF Busy
    <2> QED  BY <2>3, <2>5, <2>6, <2>7, <2>8, <2>9, StepAt
<1>5. CASE import[i].status # "VERIFIED"
    <2>1. request' = [request EXCEPT ![r] = Idle] /\ UNCHANGED import
        BY <1>3, <1>5 DEF ClaimImport
    <2>2. RequestCoherent(r)'
        BY <2>1, IdleType DEF RequestCoherent, DeriveSteps, Inv, TypeOK
    <2> QED  BY <1>1, <1>2, <2>1, <2>2, IdleType, FrontStep
<1> QED  BY <1>4, <1>5

LEMMA ClaimAnswerLostInv ==
    ASSUME Inv, NEW r \in Requests, ClaimAnswerLost(r)
    PROVE  Inv'
<1>1. PICK i \in Imports : i = request[r].id /\ import[i] # None
    BY DEF ClaimAnswerLost, Inv, RequestsCoherent, RequestCoherent, DeriveSteps
<1>2. /\ request[r].step = "claim" /\ import[i].status = "VERIFIED"
      /\ import' = Claimed(i) /\ request' = [request EXCEPT ![r] = Idle]
      /\ abandoned' = abandoned \cup {i} /\ UNCHANGED <<credential, orphans>>
      /\ faults' \in 0..MaxFaults
    BY <1>1, FaultType DEF ClaimAnswerLost
<1>3. request'[r] = Idle /\ \A p \in Requests \ {r} : request'[p] = request[p]
    BY <1>2 DEF Inv, TypeOK
<1>4. \A j \in Imports : ~Busy(request[r], j) /\ ~Busy(request'[r], j)
    BY <1>2, <1>3, IdleType DEF Busy
<1>5. ImportCoherent(i)' /\ ImportsKept /\ HiddenNeverStored' /\ SourcesRecorded'
    <2>1. request'[r].step = "idle" /\ i \in abandoned' /\ UNCHANGED <<credential, orphans>>
        BY <1>2, <1>3, IdleType
    <2>2. Busy(request'[r], i) <=> request'[r].step = "issue"
        BY <1>2, <1>4, <2>1
    <2> QED  BY <1>1, <1>2, <1>3, <2>1, <2>2, ClaimedCoherent
<1>6. TypeOK'
    BY <1>1, <1>2, IdleType, ClaimTypes DEF Inv, TypeOK
<1>7. RequestCoherent(r)'
    BY <1>3, IdleType DEF RequestCoherent, DeriveSteps
<1>8. /\ CredentialsKept
      /\ \A j \in Imports \ {i} :
             /\ import'[j] = import[j] /\ orphans'[j] = orphans[j]
             /\ j \in abandoned' <=> j \in abandoned
      /\ \A c \in Credentials :
             credential'[c] # None /\ credential'[c].source # i => credential[c] # None
    BY <1>2 DEF CredentialsKept, Claimed, Inv, TypeOK
<1> QED  BY <1>2, <1>3, <1>4, <1>5, <1>6, <1>7, <1>8, StepAt

-----------------------------------------------------------------------------
(* The derivation after its claim.                                         *)

LEMMA WorkedImport ==
    ASSUME Inv, NEW r \in Requests, request[r].step \in {"issue", "link", "release"}
    PROVE  \E i \in Imports : Busy(request[r], i)
BY DEF Inv, RequestsCoherent, RequestCoherent, DeriveSteps, Busy

\* What a request that works on import i knows of it.
LEMMA WorkFacts ==
    ASSUME Inv, NEW r \in Requests, NEW i \in Imports, Busy(request[r], i)
    PROVE  /\ request[r] \in Request /\ RequestCoherent(r)
           /\ import[i] \in ImportRow /\ import[i] # None /\ import[i].status # "FAILED"
           /\ \/ import[i].status = "DERIVING"
              \/ request[r].step = "release" /\ import[i].status = "DERIVED"
           /\ \A p \in Requests \ {r} : ~Busy(request[p], i)
           /\ \A j \in Imports : Busy(request[r], j) => j = i
           /\ i \notin abandoned
           /\ BackedAt(i) /\ AccountedAt(i)
           /\ orphans[i] \in Nat /\ Cardinality(Stored(i)) \in Nat
           /\ Cardinality(Linking(i)) = IF request[r].step = "link" THEN 1 ELSE 0
<1>1. request[r] \in Request /\ RequestCoherent(r) /\ ImportCoherent(i) /\ orphans[i] \in Nat
    BY DEF Inv, TypeOK, RequestsCoherent
<1>2. Working(r, i)
    BY DEF Working, Busy
<1>3. /\ import[i] # None
      /\ \/ import[i].status = "DERIVING"
         \/ request[r].step = "release" /\ import[i].status = "DERIVED"
      /\ \A p \in Requests : Working(p, i) => p = r
    <2>1. ExclusiveAt(i)
        BY <1>1 DEF ImportCoherent
    <2> QED  BY <1>2, <2>1 DEF ExclusiveAt
<1>4. import[i] \in ImportRow /\ import[i].status # "FAILED"
    BY <1>3 DEF Inv, TypeOK
<1>5. \A p \in Requests \ {r} : ~Busy(request[p], i)
    BY <1>3 DEF Working, Busy
<1>6. i \notin abandoned
    BY <1>1, <1>2 DEF ImportCoherent, AbandonedAt
<1>7. Cardinality(Stored(i)) \in Nat
    BY <1>1, FS_CardinalityType DEF ImportCoherent, AccountedAt
<1>8. Cardinality(Linking(i)) = IF request[r].step = "link" THEN 1 ELSE 0
    <2>1. Linking(i) = IF request[r].step = "link" THEN {r} ELSE {}
        BY <1>5 DEF Linking, Busy
    <2> QED  BY <2>1, FS_EmptySet, FS_Singleton
<1>9. \A j \in Imports : Busy(request[r], j) => j = i
    BY DEF Busy
<1> QED  BY <1>1, <1>3, <1>4, <1>5, <1>6, <1>7, <1>8, <1>9 DEF ImportCoherent

\* Such a request moves on, or is done with the import.
LEMMA WorkStep ==
    ASSUME Inv, NEW r \in Requests, NEW i \in Imports, Busy(request[r], i),
           \A p \in Requests \ {r} : request'[p] = request[p],
           request'[r].step = "idle" \/ Busy(request'[r], i),
           \A j \in Imports \ {i} : import'[j] = import[j] /\ orphans'[j] = orphans[j],
           import'[i] # None, import'[i].holder = import[i].holder,
           import'[i].claims = import[i].claims, import'[i].status # "FAILED",
           Busy(request'[r], i) => \/ import'[i].status = "DERIVING"
                                   \/ request'[r].step = "release" /\ import'[i].status = "DERIVED",
           abandoned' = abandoned \cup
               (IF request'[r].step = "idle" /\ import'[i].status = "DERIVING" THEN {i} ELSE {}),
           CredentialsKept,
           \A c \in Credentials : 
               credential'[c] # None /\ credential'[c].source # i => credential[c] # None,
           TypeOK', HiddenNeverStored', SourcesRecorded', RequestCoherent(r)',
           BackedAt(i)', AccountedAt(i)'
    PROVE  Inv'
<1>1. /\ \A p \in Requests \ {r} : ~Busy(request[p], i)
      /\ \A j \in Imports : Busy(request[r], j) => j = i
      /\ i \notin abandoned
    BY WorkFacts
<1>2. ImportsKept
    BY DEF ImportsKept
<1>3. \A p \in Requests : Busy(request'[p], i) => p = r
    BY <1>1
<1>4. ExclusiveAt(i)'
    <2>1. \A p \in Requests : Working(p, i)' => p = r /\ Busy(request'[r], i)
        BY <1>3 DEF Working, Busy
    <2> QED  BY <1>3, <2>1 DEF ExclusiveAt, Working, Busy
<1>5. AbandonedAt(i)'
    BY <1>1, <1>3 DEF AbandonedAt, Working, Busy
<1>6. ImportCoherent(i)'
    BY <1>4, <1>5 DEF ImportCoherent
<1>7. \A j \in Imports : Busy(request[r], j) \/ Busy(request'[r], j) => j = i
    BY <1>1 DEF Busy
<1>8. \A j \in Imports \ {i} :
          /\ import'[j] = import[j] /\ orphans'[j] = orphans[j]
          /\ j \in abandoned' <=> j \in abandoned
    OBVIOUS
<1>9. HiddenNeverStored' /\ SourcesRecorded'
    OBVIOUS
<1> QED  BY <1>2, <1>6, <1>7, <1>8, <1>9, StepAt

LEMMA LinkingAfter ==
    ASSUME Inv, NEW r \in Requests, NEW i \in Imports, Busy(request[r], i),
           \A p \in Requests \ {r} : request'[p] = request[p],
           request'[r].step = "idle" \/ Busy(request'[r], i)
    PROVE  Cardinality(Linking(i))' = IF request'[r].step = "link" THEN 1 ELSE 0
<1>1. \A p \in Requests \ {r} : ~Busy(request'[p], i)
    BY WorkFacts
<1>2. Linking(i)' = IF request'[r].step = "link" THEN {r} ELSE {}
    BY <1>1 DEF Linking, Busy
<1> QED  BY <1>2, FS_EmptySet, FS_Singleton

LEMMA StoredKept ==
    ASSUME credential' = credential, NEW i \in Imports
    PROVE  Stored(i)' = Stored(i)
BY DEF Stored

-----------------------------------------------------------------------------
(* Storing the credential.                                                 *)

LEMMA StoreCredential ==
    ASSUME Inv, NEW r \in Requests, NEW i \in Imports, NEW c \in Credentials,
           Busy(request[r], i), credential[c] = None, import' = import,
           credential' = [credential EXCEPT ![c] = Derived(request[r])]
    PROVE  /\ credential' \in [Credentials -> CredentialRow \cup {None}]
           /\ CredentialsKept
           /\ credential'[c] # None /\ credential'[c].source = i
           /\ credential'[c].holder = request[r].row.holder
           /\ \A e \in Credentials :
                  credential'[e] # None /\ credential'[e].source # i => credential[e] # None
           /\ HiddenNeverStored' /\ SourcesRecorded'
           /\ BackedAt(i)'
           /\ IsFiniteSet(Stored(i))' /\ Cardinality(Stored(i))' = Cardinality(Stored(i)) + 1
<1> DEFINE row == Derived(request[r])
<1>1. /\ import[i] \in ImportRow /\ import[i] # None /\ import[i].status # "FAILED"
      /\ RequestCoherent(r) /\ request[r] \in Request /\ BackedAt(i) /\ AccountedAt(i)
    BY WorkFacts
<1>2. /\ request[r].id = i /\ request[r].row \in ImportRow /\ request[r].row.claims # None
      /\ request[r].row.claims = import[i].claims
    BY <1>1 DEF Busy, RequestCoherent, DeriveSteps, Request
<1>3. import[i].claims \in SUBSET ClaimKeys
    BY <1>1, <1>2 DEF ImportRow
<1>4. row \in CredentialRow /\ row # None
    BY <1>2, <1>3, RowsAssumption DEF Derived, CredentialRow, DerivedClaims, ImportRow
<1>5. /\ row.source = i /\ row.claims \subseteq import[i].claims
      /\ row.claims \cap HiddenKeys = {} /\ row.holder = request[r].row.holder
    BY <1>2, <1>3 DEF Derived, DerivedClaims, DerivedPublicKeys, HiddenKeys
<1> HIDE DEF row
<1>6. credential'[c] = row /\ \A e \in Credentials \ {c} : credential'[e] = credential[e]
    BY DEF Inv, TypeOK, row
<1>7. credential' \in [Credentials -> CredentialRow \cup {None}]
    BY <1>4 DEF Inv, TypeOK, row
<1>8. CredentialsKept
    BY <1>6 DEF CredentialsKept
<1>9. HiddenNeverStored' /\ SourcesRecorded'
    BY <1>1, <1>5, <1>6 DEF Inv, HiddenNeverStored, SourcesRecorded
<1>10. BackedAt(i)'
    BY <1>1, <1>8 DEF BackedAt, CredentialsKept
<1>11. Stored(i)' = Stored(i) \cup {c} /\ c \notin Stored(i)
    BY <1>4, <1>5, <1>6 DEF Stored
<1>12. IsFiniteSet(Stored(i))' /\ Cardinality(Stored(i))' = Cardinality(Stored(i)) + 1
    BY <1>1, <1>11, FS_AddElement DEF AccountedAt
<1> QED  BY <1>4, <1>5, <1>6, <1>7, <1>8, <1>9, <1>10, <1>12

LEMMA IssueDerivedAcademicCredentialInv ==
    ASSUME Inv, NEW r \in Requests, NEW c \in Credentials, IssueDerivedAcademicCredential(r, c)
    PROVE  Inv'
<1> DEFINE q == Holding("link", request[r].id, request[r].row, c)
<1>1. /\ request[r].step = "issue" /\ credential[c] = None
      /\ credential' = [credential EXCEPT ![c] = Derived(request[r])]
      /\ request' = [request EXCEPT ![r] = q]
      /\ UNCHANGED <<import, faults, orphans, abandoned>>
    BY DEF IssueDerivedAcademicCredential
<1>2. PICK i \in Imports : Busy(request[r], i)
    BY <1>1, WorkedImport
<1>3. /\ import[i] # None /\ import[i].status = "DERIVING" /\ request[r] \in Request
      /\ orphans[i] \in Nat /\ Cardinality(Stored(i)) \in Nat
      /\ RequestCoherent(r) /\ AccountedAt(i) /\ Cardinality(Linking(i)) = 0
    BY <1>1, <1>2, WorkFacts
<1>4. q \in Request /\ q.step = "link" /\ q.id = i /\ q.row = request[r].row /\ q.credential = c
    BY <1>2, <1>3 DEF Holding, Request, Steps, DeriveSteps, Busy
<1> HIDE DEF q
<1>5. request'[r] = q /\ \A p \in Requests \ {r} : request'[p] = request[p]
    BY <1>1 DEF Inv, TypeOK
<1>6. /\ credential' \in [Credentials -> CredentialRow \cup {None}]
      /\ CredentialsKept
      /\ credential'[c] # None /\ credential'[c].source = i
      /\ credential'[c].holder = request[r].row.holder
      /\ \A e \in Credentials :
             credential'[e] # None /\ credential'[e].source # i => credential[e] # None
      /\ HiddenNeverStored' /\ SourcesRecorded' /\ BackedAt(i)'
      /\ IsFiniteSet(Stored(i))' /\ Cardinality(Stored(i))' = Cardinality(Stored(i)) + 1
    BY <1>1, <1>2, StoreCredential
<1>7. Busy(request'[r], i)
    BY <1>4, <1>5 DEF Busy
<1>8. AccountedAt(i)'
    <2>1. Cardinality(Linking(i))' = 1
        BY <1>2, <1>4, <1>5, <1>7, LinkingAfter
    <2>2. ~IsDerived(i) /\ ~IsDerived(i)'
        BY <1>1, <1>3 DEF IsDerived
    <2> QED  BY <1>1, <1>3, <1>6, <2>1, <2>2 DEF AccountedAt
<1>9. TypeOK'
    BY <1>1, <1>4, <1>6 DEF Inv, TypeOK
<1>10. RequestCoherent(r)'
    BY <1>1, <1>2, <1>3, <1>4, <1>5, <1>6 DEF RequestCoherent, DeriveSteps, Busy
<1>11. /\ abandoned' = abandoned \cup
              (IF request'[r].step = "idle" /\ import'[i].status = "DERIVING" THEN {i} ELSE {})
       /\ \A j \in Imports \ {i} : import'[j] = import[j] /\ orphans'[j] = orphans[j]
    BY <1>1, <1>4, <1>5
<1>12. /\ import'[i] # None /\ import'[i].holder = import[i].holder
       /\ import'[i].claims = import[i].claims /\ import'[i].status = "DERIVING"
    BY <1>1, <1>3
<1> QED  BY <1>2, <1>5, <1>6, <1>7, <1>8, <1>9, <1>10, <1>11, <1>12, WorkStep

LEMMA IssueAnswerLostInv ==
    ASSUME Inv, NEW r \in Requests, NEW c \in Credentials, IssueAnswerLost(r, c)
    PROVE  Inv'
<1> DEFINE q == Go(request[r], "release")
<1>1. /\ request[r].step = "issue" /\ credential[c] = None
      /\ credential' = [credential EXCEPT ![c] = Derived(request[r])]
      /\ request' = [request EXCEPT ![r] = q]
      /\ orphans' = [orphans EXCEPT ![request[r].id] = @ + 1]
      /\ UNCHANGED <<import, abandoned>> /\ faults' \in 0..MaxFaults
    BY FaultType DEF IssueAnswerLost
<1>2. PICK i \in Imports : Busy(request[r], i)
    BY <1>1, WorkedImport
<1>3. /\ import[i] # None /\ import[i].status = "DERIVING" /\ request[r] \in Request
      /\ orphans[i] \in Nat /\ Cardinality(Stored(i)) \in Nat
      /\ RequestCoherent(r) /\ AccountedAt(i) /\ Cardinality(Linking(i)) = 0
    BY <1>1, <1>2, WorkFacts
<1>4. q \in Request /\ q.step = "release" /\ q.id = i /\ q.row = request[r].row
    BY <1>2, <1>3 DEF Go, Holding, Request, Steps, DeriveSteps, Busy
<1> HIDE DEF q
<1>5. request'[r] = q /\ \A p \in Requests \ {r} : request'[p] = request[p]
    BY <1>1 DEF Inv, TypeOK
<1>6. /\ credential' \in [Credentials -> CredentialRow \cup {None}]
      /\ CredentialsKept
      /\ \A e \in Credentials :
             credential'[e] # None /\ credential'[e].source # i => credential[e] # None
      /\ HiddenNeverStored' /\ SourcesRecorded' /\ BackedAt(i)'
      /\ IsFiniteSet(Stored(i))' /\ Cardinality(Stored(i))' = Cardinality(Stored(i)) + 1
    BY <1>1, <1>2, StoreCredential
<1>7. Busy(request'[r], i)
    BY <1>4, <1>5 DEF Busy
<1>8. /\ orphans' \in [Imports -> Nat] /\ orphans'[i] = orphans[i] + 1
      /\ \A j \in Imports \ {i} : orphans'[j] = orphans[j]
    BY <1>1, <1>2, <1>3 DEF Inv, TypeOK, Busy
<1>9. AccountedAt(i)'
    <2>1. Cardinality(Linking(i))' = 0
        BY <1>2, <1>4, <1>5, <1>7, LinkingAfter
    <2>2. ~IsDerived(i) /\ ~IsDerived(i)'
        BY <1>1, <1>3 DEF IsDerived
    <2> QED  BY <1>3, <1>6, <1>8, <2>1, <2>2 DEF AccountedAt
<1>10. TypeOK'
    BY <1>1, <1>4, <1>6, <1>8 DEF Inv, TypeOK
<1>11. RequestCoherent(r)'
    BY <1>1, <1>2, <1>3, <1>4, <1>5 DEF RequestCoherent, DeriveSteps, Busy
<1>12. /\ abandoned' = abandoned \cup
              (IF request'[r].step = "idle" /\ import'[i].status = "DERIVING" THEN {i} ELSE {})
       /\ \A j \in Imports \ {i} : import'[j] = import[j] /\ orphans'[j] = orphans[j]
    BY <1>1, <1>4, <1>5, <1>8
<1>13. /\ import'[i] # None /\ import'[i].holder = import[i].holder
       /\ import'[i].claims = import[i].claims /\ import'[i].status = "DERIVING"
    BY <1>1, <1>3
<1> QED  BY <1>2, <1>5, <1>6, <1>7, <1>9, <1>10, <1>11, <1>12, <1>13, WorkStep

\* A step that throws before anything is stored, or that cuts a credential off,
\* leaves both tables alone.
LEMMA TablesKept ==
    ASSUME Inv, UNCHANGED <<import, credential>>, NEW i \in Imports, BackedAt(i)
    PROVE  /\ CredentialsKept /\ HiddenNeverStored' /\ SourcesRecorded' /\ BackedAt(i)'
           /\ \A c \in Credentials :
                  credential'[c] # None /\ credential'[c].source # i => credential[c] # None
           /\ Stored(i)' = Stored(i) /\ (IsDerived(i)' <=> IsDerived(i))
<1>1. ImportsKept /\ CredentialsKept
    BY DEF ImportsKept, CredentialsKept
<1>2. HiddenNeverStored' /\ SourcesRecorded'
    BY <1>1, HiddenKept
<1> QED  BY <1>1, <1>2 DEF BackedAt, Stored, IsDerived

LEMMA IssueFailsInv ==
    ASSUME Inv, NEW r \in Requests, IssueFails(r)
    PROVE  Inv'
<1> DEFINE q == Go(request[r], "release")
<1>1. /\ request[r].step = "issue" /\ request' = [request EXCEPT ![r] = q]
      /\ UNCHANGED <<import, credential, orphans, abandoned>> /\ faults' \in 0..MaxFaults
    BY FaultType DEF IssueFails
<1>2. PICK i \in Imports : Busy(request[r], i)
    BY <1>1, WorkedImport
<1>3. /\ import[i] # None /\ import[i].status = "DERIVING" /\ request[r] \in Request
      /\ RequestCoherent(r) /\ BackedAt(i) /\ AccountedAt(i) /\ Cardinality(Linking(i)) = 0
    BY <1>1, <1>2, WorkFacts
<1>4. q \in Request /\ q.step = "release" /\ q.id = i /\ q.row = request[r].row
    BY <1>2, <1>3 DEF Go, Holding, Request, Steps, DeriveSteps, Busy
<1> HIDE DEF q
<1>5. request'[r] = q /\ \A p \in Requests \ {r} : request'[p] = request[p]
    BY <1>1 DEF Inv, TypeOK
<1>6. /\ CredentialsKept /\ HiddenNeverStored' /\ SourcesRecorded' /\ BackedAt(i)'
      /\ \A c \in Credentials :
             credential'[c] # None /\ credential'[c].source # i => credential[c] # None
      /\ Stored(i)' = Stored(i) /\ (IsDerived(i)' <=> IsDerived(i))
    BY <1>1, <1>3, TablesKept
<1>7. Busy(request'[r], i)
    BY <1>4, <1>5 DEF Busy
<1>8. AccountedAt(i)'
    <2>1. Cardinality(Linking(i))' = 0
        BY <1>2, <1>4, <1>5, <1>7, LinkingAfter
    <2> QED  BY <1>1, <1>3, <1>6, <2>1 DEF AccountedAt
<1>9. TypeOK'
    BY <1>1, <1>4 DEF Inv, TypeOK
<1>10. RequestCoherent(r)'
    BY <1>1, <1>2, <1>3, <1>4, <1>5 DEF RequestCoherent, DeriveSteps, Busy
<1>11. /\ abandoned' = abandoned \cup
              (IF request'[r].step = "idle" /\ import'[i].status = "DERIVING" THEN {i} ELSE {})
       /\ \A j \in Imports \ {i} : import'[j] = import[j] /\ orphans'[j] = orphans[j]
    BY <1>1, <1>4, <1>5
<1>12. /\ import'[i] # None /\ import'[i].holder = import[i].holder
       /\ import'[i].claims = import[i].claims /\ import'[i].status = "DERIVING"
    BY <1>1, <1>3
<1> QED  BY <1>2, <1>5, <1>6, <1>7, <1>8, <1>9, <1>10, <1>11, <1>12, WorkStep

-----------------------------------------------------------------------------
(* Linking it, and giving the import back.                                 *)

LEMMA LinkedFacts ==
    ASSUME Inv, NEW r \in Requests, NEW i \in Imports, Busy(request[r], i),
           request[r].step = "link", import' = Linked(request[r]), UNCHANGED <<credential, orphans>>,
           \A p \in Requests \ {r} : request'[p] = request[p],
           request'[r].step # "link", request'[r].step = "idle" \/ Busy(request'[r], i)
    PROVE  /\ CredentialsKept /\ HiddenNeverStored' /\ SourcesRecorded'
           /\ \A c \in Credentials :
                  credential'[c] # None /\ credential'[c].source # i => credential[c] # None
           /\ import' \in [Imports -> ImportRow \cup {None}]
           /\ \A j \in Imports \ {i} : import'[j] = import[j]
           /\ import'[i] # None /\ import'[i].holder = import[i].holder
           /\ import'[i].claims = import[i].claims /\ import'[i].status = "DERIVED"
           /\ import[i].status = "DERIVING" /\ import'[i].derived = request[r].credential
           /\ BackedAt(i)' /\ AccountedAt(i)'
<1> DEFINE row == WithStatus(import[i], "DERIVED", request[r].credential)
<1>1. /\ import[i] \in ImportRow /\ import[i] # None /\ import[i].status = "DERIVING"
      /\ RequestCoherent(r) /\ BackedAt(i) /\ AccountedAt(i)
      /\ orphans[i] \in Nat /\ Cardinality(Stored(i)) \in Nat /\ Cardinality(Linking(i)) = 1
    BY WorkFacts
<1>2. /\ request[r].id = i /\ request[r].credential \in Credentials
      /\ credential[request[r].credential] # None
      /\ credential[request[r].credential].source = i
      /\ credential[request[r].credential].holder = import[i].holder
    BY <1>1 DEF Busy, RequestCoherent, DeriveSteps
<1>3. /\ row \in ImportRow /\ row # None /\ row.holder = import[i].holder
      /\ row.claims = import[i].claims /\ row.status = "DERIVED"
      /\ row.derived = request[r].credential
    <2>1. "DERIVED" \in Statuses
        BY DEF Statuses
    <2>2. request[r].credential \in Credentials \cup {None}
        BY <1>2
    <2> HIDE DEF row
    <2> QED  BY <1>1, <2>1, <2>2, WithStatusType DEF row
<1>4. import' = [import EXCEPT ![i] = row]
    BY <1>2 DEF Linked
<1> HIDE DEF row
<1>5. import'[i] = row /\ \A j \in Imports \ {i} : import'[j] = import[j]
    BY <1>4 DEF Inv, TypeOK
<1>6. import' \in [Imports -> ImportRow \cup {None}]
    BY <1>3, <1>4 DEF Inv, TypeOK
<1>7. ImportsKept /\ CredentialsKept
    BY <1>3, <1>5 DEF ImportsKept, CredentialsKept
<1>8. HiddenNeverStored' /\ SourcesRecorded'
    BY <1>1, <1>5, <1>7, HiddenKept
<1>9. BackedAt(i)'
    BY <1>2, <1>3, <1>5 DEF BackedAt
<1>10. AccountedAt(i)'
    <2>1. Cardinality(Linking(i))' = 0
        BY LinkingAfter
    <2>2. Stored(i)' = Stored(i)
        BY StoredKept
    <2>3. ~IsDerived(i) /\ IsDerived(i)'
        BY <1>1, <1>3, <1>5 DEF IsDerived
    <2> QED  BY <1>1, <2>1, <2>2, <2>3 DEF AccountedAt
<1> QED  BY <1>1, <1>3, <1>5, <1>6, <1>7, <1>8, <1>9, <1>10

LEMMA LinkCredentialInv ==
    ASSUME Inv, NEW r \in Requests, LinkCredential(r)
    PROVE  Inv'
<1>1. /\ request[r].step = "link" /\ import' = Linked(request[r])
      /\ request' = [request EXCEPT ![r] = Idle]
      /\ UNCHANGED <<credential, faults, orphans, abandoned>>
    BY DEF LinkCredential
<1>2. PICK i \in Imports : Busy(request[r], i)
    BY <1>1, WorkedImport
<1>3. request'[r] = Idle /\ \A p \in Requests \ {r} : request'[p] = request[p]
    BY <1>1 DEF Inv, TypeOK
<1>4. request'[r].step = "idle"
    BY <1>3, IdleType
<1>5. /\ CredentialsKept /\ HiddenNeverStored' /\ SourcesRecorded'
      /\ \A c \in Credentials :
             credential'[c] # None /\ credential'[c].source # i => credential[c] # None
      /\ import' \in [Imports -> ImportRow \cup {None}]
      /\ \A j \in Imports \ {i} : import'[j] = import[j]
      /\ import'[i] # None /\ import'[i].holder = import[i].holder
      /\ import'[i].claims = import[i].claims /\ import'[i].status = "DERIVED"
      /\ BackedAt(i)' /\ AccountedAt(i)'
    BY <1>1, <1>2, <1>3, <1>4, LinkedFacts
<1>6. TypeOK'
    BY <1>1, <1>5, IdleType DEF Inv, TypeOK
<1>7. RequestCoherent(r)'
    BY <1>4 DEF RequestCoherent, DeriveSteps
<1>8. /\ abandoned' = abandoned \cup
             (IF request'[r].step = "idle" /\ import'[i].status = "DERIVING" THEN {i} ELSE {})
      /\ \A j \in Imports \ {i} : import'[j] = import[j] /\ orphans'[j] = orphans[j]
      /\ ~Busy(request'[r], i)
    BY <1>1, <1>4, <1>5 DEF Busy
<1> QED  BY <1>2, <1>3, <1>4, <1>5, <1>6, <1>7, <1>8, WorkStep

LEMMA LinkAnswerLostInv ==
    ASSUME Inv, NEW r \in Requests, LinkAnswerLost(r)
    PROVE  Inv'
<1> DEFINE q == Go(request[r], "release")
<1>1. /\ request[r].step = "link" /\ import' = Linked(request[r])
      /\ request' = [request EXCEPT ![r] = q] /\ faults' \in 0..MaxFaults
      /\ UNCHANGED <<credential, orphans, abandoned>>
    BY FaultType DEF LinkAnswerLost
<1>2. PICK i \in Imports : Busy(request[r], i)
    BY <1>1, WorkedImport
<1>3. /\ request[r] \in Request /\ RequestCoherent(r) /\ import[i] # None
    BY <1>2, WorkFacts
<1>4. q \in Request /\ q.step = "release" /\ q.id = i /\ q.row = request[r].row
    BY <1>2, <1>3 DEF Go, Holding, Request, Steps, DeriveSteps, Busy
<1> HIDE DEF q
<1>5. request'[r] = q /\ \A p \in Requests \ {r} : request'[p] = request[p]
    BY <1>1 DEF Inv, TypeOK
<1>6. Busy(request'[r], i) /\ request'[r].step # "link"
    BY <1>4, <1>5 DEF Busy
<1>7. /\ CredentialsKept /\ HiddenNeverStored' /\ SourcesRecorded'
      /\ \A c \in Credentials :
             credential'[c] # None /\ credential'[c].source # i => credential[c] # None
      /\ import' \in [Imports -> ImportRow \cup {None}]
      /\ \A j \in Imports \ {i} : import'[j] = import[j]
      /\ import'[i] # None /\ import'[i].holder = import[i].holder
      /\ import'[i].claims = import[i].claims /\ import'[i].status = "DERIVED"
      /\ BackedAt(i)' /\ AccountedAt(i)'
    BY <1>1, <1>2, <1>5, <1>6, LinkedFacts
<1>8. TypeOK'
    BY <1>1, <1>4, <1>7 DEF Inv, TypeOK
<1>9. RequestCoherent(r)'
    BY <1>1, <1>2, <1>3, <1>4, <1>5, <1>7 DEF RequestCoherent, DeriveSteps, Busy
<1>10. /\ abandoned' = abandoned \cup
              (IF request'[r].step = "idle" /\ import'[i].status = "DERIVING" THEN {i} ELSE {})
       /\ \A j \in Imports \ {i} : import'[j] = import[j] /\ orphans'[j] = orphans[j]
       /\ request'[r].step = "release"
    BY <1>1, <1>4, <1>5, <1>7
<1> QED  BY <1>2, <1>5, <1>6, <1>7, <1>8, <1>9, <1>10, WorkStep

LEMMA LinkFailsInv ==
    ASSUME Inv, NEW r \in Requests, LinkFails(r)
    PROVE  Inv'
<1> DEFINE q == Go(request[r], "release")
<1>1. /\ request[r].step = "link" /\ request' = [request EXCEPT ![r] = q]
      /\ orphans' = [orphans EXCEPT ![request[r].id] = @ + 1]
      /\ UNCHANGED <<import, credential, abandoned>> /\ faults' \in 0..MaxFaults
    BY FaultType DEF LinkFails
<1>2. PICK i \in Imports : Busy(request[r], i)
    BY <1>1, WorkedImport
<1>3. /\ import[i] # None /\ import[i].status = "DERIVING" /\ request[r] \in Request
      /\ orphans[i] \in Nat /\ Cardinality(Stored(i)) \in Nat
      /\ RequestCoherent(r) /\ BackedAt(i) /\ AccountedAt(i) /\ Cardinality(Linking(i)) = 1
    BY <1>1, <1>2, WorkFacts
<1>4. q \in Request /\ q.step = "release" /\ q.id = i /\ q.row = request[r].row
    BY <1>2, <1>3 DEF Go, Holding, Request, Steps, DeriveSteps, Busy
<1> HIDE DEF q
<1>5. request'[r] = q /\ \A p \in Requests \ {r} : request'[p] = request[p]
    BY <1>1 DEF Inv, TypeOK
<1>6. /\ CredentialsKept /\ HiddenNeverStored' /\ SourcesRecorded' /\ BackedAt(i)'
      /\ \A c \in Credentials :
             credential'[c] # None /\ credential'[c].source # i => credential[c] # None
      /\ Stored(i)' = Stored(i) /\ (IsDerived(i)' <=> IsDerived(i))
    BY <1>1, <1>3, TablesKept
<1>7. Busy(request'[r], i)
    BY <1>4, <1>5 DEF Busy
<1>8. /\ orphans' \in [Imports -> Nat] /\ orphans'[i] = orphans[i] + 1
      /\ \A j \in Imports \ {i} : orphans'[j] = orphans[j]
    BY <1>1, <1>2, <1>3 DEF Inv, TypeOK, Busy
<1>9. AccountedAt(i)'
    <2>1. Cardinality(Linking(i))' = 0
        BY <1>2, <1>4, <1>5, <1>7, LinkingAfter
    <2> QED  BY <1>3, <1>6, <1>8, <2>1 DEF AccountedAt
<1>10. TypeOK'
    BY <1>1, <1>4, <1>8 DEF Inv, TypeOK
<1>11. RequestCoherent(r)'
    BY <1>1, <1>2, <1>3, <1>4, <1>5 DEF RequestCoherent, DeriveSteps, Busy
<1>12. /\ abandoned' = abandoned \cup
              (IF request'[r].step = "idle" /\ import'[i].status = "DERIVING" THEN {i} ELSE {})
       /\ \A j \in Imports \ {i} : import'[j] = import[j] /\ orphans'[j] = orphans[j]
    BY <1>1, <1>4, <1>5, <1>8
<1>13. /\ import'[i] # None /\ import'[i].holder = import[i].holder
       /\ import'[i].claims = import[i].claims /\ import'[i].status = "DERIVING"
    BY <1>1, <1>3
<1> QED  BY <1>2, <1>5, <1>6, <1>7, <1>9, <1>10, <1>11, <1>12, <1>13, WorkStep

LEMMA ReleaseImportInv ==
    ASSUME Inv, NEW r \in Requests, ReleaseImport(r)
    PROVE  Inv'
<1>1. /\ request[r].step = "release" /\ request' = [request EXCEPT ![r] = Idle]
      /\ UNCHANGED <<credential, faults, orphans, abandoned>>
    BY DEF ReleaseImport
<1>2. PICK i \in Imports : Busy(request[r], i)
    BY <1>1, WorkedImport
<1>3. /\ import[i] \in ImportRow /\ import[i] # None /\ import[i].status # "FAILED"
      /\ import[i].status = "DERIVING" \/ import[i].status = "DERIVED"
      /\ BackedAt(i) /\ AccountedAt(i) /\ Cardinality(Linking(i)) = 0
    BY <1>1, <1>2, WorkFacts
<1>4. request'[r] = Idle /\ \A p \in Requests \ {r} : request'[p] = request[p]
    BY <1>1 DEF Inv, TypeOK
<1>5. request'[r].step = "idle" /\ ~Busy(request'[r], i)
    BY <1>4, IdleType DEF Busy
<1>6. RequestCoherent(r)'
    BY <1>5 DEF RequestCoherent, DeriveSteps
<1>7. Cardinality(Linking(i))' = 0
    BY <1>2, <1>4, <1>5, LinkingAfter
<1>8. Stored(i)' = Stored(i)
    BY <1>1, StoredKept
<1>9. CASE import[i].status = "DERIVING"
    <2> DEFINE row == WithStatus(import[i], "VERIFIED", import[i].derived)
    <2>1. import' = [import EXCEPT ![i] = row]
        BY <1>2, <1>9 DEF ReleaseImport, Busy
    <2>2. /\ row \in ImportRow /\ row # None /\ row.holder = import[i].holder
          /\ row.claims = import[i].claims /\ row.status = "VERIFIED"
          /\ row.derived = import[i].derived
        <3>1. "VERIFIED" \in Statuses
            BY DEF Statuses
        <3>2. import[i].derived \in Credentials \cup {None}
            BY <1>3 DEF ImportRow
        <3> HIDE DEF row
        <3> QED  BY <1>3, <3>1, <3>2, WithStatusType DEF row
    <2> HIDE DEF row
    <2>3. import'[i] = row /\ \A j \in Imports \ {i} : import'[j] = import[j]
        BY <2>1 DEF Inv, TypeOK
    <2>4. TypeOK'
        BY <1>1, <2>1, <2>2, IdleType DEF Inv, TypeOK
    <2>5. ImportsKept /\ CredentialsKept
        BY <1>1, <2>2, <2>3 DEF ImportsKept, CredentialsKept
    <2>6. HiddenNeverStored' /\ SourcesRecorded'
        BY <1>1, <1>3, <2>3, <2>5, HiddenKept
    <2>7. BackedAt(i)'
        BY <1>3, <1>9, <2>2, <2>3 DEF BackedAt
    <2>8. AccountedAt(i)'
        <3>1. ~IsDerived(i) /\ ~IsDerived(i)'
            BY <1>9, <2>2, <2>3 DEF IsDerived
        <3> QED  BY <1>1, <1>3, <1>7, <1>8, <3>1 DEF AccountedAt
    <2>9. /\ abandoned' = abandoned \cup
                 (IF request'[r].step = "idle" /\ import'[i].status = "DERIVING" THEN {i} ELSE {})
          /\ \A j \in Imports \ {i} : import'[j] = import[j] /\ orphans'[j] = orphans[j]
          /\ \A c \in Credentials :
                 credential'[c] # None /\ credential'[c].source # i => credential[c] # None
        BY <1>1, <2>2, <2>3
    <2>10. /\ import'[i] # None /\ import'[i].holder = import[i].holder
           /\ import'[i].claims = import[i].claims /\ import'[i].status = "VERIFIED"
        BY <2>2, <2>3
    <2> QED  BY <1>2, <1>4, <1>5, <1>6, <2>4, <2>5, <2>6, <2>7, <2>8, <2>9, <2>10, WorkStep
<1>10. CASE import[i].status # "DERIVING"
    <2>1. import' = import
        BY <1>2, <1>10 DEF ReleaseImport, Busy
    <2>2. TypeOK'
        BY <1>1, <2>1, IdleType DEF Inv, TypeOK
    <2>3. /\ CredentialsKept /\ HiddenNeverStored' /\ SourcesRecorded' /\ BackedAt(i)'
          /\ \A c \in Credentials :
                 credential'[c] # None /\ credential'[c].source # i => credential[c] # None
          /\ (IsDerived(i)' <=> IsDerived(i))
        BY <1>1, <1>3, <2>1, TablesKept
    <2>4. AccountedAt(i)'
        BY <1>1, <1>3, <1>7, <1>8, <2>3 DEF AccountedAt
    <2>5. /\ abandoned' = abandoned \cup
                 (IF request'[r].step = "idle" /\ import'[i].status = "DERIVING" THEN {i} ELSE {})
          /\ \A j \in Imports \ {i} : import'[j] = import[j] /\ orphans'[j] = orphans[j]
          /\ import'[i] # None /\ import'[i].holder = import[i].holder
          /\ import'[i].claims = import[i].claims /\ import'[i].status # "FAILED"
        BY <1>1, <1>3, <1>10, <2>1
    <2> QED  BY <1>2, <1>4, <1>5, <1>6, <2>2, <2>3, <2>4, <2>5, WorkStep
<1> QED  BY <1>9, <1>10

LEMMA ReleaseFailsInv ==
    ASSUME Inv, NEW r \in Requests, ReleaseFails(r)
    PROVE  Inv'
<1>1. /\ request[r].step = "release" /\ request' = [request EXCEPT ![r] = Idle]
      /\ abandoned' = abandoned \cup LeftBehind({r})
      /\ UNCHANGED <<import, credential, orphans>> /\ faults' \in 0..MaxFaults
    BY FaultType DEF ReleaseFails
<1>2. PICK i \in Imports : Busy(request[r], i)
    BY <1>1, WorkedImport
<1>3. /\ import[i] # None /\ import[i].status # "FAILED"
      /\ BackedAt(i) /\ AccountedAt(i) /\ Cardinality(Linking(i)) = 0
    BY <1>1, <1>2, WorkFacts
<1>4. request'[r] = Idle /\ \A p \in Requests \ {r} : request'[p] = request[p]
    BY <1>1 DEF Inv, TypeOK
<1>5. request'[r].step = "idle" /\ ~Busy(request'[r], i)
    BY <1>4, IdleType DEF Busy
<1>6. RequestCoherent(r)'
    BY <1>5 DEF RequestCoherent, DeriveSteps
<1>7. /\ CredentialsKept /\ HiddenNeverStored' /\ SourcesRecorded' /\ BackedAt(i)'
      /\ \A c \in Credentials :
             credential'[c] # None /\ credential'[c].source # i => credential[c] # None
      /\ Stored(i)' = Stored(i) /\ (IsDerived(i)' <=> IsDerived(i))
    BY <1>1, <1>3, TablesKept
<1>8. AccountedAt(i)'
    <2>1. Cardinality(Linking(i))' = 0
        BY <1>2, <1>4, <1>5, LinkingAfter
    <2> QED  BY <1>1, <1>3, <1>7, <2>1 DEF AccountedAt
<1>9. LeftBehind({r}) = IF import[i].status = "DERIVING" THEN {i} ELSE {}
    BY <1>2, <1>3 DEF LeftBehind, Working, Busy
<1>10. TypeOK'
    BY <1>1, <1>9, IdleType DEF Inv, TypeOK
<1>11. /\ abandoned' = abandoned \cup
              (IF request'[r].step = "idle" /\ import'[i].status = "DERIVING" THEN {i} ELSE {})
       /\ \A j \in Imports \ {i} : import'[j] = import[j] /\ orphans'[j] = orphans[j]
       /\ import'[i] # None /\ import'[i].holder = import[i].holder
       /\ import'[i].claims = import[i].claims /\ import'[i].status # "FAILED"
    BY <1>1, <1>3, <1>5, <1>9
<1> QED  BY <1>2, <1>4, <1>5, <1>6, <1>7, <1>8, <1>10, <1>11, WorkStep

LEMMA CrashInv == ASSUME Inv, Crash PROVE Inv'
<1>1. /\ request' = [r \in Requests |-> Idle] /\ UNCHANGED <<import, credential>>
      /\ abandoned' = abandoned \cup LeftBehind(Requests) /\ faults' \in 0..MaxFaults
    BY FaultType DEF Crash
<1>2. ASSUME NEW i \in Imports
      PROVE  orphans'[i] = orphans[i] + Cardinality(Linking(i)) /\ Cardinality(Linking(i)) \in Nat
    <2>1. orphans'[i] = orphans[i] + Cardinality(Linking(i))
        BY DEF Crash, Linking
    <2>2. ASSUME NEW r \in Requests, Busy(request[r], i)
          PROVE  Cardinality(Linking(i)) \in Nat
        BY <2>2, WorkFacts
    <2>3. CASE ~\E r \in Requests : Busy(request[r], i)
        <3>1. Linking(i) = {}
            BY <2>3 DEF Linking, Busy
        <3>2. Cardinality(Linking(i)) \in Nat
            BY <3>1, FS_EmptySet
        <3> QED  BY <2>1, <3>2
    <2> QED  BY <2>1, <2>2, <2>3
<1>3. orphans' \in [Imports -> Nat]
    <2>1. orphans' = [i \in Imports |-> orphans[i] + Cardinality(Linking(i))]
        BY DEF Crash, Linking
    <2> QED  BY <1>2, <2>1 DEF Inv, TypeOK
<1>4. TypeOK'
    BY <1>1, <1>3, IdleType DEF Inv, TypeOK, LeftBehind
<1>5. HiddenNeverStored' /\ SourcesRecorded'
    BY <1>1 DEF Inv, HiddenNeverStored, SourcesRecorded
<1>6. RequestsCoherent'
    BY <1>1, IdleType DEF RequestsCoherent, RequestCoherent, DeriveSteps
<1>7. ASSUME NEW i \in Imports PROVE ImportCoherent(i)'
    <2>1. ImportCoherent(i) /\ orphans[i] \in Nat
        BY DEF Inv, TypeOK
    <2>2. \A r \in Requests : ~Busy(request'[r], i)
        BY <1>1, IdleType DEF Busy
    <2>3. Cardinality(Linking(i))' = 0
        <3>1. Linking(i)' = {}
            BY <2>2 DEF Linking, Busy
        <3> QED  BY <3>1, FS_EmptySet
    <2>4. Stored(i)' = Stored(i) /\ (IsDerived(i)' <=> IsDerived(i))
        BY <1>1 DEF Stored, IsDerived
    <2>5. AccountedAt(i)'
        BY <1>2, <2>1, <2>3, <2>4 DEF ImportCoherent, AccountedAt
    <2>6. BackedAt(i)'
        BY <1>1, <2>1 DEF ImportCoherent, BackedAt
    <2>7. ExclusiveAt(i)'
        BY <2>2 DEF ExclusiveAt, Working, Busy
    <2>8. AbandonedAt(i)'
        <3>1. i \in abandoned' <=> i \in abandoned \/ (/\ import[i] # None
                                                      /\ import[i].status = "DERIVING"
                                                      /\ \E r \in Requests : Working(r, i))
            BY <1>1 DEF LeftBehind
        <3>2. i \in abandoned' <=> import[i] # None /\ import[i].status = "DERIVING"
            BY <2>1, <3>1 DEF ImportCoherent, AbandonedAt
        <3> QED  BY <1>1, <2>2, <3>2 DEF AbandonedAt, Working, Busy
    <2> QED  BY <2>5, <2>6, <2>7, <2>8 DEF ImportCoherent
<1> QED  BY <1>4, <1>5, <1>6, <1>7 DEF Inv

-----------------------------------------------------------------------------
(* The theorems.                                                           *)

LEMMA NextInv == Inv /\ [Next]_vars => Inv'
<1> SUFFICES ASSUME Inv, [Next]_vars PROVE Inv'
    OBVIOUS
<1>1. ASSUME NEW r \in Requests, Arrival(r) PROVE Inv'
    BY <1>1, ImportOpenCertsInv, DeriveFromImportInv DEF Arrival
<1>2. ASSUME NEW r \in Requests, ImportStep(r) PROVE Inv'
    BY <1>2, VerifySourceInv, VerifierUnavailableInv, RecordImportInv DEF ImportStep
<1>3. ASSUME NEW r \in Requests, DeriveStep(r) PROVE Inv'
    <2>1. CASE ClaimImport(r) \/ ClaimAnswerLost(r)
        BY <2>1, ClaimImportInv, ClaimAnswerLostInv
    <2>2. ASSUME NEW c \in Credentials,
                 IssueDerivedAcademicCredential(r, c) \/ IssueAnswerLost(r, c)
          PROVE  Inv'
        BY <2>2, IssueDerivedAcademicCredentialInv, IssueAnswerLostInv
    <2>3. CASE IssueFails(r) \/ LinkCredential(r) \/ LinkFails(r) \/ LinkAnswerLost(r)
        BY <2>3, IssueFailsInv, LinkCredentialInv, LinkFailsInv, LinkAnswerLostInv
    <2>4. CASE ReleaseImport(r) \/ ReleaseFails(r)
        BY <2>4, ReleaseImportInv, ReleaseFailsInv
    <2> QED  BY <1>3, <2>1, <2>2, <2>3, <2>4 DEF DeriveStep
<1>4. CASE UNCHANGED vars
    <2>1. UNCHANGED <<TypeOK, HiddenNeverStored, SourcesRecorded, RequestsCoherent>>
        BY <1>4 DEF vars, TypeOK, HiddenNeverStored, SourcesRecorded, RequestsCoherent,
                    RequestCoherent
    <2>2. \A i \in Imports : ImportCoherent(i)' <=> ImportCoherent(i)
        BY <1>4 DEF vars, ImportCoherent, ExclusiveAt, BackedAt, AccountedAt, AbandonedAt,
                    Working, Stored, Linking, IsDerived
    <2> QED  BY <2>1, <2>2 DEF Inv
<1> QED  BY <1>1, <1>2, <1>3, <1>4, CrashInv DEF Next

\* Whatever requests overlap and wherever a fault or a restart strikes, the
\* tables, the requests and what each relies on stay coherent.
THEOREM BridgeStaysCoherent == Spec => []Inv
BY InitInv, NextInv, PTL DEF Spec

\* The tables, requests and histories of the bridge keep their shape.
THEOREM BridgeTypeCorrect == Spec => []TypeOK
BY BridgeStaysCoherent, PTL DEF Inv

\* The conditional update to DERIVING is a lock: of any number of derivations
\* of one import a single one issues a credential and only it gives the claim back.
THEOREM DerivationsExclude == Spec => []DerivationExclusive
BY BridgeStaysCoherent, InvImplies, PTL

\* A DERIVED import is linked to a stored credential of its holder that was made
\* from it, and an import in another status has no link.
THEOREM LinksAreBacked == Spec => []DerivedIsBacked
BY BridgeStaysCoherent, InvImplies, PTL

\* The credentials stored for an import are the linked one, those about to be
\* linked, and those a fault cut off: none appears otherwise and none is lost.
THEOREM CredentialsAreCounted == Spec => []CredentialsAccountedFor
BY BridgeStaysCoherent, InvImplies, PTL

\* An import is DERIVING with nobody at work on it exactly when a fault the code
\* does not handle left it so.
THEOREM AbandonedAreCounted == Spec => []AbandonedAccountedFor
BY BridgeStaysCoherent, InvImplies, PTL

\* What the preview leaves out of a document reaches neither an import row nor a
\* credential, and no credential comes from an import that failed.
THEOREM HiddenStaysOut == Spec => []HiddenNeverStored
BY BridgeStaysCoherent, PTL DEF Inv

-----------------------------------------------------------------------------
(* The refinement: what an import goes through, whatever fails.            *)

LEMMA InitMaps == Init => Lifecycle!Init
BY DEF Init, Lifecycle!Init

StatusOf(row) == IF row = None THEN None ELSE row.status
DerivedOf(row) == IF row = None THEN None ELSE row.derived

\* Only the columns the abstract import has matter to it.
LEMMA SameColumns ==
    ASSUME \A i \in Imports : /\ StatusOf(import'[i]) = StatusOf(import[i])
                              /\ DerivedOf(import'[i]) = DerivedOf(import[i])
    PROVE  UNCHANGED Lifecycle!vars
BY DEF Lifecycle!vars, StatusOf, DerivedOf

\* The columns as the abstract import has them.
StatusColumn == [j \in Imports |-> IF import[j] = None THEN None ELSE import[j].status]
DerivedColumn == [j \in Imports |-> IF import[j] = None THEN None ELSE import[j].derived]

\* A step that writes one row writes one element of each column.
LEMMA OneRow ==
    ASSUME NEW i \in Imports, NEW row, row # None,
           import' = [import EXCEPT ![i] = row], import \in [Imports -> ImportRow \cup {None}]
    PROVE  /\ StatusColumn' = [StatusColumn EXCEPT ![i] = row.status]
           /\ DerivedColumn' = [DerivedColumn EXCEPT ![i] = row.derived]
           /\ row.derived = DerivedOf(import[i]) => DerivedColumn' = DerivedColumn
BY DEF DerivedOf, StatusColumn, DerivedColumn

\* Every step but the recording of an import writes its row with WithStatus.
LEMMA Rewritten ==
    ASSUME Inv, NEW i \in Imports, import[i] # None,
           NEW status \in Statuses, NEW c \in Credentials \cup {None},
           import' = [import EXCEPT ![i] = WithStatus(import[i], status, c)]
    PROVE  /\ StatusColumn' = [StatusColumn EXCEPT ![i] = status]
           /\ DerivedColumn' = [DerivedColumn EXCEPT ![i] = c]
           /\ c = import[i].derived => DerivedColumn' = DerivedColumn
<1> DEFINE row == WithStatus(import[i], status, c)
<1>1. import \in [Imports -> ImportRow \cup {None}]
    BY DEF Inv, TypeOK
<1>2. import[i] \in ImportRow
    BY <1>1
<1>3. row # None /\ row.status = status /\ row.derived = c
    BY <1>2, WithStatusType
<1>4. import' = [import EXCEPT ![i] = row]
    OBVIOUS
<1>5. import[i].derived = DerivedOf(import[i])
    BY DEF DerivedOf
<1> HIDE DEF row
<1> QED  BY <1>1, <1>3, <1>4, <1>5, OneRow

LEMMA RecordMaps ==
    ASSUME Inv, NEW r \in Requests, NEW i \in Imports, RecordImport(r, i)
    PROVE  \E s \in {"VERIFIED", "FAILED"} : Lifecycle!Record(i, s)
<1> DEFINE row == request[r].row
<1>1. import[i] = None /\ import' = [import EXCEPT ![i] = row]
    BY DEF RecordImport
<1>2. row # None /\ row.derived = None /\ row.status \in {"VERIFIED", "FAILED"}
    BY DEF Inv, RequestsCoherent, RequestCoherent, RecordImport
<1>3. import \in [Imports -> ImportRow \cup {None}]
    BY DEF Inv, TypeOK
<1> HIDE DEF row
<1>4. row.derived = DerivedOf(import[i])
    BY <1>1, <1>2 DEF DerivedOf
<1>5. StatusColumn' = [StatusColumn EXCEPT ![i] = row.status] /\ DerivedColumn' = DerivedColumn
    BY <1>1, <1>2, <1>3, <1>4, OneRow
<1>6. PICK s \in {"VERIFIED", "FAILED"} : s = row.status
    BY <1>2
<1>7. Lifecycle!Record(i, s)
    BY <1>1, <1>5, <1>6 DEF Lifecycle!Record, StatusColumn, DerivedColumn
<1> QED  BY <1>7

LEMMA ClaimMaps ==
    ASSUME Inv, NEW i \in Imports, import[i] # None, import[i].status = "VERIFIED",
           import' = Claimed(i)
    PROVE  Lifecycle!Claim(i)
<1>1. import[i].derived \in Credentials \cup {None}
    BY DEF Inv, TypeOK, ImportRow
<1>2. import' = [import EXCEPT ![i] = WithStatus(import[i], "DERIVING", import[i].derived)]
    BY DEF Claimed
<1>3. "DERIVING" \in Statuses
    BY DEF Statuses
<1>4. /\ StatusColumn' = [StatusColumn EXCEPT ![i] = "DERIVING"]
      /\ DerivedColumn' = DerivedColumn
    BY <1>1, <1>2, <1>3, Rewritten
<1> QED  BY <1>4 DEF Lifecycle!Claim, StatusColumn, DerivedColumn

\* A request that gives an import back maps to a step of the abstract import when
\* the import is still claimed, and leaves it alone when it is derived already.
LEMMA ReleaseMaps ==
    ASSUME Inv, NEW r \in Requests, ReleaseImport(r)
    PROVE  (\E i \in Imports : Lifecycle!GiveBack(i)) \/ UNCHANGED Lifecycle!vars
<1>1. PICK i \in Imports : i = request[r].id /\ Busy(request[r], i)
    BY WorkedImport DEF ReleaseImport, Busy
<1>2. import[i] # None
    BY <1>1, WorkFacts
<1>3. CASE import[i].status = "DERIVING"
    <2>1. import' = [import EXCEPT ![i] = WithStatus(import[i], "VERIFIED", import[i].derived)]
        BY <1>1, <1>3 DEF ReleaseImport
    <2>2. import[i].derived \in Credentials \cup {None} /\ "VERIFIED" \in Statuses
        BY <1>2 DEF Inv, TypeOK, ImportRow, Statuses
    <2>3. /\ StatusColumn' = [StatusColumn EXCEPT ![i] = "VERIFIED"]
          /\ DerivedColumn' = DerivedColumn
        BY <1>2, <2>1, <2>2, Rewritten
    <2>4. Lifecycle!GiveBack(i)
        BY <1>2, <1>3, <2>3 DEF Lifecycle!GiveBack, StatusColumn, DerivedColumn
    <2> QED  BY <2>4
<1>4. CASE import[i].status # "DERIVING"
    BY <1>1, <1>4, SameColumns DEF ReleaseImport
<1> QED  BY <1>3, <1>4

\* The credential a request links was made from its own import, so no other
\* import has it.
LEMMA LinkMaps ==
    ASSUME Inv, NEW r \in Requests, request[r].step = "link", import' = Linked(request[r])
    PROVE  \E i \in Imports : \E c \in Credentials : Lifecycle!Derive(i, c)
<1>1. PICK i \in Imports : i = request[r].id /\ Busy(request[r], i)
    BY WorkedImport DEF Busy
<1>2. /\ import[i] # None /\ import[i].status = "DERIVING" /\ RequestCoherent(r)
    BY <1>1, WorkFacts
<1>3. PICK c \in Credentials : /\ c = request[r].credential
                               /\ credential[c] # None /\ credential[c].source = i
    BY <1>1, <1>2 DEF RequestCoherent
<1>4. import' = [import EXCEPT ![i] = WithStatus(import[i], "DERIVED", c)]
    BY <1>1, <1>3 DEF Linked
<1>5. "DERIVED" \in Statuses /\ c \in Credentials \cup {None}
    BY DEF Statuses
<1>6. c # None
    BY ImportAssumption
<1>7. ASSUME NEW j \in Imports, import[j] # None PROVE import[j].derived # c
    <2>1. BackedAt(j)
        BY DEF Inv, ImportCoherent
    <2>2. CASE import[j].status = "DERIVED"
        BY <1>2, <1>3, <1>7, <2>1, <2>2 DEF BackedAt
    <2>3. CASE import[j].status # "DERIVED"
        BY <1>6, <1>7, <2>1, <2>3 DEF BackedAt
    <2> QED  BY <2>2, <2>3
<1>8. /\ StatusColumn' = [StatusColumn EXCEPT ![i] = "DERIVED"]
      /\ DerivedColumn' = [DerivedColumn EXCEPT ![i] = c]
    <2>1. PICK row : row = WithStatus(import[i], "DERIVED", c)
        OBVIOUS
    <2>2. import \in [Imports -> ImportRow \cup {None}] /\ import[i] \in ImportRow
        BY <1>2 DEF Inv, TypeOK
    <2>3. row # None /\ row.status = "DERIVED" /\ row.derived = c
        BY <1>5, <2>1, <2>2, WithStatusType
    <2>4. import' = [import EXCEPT ![i] = row]
        BY <1>4, <2>1
    <2>5. /\ StatusColumn' = [StatusColumn EXCEPT ![i] = row.status]
          /\ DerivedColumn' = [DerivedColumn EXCEPT ![i] = row.derived]
        BY <2>2, <2>3, <2>4, OneRow
    <2> QED  BY <2>3, <2>5
<1>9. Lifecycle!Derive(i, c)
    BY <1>2, <1>6, <1>7, <1>8 DEF Lifecycle!Derive, StatusColumn, DerivedColumn
<1> QED  BY <1>9

LEMMA NextMaps == Inv /\ [Next]_vars => [Lifecycle!Next]_(Lifecycle!vars)
<1> SUFFICES ASSUME Inv, [Next]_vars PROVE Lifecycle!Next \/ UNCHANGED Lifecycle!vars
    OBVIOUS
<1>1. import' = import => UNCHANGED Lifecycle!vars
    BY SameColumns
<1>2. ASSUME NEW r \in Requests, NEW i \in Imports, RecordImport(r, i) PROVE Lifecycle!Next
    <2>1. PICK s \in {"VERIFIED", "FAILED"} : Lifecycle!Record(i, s)
        BY <1>2, RecordMaps
    <2> QED  BY <2>1 DEF Lifecycle!Next
<1>3. ASSUME NEW r \in Requests, ClaimImport(r) \/ ClaimAnswerLost(r)
      PROVE  Lifecycle!Next \/ UNCHANGED import
    <2>1. PICK i \in Imports : i = request[r].id /\ import[i] # None
        BY <1>3 DEF Inv, RequestsCoherent, RequestCoherent, DeriveSteps, ClaimImport,
                    ClaimAnswerLost
    <2>2. \/ import[i].status = "VERIFIED" /\ import' = Claimed(i)
          \/ UNCHANGED import
        BY <1>3, <2>1 DEF ClaimImport, ClaimAnswerLost
    <2> QED  BY <2>1, <2>2, ClaimMaps DEF Lifecycle!Next
<1>4. ASSUME NEW r \in Requests, LinkCredential(r) \/ LinkAnswerLost(r) PROVE Lifecycle!Next
    BY <1>4, LinkMaps DEF Lifecycle!Next, LinkCredential, LinkAnswerLost
<1>5. ASSUME NEW r \in Requests, ReleaseImport(r) PROVE Lifecycle!Next \/ UNCHANGED Lifecycle!vars
    BY <1>5, ReleaseMaps DEF Lifecycle!Next
<1>6. ASSUME NEW r \in Requests, Arrival(r) PROVE UNCHANGED import
    BY <1>6 DEF Arrival, ImportOpenCerts, DeriveFromImport
<1>7. ASSUME NEW r \in Requests, VerifySource(r) \/ VerifierUnavailable(r) PROVE UNCHANGED import
    BY <1>7 DEF VerifySource, VerifierUnavailable
<1>8. ASSUME NEW r \in Requests, NEW c \in Credentials,
             IssueDerivedAcademicCredential(r, c) \/ IssueAnswerLost(r, c)
      PROVE  UNCHANGED import
    BY <1>8 DEF IssueDerivedAcademicCredential, IssueAnswerLost
<1>9. ASSUME NEW r \in Requests, IssueFails(r) \/ LinkFails(r) \/ ReleaseFails(r)
      PROVE  UNCHANGED import
    BY <1>9 DEF IssueFails, LinkFails, ReleaseFails
<1>10. ASSUME NEW r \in Requests, DeriveStep(r) PROVE Lifecycle!Next \/ UNCHANGED Lifecycle!vars
    BY <1>1, <1>3, <1>4, <1>5, <1>8, <1>9, <1>10 DEF DeriveStep
<1>11. CASE Crash \/ UNCHANGED vars
    BY <1>1, <1>11 DEF Crash, vars
<1> QED  BY <1>1, <1>2, <1>6, <1>7, <1>10, <1>11 DEF Next, ImportStep

\* Through every interleaving, fault and restart an import goes through the
\* lifecycle the holder is promised: recorded once, claimed and given back,
\* derived with a credential that serves no other import, or failed for good.
THEOREM LifecycleHolds == Spec => ImplementsLifecycle
<1>1. Init => Lifecycle!Init
    BY InitMaps
<1>2. Inv /\ [Next]_vars => [Lifecycle!Next]_(Lifecycle!vars)
    BY NextMaps
<1> QED  BY <1>1, <1>2, BridgeStaysCoherent, PTL DEF Spec, Lifecycle!Spec, ImplementsLifecycle
=============================================================================
