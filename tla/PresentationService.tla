------------------------- MODULE PresentationService -------------------------
(***************************************************************************)
(* Share links of RevealID: a holder turns a wallet credential into a link *)
(* that discloses some of its claims, a verifier redeems the link, the     *)
(* holder may cancel it and the issuer may revoke the credential.          *)
(*                                                                         *)
(* The API is one Node process over a Postgres database.  A handler runs   *)
(* without interruption between two awaits; its database calls are atomic  *)
(* one by one, and nothing ties two of them together.  So a request is a   *)
(* program counter with the rows it has read, and an action is what runs   *)
(* from one await to the next.                                             *)
(*   apps/api/src/credentials/presentation-service.ts                      *)
(*   apps/api/src/credentials/credential-status-service.ts                 *)
(***************************************************************************)
EXTENDS Naturals, FiniteSets

CONSTANTS
    Holders, Issuers,       \* users with role HOLDER, with role ISSUER
    Credentials, Shares,    \* identifiers the database may allot
    Requests,               \* requests the process serves at a time
    ClaimSets,              \* the claim sets a credential may carry
    ShareTtls,              \* lifetimes a holder may ask for a share
    CredentialTtl,          \* lifetime of a credential (five years in the code)
    Second,                 \* one second, in ticks
    ViewLimits,             \* the maxViews a holder may ask for
    MaxTime,                \* bound: the clock stops here
    MaxRestarts,            \* bound: restarts of the process
    MaxVerifications,       \* bound: verification requests received
    EncryptionKeyConfigured,\* CREDENTIAL_ENCRYPTION_KEY is set
    IssuerKeyConfigured,    \* ISSUER_PRIVATE_JWK is set
    None                    \* an absent row or value

ASSUME BoundsAssumption ==
    /\ MaxTime \in Nat /\ MaxRestarts \in Nat /\ MaxVerifications \in Nat
    /\ ShareTtls \subseteq Nat /\ CredentialTtl \in Nat /\ Second \in Nat \ {0}
    /\ ViewLimits \subseteq Nat \ {0}      \* contracts: maxViews is at least 1
ASSUME NamesAssumption ==
    /\ None \notin Shares \cup Credentials \cup Nat
    /\ Shares \cap {"unknown", "malformed"} = {}

VARIABLES
    now,            \* Date.now(), in ticks
    process,        \* which run of the API process this is
    holderKey,      \* table HolderKey: the process whose key seals it
    credential,     \* table Credential
    share,          \* table Share
    audit,          \* table VerificationAudit: rows per share and result
    request,        \* the requests in progress
    received,       \* verification requests received so far
    delivered,      \* history: answers verifiers received, per share and result
    overlapped      \* history: shares read for a verification while another one
                    \* that had read them had not counted its view yet

database == <<holderKey, credential, share, audit>>
vars == <<now, process, database, request, received, delivered, overlapped>>

-----------------------------------------------------------------------------
Results == {"verified", "invalid"}
FailureCodes == {"unknown", "malformed", "expired", "cancelled", "exhausted",
                 "revoked", "tampered"}
Verdicts == {"verified"} \cup FailureCodes

CheckOrder == << "share_token", "share_state", "presentation_decryption",
                 "issuer_signature", "disclosure_digests", "holder_binding",
                 "audience", "nonce", "credential_expiry", "credential_status" >>
CheckIds == {CheckOrder[i] : i \in 1..10}
CryptoChecks == {CheckOrder[i] : i \in 4..8}
NoChecks == [c \in CheckIds |-> "skipped"]
Mark(checks, passed, failed) ==
    [c \in CheckIds |-> IF c \in failed THEN "failed"
                        ELSE IF c \in passed THEN "passed" ELSE checks[c]]

\* A random token nobody was given, and one too short to be a token at all.
BadTokens == {"unknown", "malformed"}

Processes == 0..MaxRestarts
CredentialRow ==
    [holder: Holders, issuer: Issuers, claims: ClaimSets,
     expiresAt: Nat, exp: Nat, revoked: BOOLEAN, madeBy: Processes]
ShareRow ==
    [credential: Credentials, holder: Holders, disclosed: UNION {SUBSET C : C \in ClaimSets},
     expiresAt: Nat, maxViews: ViewLimits, views: Nat, cancelled: BOOLEAN, madeBy: Processes]

VerifySteps == {"state", "presentation", "count", "audit", "reply"}
Steps == {"idle", "create", "cancel", "revoke"} \cup VerifySteps
Request ==
    [step: Steps, id: Shares \cup Credentials \cup BadTokens \cup {None},
     share: ShareRow \cup {None}, credential: CredentialRow \cup {None},
     verdict: Verdicts \cup {None}, checks: [CheckIds -> {"skipped", "passed", "failed"}]]
Start(step, id, srow, crow) ==
    [step |-> step, id |-> id, share |-> srow, credential |-> crow,
     verdict |-> None, checks |-> NoChecks]
Decide(q, verdict, checks, step) ==
    [step |-> step, id |-> q.id, share |-> q.share, credential |-> q.credential,
     verdict |-> verdict, checks |-> checks]
MoveTo(q, step) == Decide(q, q.verdict, q.checks, step)
Idle == Start("idle", None, None, None)

\* An absent row is not a row.
ASSUME RowsAssumption == None \notin ShareRow /\ None \notin CredentialRow

\* With no configured key the process draws one when it starts, so what an
\* earlier process sealed or signed is out of its reach.
CanOpen(p) == EncryptionKeyConfigured \/ p = process
SameIssuerKey(p) == IssuerKeyConfigured \/ p = process

Init ==
    /\ now = 0
    /\ process = 0
    /\ holderKey = [h \in Holders |-> None]
    /\ credential = [c \in Credentials |-> None]
    /\ share = [s \in Shares |-> None]
    /\ audit = [s \in Shares \cup {None} |-> [x \in Results |-> 0]]
    /\ request = [r \in Requests |-> Idle]
    /\ received = 0
    /\ delivered = [s \in Shares \cup {None} |-> [x \in Results |-> 0]]
    /\ overlapped = {}

-----------------------------------------------------------------------------
(* Issuance, as far as sharing sees it.  The two database writes of the    *)
(* handler are two actions: a request that dies between them leaves the    *)
(* holder key and no credential.  The row keeps its expiry, the signed     *)
(* credential inside it (exp) the second in which that falls.              *)

Seconds(t) == t \div Second

EnsureHolderKey(h) ==
    /\ holderKey[h] = None
    /\ holderKey' = [holderKey EXCEPT ![h] = process]
    /\ UNCHANGED <<now, process, credential, share, audit, request, received, delivered, overlapped>>

\* Mutant: the expiry is left out of the row.
IssueWithoutExpiry(c, h, i, C) ==
    /\ credential[c] = None
    /\ holderKey[h] # None
    /\ credential' = [credential EXCEPT ![c] =
           [holder |-> h, issuer |-> i, claims |-> C, expiresAt |-> None,
            exp |-> Seconds(now + CredentialTtl), revoked |-> FALSE, madeBy |-> process]]
    /\ UNCHANGED <<now, process, holderKey, share, audit, request, received, delivered, overlapped>>

IssueCredential(c, h, i, C) ==
    /\ credential[c] = None
    /\ holderKey[h] # None
    /\ credential' = [credential EXCEPT ![c] =
           [holder |-> h, issuer |-> i, claims |-> C, expiresAt |-> now + CredentialTtl,
            exp |-> Seconds(now + CredentialTtl), revoked |-> FALSE, madeBy |-> process]]
    /\ UNCHANGED <<now, process, holderKey, share, audit, request, received, delivered, overlapped>>

-----------------------------------------------------------------------------
(* createShare.  The refusals (credential not found, credential revoked,   *)
(* claim not found, an envelope that does not open) change nothing.        *)

\* Mutant: the claims asked for are not looked up in the credential.
CreateShareOfAnyClaims(r, h, c, D, ttl, limit, s) ==
    /\ request[r] = Idle
    /\ share[s] = None
    /\ \A q \in Requests : request[q].id # s
    /\ credential[c] # None
    /\ credential[c].holder = h
    /\ ~credential[c].revoked
    /\ CanOpen(credential[c].madeBy)
    /\ CanOpen(holderKey[h])
    /\ request' = [request EXCEPT ![r] = Start("create", s,
           [credential |-> c, holder |-> h, disclosed |-> D, expiresAt |-> now + ttl,
            maxViews |-> limit, views |-> 0, cancelled |-> FALSE, madeBy |-> process], None)]
    /\ UNCHANGED <<now, process, database, received, delivered, overlapped>>

CreateShare(r, h, c, D, ttl, limit, s) ==
    /\ request[r] = Idle
    /\ share[s] = None
    /\ \A q \in Requests : request[q].id # s
    /\ credential[c] # None
    /\ credential[c].holder = h
    /\ ~credential[c].revoked
    /\ D \subseteq credential[c].claims
    /\ CanOpen(credential[c].madeBy)
    /\ CanOpen(holderKey[h])
    /\ LET row == [credential |-> c, holder |-> h, disclosed |-> D, expiresAt |-> now + ttl,
                   maxViews |-> limit, views |-> 0, cancelled |-> FALSE, madeBy |-> process]
       IN  request' = [request EXCEPT ![r] = Start("create", s, row, None)]
    /\ UNCHANGED <<now, process, database, received, delivered, overlapped>>

CreateShareRow(r) ==
    /\ request[r].step = "create"
    /\ share' = [share EXCEPT ![request[r].id] = request[r].share]
    /\ request' = [request EXCEPT ![r] = Idle]
    /\ UNCHANGED <<now, process, holderKey, credential, audit, received, delivered, overlapped>>

(* cancelShare: look the share up under its holder, then update it whatever*)
(* its state is.                                                           *)
CancelShare(r, h, s) ==
    /\ request[r] = Idle
    /\ share[s] # None
    /\ share[s].holder = h
    /\ request' = [request EXCEPT ![r] = Start("cancel", s, None, None)]
    /\ UNCHANGED <<now, process, database, received, delivered, overlapped>>

\* Mutant: cancelling deletes the row.
CancelShareDeletes(r) ==
    /\ request[r].step = "cancel"
    /\ share' = [share EXCEPT ![request[r].id] = None]
    /\ request' = [request EXCEPT ![r] = Idle]
    /\ UNCHANGED <<now, process, holderKey, credential, audit, received, delivered, overlapped>>

CancelShareRow(r) ==
    /\ request[r].step = "cancel"
    /\ share' = [share EXCEPT ![request[r].id].cancelled = TRUE]
    /\ request' = [request EXCEPT ![r] = Idle]
    /\ UNCHANGED <<now, process, holderKey, credential, audit, received, delivered, overlapped>>

(* revokeCredential: a credential already revoked is answered from the row *)
(* that was read.                                                          *)
RevokeCredential(r, i, c) ==
    /\ request[r] = Idle
    /\ credential[c] # None
    /\ credential[c].issuer = i
    /\ ~credential[c].revoked
    /\ request' = [request EXCEPT ![r] = Start("revoke", c, None, None)]
    /\ UNCHANGED <<now, process, database, received, delivered, overlapped>>

RevokeCredentialRow(r) ==
    /\ request[r].step = "revoke"
    /\ credential' = [credential EXCEPT ![request[r].id].revoked = TRUE]
    /\ request' = [request EXCEPT ![r] = Idle]
    /\ UNCHANGED <<now, process, holderKey, share, audit, received, delivered, overlapped>>

-----------------------------------------------------------------------------
(* verifyCredential, in five steps: one read of share and credential, the  *)
(* state of the link, the presentation and its credential, the view count, *)
(* the audit row.                                                          *)

Tokens == {s \in Shares : share[s] # None} \cup BadTokens

\* A verification has read the share and not counted a view.
Uncounted(r, s) ==
    /\ request[r].step \in {"state", "presentation", "count"}
    /\ request[r].id = s /\ s \in Shares

ReadShare(r, t) ==
    /\ request[r] = Idle
    /\ received < MaxVerifications
    /\ received' = received + 1
    /\ request' = [request EXCEPT ![r] =
           IF t \in BadTokens THEN Start("state", t, None, None)
           ELSE Start("state", t, share[t], credential[share[t].credential])]
    /\ overlapped' = IF \E p \in Requests : Uncounted(p, t) THEN overlapped \cup {t}
                     ELSE overlapped
    /\ UNCHANGED <<now, process, database, delivered>>

\* Mutants: one view too many; a cancelled link still answers.
LinkVerdictOffByOne(token, row) ==
    IF row = None THEN IF token = "malformed" THEN "malformed" ELSE "unknown"
    ELSE IF row.cancelled THEN "cancelled"
    ELSE IF row.expiresAt <= now THEN "expired"
    ELSE IF row.views > row.maxViews THEN "exhausted"
    ELSE IF ~CanOpen(row.madeBy) THEN "tampered"
    ELSE "verified"
LinkVerdictIgnoringCancel(token, row) ==
    IF row = None THEN IF token = "malformed" THEN "malformed" ELSE "unknown"
    ELSE IF row.expiresAt <= now THEN "expired"
    ELSE IF row.views >= row.maxViews THEN "exhausted"
    ELSE IF ~CanOpen(row.madeBy) THEN "tampered"
    ELSE "verified"

LinkVerdict(token, row) ==
    IF row = None THEN IF token = "malformed" THEN "malformed" ELSE "unknown"
    ELSE IF row.cancelled THEN "cancelled"
    ELSE IF row.expiresAt <= now THEN "expired"
    ELSE IF row.views >= row.maxViews THEN "exhausted"
    ELSE IF ~CanOpen(row.madeBy) THEN "tampered"
    ELSE "verified"

LinkChecks(verdict) ==
    CASE verdict \in BadTokens  -> Mark(NoChecks, {}, {"share_token"})
      [] verdict = "verified"   -> Mark(NoChecks, {CheckOrder[i] : i \in 1..3}, {})
      [] verdict = "tampered"   -> Mark(NoChecks, {"share_token", "share_state"},
                                                  {"presentation_decryption"})
      [] OTHER                  -> Mark(NoChecks, {"share_token"}, {"share_state"})


CheckLink(r) ==
    /\ request[r].step = "state"
    /\ LET v == LinkVerdict(request[r].id, request[r].share)
           next == IF v = "verified" THEN "presentation" ELSE "audit"
       IN  request' = [request EXCEPT ![r] = Decide(@, v, LinkChecks(v), next)]
    /\ UNCHANGED <<now, process, database, received, delivered, overlapped>>

\* The signed expiry is compared in whole seconds, then the row's as it is.
CredentialExpired(row) == row.exp <= Seconds(now) \/ row.expiresAt <= now

\* Mutant: the credential's revocation is not looked at.
CredentialVerdictIgnoringStatus(row) ==
    IF ~SameIssuerKey(row.madeBy) THEN "tampered"
    ELSE IF CredentialExpired(row) THEN "expired"
    ELSE "verified"

CredentialVerdict(row) ==
    IF ~SameIssuerKey(row.madeBy) THEN "tampered"
    ELSE IF CredentialExpired(row) THEN "expired"
    ELSE IF row.revoked THEN "revoked"
    ELSE "verified"

\* Mutant: the expiry check is not marked before the status check.
CredentialChecksUnmarked(checks, verdict) ==
    CASE verdict = "tampered" -> Mark(checks, {}, CryptoChecks)
      [] verdict = "expired"  -> Mark(checks, CryptoChecks, {"credential_expiry"})
      [] verdict = "revoked"  -> Mark(checks, CryptoChecks, {"credential_status"})
      [] OTHER                -> Mark(checks, CheckIds, {})

CredentialChecks(checks, verdict) ==
    CASE verdict = "tampered" -> Mark(checks, {}, CryptoChecks)
      [] verdict = "expired"  -> Mark(checks, CryptoChecks, {"credential_expiry"})
      [] verdict = "revoked"  -> Mark(checks, CryptoChecks \cup {"credential_expiry"},
                                              {"credential_status"})
      [] OTHER                -> Mark(checks, CheckIds, {})

\* Mutant: the claims are answered without a view being counted.
CheckPresentationUncounted(r) ==
    /\ request[r].step = "presentation"
    /\ LET v == CredentialVerdict(request[r].credential)
       IN  request' = [request EXCEPT ![r] = Decide(@, v, CredentialChecks(@.checks, v), "audit")]
    /\ UNCHANGED <<now, process, database, received, delivered, overlapped>>

CheckPresentation(r) ==
    /\ request[r].step = "presentation"
    /\ LET v == CredentialVerdict(request[r].credential)
           next == IF v = "verified" THEN "count" ELSE "audit"
       IN  request' = [request EXCEPT ![r] = Decide(@, v, CredentialChecks(@.checks, v), next)]
    /\ UNCHANGED <<now, process, database, received, delivered, overlapped>>

\* Mutant: the whole row is saved, not the one column.
CountViewSavingRow(r) ==
    /\ request[r].step = "count"
    /\ share' = [share EXCEPT ![request[r].id] = [request[r].share EXCEPT !.views = @ + 1]]
    /\ request' = [request EXCEPT ![r] = MoveTo(@, "audit")]
    /\ UNCHANGED <<now, process, holderKey, credential, audit, received, delivered, overlapped>>

\* The new count comes from the row read at the start, not from the table.
CountView(r) ==
    /\ request[r].step = "count"
    /\ share' = [share EXCEPT ![request[r].id].views = request[r].share.views + 1]
    /\ request' = [request EXCEPT ![r] = MoveTo(@, "audit")]
    /\ UNCHANGED <<now, process, holderKey, credential, audit, received, delivered, overlapped>>

Subject(r) == IF request[r].id \in BadTokens THEN None ELSE request[r].id
Result(verdict) == IF verdict = "verified" THEN "verified" ELSE "invalid"

\* Mutant: only successful verifications leave a row.
AuditSuccess(r) ==
    /\ request[r].step = "audit"
    /\ audit' = IF request[r].verdict = "verified"
                THEN [audit EXCEPT ![Subject(r)]["verified"] = @ + 1] ELSE audit
    /\ request' = [request EXCEPT ![r] = MoveTo(@, "reply")]
    /\ UNCHANGED <<now, process, holderKey, credential, share, received, delivered, overlapped>>

AuditVerification(r) ==
    /\ request[r].step = "audit"
    /\ audit' = [audit EXCEPT ![Subject(r)][Result(request[r].verdict)] = @ + 1]
    /\ request' = [request EXCEPT ![r] = MoveTo(@, "reply")]
    /\ UNCHANGED <<now, process, holderKey, credential, share, received, delivered, overlapped>>

Reply(r) ==
    /\ request[r].step = "reply"
    /\ delivered' = [delivered EXCEPT ![Subject(r)][Result(request[r].verdict)] = @ + 1]
    /\ request' = [request EXCEPT ![r] = Idle]
    /\ UNCHANGED <<now, process, database, received, overlapped>>

-----------------------------------------------------------------------------
(* The environment: time, a request that throws or loses its connection at *)
(* some await, and a process that dies and starts again.                   *)

RequestFails(r) ==
    /\ request[r] # Idle
    /\ request' = [request EXCEPT ![r] = Idle]
    /\ UNCHANGED <<now, process, database, received, delivered, overlapped>>

Tick ==
    /\ now < MaxTime
    /\ now' = now + 1
    /\ UNCHANGED <<process, database, request, received, delivered, overlapped>>

Restart ==
    /\ process < MaxRestarts
    /\ process' = process + 1
    /\ request' = [r \in Requests |-> Idle]
    /\ UNCHANGED <<now, database, received, delivered, overlapped>>

-----------------------------------------------------------------------------
Issuance ==
    \/ \E h \in Holders : EnsureHolderKey(h)
    \/ \E c \in Credentials, h \in Holders, i \in Issuers, C \in ClaimSets :
           IssueCredential(c, h, i, C)

Arrival(r) ==
    \/ \E h \in Holders, c \in Credentials, s \in Shares, ttl \in ShareTtls,
          limit \in ViewLimits, C \in ClaimSets :
           \E D \in (SUBSET C) \ {{}} : CreateShare(r, h, c, D, ttl, limit, s)
    \/ \E h \in Holders, s \in Shares : CancelShare(r, h, s)
    \/ \E i \in Issuers, c \in Credentials : RevokeCredential(r, i, c)
    \/ \E t \in Tokens : ReadShare(r, t)

\* What the process does next for a request it has accepted.
Continue(r) ==
    \/ CreateShareRow(r)
    \/ CancelShareRow(r)
    \/ RevokeCredentialRow(r)
    \/ CheckLink(r)
    \/ CheckPresentation(r)
    \/ CountView(r)
    \/ AuditVerification(r)
    \/ Reply(r)

Next ==
    \/ Issuance
    \/ \E r \in Requests : Arrival(r) \/ Continue(r) \/ RequestFails(r)
    \/ Tick
    \/ Restart

Spec == Init /\ [][Next]_vars

-----------------------------------------------------------------------------
(* Properties.                                                             *)

\* Every table row, request and counter keeps its shape.
TypeOK ==
    /\ now \in 0..MaxTime
    /\ process \in Processes
    /\ holderKey \in [Holders -> Processes \cup {None}]
    /\ credential \in [Credentials -> CredentialRow \cup {None}]
    /\ share \in [Shares -> ShareRow \cup {None}]
    /\ audit \in [Shares \cup {None} -> [Results -> Nat]]
    /\ request \in [Requests -> Request]
    /\ received \in 0..MaxVerifications
    /\ delivered \in [Shares \cup {None} -> [Results -> Nat]]
    /\ overlapped \subseteq Shares

\* The columns no update touches once the row is written.
TermsOfShare(row) ==
    <<row.credential, row.holder, row.disclosed, row.expiresAt, row.maxViews, row.madeBy>>
TermsOfCredential(row) ==
    <<row.holder, row.issuer, row.claims, row.expiresAt, row.exp, row.madeBy>>

\* A share belongs to the holder of its credential and discloses only claims
\* the credential carries, though it is written after the credential was read.
Backed(row) ==
    LET c == credential[row.credential]
    IN  c # None /\ c.holder = row.holder /\ row.disclosed \subseteq c.claims
ShareWithinCredential == \A s \in Shares : share[s] # None => Backed(share[s])

\* What a request in progress holds is out of date only in the columns that
\* updates touch: the share it creates is new and backed, the row it will update
\* exists, and a verification past the link checks started below the limit.
CreateCoherent(r) ==
    LET q == request[r]
    IN  /\ q.id \in Shares
        /\ share[q.id] = None
        /\ q.share \in ShareRow
        /\ q.share.views = 0
        /\ Backed(q.share)
        /\ \A p \in Requests \ {r} : request[p].step = "create" => request[p].id # q.id
HoldsRows(r) ==
    LET q == request[r]
    IN  /\ q.id \in Shares
        /\ share[q.id] # None
        /\ q.share \in ShareRow
        /\ q.credential \in CredentialRow
        /\ TermsOfShare(q.share) = TermsOfShare(share[q.id])
        /\ TermsOfCredential(q.credential)
               = TermsOfCredential(credential[q.share.credential])
RequestCoherent(r) ==
    LET q == request[r]
    IN  /\ q.step = "create" => CreateCoherent(r)
        /\ q.step = "cancel" => q.id \in Shares /\ share[q.id] # None
        /\ q.step = "revoke" => q.id \in Credentials /\ credential[q.id] # None
        /\ q.step = "state" => (q.id \in BadTokens /\ q.share = None) \/ HoldsRows(r)
        /\ q.step \in {"presentation", "count"} =>
               HoldsRows(r) /\ q.verdict = "verified" /\ q.share.views < q.share.maxViews
        /\ q.step \in {"audit", "reply"} =>
               q.id \in Shares \cup BadTokens /\ q.verdict \in Verdicts
RequestsCoherent == \A r \in Requests : RequestCoherent(r)

\* The stored count of a share never passes its limit, however the writes of
\* concurrent verifications (views: share.views + 1) overtake one another.
ViewsWithinLimit ==
    \A s \in Shares : share[s] # None => share[s].views <= share[s].maxViews

\* The checks reported with a verdict tell its story: all passed when it is
\* "verified"; otherwise the checks before the failure passed, those after it
\* were skipped, and the failed ones are those the failure code stands for.
ChecksBehind(verdict) ==
    CASE verdict \in BadTokens               -> {{"share_token"}}
      [] verdict \in {"cancelled", "exhausted"} -> {{"share_state"}}
      [] verdict = "expired"                 -> {{"share_state"}, {"credential_expiry"}}
      [] verdict = "tampered"                -> {{"presentation_decryption"}, CryptoChecks}
      [] verdict = "revoked"                 -> {{"credential_status"}}
      [] OTHER                               -> {{}}
ChecksExplainVerdict ==
    \A r \in Requests : request[r].step \in {"count", "audit", "reply"} =>
        LET Marked(m) == {i \in 1..10 : request[r].checks[CheckOrder[i]] = m}
        IN  /\ {CheckOrder[i] : i \in Marked("failed")} \in ChecksBehind(request[r].verdict)
            /\ \A i \in Marked("passed"), j \in Marked("failed") : i < j
            /\ \A i \in Marked("failed"), j \in Marked("skipped") : i < j
            /\ request[r].verdict = "verified" => Marked("skipped") = {}

\* No verifier holds an answer, good or bad, that left no audit row: restarts
\* and failed requests may lose answers but never the trace of one.
AnswersAudited ==
    \A s \in Shares \cup {None}, x \in Results : delivered[s][x] <= audit[s][x]

\* A share link discloses its claims to verifiers at most maxViews times.
DisclosuresWithinLimit ==
    \A s \in Shares : share[s] # None => delivered[s]["verified"] <= share[s].maxViews

\* What a holder or an issuer withdrew stays withdrawn, and the terms of a
\* share or a credential never change, whatever stale rows requests still hold.
KeepsWithdrawals ==
    /\ \A s \in Shares : share[s] # None =>
          /\ share'[s] # None
          /\ TermsOfShare(share'[s]) = TermsOfShare(share[s])
          /\ share[s].cancelled => share'[s].cancelled
    /\ \A c \in Credentials : credential[c] # None =>
          /\ credential'[c] # None
          /\ TermsOfCredential(credential'[c]) = TermsOfCredential(credential[c])
          /\ credential[c].revoked => credential'[c].revoked
WithdrawalIsFinal == [][KeepsWithdrawals]_vars


\* The link budget the holder was promised, as the database and the verifiers
\* see it: charged is the stored count, disclosed what verifiers received.
Budget == INSTANCE ShareBudget WITH
    Links <- Shares,
    Limits <- ViewLimits,
    limit <- [s \in Shares |-> IF share[s] = None THEN 0 ELSE share[s].maxViews],
    charged <- [s \in Shares |-> IF share[s] = None THEN 0 ELSE share[s].views],
    disclosed <- [s \in Shares |-> delivered[s]["verified"]],
    raced <- overlapped
\* Every disclosure is paid for by an earlier charge against the link's limit, as
\* long as no two verifications of that link overlapped; if they did its count
\* still keeps the limit.  Requests for other links and failures may do as they like.
ImplementsBudget == Budget!Spec
=============================================================================
