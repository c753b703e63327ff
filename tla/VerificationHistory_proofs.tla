---------------------- MODULE VerificationHistory_proofs ----------------------
(***************************************************************************)
(* For any number of requests, shares and restarts: no answer is stale     *)
(* beyond the request it answers.                                          *)
(***************************************************************************)
EXTENDS VerificationHistory, PresentationService_proofs

HInv ==
    /\ Inv
    /\ RowsWitnessed
    /\ AnswerWitnessed

RowsWitnessedAt(r) ==
    LET q == request[r]
    IN  /\ q.step = "state" /\ q.id \in BadTokens => q.id \in seen[r]
        /\ q.step \in {"state", "presentation", "count"} /\ q.id \notin BadTokens =>
               Truths(q.share, q.credential) \subseteq seen[r]
        /\ q.step = "presentation" /\ CredentialVerdict(q.credential) = "verified" =>
               "verified" \in seen[r]
AnswerWitnessedAt(r) ==
    request[r].step \in {"count", "audit", "reply"} => request[r].verdict \in seen[r]
Witnessed(r) == RowsWitnessedAt(r) /\ AnswerWitnessedAt(r)

LEMMA WitnessedEverywhere ==
    RowsWitnessed /\ AnswerWitnessed <=> \A r \in Requests : Witnessed(r)
BY DEF RowsWitnessed, AnswerWitnessed, Witnessed, RowsWitnessedAt, AnswerWitnessedAt

(* The clock only advances, and while a request lives its process does.    *)
TimePasses == now' \in Nat /\ now <= now' /\ process' = process

\* A credential that has expired stays expired, in seconds and in ticks.
LEMMA ExpiryLasts ==
    ASSUME Inv, TimePasses, NEW row \in CredentialRow, CredentialExpired(row)
    PROVE  CredentialExpired(row)'
<1>1. now \in Nat /\ now' \in Nat /\ now <= now' /\ row.expiresAt \in Nat /\ row.exp \in Nat
    BY BoundsAssumption DEF Inv, TypeOK, TimePasses, CredentialRow
<1>2. PICK k \in Nat : k = Seconds(now)
    BY <1>1, SecondsType
<1>3. PICK n \in Nat : n = Seconds(now')
    BY <1>1, SecondsType
<1>4. k <= n
    BY <1>1, <1>2, <1>3, SecondsGrow
<1> HIDE DEF Seconds
<1>5. Seconds(now)' = n
    BY <1>3 DEF Seconds
<1> QED  BY <1>1, <1>2, <1>4, <1>5 DEF CredentialExpired

(* A request another step left alone.                                      *)
LEMMA WaitingStaysWitnessed ==
    ASSUME Inv, Inv', NEW r \in Requests, Witnessed(r), TimePasses,
           request'[r] = request[r], Verifying(r),
           seen'[r] = seen[r] \cup TrueNow(r)'
    PROVE  Witnessed(r)'
<1> DEFINE q == request[r]
<1>1. q.step = "state" /\ q.id \in BadTokens => q.id \in seen'[r]
    BY DEF Witnessed, RowsWitnessedAt
<1>2. ASSUME q.step \in {"state", "presentation", "count"}, q.id \notin BadTokens
      PROVE  Truths(q.share, q.credential)' \subseteq seen'[r]
    <2>1. HoldsRows(r) /\ HoldsRows(r)'
        BY <1>2 DEF Inv, RequestsCoherent, RequestCoherent
    <2>2. Truths(q.share, q.credential) \subseteq seen[r]
        BY <1>2 DEF Witnessed, RowsWitnessedAt
    <2>3. /\ q.share.expiresAt \in Nat /\ now \in Nat
          /\ CredentialExpired(q.credential) => CredentialExpired(q.credential)'
        <3>1. PICK row \in CredentialRow : row = q.credential
            BY <2>1 DEF HoldsRows
        <3>2. CredentialExpired(row) => CredentialExpired(row)'
            BY ExpiryLasts
        <3> QED  BY <2>1, <3>1, <3>2, BoundsAssumption DEF HoldsRows, ShareRow, Inv, TypeOK, CredentialExpired
    <2>4. Closed(q.share, q.credential)' \subseteq Closed(q.share, q.credential) \cup {"expired"}
          /\ Closed(q.share, q.credential) \subseteq Closed(q.share, q.credential)'
        BY <2>3 DEF Closed, TimePasses, CanOpen, SameIssuerKey
    <2>5. ASSUME "expired" \in Closed(q.share, q.credential)'
          PROVE  "expired" \in seen'[r]
        <3>1. /\ share'[q.id].expiresAt = q.share.expiresAt
              /\ credential'[share'[q.id].credential].expiresAt = q.credential.expiresAt
              /\ credential'[share'[q.id].credential].exp = q.credential.exp
            BY <2>1 DEF HoldsRows, TermsOfShare, TermsOfCredential
        <3>2. "expired" \in Closed(share[q.id], credential[share[q.id].credential])'
            BY <2>5, <3>1 DEF Closed, CredentialExpired, Seconds
        <3>3. "expired" \in TrueOf(q.id)'
            BY <1>2, <3>2 DEF TrueOf, Truths
        <3>4. TrueNow(r)' = TrueOf(q.id)'
            BY DEF TrueNow, Verifying
        <3> QED  BY <3>3, <3>4
    <2>6. CASE Closed(q.share, q.credential)' = {}
        BY <2>2, <2>4, <2>6 DEF Truths
    <2>7. CASE Closed(q.share, q.credential)' # {} /\ Closed(q.share, q.credential) = {}
        BY <2>4, <2>5, <2>7 DEF Truths
    <2>8. CASE Closed(q.share, q.credential) # {}
        BY <2>2, <2>4, <2>5, <2>8 DEF Truths
    <2> QED  BY <2>6, <2>7, <2>8
<1>3. ASSUME q.step = "presentation", CredentialVerdict(q.credential)' = "verified"
      PROVE  "verified" \in seen'[r]
    <2>1. HoldsRows(r)
        BY <1>3 DEF Inv, RequestsCoherent, RequestCoherent
    <2>2. PICK row \in CredentialRow : row = q.credential
        BY <2>1 DEF HoldsRows
    <2>3. CredentialVerdict(row)' = "verified"
        BY <1>3, <2>2 DEF CredentialVerdict, SameIssuerKey, CredentialExpired, Seconds
    <2>4. CredentialVerdict(row) = "verified"
        <3>1. CredentialExpired(row) => CredentialExpired(row)'
            BY ExpiryLasts
        <3> QED  BY <2>3, <3>1 DEF CredentialVerdict, SameIssuerKey, TimePasses
    <2> QED  BY <1>3, <2>2, <2>4 DEF Witnessed, RowsWitnessedAt
<1>4. q.step \in {"count", "audit", "reply"} => q.verdict \in seen'[r]
    BY DEF Witnessed, AnswerWitnessedAt
<1> QED  BY <1>1, <1>2, <1>3, <1>4 DEF Witnessed, RowsWitnessedAt, AnswerWitnessedAt

LEMMA ReadWitnessed ==
    ASSUME Inv, NEW r \in Requests, NEW t \in Tokens, ReadShare(r, t),
           seen'[r] = seen[r] \cup TrueNow(r)'
    PROVE  Witnessed(r)'
<1>1. /\ request'[r] = IF t \in BadTokens THEN Start("state", t, None, None)
                       ELSE Start("state", t, share[t], credential[share[t].credential])
      /\ UNCHANGED <<now, process, share, credential>>
    BY DEF ReadShare, Inv, TypeOK, database
<1>2. request'[r].step = "state" /\ request'[r].id = t
    BY <1>1 DEF Start
<1>3. TrueNow(r)' = TrueOf(t)'
    BY <1>2 DEF TrueNow, Verifying, VerifySteps
<1>4. CASE t \in BadTokens
    BY <1>2, <1>3, <1>4 DEF Witnessed, RowsWitnessedAt, AnswerWitnessedAt, TrueOf
<1>5. CASE t \notin BadTokens
    <2>1. request'[r].share = share[t] /\ request'[r].credential = credential[share[t].credential]
        BY <1>1, <1>5 DEF Start
    <2>2. TrueOf(t)' = Truths(request[r].share, request[r].credential)'
        BY <1>1, <1>5, <2>1 DEF TrueOf
    <2> QED  BY <1>2, <1>3, <1>5, <2>2 DEF Witnessed, RowsWitnessedAt, AnswerWitnessedAt
<1> QED  BY <1>4, <1>5

LEMMA CheckLinkWitnessed ==
    ASSUME Inv, NEW r \in Requests, Witnessed(r), CheckLink(r),
           seen'[r] = seen[r] \cup TrueNow(r)'
    PROVE  Witnessed(r)'
<1> DEFINE q == request[r]
           v == LinkVerdict(q.id, q.share)
           next == IF v = "verified" THEN "presentation" ELSE "audit"
<1>1. /\ request'[r] = Decide(q, v, LinkChecks(v), next)
      /\ q.step = "state" /\ UNCHANGED <<now, process, share, credential>>
    BY DEF CheckLink, Inv, TypeOK, database
<1>2. /\ request'[r].step = next /\ request'[r].id = q.id /\ request'[r].verdict = v
      /\ request'[r].share = q.share /\ request'[r].credential = q.credential
    BY <1>1 DEF Decide
<1>3. CASE q.id \in BadTokens
    <2>1. q.id \in seen[r]
        BY <1>1, <1>3 DEF Witnessed, RowsWitnessedAt
    <2>2. q.share = None \/ HoldsRows(r)
        BY <1>1 DEF Inv, RequestsCoherent, RequestCoherent
    <2>3. q.share = None
        BY <1>3, <2>2, NamesAssumption DEF HoldsRows, BadTokens
    <2>4. v = q.id
        BY <1>3, <2>3 DEF LinkVerdict, BadTokens
    <2>5. v # "verified"
        BY <1>3, <2>4 DEF BadTokens
    <2> QED  BY <1>2, <2>1, <2>4, <2>5 DEF Witnessed, RowsWitnessedAt, AnswerWitnessedAt
<1>4. CASE q.id \notin BadTokens
    <2>1. HoldsRows(r) /\ q.share # None
        BY <1>1, <1>4, RowsAssumption DEF Inv, RequestsCoherent, RequestCoherent, HoldsRows
    <2>2. Truths(q.share, q.credential) \subseteq seen[r]
        BY <1>1, <1>4 DEF Witnessed, RowsWitnessedAt
    <2>3. Truths(q.share, q.credential)' \subseteq seen'[r]
        BY <1>1, <1>2, <2>2 DEF Truths, Closed, CanOpen, SameIssuerKey,
                                 CredentialExpired, Seconds
    <2>4. CASE v # "verified"
        <3>1. v \in Closed(q.share, q.credential)
            BY <2>1, <2>4 DEF LinkVerdict, Closed, FailureCodes
        <3> QED  BY <1>2, <2>2, <2>4, <3>1 DEF Truths, Witnessed, RowsWitnessedAt, AnswerWitnessedAt
    <2>5. CASE v = "verified"
        <3>1. ASSUME CredentialVerdict(q.credential)' = "verified"
              PROVE  Closed(q.share, q.credential) = {}
            <4>1. CredentialVerdict(q.credential) = "verified"
                BY <1>1, <1>2, <3>1 DEF CredentialVerdict, SameIssuerKey, CredentialExpired, Seconds
            <4>2. /\ SameIssuerKey(q.credential.madeBy) /\ ~CredentialExpired(q.credential)
                  /\ ~q.credential.revoked
                BY <4>1 DEF CredentialVerdict
            <4>3. /\ ~q.share.cancelled /\ ~(q.share.expiresAt <= now)
                  /\ ~(q.share.views >= q.share.maxViews) /\ CanOpen(q.share.madeBy)
                BY <2>1, <2>5 DEF LinkVerdict
            <4> QED  BY <4>2, <4>3 DEF Closed
        <3>2. CredentialVerdict(q.credential)' = "verified" => "verified" \in seen'[r]
            BY <2>2, <3>1 DEF Truths
        <3> QED  BY <1>2, <1>4, <2>3, <2>5, <3>2
                 DEF Witnessed, RowsWitnessedAt, AnswerWitnessedAt
    <2> QED  BY <2>4, <2>5
<1> QED  BY <1>3, <1>4

LEMMA CheckPresentationWitnessed ==
    ASSUME Inv, NEW r \in Requests, Witnessed(r), CheckPresentation(r),
           seen'[r] = seen[r] \cup TrueNow(r)'
    PROVE  Witnessed(r)'
<1> DEFINE q == request[r]
           v == CredentialVerdict(q.credential)
           next == IF v = "verified" THEN "count" ELSE "audit"
<1>1. /\ request'[r] = Decide(q, v, CredentialChecks(q.checks, v), next)
      /\ q.step = "presentation" /\ UNCHANGED <<now, process, share, credential>>
    BY DEF CheckPresentation, Inv, TypeOK, database
<1>2. /\ request'[r].step = next /\ request'[r].id = q.id /\ request'[r].verdict = v
      /\ request'[r].share = q.share /\ request'[r].credential = q.credential
    BY <1>1 DEF Decide
<1>3. HoldsRows(r) /\ q.id \notin BadTokens
    BY <1>1, NamesAssumption DEF Inv, RequestsCoherent, RequestCoherent, HoldsRows, BadTokens
<1>4. Truths(q.share, q.credential) \subseteq seen[r]
    BY <1>1, <1>3 DEF Witnessed, RowsWitnessedAt
<1>5. Truths(request[r].share, request[r].credential)' \subseteq seen'[r]
    BY <1>1, <1>2, <1>4 DEF Truths, Closed, CanOpen, SameIssuerKey,
                                 CredentialExpired, Seconds
<1>6. v \in seen'[r]
    <2>1. CASE v = "verified"
        BY <1>1, <2>1 DEF Witnessed, RowsWitnessedAt
    <2>2. CASE v # "verified"
        <3>1. v \in Closed(q.share, q.credential)
            BY <2>2 DEF CredentialVerdict, Closed, FailureCodes
        <3> QED  BY <1>4, <3>1 DEF Truths
    <2> QED  BY <2>1, <2>2
<1> QED  BY <1>2, <1>3, <1>5, <1>6 DEF Witnessed, RowsWitnessedAt, AnswerWitnessedAt

LEMMA AnsweringWitnessed ==
    ASSUME Inv, NEW r \in Requests, Witnessed(r), CountView(r) \/ AuditVerification(r),
           seen'[r] = seen[r] \cup TrueNow(r)'
    PROVE  Witnessed(r)'
<1>1. /\ request[r].step \in {"count", "audit"} /\ request'[r].step \in {"audit", "reply"}
      /\ request'[r].verdict = request[r].verdict
    BY DEF CountView, AuditVerification, MoveTo, Decide, Inv, TypeOK
<1> QED  BY <1>1 DEF Witnessed, RowsWitnessedAt, AnswerWitnessedAt

-----------------------------------------------------------------------------
LEMMA InitHInv == InitH => HInv
<1> SUFFICES ASSUME InitH PROVE HInv
    OBVIOUS
<1>1. Inv
    BY InitInv DEF InitH
<1>2. \A r \in Requests : Witnessed(r)
    BY DEF InitH, Init, Idle, Start, Witnessed, RowsWitnessedAt, AnswerWitnessedAt
<1> QED  BY <1>1, <1>2, WitnessedEverywhere DEF HInv

(* What a step of the system does to one request r that is verifying after *)
(* it: it left r alone, received it, or advanced it.                       *)
LEMMA StepsOfRequest ==
    ASSUME Inv, Next, NEW r \in Requests, Verifying(r)'
    PROVE  \/ \E t \in Tokens : ReadShare(r, t)
           \/ CheckLink(r) \/ CheckPresentation(r) \/ CountView(r) \/ AuditVerification(r)
           \/ request'[r] = request[r] /\ Verifying(r) /\ TimePasses
<1>1. now \in Nat
    BY BoundsAssumption DEF Inv, TypeOK
<1>2. CASE Issuance
    <2>1. UNCHANGED <<now, process, request>>
        BY <1>2 DEF Issuance, EnsureHolderKey, IssueCredential
    <2> QED  BY <1>1, <2>1 DEF TimePasses, Verifying
<1>3. ASSUME NEW p \in Requests, p # r, Arrival(p) \/ Continue(p) \/ RequestFails(p)
      PROVE  request'[r] = request[r] /\ UNCHANGED <<now, process>>
    <2>1. CASE Arrival(p)
        <3>1. \A h, c, D, ttl, limit, s : CreateShare(p, h, c, D, ttl, limit, s)
                  => request'[r] = request[r] /\ UNCHANGED <<now, process>>
            BY <1>3 DEF CreateShare, Inv, TypeOK
        <3>2. \A h, s : CancelShare(p, h, s) => request'[r] = request[r] /\ UNCHANGED <<now, process>>
            BY <1>3 DEF CancelShare, Inv, TypeOK
        <3>3. \A i, c : RevokeCredential(p, i, c) => request'[r] = request[r] /\ UNCHANGED <<now, process>>
            BY <1>3 DEF RevokeCredential, Inv, TypeOK
        <3>4. \A t : ReadShare(p, t) => request'[r] = request[r] /\ UNCHANGED <<now, process>>
            BY <1>3 DEF ReadShare, Inv, TypeOK
        <3> QED  BY <2>1, <3>1, <3>2, <3>3, <3>4 DEF Arrival
    <2>2. CASE Continue(p)
        <3>1. \E q : request' = [request EXCEPT ![p] = q] /\ UNCHANGED <<now, process>>
            BY <2>2 DEF Continue, CreateShareRow, CancelShareRow, RevokeCredentialRow, CheckLink,
                        CheckPresentation, CountView, AuditVerification, Reply
        <3> QED  BY <1>3, <3>1 DEF Inv, TypeOK
    <2>3. CASE RequestFails(p)
        BY <1>3, <2>3 DEF RequestFails, Inv, TypeOK
    <2> QED  BY <1>3, <2>1, <2>2, <2>3
<1>4. ASSUME Arrival(r) PROVE \E t \in Tokens : ReadShare(r, t)
    <2>1. ~ \E h \in Holders, c \in Credentials, s \in Shares, ttl \in ShareTtls,
                limit \in ViewLimits, C \in ClaimSets :
                \E D \in (SUBSET C) \ {{}} : CreateShare(r, h, c, D, ttl, limit, s)
        BY DEF CreateShare, Start, Verifying, VerifySteps, Inv, TypeOK
    <2>2. ~ \E h \in Holders, s \in Shares : CancelShare(r, h, s)
        BY DEF CancelShare, Start, Verifying, VerifySteps, Inv, TypeOK
    <2>3. ~ \E i \in Issuers, c \in Credentials : RevokeCredential(r, i, c)
        BY DEF RevokeCredential, Start, Verifying, VerifySteps, Inv, TypeOK
    <2> QED  BY <1>4, <2>1, <2>2, <2>3 DEF Arrival
<1>5. ~(CreateShareRow(r) \/ CancelShareRow(r) \/ RevokeCredentialRow(r) \/ Reply(r) \/ RequestFails(r))
    BY DEF CreateShareRow, CancelShareRow, RevokeCredentialRow, Reply, RequestFails,
           Idle, Start, Verifying, VerifySteps, Inv, TypeOK
<1>6. ASSUME Continue(r)
      PROVE  CheckLink(r) \/ CheckPresentation(r) \/ CountView(r) \/ AuditVerification(r)
    BY <1>5, <1>6 DEF Continue
<1>7. CASE Tick
    BY <1>1, <1>7 DEF Tick, TimePasses, Verifying
<1>8. ~Restart
    BY DEF Restart, Idle, Start, Verifying, VerifySteps, Inv, TypeOK
<1> QED  BY <1>1, <1>2, <1>3, <1>4, <1>5, <1>6, <1>7, <1>8 DEF Next, TimePasses, Verifying

LEMMA NextHInv == HInv /\ [NextH]_<<vars, seen>> => HInv'
<1> SUFFICES ASSUME HInv, [NextH]_<<vars, seen>> PROVE HInv'
    OBVIOUS
<1>1. Inv /\ \A r \in Requests : Witnessed(r)
    BY WitnessedEverywhere DEF HInv
<1>2. CASE UNCHANGED <<vars, seen>>
    <2>1. Inv'
        BY <1>1, <1>2, NextInv
    <2>2. RowsWitnessed' /\ AnswerWitnessed'
        BY <1>2 DEF HInv, RowsWitnessed, AnswerWitnessed, Truths, Closed, CanOpen, SameIssuerKey,
                    CredentialVerdict, CredentialExpired, Seconds, vars
    <2> QED  BY <2>1, <2>2 DEF HInv
<1>3. CASE NextH
    <2>1. Inv'
        BY <1>1, <1>3, NextInv DEF NextH
    <2>2. ASSUME NEW r \in Requests PROVE Witnessed(r)'
        <3>1. CASE ~Verifying(r)'
            BY <3>1 DEF Witnessed, RowsWitnessedAt, AnswerWitnessedAt, Verifying, VerifySteps
        <3>2. CASE Verifying(r)'
            <4>1. seen'[r] = seen[r] \cup TrueNow(r)'
                BY <1>3, <3>2 DEF NextH
            <4>2. Witnessed(r)
                BY <1>1
            <4> QED  BY <1>1, <1>3, <2>1, <3>2, <4>1, <4>2, StepsOfRequest, WaitingStaysWitnessed,
                        ReadWitnessed, CheckLinkWitnessed, CheckPresentationWitnessed,
                        AnsweringWitnessed DEF NextH
        <3> QED  BY <3>1, <3>2
    <2>3. (\A r \in Requests : Witnessed(r))'
        BY <2>2
    <2>4. RowsWitnessed' /\ AnswerWitnessed'
        BY <2>3 DEF RowsWitnessed, AnswerWitnessed, Witnessed, RowsWitnessedAt, AnswerWitnessedAt
    <2> QED  BY <2>1, <2>4 DEF HInv
<1> QED  BY <1>2, <1>3

\* Every answer a verifier receives was true of the link at some moment of its
\* own request, however many requests interleave: nothing withdrawn before the
\* request arrived is disclosed, and nothing is refused without a reason.
THEOREM AnswersAreWitnessed == SpecH => []AnswerWitnessed
<1>1. InitH => HInv
    BY InitHInv
<1>2. HInv /\ [NextH]_<<vars, seen>> => HInv'
    BY NextHInv
<1> QED  BY <1>1, <1>2, PTL DEF SpecH, HInv

\* The stale rows a verification works from have all been true meanwhile.
THEOREM RowsAreWitnessed == SpecH => []RowsWitnessed
<1>1. InitH => HInv
    BY InitHInv
<1>2. HInv /\ [NextH]_<<vars, seen>> => HInv'
    BY NextHInv
<1> QED  BY <1>1, <1>2, PTL DEF SpecH, HInv
=============================================================================
