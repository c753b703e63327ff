---------------------- MODULE PresentationService_proofs ----------------------
(***************************************************************************)
(* What holds of share links for every number of holders, credentials,     *)
(* shares and concurrent requests.                                         *)
(***************************************************************************)
EXTENDS PresentationService, FiniteSetTheorems, TLAPS

Marks == [CheckIds -> {"skipped", "passed", "failed"}]

LEMMA MarkType ==
    ASSUME NEW k \in Marks, NEW P, NEW F
    PROVE  Mark(k, P, F) \in Marks
BY DEF Marks, Mark

LEMMA NoChecksType == NoChecks \in Marks
BY DEF Marks, NoChecks

LEMMA LinkChecksType == ASSUME NEW v PROVE LinkChecks(v) \in Marks
<1> HIDE DEF BadTokens
<1> QED  BY MarkType, NoChecksType DEF LinkChecks

LEMMA CredentialChecksType ==
    ASSUME NEW k \in Marks, NEW v PROVE CredentialChecks(k, v) \in Marks
BY MarkType DEF CredentialChecks

LEMMA LinkVerdictType ==
    ASSUME NEW t, NEW row PROVE LinkVerdict(t, row) \in Verdicts
BY DEF LinkVerdict, Verdicts, FailureCodes

LEMMA CredentialVerdictType ==
    ASSUME NEW row PROVE CredentialVerdict(row) \in Verdicts
BY DEF CredentialVerdict, Verdicts, FailureCodes

LEMMA SecondsBounds ==
    ASSUME NEW t \in Nat
    PROVE  Seconds(t) \in Nat /\ Seconds(t) * Second <= t /\ t < Seconds(t) * Second + Second
<1>1. \A d \in Nat \ {0} :
          LET k == t \div d IN k \in Nat /\ k * d <= t /\ t < (k + 1) * d
    OBVIOUS
<1>2. PICK k : k = Seconds(t)
    OBVIOUS
<1>3. k \in Nat /\ k * Second <= t /\ t < (k + 1) * Second
    BY <1>1, <1>2, BoundsAssumption DEF Seconds
<1>4. (k + 1) * Second = k * Second + Second
    BY <1>3, BoundsAssumption
<1> QED  BY <1>2, <1>3, <1>4

LEMMA SecondsType == ASSUME NEW t \in Nat PROVE Seconds(t) \in Nat
BY SecondsBounds

LEMMA SecondsGrow ==
    ASSUME NEW t \in Nat, NEW u \in Nat, t <= u
    PROVE  Seconds(t) <= Seconds(u)
<1>1. PICK k \in Nat : k = Seconds(t) /\ k * Second <= t
    BY SecondsBounds
<1>2. PICK n \in Nat : n = Seconds(u) /\ u < n * Second + Second
    BY SecondsBounds
<1>3. Second \in Nat \ {0}
    BY BoundsAssumption
<1>4. SUFFICES ASSUME n + 1 <= k PROVE FALSE
    BY <1>1, <1>2
<1>5. (n + 1) * Second <= k * Second /\ (n + 1) * Second = n * Second + Second
    BY <1>3, <1>4
<1> QED  BY <1>1, <1>2, <1>3, <1>5

LEMMA IdleType == Idle \in Request
BY NoChecksType DEF Idle, Start, Request, Steps, VerifySteps, Marks

-----------------------------------------------------------------------------
Inv == TypeOK /\ ViewsWithinLimit /\ ShareWithinCredential /\ RequestsCoherent

LEMMA InitInv == Init => Inv
<1> SUFFICES ASSUME Init PROVE Inv
    OBVIOUS
<1>1. TypeOK
    BY IdleType, BoundsAssumption DEF Init, TypeOK, Processes, Results
<1>2. ViewsWithinLimit /\ ShareWithinCredential
    BY DEF Init, ViewsWithinLimit, ShareWithinCredential
<1>3. RequestsCoherent
    BY DEF Init, RequestsCoherent, RequestCoherent, Idle, Start
<1> QED  BY <1>1, <1>2, <1>3 DEF Inv

-----------------------------------------------------------------------------
(* Rows are never taken back and their terms never change: what a request  *)
(* in progress relied on when it read them stays true.                     *)

ShareRowsKept ==
    \A s \in Shares : share[s] # None =>
        share'[s] # None /\ TermsOfShare(share'[s]) = TermsOfShare(share[s])
CredentialRowsKept ==
    \A c \in Credentials : credential[c] # None =>
        credential'[c] # None /\ TermsOfCredential(credential'[c]) = TermsOfCredential(credential[c])

LEMMA ShareRowFacts ==
    ASSUME TypeOK, NEW s \in Shares, share[s] # None
    PROVE  /\ share[s] \in ShareRow
           /\ share[s].credential \in Credentials
           /\ share[s].views \in Nat
           /\ share[s].maxViews \in ViewLimits
BY DEF TypeOK, ShareRow

LEMMA BackedKept ==
    ASSUME CredentialRowsKept, NEW row, row.credential \in Credentials, Backed(row)
    PROVE  Backed(row)'
BY DEF CredentialRowsKept, Backed, TermsOfCredential

LEMMA HoldsRowsKept ==
    ASSUME Inv, ShareRowsKept, CredentialRowsKept,
           NEW r \in Requests, request'[r] = request[r], HoldsRows(r)
    PROVE  HoldsRows(r)'
<1>1. share[request[r].id] # None /\ request[r].id \in Shares
    BY DEF HoldsRows
<1>2. /\ share[request[r].id].credential \in Credentials
      /\ Backed(share[request[r].id])
    BY <1>1, ShareRowFacts DEF Inv, ShareWithinCredential
<1>3. request[r].share.credential = share[request[r].id].credential
    BY DEF HoldsRows, TermsOfShare
<1>4. credential[request[r].share.credential] # None
    BY <1>2, <1>3 DEF Backed
<1>5. TermsOfShare(share'[request[r].id]) = TermsOfShare(share[request[r].id])
      /\ share'[request[r].id] # None
    BY <1>1 DEF ShareRowsKept
<1>6. TermsOfCredential(credential'[request[r].share.credential])
        = TermsOfCredential(credential[request[r].share.credential])
    BY <1>2, <1>3, <1>4 DEF CredentialRowsKept
<1> HIDE DEF TermsOfShare, TermsOfCredential, ShareRow, CredentialRow
<1> QED  BY <1>1, <1>5, <1>6 DEF HoldsRows

LEMMA CoherenceKept ==
    ASSUME Inv, ShareRowsKept, CredentialRowsKept,
           NEW r \in Requests, request'[r] = request[r],
           request[r].step = "create" => CreateCoherent(r)'
    PROVE  RequestCoherent(r)'
<1>1. RequestCoherent(r)
    BY DEF Inv, RequestsCoherent
<1>2. HoldsRows(r) => HoldsRows(r)'
    BY HoldsRowsKept
<1>3. request[r].step = "cancel" => request[r].id \in Shares /\ share'[request[r].id] # None
    BY <1>1 DEF RequestCoherent, ShareRowsKept
<1>4. request[r].step = "revoke" =>
          request[r].id \in Credentials /\ credential'[request[r].id] # None
    BY <1>1 DEF RequestCoherent, CredentialRowsKept
<1> HIDE DEF HoldsRows, CreateCoherent
<1> QED  BY <1>1, <1>2, <1>3, <1>4 DEF RequestCoherent

(* A step that leaves share and credential alone and moves one request.    *)
LEMMA LocalStep ==
    ASSUME Inv, UNCHANGED <<share, credential>>,
           NEW r \in Requests, NEW q, request' = [request EXCEPT ![r] = q],
           RequestCoherent(r)'
    PROVE  ViewsWithinLimit' /\ ShareWithinCredential' /\ RequestsCoherent'
<1>1. ViewsWithinLimit' /\ ShareWithinCredential'
    BY DEF Inv, ViewsWithinLimit, ShareWithinCredential, Backed
<1>2. ShareRowsKept /\ CredentialRowsKept
    BY DEF ShareRowsKept, CredentialRowsKept
<1>3. request'[r] = q /\ \A p \in Requests \ {r} : request'[p] = request[p]
    BY DEF Inv, TypeOK
<1>4. ASSUME NEW p \in Requests, p # r PROVE RequestCoherent(p)'
    <2>1. request[p].step = "create" => CreateCoherent(p)
        BY DEF Inv, RequestsCoherent, RequestCoherent
    <2>2. q.step = "create" => CreateCoherent(r)'
        BY <1>3 DEF RequestCoherent
    <2>3. request[p].step = "create" => CreateCoherent(p)'
        BY <1>3, <1>4, <2>1, <2>2 DEF CreateCoherent, Backed
    <2> QED  BY <1>2, <1>3, <1>4, <2>3, CoherenceKept
<1> QED  BY <1>1, <1>4 DEF RequestsCoherent

-----------------------------------------------------------------------------
(* Steps that move one request and write no row of share or credential.    *)

LEMMA CreateShareInv ==
    ASSUME Inv, NEW r \in Requests, NEW h \in Holders, NEW c \in Credentials,
           NEW s \in Shares, NEW ttl \in ShareTtls, NEW limit \in ViewLimits,
           NEW C \in ClaimSets, NEW D \in (SUBSET C) \ {{}},
           CreateShare(r, h, c, D, ttl, limit, s)
    PROVE  Inv'
<1> DEFINE row == [credential |-> c, holder |-> h, disclosed |-> D, expiresAt |-> now + ttl,
                   maxViews |-> limit, views |-> 0, cancelled |-> FALSE, madeBy |-> process]
           q == Start("create", s, row, None)
<1>1. request' = [request EXCEPT ![r] = q] /\ UNCHANGED <<now, process, database, received, delivered, overlapped>>
    BY DEF CreateShare
<1>2. row \in ShareRow
    BY BoundsAssumption DEF Inv, TypeOK, ShareRow
<1>3. q \in Request
    BY <1>2, NoChecksType DEF Request, Start, Steps, Marks
<1>4. /\ q.step = "create" /\ q.id = s /\ q.share = row
      /\ row.credential = c /\ row.holder = h /\ row.disclosed = D /\ row.views = 0
    BY DEF Start
<1> HIDE DEF row, q
<1>5. TypeOK'
    BY <1>1, <1>3 DEF Inv, TypeOK, database
<1>6. request'[r] = q
    BY <1>1 DEF Inv, TypeOK
<1>7. CreateCoherent(r)'
    BY <1>1, <1>2, <1>4, <1>6 DEF CreateShare, CreateCoherent, Backed, database, Inv, TypeOK
<1>8. RequestCoherent(r)'
    BY <1>4, <1>6, <1>7 DEF RequestCoherent
<1> QED  BY <1>1, <1>5, <1>8, LocalStep DEF Inv, database

LEMMA CancelShareInv ==
    ASSUME Inv, NEW r \in Requests, NEW h \in Holders, NEW s \in Shares, CancelShare(r, h, s)
    PROVE  Inv'
<1> DEFINE q == Start("cancel", s, None, None)
<1>1. request' = [request EXCEPT ![r] = q] /\ UNCHANGED <<now, process, database, received, delivered, overlapped>>
    BY DEF CancelShare
<1>2. q \in Request
    BY NoChecksType DEF Request, Start, Steps, Marks
<1>3. q.step = "cancel" /\ q.id = s
    BY DEF Start
<1> HIDE DEF q
<1>4. TypeOK'
    BY <1>1, <1>2 DEF Inv, TypeOK, database
<1>5. RequestCoherent(r)'
    BY <1>1, <1>3 DEF RequestCoherent, CancelShare, Inv, TypeOK, database
<1> QED  BY <1>1, <1>4, <1>5, LocalStep DEF Inv, database

LEMMA RevokeCredentialInv ==
    ASSUME Inv, NEW r \in Requests, NEW i \in Issuers, NEW c \in Credentials,
           RevokeCredential(r, i, c)
    PROVE  Inv'
<1> DEFINE q == Start("revoke", c, None, None)
<1>1. request' = [request EXCEPT ![r] = q] /\ UNCHANGED <<now, process, database, received, delivered, overlapped>>
    BY DEF RevokeCredential
<1>2. q \in Request
    BY NoChecksType DEF Request, Start, Steps, Marks
<1>3. q.step = "revoke" /\ q.id = c
    BY DEF Start
<1> HIDE DEF q
<1>4. TypeOK'
    BY <1>1, <1>2 DEF Inv, TypeOK, database
<1>5. RequestCoherent(r)'
    BY <1>1, <1>3 DEF RequestCoherent, RevokeCredential, Inv, TypeOK, database
<1> QED  BY <1>1, <1>4, <1>5, LocalStep DEF Inv, database

LEMMA ReadShareInv ==
    ASSUME Inv, NEW r \in Requests, NEW t \in Tokens, ReadShare(r, t)
    PROVE  Inv'
<1>1. /\ UNCHANGED <<now, process, database, delivered>> /\ received' \in 0..MaxVerifications
      /\ overlapped' \subseteq Shares
    BY BoundsAssumption DEF ReadShare, Uncounted, Inv, TypeOK
<1>2. CASE t \in BadTokens
    <2> DEFINE q == Start("state", t, None, None)
    <2>1. request' = [request EXCEPT ![r] = q]
        BY <1>2 DEF ReadShare
    <2>2. q \in Request /\ q.step = "state" /\ q.id = t /\ q.share = None
        BY <1>2, NoChecksType DEF Request, Start, Steps, VerifySteps, Marks
    <2> HIDE DEF q
    <2>3. TypeOK'
        BY <1>1, <2>1, <2>2 DEF Inv, TypeOK, database
    <2>4. RequestCoherent(r)'
        BY <1>2, <2>1, <2>2 DEF RequestCoherent, Inv, TypeOK
    <2> QED  BY <1>1, <2>1, <2>3, <2>4, LocalStep DEF Inv, database
<1>3. CASE t \notin BadTokens
    <2> DEFINE crow == credential[share[t].credential]
               q == Start("state", t, share[t], crow)
    <2>1. t \in Shares /\ share[t] # None /\ request' = [request EXCEPT ![r] = q]
        BY <1>3 DEF Tokens, ReadShare
    <2>2. share[t] \in ShareRow /\ share[t].credential \in Credentials
        BY <2>1, ShareRowFacts DEF Inv
    <2>3. crow \in CredentialRow
        BY <2>1, <2>2 DEF Inv, TypeOK, ShareWithinCredential, Backed
    <2> HIDE DEF crow
    <2>4. /\ q \in Request
          /\ q.step = "state" /\ q.id = t /\ q.share = share[t] /\ q.credential = crow
        BY <2>1, <2>2, <2>3, NoChecksType DEF Request, Start, Steps, VerifySteps, Marks
    <2> HIDE DEF q
    <2>5. TypeOK'
        BY <1>1, <2>1, <2>4 DEF Inv, TypeOK, database
    <2>6. request'[r] = q /\ share' = share /\ credential' = credential
        BY <1>1, <2>1 DEF Inv, TypeOK, database
    <2>7. HoldsRows(r)'
        BY <2>1, <2>2, <2>3, <2>4, <2>6 DEF HoldsRows, crow
    <2>8. RequestCoherent(r)'
        BY <2>4, <2>6, <2>7 DEF RequestCoherent
    <2> QED  BY <1>1, <2>1, <2>5, <2>8, LocalStep DEF Inv, database
<1> QED  BY <1>2, <1>3

LEMMA CheckLinkInv ==
    ASSUME Inv, NEW r \in Requests, CheckLink(r)
    PROVE  Inv'
<1> DEFINE v == LinkVerdict(request[r].id, request[r].share)
           next == IF v = "verified" THEN "presentation" ELSE "audit"
           q == Decide(request[r], v, LinkChecks(v), next)
<1>1. request' = [request EXCEPT ![r] = q] /\ UNCHANGED <<now, process, database, received, delivered, overlapped>>
    BY DEF CheckLink
<1>2. v \in Verdicts /\ LinkChecks(v) \in Marks
    BY LinkVerdictType, LinkChecksType
<1>3. request[r] \in Request /\ request[r].step = "state" /\ RequestCoherent(r)
    BY DEF Inv, TypeOK, CheckLink, RequestsCoherent
<1>4. v = "verified" => request[r].share # None /\ ~(request[r].share.views >= request[r].share.maxViews)
    BY DEF LinkVerdict
<1> HIDE DEF v
<1>5. /\ q \in Request
      /\ q.id = request[r].id /\ q.share = request[r].share /\ q.credential = request[r].credential
      /\ q.verdict = v /\ q.step = IF v = "verified" THEN "presentation" ELSE "audit"
    BY <1>2, <1>3 DEF Decide, Request, Steps, VerifySteps, Marks
<1> HIDE DEF q
<1>6. TypeOK'
    BY <1>1, <1>5 DEF Inv, TypeOK, database
<1>7. request'[r] = q /\ share' = share /\ credential' = credential
    BY <1>1 DEF Inv, TypeOK, database
<1>8. CASE v = "verified"
    <2>1. HoldsRows(r)
        BY <1>3, <1>4, <1>8 DEF RequestCoherent
    <2>2. HoldsRows(r)'
        BY <1>5, <1>7, <2>1 DEF HoldsRows
    <2>3. request[r].share.views < request[r].share.maxViews
        <3>1. request[r].share.views \in Nat /\ request[r].share.maxViews \in Nat
            BY <2>1, BoundsAssumption DEF HoldsRows, ShareRow
        <3> QED  BY <1>4, <1>8, <3>1
    <2>4. RequestCoherent(r)'
        BY <1>5, <1>7, <1>8, <2>2, <2>3 DEF RequestCoherent
    <2> QED  BY <1>1, <1>6, <2>4, LocalStep DEF Inv, database
<1>9. CASE v # "verified"
    <2>1. request[r].id \in Shares \cup BadTokens
        BY <1>3 DEF RequestCoherent, HoldsRows
    <2>2. RequestCoherent(r)'
        BY <1>2, <1>5, <1>7, <1>9, <2>1 DEF RequestCoherent
    <2> QED  BY <1>1, <1>6, <2>2, LocalStep DEF Inv, database
<1> QED  BY <1>8, <1>9

LEMMA CheckPresentationInv ==
    ASSUME Inv, NEW r \in Requests, CheckPresentation(r)
    PROVE  Inv'
<1> DEFINE v == CredentialVerdict(request[r].credential)
           k == CredentialChecks(request[r].checks, v)
           next == IF v = "verified" THEN "count" ELSE "audit"
           q == Decide(request[r], v, k, next)
<1>1. request' = [request EXCEPT ![r] = q] /\ UNCHANGED <<now, process, database, received, delivered, overlapped>>
    BY DEF CheckPresentation
<1>2. request[r] \in Request /\ request[r].step = "presentation" /\ RequestCoherent(r)
    BY DEF Inv, TypeOK, CheckPresentation, RequestsCoherent
<1>3. v \in Verdicts /\ k \in Marks
    BY <1>2, CredentialVerdictType, CredentialChecksType DEF Request, Marks
<1> HIDE DEF v, k
<1>4. /\ q \in Request
      /\ q.id = request[r].id /\ q.share = request[r].share /\ q.credential = request[r].credential
      /\ q.verdict = v /\ q.step = IF v = "verified" THEN "count" ELSE "audit"
    BY <1>2, <1>3 DEF Decide, Request, Steps, VerifySteps, Marks
<1> HIDE DEF q
<1>5. TypeOK'
    BY <1>1, <1>4 DEF Inv, TypeOK, database
<1>6. request'[r] = q /\ share' = share /\ credential' = credential
    BY <1>1 DEF Inv, TypeOK, database
<1>7. HoldsRows(r) /\ request[r].share.views < request[r].share.maxViews
    BY <1>2 DEF RequestCoherent
<1>8. HoldsRows(r)'
    BY <1>4, <1>6, <1>7 DEF HoldsRows
<1>9. RequestCoherent(r)'
    BY <1>3, <1>4, <1>6, <1>7, <1>8 DEF RequestCoherent, HoldsRows
<1> QED  BY <1>1, <1>5, <1>9, LocalStep DEF Inv, database

LEMMA AuditVerificationInv ==
    ASSUME Inv, NEW r \in Requests, AuditVerification(r)
    PROVE  Inv'
<1> DEFINE q == MoveTo(request[r], "reply")
<1>1. request[r] \in Request /\ request[r].step = "audit" /\ RequestCoherent(r)
    BY DEF Inv, TypeOK, AuditVerification, RequestsCoherent
<1>2. request[r].id \in Shares \cup BadTokens /\ request[r].verdict \in Verdicts
    BY <1>1 DEF RequestCoherent
<1>3. request' = [request EXCEPT ![r] = q]
    BY DEF AuditVerification
<1>4. q \in Request /\ q.step = "reply" /\ q.id = request[r].id /\ q.verdict = request[r].verdict
    BY <1>1 DEF MoveTo, Decide, Request, Steps, VerifySteps
<1> HIDE DEF q
<1>5. Subject(r) \in Shares \cup {None} /\ Result(request[r].verdict) \in Results
    BY <1>2 DEF Subject, Result, Results
<1>6. audit' \in [Shares \cup {None} -> [Results -> Nat]]
    BY <1>5 DEF AuditVerification, Inv, TypeOK
<1>7. TypeOK'
    BY <1>3, <1>4, <1>6 DEF AuditVerification, Inv, TypeOK
<1>8. RequestCoherent(r)'
    BY <1>2, <1>3, <1>4 DEF RequestCoherent, Inv, TypeOK
<1> QED  BY <1>3, <1>7, <1>8, LocalStep DEF AuditVerification, Inv

LEMMA ReplyInv ==
    ASSUME Inv, NEW r \in Requests, Reply(r)
    PROVE  Inv'
<1>1. request[r].id \in Shares \cup BadTokens
    BY DEF Inv, Reply, RequestsCoherent, RequestCoherent
<1>2. Subject(r) \in Shares \cup {None} /\ Result(request[r].verdict) \in Results
    BY <1>1 DEF Subject, Result, Results
<1>3. delivered' \in [Shares \cup {None} -> [Results -> Nat]]
    BY <1>2 DEF Reply, Inv, TypeOK
<1>4. TypeOK'
    BY <1>3, IdleType DEF Reply, Inv, TypeOK, database
<1>5. RequestCoherent(r)'
    BY DEF Reply, RequestCoherent, Idle, Start, Inv, TypeOK
<1> QED  BY <1>4, <1>5, LocalStep DEF Reply, Inv, database

LEMMA RequestFailsInv ==
    ASSUME Inv, NEW r \in Requests, RequestFails(r)
    PROVE  Inv'
<1>1. TypeOK'
    BY IdleType DEF RequestFails, Inv, TypeOK, database
<1>2. RequestCoherent(r)'
    BY DEF RequestFails, RequestCoherent, Idle, Start, Inv, TypeOK
<1> QED  BY <1>1, <1>2, LocalStep DEF RequestFails, Inv, database

-----------------------------------------------------------------------------
(* Steps that write a row of share or credential.                          *)

(* A step that updates an existing share within its terms and moves one    *)
(* request to a step that creates nothing.                                 *)
LEMMA UpdateShareRow ==
    ASSUME Inv, NEW r \in Requests, NEW s \in Shares, share[s] # None, NEW row \in ShareRow,
           TermsOfShare(row) = TermsOfShare(share[s]), row.views <= row.maxViews,
           row.credential = share[s].credential, row.holder = share[s].holder,
           row.disclosed = share[s].disclosed,
           share' = [share EXCEPT ![s] = row],
           UNCHANGED <<now, process, holderKey, credential, audit, received, delivered, overlapped>>,
           NEW q \in Request, request' = [request EXCEPT ![r] = q],
           q.step \in {"idle", "audit"},
           q.step = "audit" => q.id \in Shares \cup BadTokens /\ q.verdict \in Verdicts
    PROVE  Inv'
<1>1. TypeOK'
    BY DEF Inv, TypeOK
<1>2. \A u \in Shares : share'[u] = IF u = s THEN row ELSE share[u]
    BY DEF Inv, TypeOK
<1>3. row # None
    BY RowsAssumption
<1>4. ViewsWithinLimit'
    BY <1>2 DEF Inv, ViewsWithinLimit
<1>5. ShareWithinCredential'
    BY <1>2 DEF Inv, ShareWithinCredential, Backed
<1>6. ShareRowsKept /\ CredentialRowsKept
    BY <1>2, <1>3 DEF ShareRowsKept, CredentialRowsKept
<1>7. request'[r] = q /\ \A p \in Requests \ {r} : request'[p] = request[p]
    BY DEF Inv, TypeOK
<1>8. ASSUME NEW p \in Requests PROVE RequestCoherent(p)'
    <2>1. CASE p = r
        BY <1>7, <2>1 DEF RequestCoherent
    <2>2. CASE p # r
        <3>1. ASSUME request[p].step = "create" PROVE CreateCoherent(p)'
            <4>1. CreateCoherent(p)
                BY <3>1 DEF Inv, RequestsCoherent, RequestCoherent
            <4>2. share'[request[p].id] = None
                BY <1>2, <4>1 DEF CreateCoherent
            <4> QED  BY <1>7, <2>2, <4>1, <4>2 DEF CreateCoherent, Backed
        <3> QED  BY <1>6, <1>7, <2>2, <3>1, CoherenceKept
    <2> QED  BY <2>1, <2>2
<1> QED  BY <1>1, <1>4, <1>5, <1>8 DEF Inv, RequestsCoherent

LEMMA CreateShareRowInv ==
    ASSUME Inv, NEW r \in Requests, CreateShareRow(r)
    PROVE  Inv'
<1> DEFINE s == request[r].id
           row == request[r].share
<1>1. CreateCoherent(r) /\ request[r].step = "create"
    BY DEF Inv, RequestsCoherent, RequestCoherent, CreateShareRow
<1>2. s \in Shares /\ share[s] = None /\ row \in ShareRow /\ row.views = 0 /\ Backed(row)
    BY <1>1 DEF CreateCoherent
<1>3. /\ share' = [share EXCEPT ![s] = row]
      /\ request' = [request EXCEPT ![r] = Idle]
      /\ UNCHANGED <<now, process, holderKey, credential, audit, received, delivered, overlapped>>
    BY DEF CreateShareRow
<1>4. row # None /\ row.views <= row.maxViews
    <2>1. row # None
        BY <1>2, RowsAssumption
    <2>2. row.maxViews \in Nat
        BY <1>2, BoundsAssumption DEF ShareRow
    <2> HIDE DEF row
    <2> QED  BY <1>2, <2>1, <2>2
<1>5. ASSUME NEW p \in Requests \ {r}, request[p].step = "create"
      PROVE  request[p].id # s
    BY <1>1, <1>5 DEF CreateCoherent
<1> HIDE DEF s, row
<1>6. TypeOK'
    BY <1>2, <1>3, IdleType DEF Inv, TypeOK
<1>7. \A u \in Shares : share'[u] = IF u = s THEN row ELSE share[u]
    BY <1>2, <1>3 DEF Inv, TypeOK
<1>8. ViewsWithinLimit'
    BY <1>4, <1>7 DEF Inv, ViewsWithinLimit
<1>9. ShareWithinCredential'
    BY <1>2, <1>3, <1>7 DEF Inv, ShareWithinCredential, Backed
<1>10. ShareRowsKept /\ CredentialRowsKept
    BY <1>2, <1>3, <1>7 DEF ShareRowsKept, CredentialRowsKept
<1>11. ASSUME NEW p \in Requests PROVE RequestCoherent(p)'
    <2>1. CASE p = r
        BY <1>3, <2>1 DEF RequestCoherent, Idle, Start, Inv, TypeOK
    <2>2. CASE p # r
        <3>1. request'[p] = request[p]
            BY <1>3, <2>2 DEF Inv, TypeOK
        <3>2. \A u \in Requests : request'[u].step = "create" => request'[u] = request[u]
            BY <1>3 DEF Idle, Start, Inv, TypeOK
        <3>3. ASSUME request[p].step = "create" PROVE CreateCoherent(p)'
            <4>1. CreateCoherent(p)
                BY <3>3 DEF Inv, RequestsCoherent, RequestCoherent
            <4>2. share'[request[p].id] = None
                BY <1>5, <1>7, <2>2, <3>3, <4>1 DEF CreateCoherent
            <4> QED  BY <1>3, <3>1, <3>2, <4>1, <4>2 DEF CreateCoherent, Backed
        <3> QED  BY <1>10, <3>1, <3>3, CoherenceKept
    <2> QED  BY <2>1, <2>2
<1> QED  BY <1>6, <1>8, <1>9, <1>11 DEF Inv, RequestsCoherent

LEMMA CancelShareRowInv ==
    ASSUME Inv, NEW r \in Requests, CancelShareRow(r)
    PROVE  Inv'
<1> DEFINE s == request[r].id
           row == [share[s] EXCEPT !.cancelled = TRUE]
<1>1. s \in Shares /\ share[s] # None
    BY DEF Inv, RequestsCoherent, RequestCoherent, CancelShareRow
<1>2. /\ share' = [share EXCEPT ![s] = row]
      /\ request' = [request EXCEPT ![r] = Idle]
      /\ UNCHANGED <<now, process, holderKey, credential, audit, received, delivered, overlapped>>
    BY DEF CancelShareRow
<1>3. /\ row \in ShareRow /\ row.views = share[s].views /\ row.maxViews = share[s].maxViews
      /\ TermsOfShare(row) = TermsOfShare(share[s])
      /\ row.credential = share[s].credential /\ row.holder = share[s].holder
      /\ row.disclosed = share[s].disclosed
    BY <1>1, ShareRowFacts DEF Inv, ShareRow, TermsOfShare
<1>4. share[s].views <= share[s].maxViews
    BY <1>1 DEF Inv, ViewsWithinLimit
<1>5. Idle \in Request /\ Idle.step = "idle"
    BY IdleType DEF Idle, Start
<1> HIDE DEF s, row, Idle
<1> QED  BY <1>1, <1>2, <1>3, <1>4, <1>5, UpdateShareRow

LEMMA CountViewInv ==
    ASSUME Inv, NEW r \in Requests, CountView(r)
    PROVE  Inv'
<1> DEFINE s == request[r].id
           n == request[r].share.views + 1
           row == [share[s] EXCEPT !.views = n]
           q == MoveTo(request[r], "audit")
<1>1. /\ HoldsRows(r) /\ request[r].share.views < request[r].share.maxViews
      /\ request[r].verdict = "verified" /\ request[r].step = "count"
    BY DEF Inv, RequestsCoherent, RequestCoherent, CountView
<1>2. s \in Shares /\ share[s] # None /\ request[r].share \in ShareRow
    BY <1>1 DEF HoldsRows
<1>3. /\ share' = [share EXCEPT ![s] = row]
      /\ request' = [request EXCEPT ![r] = q]
      /\ UNCHANGED <<now, process, holderKey, credential, audit, received, delivered, overlapped>>
    BY DEF CountView
<1>4. request[r].share.maxViews = share[s].maxViews
    BY <1>1 DEF HoldsRows, TermsOfShare
<1>5. n \in Nat /\ n <= share[s].maxViews
    <2>1. request[r].share.views \in Nat /\ request[r].share.maxViews \in Nat
        BY <1>2, BoundsAssumption DEF ShareRow
    <2> QED  BY <1>1, <1>4, <2>1
<1> HIDE DEF n
<1>6. /\ row \in ShareRow /\ row.views = n /\ row.maxViews = share[s].maxViews
      /\ TermsOfShare(row) = TermsOfShare(share[s])
      /\ row.credential = share[s].credential /\ row.holder = share[s].holder
      /\ row.disclosed = share[s].disclosed
    BY <1>2, <1>5, ShareRowFacts DEF Inv, ShareRow, TermsOfShare
<1>7. q \in Request /\ q.step = "audit" /\ q.id = s /\ q.verdict \in Verdicts
    <2>1. request[r] \in Request
        BY DEF Inv, TypeOK
    <2> QED  BY <1>1, <2>1 DEF MoveTo, Decide, Request, Steps, VerifySteps, Verdicts
<1> HIDE DEF s, row, q
<1> QED  BY <1>2, <1>3, <1>5, <1>6, <1>7, UpdateShareRow

(* Steps that write a credential: the shares stay as they are.             *)
LEMMA CredentialStep ==
    ASSUME Inv, CredentialRowsKept, UNCHANGED <<share>>,
           credential' \in [Credentials -> CredentialRow \cup {None}],
           \A p \in Requests : request'[p] = request[p] \/ request'[p] = Idle
    PROVE  ViewsWithinLimit' /\ ShareWithinCredential' /\ RequestsCoherent'
<1>1. ViewsWithinLimit'
    BY DEF Inv, ViewsWithinLimit
<1>2. ShareRowsKept
    BY DEF ShareRowsKept
<1>3. ASSUME NEW s \in Shares, share'[s] # None PROVE Backed(share[s])'
    <2>1. share[s].credential \in Credentials /\ Backed(share[s])
        BY <1>3, ShareRowFacts DEF Inv, ShareWithinCredential
    <2> QED  BY <2>1, BackedKept
<1>4. ShareWithinCredential'
    BY <1>3 DEF ShareWithinCredential
<1>5. ASSUME NEW p \in Requests PROVE RequestCoherent(p)'
    <2>1. CASE request'[p] = Idle
        BY <2>1 DEF RequestCoherent, Idle, Start
    <2>2. CASE request'[p] = request[p]
        <3>1. ASSUME request[p].step = "create" PROVE CreateCoherent(p)'
            <4>1. CreateCoherent(p)
                BY <3>1 DEF Inv, RequestsCoherent, RequestCoherent
            <4>2. request[p].share.credential \in Credentials /\ Backed(request[p].share)
                BY <4>1 DEF CreateCoherent, ShareRow
            <4>3. Backed(request[p].share)'
                BY <2>2, <4>2, BackedKept
            <4>4. \A u \in Requests : request'[u].step = "create" => request'[u] = request[u]
                BY DEF Idle, Start
            <4> QED  BY <2>2, <4>1, <4>3, <4>4 DEF CreateCoherent
        <3> QED  BY <1>2, <2>2, <3>1, CoherenceKept
    <2> QED  BY <2>1, <2>2
<1> QED  BY <1>1, <1>4, <1>5 DEF RequestsCoherent

LEMMA RevokeCredentialRowInv ==
    ASSUME Inv, NEW r \in Requests, RevokeCredentialRow(r)
    PROVE  Inv'
<1> DEFINE c == request[r].id
           row == [credential[c] EXCEPT !.revoked = TRUE]
<1>1. c \in Credentials /\ credential[c] # None
    BY DEF Inv, RequestsCoherent, RequestCoherent, RevokeCredentialRow
<1>2. /\ credential' = [credential EXCEPT ![c] = row]
      /\ request' = [request EXCEPT ![r] = Idle]
      /\ UNCHANGED <<now, process, holderKey, share, audit, received, delivered, overlapped>>
    BY DEF RevokeCredentialRow
<1>3. row \in CredentialRow /\ TermsOfCredential(row) = TermsOfCredential(credential[c])
    <2>1. credential[c] \in CredentialRow
        BY <1>1 DEF Inv, TypeOK
    <2> QED  BY <2>1 DEF CredentialRow, TermsOfCredential
<1>4. row # None
    BY <1>3, RowsAssumption
<1> HIDE DEF c, row
<1>5. TypeOK'
    BY <1>2, <1>3, IdleType DEF Inv, TypeOK
<1>6. CredentialRowsKept
    BY <1>1, <1>2, <1>3, <1>4 DEF CredentialRowsKept, Inv, TypeOK
<1>7. \A p \in Requests : request'[p] = request[p] \/ request'[p] = Idle
    BY <1>2 DEF Inv, TypeOK
<1>8. share' = share /\ credential' \in [Credentials -> CredentialRow \cup {None}]
    BY <1>2, <1>5 DEF TypeOK
<1> QED  BY <1>5, <1>6, <1>7, <1>8, CredentialStep DEF Inv

LEMMA IssueCredentialInv ==
    ASSUME Inv, NEW c \in Credentials, NEW h \in Holders, NEW i \in Issuers, NEW C \in ClaimSets,
           IssueCredential(c, h, i, C)
    PROVE  Inv'
<1> DEFINE row == [holder |-> h, issuer |-> i, claims |-> C, expiresAt |-> now + CredentialTtl,
                   exp |-> Seconds(now + CredentialTtl), revoked |-> FALSE, madeBy |-> process]
<1>1. /\ credential[c] = None /\ credential' = [credential EXCEPT ![c] = row]
      /\ UNCHANGED <<now, process, holderKey, share, audit, request, received, delivered, overlapped>>
    BY DEF IssueCredential
<1>2. row \in CredentialRow
    <2>1. now + CredentialTtl \in Nat /\ Seconds(now + CredentialTtl) \in Nat
        BY BoundsAssumption, SecondsType DEF Inv, TypeOK
    <2> QED  BY <2>1 DEF Inv, TypeOK, CredentialRow
<1> HIDE DEF row
<1>3. TypeOK'
    BY <1>1, <1>2 DEF Inv, TypeOK
<1>4. CredentialRowsKept
    BY <1>1 DEF CredentialRowsKept, Inv, TypeOK
<1>5. share' = share /\ request' = request /\ credential' \in [Credentials -> CredentialRow \cup {None}]
    BY <1>1, <1>3 DEF TypeOK
<1> QED  BY <1>3, <1>4, <1>5, CredentialStep DEF Inv

LEMMA QuietStepInv ==
    ASSUME Inv,
           \/ \E h \in Holders : EnsureHolderKey(h)
           \/ Tick
           \/ Restart
           \/ UNCHANGED vars
    PROVE  Inv'
<1>1. share' = share /\ credential' = credential
    BY DEF EnsureHolderKey, Tick, Restart, vars, database
<1>2. \A p \in Requests : request'[p] = request[p] \/ request'[p] = Idle
    BY DEF EnsureHolderKey, Tick, Restart, vars, database
<1>3. TypeOK'
    <2>1. CASE \E h \in Holders : EnsureHolderKey(h)
        BY <2>1 DEF Inv, TypeOK, EnsureHolderKey
    <2>2. CASE Tick
        BY <2>2, BoundsAssumption DEF Inv, TypeOK, Tick, database
    <2>3. CASE Restart
        BY <2>3, BoundsAssumption, IdleType DEF Inv, TypeOK, Restart, Processes, database
    <2>4. CASE UNCHANGED vars
        BY <2>4 DEF Inv, TypeOK, vars, database
    <2> QED  BY <2>1, <2>2, <2>3, <2>4
<1>4. CredentialRowsKept /\ credential' \in [Credentials -> CredentialRow \cup {None}]
    BY <1>1 DEF CredentialRowsKept, Inv, TypeOK
<1> QED  BY <1>1, <1>2, <1>3, <1>4, CredentialStep DEF Inv

-----------------------------------------------------------------------------
LEMMA NextInv == Inv /\ [Next]_vars => Inv'
<1> SUFFICES ASSUME Inv, [Next]_vars PROVE Inv'
    OBVIOUS
<1>1. CASE Issuance
    <2>1. CASE \E h \in Holders : EnsureHolderKey(h)
        BY <2>1, QuietStepInv
    <2>2. CASE \E c \in Credentials, h \in Holders, i \in Issuers, C \in ClaimSets :
                  IssueCredential(c, h, i, C)
        BY <2>2, IssueCredentialInv
    <2> QED  BY <1>1, <2>1, <2>2 DEF Issuance
<1>2. ASSUME NEW r \in Requests, Arrival(r) PROVE Inv'
    <2>1. CASE \E h \in Holders, c \in Credentials, s \in Shares, ttl \in ShareTtls,
                  limit \in ViewLimits, C \in ClaimSets :
                   \E D \in (SUBSET C) \ {{}} : CreateShare(r, h, c, D, ttl, limit, s)
        BY <2>1, CreateShareInv
    <2>2. CASE \E h \in Holders, s \in Shares : CancelShare(r, h, s)
        BY <2>2, CancelShareInv
    <2>3. CASE \E i \in Issuers, c \in Credentials : RevokeCredential(r, i, c)
        BY <2>3, RevokeCredentialInv
    <2>4. CASE \E t \in Tokens : ReadShare(r, t)
        BY <2>4, ReadShareInv
    <2> QED  BY <1>2, <2>1, <2>2, <2>3, <2>4 DEF Arrival
<1>3. ASSUME NEW r \in Requests, Continue(r) PROVE Inv'
    <2>1. CASE CreateShareRow(r)      BY <2>1, CreateShareRowInv
    <2>2. CASE CancelShareRow(r)      BY <2>2, CancelShareRowInv
    <2>3. CASE RevokeCredentialRow(r) BY <2>3, RevokeCredentialRowInv
    <2>4. CASE CheckLink(r)           BY <2>4, CheckLinkInv
    <2>5. CASE CheckPresentation(r)   BY <2>5, CheckPresentationInv
    <2>6. CASE CountView(r)           BY <2>6, CountViewInv
    <2>7. CASE AuditVerification(r)   BY <2>7, AuditVerificationInv
    <2>8. CASE Reply(r)               BY <2>8, ReplyInv
    <2> QED  BY <1>3, <2>1, <2>2, <2>3, <2>4, <2>5, <2>6, <2>7, <2>8 DEF Continue
<1>4. ASSUME NEW r \in Requests, RequestFails(r) PROVE Inv'
    BY <1>4, RequestFailsInv
<1>5. CASE Tick \/ Restart \/ UNCHANGED vars
    BY <1>5, QuietStepInv
<1> QED  BY <1>1, <1>2, <1>3, <1>4, <1>5 DEF Next

\* The inductive invariant: stored counts, stored shares and the rows requests
\* hold all at once, since none of them is inductive alone.
THEOREM InvHolds == Spec => []Inv
<1>1. Init => Inv
    BY InitInv
<1>2. Inv /\ [Next]_vars => Inv'
    BY NextInv
<1> QED  BY <1>1, <1>2, PTL DEF Spec

\* Tables, requests and counters keep their shape for all constants.
THEOREM TypeCorrect == Spec => []TypeOK
BY InvHolds, PTL DEF Inv

\* No interleaving of any number of verifications, cancellations, failures and
\* restarts pushes the stored count of a share past its limit.
THEOREM ViewsBounded == Spec => []ViewsWithinLimit
BY InvHolds, PTL DEF Inv

\* Every stored share belongs to the holder of its credential and discloses
\* only claims the credential carries.
THEOREM SharesBacked == Spec => []ShareWithinCredential
BY InvHolds, PTL DEF Inv

\* The rows a request works from disagree with the tables only in the columns
\* that updates touch.
THEOREM RequestsStayCoherent == Spec => []RequestsCoherent
BY InvHolds, PTL DEF Inv

LEMMA NextKeepsWithdrawals == Inv /\ [Next]_vars => KeepsWithdrawals
<1> SUFFICES ASSUME Inv, [Next]_vars PROVE KeepsWithdrawals
    OBVIOUS
<1>1. CASE UNCHANGED <<share, credential>>
    BY <1>1 DEF KeepsWithdrawals
<1>2. ASSUME NEW r \in Requests, CreateShareRow(r) PROVE KeepsWithdrawals
    <2>1. share[request[r].id] = None
        BY <1>2 DEF Inv, RequestsCoherent, RequestCoherent, CreateCoherent, CreateShareRow
    <2>2. \A s \in Shares : share[s] # None => share'[s] = share[s]
        BY <1>2, <2>1 DEF CreateShareRow, Inv, TypeOK
    <2> QED  BY <1>2, <2>2 DEF CreateShareRow, KeepsWithdrawals
<1>3. ASSUME NEW r \in Requests, CancelShareRow(r) PROVE KeepsWithdrawals
    <2> DEFINE row == [share[request[r].id] EXCEPT !.cancelled = TRUE]
    <2>1. request[r].id \in Shares /\ share[request[r].id] # None
        BY <1>3 DEF Inv, RequestsCoherent, RequestCoherent, CancelShareRow
    <2>2. row \in ShareRow /\ row.cancelled /\ TermsOfShare(row) = TermsOfShare(share[request[r].id])
        BY <2>1, ShareRowFacts DEF Inv, ShareRow, TermsOfShare
    <2>3. share' = [share EXCEPT ![request[r].id] = row] /\ credential' = credential
        BY <1>3 DEF CancelShareRow
    <2>4. row # None
        BY <2>2, RowsAssumption
    <2> HIDE DEF row
    <2> QED  BY <2>1, <2>2, <2>3, <2>4 DEF KeepsWithdrawals, Inv, TypeOK
<1>4. ASSUME NEW r \in Requests, CountView(r) PROVE KeepsWithdrawals
    <2> DEFINE n == request[r].share.views + 1
               row == [share[request[r].id] EXCEPT !.views = n]
    <2>1. HoldsRows(r)
        BY <1>4 DEF Inv, RequestsCoherent, RequestCoherent, CountView
    <2>2. /\ request[r].id \in Shares /\ share[request[r].id] # None
          /\ request[r].share \in ShareRow
        BY <2>1 DEF HoldsRows
    <2>3. n \in Nat
        BY <2>2 DEF ShareRow
    <2> HIDE DEF n
    <2>4. /\ row \in ShareRow /\ row.cancelled = share[request[r].id].cancelled
          /\ TermsOfShare(row) = TermsOfShare(share[request[r].id])
        BY <2>2, <2>3, ShareRowFacts DEF Inv, ShareRow, TermsOfShare
    <2>5. share' = [share EXCEPT ![request[r].id] = row] /\ credential' = credential
        BY <1>4 DEF CountView, n
    <2>6. row # None
        BY <2>4, RowsAssumption
    <2> HIDE DEF row
    <2> QED  BY <2>2, <2>4, <2>5, <2>6 DEF KeepsWithdrawals, Inv, TypeOK
<1>5. ASSUME NEW r \in Requests, RevokeCredentialRow(r) PROVE KeepsWithdrawals
    <2> DEFINE row == [credential[request[r].id] EXCEPT !.revoked = TRUE]
    <2>1. request[r].id \in Credentials /\ credential[request[r].id] # None
        BY <1>5 DEF Inv, RequestsCoherent, RequestCoherent, RevokeCredentialRow
    <2>2. credential[request[r].id] \in CredentialRow
        BY <2>1 DEF Inv, TypeOK
    <2>3. /\ row \in CredentialRow /\ row.revoked
          /\ TermsOfCredential(row) = TermsOfCredential(credential[request[r].id])
        BY <2>2 DEF CredentialRow, TermsOfCredential
    <2>4. credential' = [credential EXCEPT ![request[r].id] = row] /\ share' = share
        BY <1>5 DEF RevokeCredentialRow
    <2>5. row # None
        BY <2>3, RowsAssumption
    <2> HIDE DEF row
    <2> QED  BY <2>1, <2>3, <2>4, <2>5 DEF KeepsWithdrawals, Inv, TypeOK
<1>6. ASSUME NEW c \in Credentials, NEW h \in Holders, NEW i \in Issuers, NEW C \in ClaimSets,
             IssueCredential(c, h, i, C)
      PROVE  KeepsWithdrawals
    <2>1. \A d \in Credentials : credential[d] # None => credential'[d] = credential[d]
        BY <1>6 DEF IssueCredential, Inv, TypeOK
    <2> QED  BY <1>6, <2>1 DEF IssueCredential, KeepsWithdrawals
<1>7. ASSUME NEW r \in Requests, Arrival(r) \/ RequestFails(r) PROVE UNCHANGED <<share, credential>>
    <2>1. \A h, c, D, ttl, limit, s : CreateShare(r, h, c, D, ttl, limit, s) => UNCHANGED <<share, credential>>
        BY DEF CreateShare, database
    <2>2. \A h, s : CancelShare(r, h, s) => UNCHANGED <<share, credential>>
        BY DEF CancelShare, database
    <2>3. \A i, c : RevokeCredential(r, i, c) => UNCHANGED <<share, credential>>
        BY DEF RevokeCredential, database
    <2>4. \A t : ReadShare(r, t) => UNCHANGED <<share, credential>>
        BY DEF ReadShare, database
    <2> QED  BY <1>7, <2>1, <2>2, <2>3, <2>4 DEF Arrival, RequestFails, database
<1>8. ASSUME NEW r \in Requests, Continue(r) PROVE KeepsWithdrawals
    <2>1. CASE CheckLink(r) \/ CheckPresentation(r) \/ AuditVerification(r) \/ Reply(r)
        BY <1>1, <2>1 DEF CheckLink, CheckPresentation, AuditVerification, Reply, database
    <2> QED  BY <1>2, <1>3, <1>4, <1>5, <1>8, <2>1 DEF Continue
<1>9. CASE Issuance
    <2>1. ASSUME NEW h \in Holders, EnsureHolderKey(h) PROVE UNCHANGED <<share, credential>>
        BY <2>1 DEF EnsureHolderKey
    <2> QED  BY <1>1, <1>6, <1>9, <2>1 DEF Issuance
<1>10. CASE Tick \/ Restart \/ UNCHANGED vars
    BY <1>1, <1>10 DEF Tick, Restart, vars, database
<1> QED  BY <1>1, <1>7, <1>8, <1>9, <1>10 DEF Next

\* A cancelled share stays cancelled, a revoked credential stays revoked, and no
\* step rewrites the terms of a stored row: no stale row a request holds can undo
\* what another request wrote.
THEOREM WithdrawalsHold == Spec => WithdrawalIsFinal
BY InvHolds, NextKeepsWithdrawals, PTL DEF Spec, WithdrawalIsFinal

-----------------------------------------------------------------------------
(* Every answer leaves its audit row first.  Between the row and the answer *)
(* a request is about to answer, so what is counted is the answers given   *)
(* and the answers on their way.                                           *)

About(q) == IF q.id \in BadTokens THEN None ELSE q.id
Answering(requests, s, x) ==
    {r \in Requests : /\ requests[r].step = "reply"
                      /\ About(requests[r]) = s
                      /\ Result(requests[r].verdict) = x}
Covered(requests, given, rows, s, x) ==
    /\ IsFiniteSet(Answering(requests, s, x))
    /\ given[s][x] + Cardinality(Answering(requests, s, x)) <= rows[s][x]
AnswersCovered ==
    \A s \in Shares \cup {None}, x \in Results : Covered(request, delivered, audit, s, x)

LEMMA FewerAnswering ==
    ASSUME NEW Q \in [Requests -> Request], NEW given, NEW rows, NEW s, NEW x,
           NEW P, Covered(Q, given, rows, s, x),
           Answering(P, s, x) \subseteq Answering(Q, s, x),
           given[s][x] \in Nat, rows[s][x] \in Nat
    PROVE  Covered(P, given, rows, s, x)
<1>1. IsFiniteSet(Answering(Q, s, x))
    BY DEF Covered
<1>2. /\ IsFiniteSet(Answering(P, s, x))
      /\ Cardinality(Answering(P, s, x)) <= Cardinality(Answering(Q, s, x))
    BY <1>1, FS_Subset
<1>3. Cardinality(Answering(P, s, x)) \in Nat /\ Cardinality(Answering(Q, s, x)) \in Nat
    BY <1>1, <1>2, FS_CardinalityType
<1> QED  BY <1>2, <1>3 DEF Covered

LEMMA AuditCovers ==
    ASSUME Inv, AnswersCovered, NEW r \in Requests, AuditVerification(r)
    PROVE  AnswersCovered'
<1> DEFINE t == Subject(r)
           y == Result(request[r].verdict)
<1>1. request[r].id \in Shares \cup BadTokens /\ request[r].verdict \in Verdicts
    BY DEF Inv, RequestsCoherent, RequestCoherent, AuditVerification
<1>2. t \in Shares \cup {None} /\ y \in Results
    BY <1>1 DEF Subject, Result, Results
<1>3. t = About(request[r])
    BY DEF Subject, About
<1>4. request' = [request EXCEPT ![r] = MoveTo(request[r], "reply")]
    BY DEF AuditVerification
<1>5. /\ request'[r].step = "reply" /\ About(request'[r]) = t
      /\ Result(request'[r].verdict) = y
      /\ \A p \in Requests \ {r} : request'[p] = request[p]
    BY <1>3, <1>4 DEF Inv, TypeOK, MoveTo, Decide, About
<1>6. audit' = [audit EXCEPT ![t][y] = @ + 1] /\ delivered' = delivered
    BY DEF AuditVerification
<1>7. request[r].step = "audit"
    BY DEF AuditVerification
<1> HIDE DEF t, y
<1> SUFFICES ASSUME NEW s \in Shares \cup {None}, NEW x \in Results
             PROVE  Covered(request', delivered', audit', s, x)
    BY DEF AnswersCovered
<1>8. /\ IsFiniteSet(Answering(request, s, x))
      /\ delivered[s][x] + Cardinality(Answering(request, s, x)) <= audit[s][x]
    BY DEF AnswersCovered, Covered
<1>9. delivered[s][x] \in Nat /\ audit[s][x] \in Nat /\ Cardinality(Answering(request, s, x)) \in Nat
    BY <1>8, FS_CardinalityType DEF Inv, TypeOK
<1>10. CASE s = t /\ x = y
    <2>1. Answering(request', s, x) = Answering(request, s, x) \cup {r}
        BY <1>5, <1>10 DEF Answering
    <2>2. r \notin Answering(request, s, x)
        BY <1>7 DEF Answering
    <2>3. /\ IsFiniteSet(Answering(request', s, x))
          /\ Cardinality(Answering(request', s, x)) = Cardinality(Answering(request, s, x)) + 1
        BY <1>8, <2>1, <2>2, FS_AddElement
    <2>4. audit'[s][x] = audit[s][x] + 1
        BY <1>2, <1>6, <1>10 DEF Inv, TypeOK
    <2> QED  BY <1>6, <1>8, <1>9, <2>3, <2>4 DEF Covered
<1>11. CASE ~(s = t /\ x = y)
    <2>1. Answering(request', s, x) = Answering(request, s, x)
        BY <1>5, <1>7, <1>11 DEF Answering
    <2>2. audit'[s][x] = audit[s][x]
        BY <1>2, <1>6, <1>11 DEF Inv, TypeOK
    <2> QED  BY <1>6, <1>8, <2>1, <2>2 DEF Covered
<1> QED  BY <1>10, <1>11

LEMMA ReplyCovers ==
    ASSUME Inv, AnswersCovered, NEW r \in Requests, Reply(r)
    PROVE  AnswersCovered'
<1> DEFINE t == Subject(r)
           y == Result(request[r].verdict)
<1>1. request[r].id \in Shares \cup BadTokens /\ request[r].verdict \in Verdicts
    BY DEF Inv, RequestsCoherent, RequestCoherent, Reply
<1>2. t \in Shares \cup {None} /\ y \in Results
    BY <1>1 DEF Subject, Result, Results
<1>3. About(request[r]) = t
    BY DEF Subject, About
<1>4. request[r].step = "reply" /\ request' = [request EXCEPT ![r] = Idle]
    BY DEF Reply
<1>5. /\ request'[r].step = "idle"
      /\ \A p \in Requests \ {r} : request'[p] = request[p]
    BY <1>4 DEF Inv, TypeOK, Idle, Start
<1>6. delivered' = [delivered EXCEPT ![t][y] = @ + 1] /\ audit' = audit
    BY DEF Reply, database
<1>7. y = Result(request[r].verdict)
    OBVIOUS
<1> HIDE DEF t, y
<1> SUFFICES ASSUME NEW s \in Shares \cup {None}, NEW x \in Results
             PROVE  Covered(request', delivered', audit', s, x)
    BY DEF AnswersCovered
<1>8. /\ IsFiniteSet(Answering(request, s, x))
      /\ delivered[s][x] + Cardinality(Answering(request, s, x)) <= audit[s][x]
    BY DEF AnswersCovered, Covered
<1>9. delivered[s][x] \in Nat /\ audit[s][x] \in Nat /\ Cardinality(Answering(request, s, x)) \in Nat
    BY <1>8, FS_CardinalityType DEF Inv, TypeOK
<1>10. CASE s = t /\ x = y
    <2>1. Answering(request', s, x) = Answering(request, s, x) \ {r}
        BY <1>5 DEF Answering
    <2>2. r \in Answering(request, s, x)
        BY <1>3, <1>4, <1>7, <1>10 DEF Answering
    <2>3. /\ IsFiniteSet(Answering(request', s, x))
          /\ Cardinality(Answering(request', s, x)) = Cardinality(Answering(request, s, x)) - 1
        BY <1>8, <2>1, <2>2, FS_RemoveElement
    <2>4. delivered'[s][x] = delivered[s][x] + 1
        BY <1>2, <1>6, <1>10 DEF Inv, TypeOK
    <2> QED  BY <1>6, <1>8, <1>9, <2>3, <2>4 DEF Covered
<1>11. CASE ~(s = t /\ x = y)
    <2>1. Answering(request', s, x) = Answering(request, s, x)
        BY <1>3, <1>5, <1>7, <1>11 DEF Answering
    <2>2. delivered'[s][x] = delivered[s][x]
        BY <1>2, <1>6, <1>11 DEF Inv, TypeOK
    <2> QED  BY <1>6, <1>8, <2>1, <2>2 DEF Covered
<1> QED  BY <1>10, <1>11

\* Any other step keeps both counts, and no request comes to answer.
LEMMA OthersCover ==
    ASSUME Inv, AnswersCovered, UNCHANGED <<audit, delivered>>,
           \A p \in Requests : request'[p] = request[p] \/ request'[p].step # "reply"
    PROVE  AnswersCovered'
<1> SUFFICES ASSUME NEW s \in Shares \cup {None}, NEW x \in Results
             PROVE  Covered(request', delivered', audit', s, x)
    BY DEF AnswersCovered
<1>1. Answering(request', s, x) \subseteq Answering(request, s, x)
    BY DEF Answering
<1>2. request \in [Requests -> Request] /\ delivered[s][x] \in Nat /\ audit[s][x] \in Nat
    BY DEF Inv, TypeOK
<1>3. Covered(request, delivered, audit, s, x)
    BY DEF AnswersCovered
<1>4. Covered(request', delivered, audit, s, x)
    BY <1>1, <1>2, <1>3, FewerAnswering
<1> QED  BY <1>4

LEMMA NextCovers == Inv /\ AnswersCovered /\ [Next]_vars => AnswersCovered'
<1> SUFFICES ASSUME Inv, AnswersCovered, [Next]_vars PROVE AnswersCovered'
    OBVIOUS
<1>1. ASSUME NEW r \in Requests, NEW q, q.step # "reply", UNCHANGED <<audit, delivered>>,
             request' = [request EXCEPT ![r] = q]
      PROVE  AnswersCovered'
    <2>1. \A p \in Requests : request'[p] = request[p] \/ request'[p].step # "reply"
        BY <1>1 DEF Inv, TypeOK
    <2> QED  BY <1>1, <2>1, OthersCover
<1>2. Idle.step # "reply"
    BY DEF Idle, Start
<1>3. CASE Issuance \/ Tick \/ UNCHANGED vars
    <2>1. UNCHANGED <<audit, delivered, request>>
        BY <1>3 DEF Issuance, EnsureHolderKey, IssueCredential, Tick, vars, database
    <2> QED  BY <2>1, OthersCover
<1>4. CASE Restart
    <2>1. /\ UNCHANGED <<audit, delivered>>
          /\ \A p \in Requests : request'[p].step # "reply"
        BY <1>2, <1>4 DEF Restart, database
    <2> QED  BY <2>1, OthersCover
<1>5. ASSUME NEW r \in Requests, Arrival(r) PROVE AnswersCovered'
    <2>1. ASSUME NEW h, NEW c, NEW D, NEW ttl, NEW limit, NEW s, CreateShare(r, h, c, D, ttl, limit, s)
          PROVE  AnswersCovered'
        <3> DEFINE q == Start("create", s,
                       [credential |-> c, holder |-> h, disclosed |-> D, expiresAt |-> now + ttl,
                        maxViews |-> limit, views |-> 0, cancelled |-> FALSE, madeBy |-> process], None)
        <3>1. request' = [request EXCEPT ![r] = q] /\ UNCHANGED <<audit, delivered>>
            BY <2>1 DEF CreateShare, database
        <3>2. q.step # "reply"
            BY DEF Start
        <3> HIDE DEF q
        <3> QED  BY <1>1, <3>1, <3>2
    <2>2. ASSUME NEW h, NEW s, CancelShare(r, h, s) PROVE AnswersCovered'
        <3>1. Start("cancel", s, None, None).step # "reply"
            BY DEF Start
        <3> QED  BY <1>1, <2>2, <3>1 DEF CancelShare, database
    <2>3. ASSUME NEW i, NEW c, RevokeCredential(r, i, c) PROVE AnswersCovered'
        <3>1. Start("revoke", c, None, None).step # "reply"
            BY DEF Start
        <3> QED  BY <1>1, <2>3, <3>1 DEF RevokeCredential, database
    <2>4. ASSUME NEW t, ReadShare(r, t) PROVE AnswersCovered'
        <3> DEFINE q == IF t \in BadTokens THEN Start("state", t, None, None)
                        ELSE Start("state", t, share[t], credential[share[t].credential])
        <3>1. request' = [request EXCEPT ![r] = q] /\ UNCHANGED <<audit, delivered>>
            BY <2>4 DEF ReadShare, database
        <3>2. q.step # "reply"
            BY DEF Start
        <3> HIDE DEF q
        <3> QED  BY <1>1, <3>1, <3>2
    <2> QED  BY <1>5, <2>1, <2>2, <2>3, <2>4 DEF Arrival
<1>6. ASSUME NEW r \in Requests, Continue(r) PROVE AnswersCovered'
    <2>1. CASE CreateShareRow(r) \/ CancelShareRow(r) \/ RevokeCredentialRow(r)
        BY <1>1, <1>2, <2>1 DEF CreateShareRow, CancelShareRow, RevokeCredentialRow
    <2>2. CASE CheckLink(r)
        <3>1. PICK q : q.step # "reply" /\ request' = [request EXCEPT ![r] = q]
            BY <2>2 DEF CheckLink, Decide
        <3> QED  BY <1>1, <2>2, <3>1 DEF CheckLink, database
    <2>3. CASE CheckPresentation(r)
        <3>1. PICK q : q.step # "reply" /\ request' = [request EXCEPT ![r] = q]
            BY <2>3 DEF CheckPresentation, Decide
        <3> QED  BY <1>1, <2>3, <3>1 DEF CheckPresentation, database
    <2>4. CASE CountView(r)
        <3>1. MoveTo(request[r], "audit").step # "reply"
            BY DEF MoveTo, Decide
        <3> QED  BY <1>1, <2>4, <3>1 DEF CountView
    <2> QED  BY <1>6, <2>1, <2>2, <2>3, <2>4, AuditCovers, ReplyCovers DEF Continue
<1>7. ASSUME NEW r \in Requests, RequestFails(r) PROVE AnswersCovered'
    BY <1>1, <1>2, <1>7 DEF RequestFails, database
<1> QED  BY <1>3, <1>4, <1>5, <1>6, <1>7 DEF Next

\* No verifier holds an answer that left no audit row: for any number of requests,
\* failures and restarts, the rows are the answers given, those on their way and
\* those that were lost.
THEOREM AnswersAreAudited == Spec => []AnswersAudited
<1>1. Init => AnswersCovered
    <2> SUFFICES ASSUME Init, NEW s \in Shares \cup {None}, NEW x \in Results
                 PROVE  Covered(request, delivered, audit, s, x)
        BY DEF AnswersCovered
    <2>1. Answering(request, s, x) = {}
        BY DEF Init, Answering, Idle, Start
    <2>2. delivered[s][x] = 0 /\ audit[s][x] = 0
        BY DEF Init
    <2>3. IsFiniteSet(Answering(request, s, x)) /\ Cardinality(Answering(request, s, x)) = 0
        BY <2>1, FS_EmptySet
    <2> QED  BY <2>2, <2>3 DEF Covered
<1>2. Inv /\ AnswersCovered => AnswersAudited
    <2> SUFFICES ASSUME Inv, AnswersCovered, NEW s \in Shares \cup {None}, NEW x \in Results
                 PROVE  delivered[s][x] <= audit[s][x]
        BY DEF AnswersAudited
    <2>1. /\ IsFiniteSet(Answering(request, s, x))
          /\ delivered[s][x] + Cardinality(Answering(request, s, x)) <= audit[s][x]
        BY DEF AnswersCovered, Covered
    <2>2. delivered[s][x] \in Nat /\ audit[s][x] \in Nat /\ Cardinality(Answering(request, s, x)) \in Nat
        BY <2>1, FS_CardinalityType DEF Inv, TypeOK
    <2> QED  BY <2>1, <2>2
<1> QED  BY <1>1, <1>2, InvHolds, NextCovers, PTL DEF Spec

-----------------------------------------------------------------------------
(* The checks of an answer are marked in their order: a stage is the last  *)
(* check that passed, plus one, and the last that failed.                  *)

Staged(checks, first, last) ==
    \A i \in 1..10 : checks[CheckOrder[i]] =
        IF i < first THEN "passed" ELSE IF i <= last THEN "failed" ELSE "skipped"
StagesOf(verdict) ==
    CASE verdict \in BadTokens                  -> {<<1, 1>>}
      [] verdict \in {"cancelled", "exhausted"} -> {<<2, 2>>}
      [] verdict = "expired"                    -> {<<2, 2>>, <<9, 9>>}
      [] verdict = "tampered"                   -> {<<3, 3>>, <<4, 8>>}
      [] verdict = "revoked"                    -> {<<10, 10>>}
      [] OTHER                                  -> {<<11, 10>>}
Tells(q) ==
    /\ q.step = "presentation" => Staged(q.checks, 4, 3)
    /\ q.step \in {"count", "audit", "reply"} =>
           \E stage \in StagesOf(q.verdict) : Staged(q.checks, stage[1], stage[2])
ChecksStaged == \A r \in Requests : Tells(request[r])

LEMMA CheckPositions ==
    /\ \A i \in 1..10 : CheckOrder[i] \in CheckIds
    /\ \A i, j \in 1..10 : CheckOrder[i] = CheckOrder[j] => i = j
    /\ CheckOrder[1] = "share_token" /\ CheckOrder[2] = "share_state"
    /\ CheckOrder[3] = "presentation_decryption"
    /\ CheckOrder[9] = "credential_expiry" /\ CheckOrder[10] = "credential_status"
<1>1. \A i \in 1..10 : CheckOrder[i] \in CheckIds
    BY DEF CheckIds
<1>2. \A i, j \in 1..10 : CheckOrder[i] = CheckOrder[j] => i = j
    BY DEF CheckOrder
<1> QED  BY <1>1, <1>2 DEF CheckOrder

LEMMA MarkAt ==
    ASSUME NEW k, NEW P, NEW F, NEW i \in 1..10
    PROVE  Mark(k, P, F)[CheckOrder[i]] =
               IF CheckOrder[i] \in F THEN "failed"
               ELSE IF CheckOrder[i] \in P THEN "passed" ELSE k[CheckOrder[i]]
BY CheckPositions DEF Mark

LEMMA NothingMarked == ASSUME NEW i \in 1..10 PROVE NoChecks[CheckOrder[i]] = "skipped"
BY CheckPositions DEF NoChecks

LEMMA CryptoPositions == ASSUME NEW i \in 1..10 PROVE CheckOrder[i] \in CryptoChecks <=> i \in 4..8
BY CheckPositions DEF CryptoChecks

\* What the link check marks tells its verdict, which is never a revocation.
LEMMA LinkChecksTell ==
    ASSUME NEW v \in {"unknown", "malformed", "cancelled", "expired", "exhausted", "tampered"}
    PROVE  \E stage \in StagesOf(v) : Staged(LinkChecks(v), stage[1], stage[2])
<1>1. CASE v \in BadTokens
    <2>1. LinkChecks(v) = Mark(NoChecks, {}, {"share_token"}) /\ StagesOf(v) = {<<1, 1>>}
        BY <1>1 DEF LinkChecks, StagesOf, BadTokens
    <2>2. Staged(LinkChecks(v), 1, 1)
        BY <2>1, MarkAt, NothingMarked, CheckPositions DEF Staged
    <2> QED  BY <2>1, <2>2
<1>2. CASE v \in {"cancelled", "exhausted", "expired"}
    <2>1. LinkChecks(v) = Mark(NoChecks, {"share_token"}, {"share_state"}) /\ <<2, 2>> \in StagesOf(v)
        BY <1>2 DEF LinkChecks, StagesOf, BadTokens
    <2>2. Staged(LinkChecks(v), 2, 2)
        BY <2>1, MarkAt, NothingMarked, CheckPositions DEF Staged
    <2> QED  BY <2>1, <2>2
<1>3. CASE v = "tampered"
    <2>1. /\ LinkChecks(v) = Mark(NoChecks, {"share_token", "share_state"}, {"presentation_decryption"})
          /\ <<3, 3>> \in StagesOf(v)
        BY <1>3 DEF LinkChecks, StagesOf, BadTokens
    <2>2. Staged(LinkChecks(v), 3, 3)
        BY <2>1, MarkAt, NothingMarked, CheckPositions DEF Staged
    <2> QED  BY <2>1, <2>2
<1> QED  BY <1>1, <1>2, <1>3 DEF BadTokens

LEMMA LinkPassed == Staged(LinkChecks("verified"), 4, 3)
<1>1. LinkChecks("verified") = Mark(NoChecks, {CheckOrder[i] : i \in 1..3}, {})
    BY DEF LinkChecks, BadTokens
<1>2. \A i \in 1..10 : CheckOrder[i] \in {CheckOrder[j] : j \in 1..3} <=> i \in 1..3
    BY CheckPositions
<1> QED  BY <1>1, <1>2, MarkAt, NothingMarked DEF Staged

\* And what the credential check adds to a link that passed tells its own.
LEMMA CredentialChecksTell ==
    ASSUME NEW v \in {"tampered", "expired", "revoked", "verified"},
           NEW k, Staged(k, 4, 3)
    PROVE  \E stage \in StagesOf(v) : Staged(CredentialChecks(k, v), stage[1], stage[2])
<1>1. \A i \in 1..10 : k[CheckOrder[i]] = IF i < 4 THEN "passed" ELSE "skipped"
    BY DEF Staged
<1>2. CASE v = "tampered"
    <2>1. CredentialChecks(k, v) = Mark(k, {}, CryptoChecks) /\ <<4, 8>> \in StagesOf(v)
        BY <1>2 DEF CredentialChecks, StagesOf, BadTokens
    <2>2. Staged(CredentialChecks(k, v), 4, 8)
        BY <1>1, <2>1, MarkAt, CryptoPositions DEF Staged
    <2> QED  BY <2>1, <2>2
<1>3. CASE v = "expired"
    <2>1. CredentialChecks(k, v) = Mark(k, CryptoChecks, {"credential_expiry"}) /\ <<9, 9>> \in StagesOf(v)
        BY <1>3 DEF CredentialChecks, StagesOf, BadTokens
    <2>2. Staged(CredentialChecks(k, v), 9, 9)
        BY <1>1, <2>1, MarkAt, CryptoPositions, CheckPositions DEF Staged
    <2> QED  BY <2>1, <2>2
<1>4. CASE v = "revoked"
    <2>1. /\ CredentialChecks(k, v) = Mark(k, CryptoChecks \cup {"credential_expiry"}, {"credential_status"})
          /\ <<10, 10>> \in StagesOf(v)
        BY <1>4 DEF CredentialChecks, StagesOf, BadTokens
    <2>2. Staged(CredentialChecks(k, v), 10, 10)
        BY <1>1, <2>1, MarkAt, CryptoPositions, CheckPositions DEF Staged
    <2> QED  BY <2>1, <2>2
<1>5. CASE v = "verified"
    <2>1. CredentialChecks(k, v) = Mark(k, CheckIds, {}) /\ <<11, 10>> \in StagesOf(v)
        BY <1>5 DEF CredentialChecks, StagesOf, BadTokens
    <2>2. Staged(CredentialChecks(k, v), 11, 10)
        BY <2>1, MarkAt, CheckPositions DEF Staged
    <2> QED  BY <2>1, <2>2
<1> QED  BY <1>2, <1>3, <1>4, <1>5

\* A request that is not at one of these steps, or keeps verdict and checks, tells
\* what it told.
LEMMA OthersTell ==
    ASSUME Inv, ChecksStaged, NEW r \in Requests, NEW q,
           request' = [request EXCEPT ![r] = q], Tells(q)
    PROVE  ChecksStaged'
<1>1. request'[r] = q /\ \A p \in Requests \ {r} : request'[p] = request[p]
    BY DEF Inv, TypeOK
<1> HIDE DEF Tells
<1> SUFFICES ASSUME NEW p \in Requests PROVE Tells(request'[p])
    BY DEF ChecksStaged
<1> QED  BY <1>1 DEF ChecksStaged

LEMMA QuietTells ==
    ASSUME NEW q, q.step \notin {"presentation", "count", "audit", "reply"}
    PROVE  Tells(q)
BY DEF Tells

LEMMA MovesOnTelling ==
    ASSUME NEW q, NEW step, Tells(q), q.step \in {"count", "audit", "reply"}
    PROVE  Tells(MoveTo(q, step)) \/ step = "presentation"
<1> HIDE DEF Staged, StagesOf
<1> QED  BY DEF Tells, MoveTo, Decide

LEMMA NextTells == Inv /\ ChecksStaged /\ [Next]_vars => ChecksStaged'
<1> SUFFICES ASSUME Inv, ChecksStaged, [Next]_vars PROVE ChecksStaged'
    OBVIOUS
<1>1. Tells(Idle)
    BY QuietTells DEF Idle, Start
<1>2. CASE Issuance \/ Tick \/ UNCHANGED vars
    <2>1. request' = request
        BY <1>2 DEF Issuance, EnsureHolderKey, IssueCredential, Tick, vars, database
    <2> QED  BY <2>1 DEF ChecksStaged
<1>3. CASE Restart
    <2>1. \A p \in Requests : request'[p] = Idle
        BY <1>3 DEF Restart
    <2> QED  BY <1>1, <2>1 DEF ChecksStaged
<1>4. ASSUME NEW r \in Requests, Arrival(r) PROVE ChecksStaged'
    <2>1. ASSUME NEW h, NEW c, NEW D, NEW ttl, NEW limit, NEW s, CreateShare(r, h, c, D, ttl, limit, s)
          PROVE  ChecksStaged'
        <3> DEFINE q == Start("create", s,
                       [credential |-> c, holder |-> h, disclosed |-> D, expiresAt |-> now + ttl,
                        maxViews |-> limit, views |-> 0, cancelled |-> FALSE, madeBy |-> process], None)
        <3>1. request' = [request EXCEPT ![r] = q]
            BY <2>1 DEF CreateShare
        <3>2. q.step = "create"
            BY DEF Start
        <3> HIDE DEF q
        <3> QED  BY <3>1, <3>2, QuietTells, OthersTell
    <2>2. ASSUME NEW h, NEW s, CancelShare(r, h, s) PROVE ChecksStaged'
        <3>1. Tells(Start("cancel", s, None, None))
            BY QuietTells DEF Start
        <3> QED  BY <2>2, <3>1, OthersTell DEF CancelShare
    <2>3. ASSUME NEW i, NEW c, RevokeCredential(r, i, c) PROVE ChecksStaged'
        <3>1. Tells(Start("revoke", c, None, None))
            BY QuietTells DEF Start
        <3> QED  BY <2>3, <3>1, OthersTell DEF RevokeCredential
    <2>4. ASSUME NEW t, ReadShare(r, t) PROVE ChecksStaged'
        <3> DEFINE q == IF t \in BadTokens THEN Start("state", t, None, None)
                        ELSE Start("state", t, share[t], credential[share[t].credential])
        <3>1. request' = [request EXCEPT ![r] = q]
            BY <2>4 DEF ReadShare
        <3>2. q.step = "state"
            BY DEF Start
        <3> HIDE DEF q
        <3> QED  BY <3>1, <3>2, QuietTells, OthersTell
    <2> QED  BY <1>4, <2>1, <2>2, <2>3, <2>4 DEF Arrival
<1>5. ASSUME NEW r \in Requests, Continue(r) PROVE ChecksStaged'
    <2>1. Tells(request[r])
        BY DEF ChecksStaged
    <2>2. CASE CreateShareRow(r) \/ CancelShareRow(r) \/ RevokeCredentialRow(r) \/ Reply(r)
        BY <1>1, <2>2, OthersTell DEF CreateShareRow, CancelShareRow, RevokeCredentialRow, Reply
    <2>3. CASE CheckLink(r)
        <3>1. PICK v : /\ v = LinkVerdict(request[r].id, request[r].share)
                       /\ request' = [request EXCEPT ![r] = Decide(request[r], v, LinkChecks(v),
                                          IF v = "verified" THEN "presentation" ELSE "audit")]
            BY <2>3 DEF CheckLink
        <3>2. v \in {"unknown", "malformed", "cancelled", "expired", "exhausted", "tampered", "verified"}
            BY <3>1 DEF LinkVerdict
        <3>3. CASE v = "verified"
            <4>1. Tells(Decide(request[r], v, LinkChecks(v), "presentation"))
                BY <3>3, LinkPassed DEF Tells, Decide
            <4> QED  BY <3>1, <3>3, <4>1, OthersTell
        <3>4. CASE v # "verified"
            <4>1. \E stage \in StagesOf(v) : Staged(LinkChecks(v), stage[1], stage[2])
                BY <3>2, <3>4, LinkChecksTell
            <4>2. Tells(Decide(request[r], v, LinkChecks(v), "audit"))
                BY <4>1 DEF Tells, Decide
            <4> QED  BY <3>1, <3>4, <4>2, OthersTell
        <3> QED  BY <3>3, <3>4
    <2>4. CASE CheckPresentation(r)
        <3>1. PICK v : /\ v = CredentialVerdict(request[r].credential)
                       /\ request' = [request EXCEPT ![r] =
                              Decide(request[r], v, CredentialChecks(request[r].checks, v),
                                     IF v = "verified" THEN "count" ELSE "audit")]
            BY <2>4 DEF CheckPresentation
        <3>2. v \in {"tampered", "expired", "revoked", "verified"}
            BY <3>1 DEF CredentialVerdict
        <3>3. PICK k : k = CredentialChecks(request[r].checks, v)
            OBVIOUS
        <3>4. Staged(request[r].checks, 4, 3)
            BY <2>1, <2>4 DEF Tells, CheckPresentation
        <3>5. \E stage \in StagesOf(v) : Staged(k, stage[1], stage[2])
            BY <3>2, <3>3, <3>4, CredentialChecksTell
        <3>6. \A step \in {"count", "audit"} : Tells(Decide(request[r], v, k, step))
            BY <3>5 DEF Tells, Decide
        <3> QED  BY <3>1, <3>3, <3>6, OthersTell
    <2>5. CASE CountView(r)
        <3>1. Tells(MoveTo(request[r], "audit"))
            BY <2>1, <2>5, MovesOnTelling DEF CountView
        <3> QED  BY <2>5, <3>1, OthersTell DEF CountView
    <2>6. CASE AuditVerification(r)
        <3>1. Tells(MoveTo(request[r], "reply"))
            BY <2>1, <2>6, MovesOnTelling DEF AuditVerification
        <3> QED  BY <2>6, <3>1, OthersTell DEF AuditVerification
    <2> QED  BY <1>5, <2>2, <2>3, <2>4, <2>5, <2>6 DEF Continue
<1>6. ASSUME NEW r \in Requests, RequestFails(r) PROVE ChecksStaged'
    BY <1>1, <1>6, OthersTell DEF RequestFails
<1> QED  BY <1>2, <1>3, <1>4, <1>5, <1>6 DEF Next

\* From the stage of an answer, what it reports: which checks failed, that those
\* before them passed and those after were skipped.
LEMMA StageExplains ==
    ASSUME NEW q, NEW stage \in StagesOf(q.verdict), Staged(q.checks, stage[1], stage[2]),
           q.verdict \in Verdicts
    PROVE  LET Marked(m) == {i \in 1..10 : q.checks[CheckOrder[i]] = m}
           IN  /\ {CheckOrder[i] : i \in Marked("failed")} \in ChecksBehind(q.verdict)
               /\ \A i \in Marked("passed"), j \in Marked("failed") : i < j
               /\ \A i \in Marked("failed"), j \in Marked("skipped") : i < j
               /\ q.verdict = "verified" => Marked("skipped") = {}
<1> DEFINE Marked(m) == {i \in 1..10 : q.checks[CheckOrder[i]] = m}
           a == stage[1]
           b == stage[2]
<1>1. stage \in {<<1, 1>>, <<2, 2>>, <<3, 3>>, <<4, 8>>, <<9, 9>>, <<10, 10>>, <<11, 10>>}
    BY DEF StagesOf
<1>2. a \in 1..11 /\ b \in 1..10
    BY <1>1
<1>3. \A i \in 1..10 : q.checks[CheckOrder[i]] =
          IF i < a THEN "passed" ELSE IF i <= b THEN "failed" ELSE "skipped"
    BY DEF Staged
<1> HIDE DEF a, b
<1>4. Marked("failed") = a..b
    BY <1>2, <1>3
<1>5. \A i \in Marked("passed") : i < a
    BY <1>2, <1>3
<1>6. \A i \in Marked("skipped") : i > b
    BY <1>2, <1>3
<1>7. {CheckOrder[i] : i \in a..b} \in ChecksBehind(q.verdict)
    <2>1. CASE q.verdict \in BadTokens
        <3>1. a = 1 /\ b = 1 /\ ChecksBehind(q.verdict) = {{"share_token"}}
            BY <2>1 DEF StagesOf, ChecksBehind, BadTokens, a, b
        <3>2. {CheckOrder[i] : i \in 1..1} = {"share_token"}
            BY CheckPositions
        <3> QED  BY <3>1, <3>2
    <2>2. CASE q.verdict \in {"cancelled", "exhausted"}
        <3>1. a = 2 /\ b = 2 /\ ChecksBehind(q.verdict) = {{"share_state"}}
            BY <2>2 DEF StagesOf, ChecksBehind, BadTokens, a, b
        <3>2. {CheckOrder[i] : i \in 2..2} = {"share_state"}
            BY CheckPositions
        <3> QED  BY <3>1, <3>2
    <2>3. CASE q.verdict = "expired"
        <3>1. /\ a = b /\ a \in {2, 9}
              /\ ChecksBehind(q.verdict) = {{"share_state"}, {"credential_expiry"}}
            BY <2>3 DEF StagesOf, ChecksBehind, BadTokens, a, b
        <3>2. /\ {CheckOrder[i] : i \in 2..2} = {"share_state"}
              /\ {CheckOrder[i] : i \in 9..9} = {"credential_expiry"}
            BY CheckPositions
        <3> QED  BY <3>1, <3>2
    <2>4. CASE q.verdict = "tampered"
        <3>1. /\ (a = 3 /\ b = 3) \/ (a = 4 /\ b = 8)
              /\ ChecksBehind(q.verdict) = {{"presentation_decryption"}, CryptoChecks}
            BY <2>4 DEF StagesOf, ChecksBehind, BadTokens, a, b
        <3>2. {CheckOrder[i] : i \in 3..3} = {"presentation_decryption"}
            BY CheckPositions
        <3>3. {CheckOrder[i] : i \in 4..8} = CryptoChecks
            BY DEF CryptoChecks
        <3> QED  BY <3>1, <3>2, <3>3
    <2>5. CASE q.verdict = "revoked"
        <3>1. a = 10 /\ b = 10 /\ ChecksBehind(q.verdict) = {{"credential_status"}}
            BY <2>5 DEF StagesOf, ChecksBehind, BadTokens, a, b
        <3>2. {CheckOrder[i] : i \in 10..10} = {"credential_status"}
            BY CheckPositions
        <3> QED  BY <3>1, <3>2
    <2>6. CASE q.verdict = "verified"
        <3>1. a = 11 /\ b = 10 /\ ChecksBehind(q.verdict) = {{}}
            BY <2>6 DEF StagesOf, ChecksBehind, BadTokens, a, b
        <3> QED  BY <3>1
    <2> QED  BY <2>1, <2>2, <2>3, <2>4, <2>5, <2>6 DEF Verdicts, FailureCodes, BadTokens
<1>8. q.verdict = "verified" => b = 10
    BY DEF StagesOf, BadTokens, b
<1>9. q.verdict = "verified" => Marked("skipped") = {}
    BY <1>6, <1>8
<1>10. \A i \in Marked("passed"), j \in Marked("failed") : i < j
    BY <1>2, <1>4, <1>5
<1>11. \A i \in Marked("failed"), j \in Marked("skipped") : i < j
    BY <1>2, <1>4, <1>6
<1> QED  BY <1>4, <1>7, <1>9, <1>10, <1>11

\* The checks a verifier is shown tell the story of the verdict it is given:
\* those before the failure passed, those after it were skipped, and the failed
\* ones are those the failure code stands for.
THEOREM ChecksTellTheVerdict == Spec => []ChecksExplainVerdict
<1>1. Init => ChecksStaged
    BY QuietTells DEF Init, ChecksStaged, Idle, Start
<1>2. Inv /\ ChecksStaged => ChecksExplainVerdict
    <2> SUFFICES ASSUME Inv, ChecksStaged, NEW r \in Requests,
                        request[r].step \in {"count", "audit", "reply"}
                 PROVE  LET Marked(m) == {i \in 1..10 : request[r].checks[CheckOrder[i]] = m}
                        IN  /\ {CheckOrder[i] : i \in Marked("failed")} \in ChecksBehind(request[r].verdict)
                            /\ \A i \in Marked("passed"), j \in Marked("failed") : i < j
                            /\ \A i \in Marked("failed"), j \in Marked("skipped") : i < j
                            /\ request[r].verdict = "verified" => Marked("skipped") = {}
        BY DEF ChecksExplainVerdict
    <2>1. request[r].verdict \in Verdicts
        BY DEF Inv, RequestsCoherent, RequestCoherent, Verdicts
    <2>2. \E stage \in StagesOf(request[r].verdict) : Staged(request[r].checks, stage[1], stage[2])
        BY DEF ChecksStaged, Tells
    <2> QED  BY <2>1, <2>2, StageExplains
<1> QED  BY <1>1, <1>2, InvHolds, NextTells, PTL DEF Spec

-----------------------------------------------------------------------------
(* The budget of a link.  As long as no two verifications of it overlapped, *)
(* at most one request is between reading its count and writing it, so what *)
(* that request has read is the count; and a view was charged for every    *)
(* answer that was given or is on its way.                                 *)

ViewsOf(row) == IF row = None THEN 0 ELSE row.views
Reads(q, s) == q.step \in {"state", "presentation", "count"} /\ q.id = s
Pays(q, s) == q.step \in {"audit", "reply"} /\ q.id = s /\ q.verdict = "verified"
Payers(requests, s) == {r \in Requests : Pays(requests[r], s)}

ReadAlone(requests, rows, s) ==
    /\ \A r, p \in Requests : Reads(requests[r], s) /\ Reads(requests[p], s) => r = p
    /\ \A r \in Requests : Reads(requests[r], s) => requests[r].share.views = ViewsOf(rows[s])
PaidFor(requests, rows, given, s) ==
    /\ IsFiniteSet(Payers(requests, s))
    /\ given[s]["verified"] + Cardinality(Payers(requests, s)) <= ViewsOf(rows[s])
LinkSettled(requests, rows, given, s) ==
    ReadAlone(requests, rows, s) /\ PaidFor(requests, rows, given, s)
LinksSettled == \A s \in Shares \ overlapped : LinkSettled(request, share, delivered, s)
BudgetInv == Inv /\ LinksSettled

\* The columns as the link budget has them.
LimitColumn == [s \in Shares |-> IF share[s] = None THEN 0 ELSE share[s].maxViews]
ChargedColumn == [s \in Shares |-> IF share[s] = None THEN 0 ELSE share[s].views]
DisclosedColumn == [s \in Shares |-> delivered[s]["verified"]]

ViewsGrow ==
    \A s \in Shares \ overlapped : share[s] # None =>
        share'[s] # None /\ share[s].views <= share'[s].views
BudgetStep ==
    /\ LinksSettled'
    /\ ViewsGrow
    /\ [Budget!Next]_(Budget!vars)

LEMMA ColumnsStand ==
    ASSUME Inv, UNCHANGED <<LimitColumn, ChargedColumn, DisclosedColumn, overlapped>>
    PROVE  UNCHANGED Budget!vars
BY DEF Budget!vars, LimitColumn, ChargedColumn, DisclosedColumn

LEMMA ViewsTypes ==
    ASSUME Inv, NEW s \in Shares
    PROVE  /\ ViewsOf(share[s]) \in Nat /\ delivered[s]["verified"] \in Nat
           /\ share[s] # None => share[s].views \in Nat /\ share[s].maxViews \in ViewLimits
<1>1. delivered[s]["verified"] \in Nat
    BY DEF Inv, TypeOK, Results
<1> QED  BY <1>1, ShareRowFacts DEF ViewsOf, Inv

LEMMA BudgetMoves ==
    ASSUME NEW l \in Shares,
           \/ Budget!Charge(l)
           \/ Budget!Disclose(l)
           \/ Budget!Race(l)
           \/ \E n \in ViewLimits : Budget!Open(l, n)
    PROVE  Budget!Next
BY DEF Budget!Next

\* A request that goes on from q to n neither starts reading the count of s nor
\* comes to owe an answer for it.
GoesOn(q, n, s) ==
    /\ Reads(n, s) => Reads(q, s) /\ n.share = q.share
    /\ Pays(n, s) => Pays(q, s)

LEMMA LinkStays ==
    ASSUME Inv, NEW s \in Shares, LinkSettled(request, share, delivered, s),
           ViewsOf(share'[s]) = ViewsOf(share[s]),
           delivered'[s]["verified"] = delivered[s]["verified"],
           \A p \in Requests : GoesOn(request[p], request'[p], s)
    PROVE  LinkSettled(request', share', delivered', s)
<1> HIDE DEF Reads, Pays, ViewsOf
<1>1. ReadAlone(request', share', s)
    BY DEF LinkSettled, ReadAlone, GoesOn
<1>2. Payers(request', s) \subseteq Payers(request, s)
    BY DEF Payers, GoesOn
<1>3. /\ IsFiniteSet(Payers(request, s))
      /\ delivered[s]["verified"] + Cardinality(Payers(request, s)) <= ViewsOf(share[s])
    BY DEF LinkSettled, PaidFor
<1>4. /\ IsFiniteSet(Payers(request', s))
      /\ Cardinality(Payers(request', s)) <= Cardinality(Payers(request, s))
    BY <1>2, <1>3, FS_Subset
<1>5. Cardinality(Payers(request', s)) \in Nat /\ Cardinality(Payers(request, s)) \in Nat
    BY <1>3, <1>4, FS_CardinalityType
<1>6. delivered[s]["verified"] + Cardinality(Payers(request', s)) <= ViewsOf(share[s])
    BY <1>3, <1>4, <1>5, ViewsTypes
<1> QED  BY <1>1, <1>4, <1>6 DEF LinkSettled, PaidFor

\* A step that touches neither the rows nor the answers, in which no request
\* starts on a link.
LEMMA SettledStep ==
    ASSUME BudgetInv, UNCHANGED <<share, delivered, overlapped>>,
           \A p \in Requests, s \in Shares : GoesOn(request[p], request'[p], s)
    PROVE  BudgetStep
<1>1. LinksSettled'
    BY LinkStays DEF BudgetInv, LinksSettled
<1>2. ViewsGrow
    BY ViewsTypes DEF ViewsGrow, BudgetInv
<1>3. UNCHANGED Budget!vars
    BY ColumnsStand DEF BudgetInv, LimitColumn, ChargedColumn, DisclosedColumn
<1> QED  BY <1>1, <1>2, <1>3 DEF BudgetStep

LEMMA StaysPut == ASSUME NEW q, NEW s PROVE GoesOn(q, q, s)
BY DEF GoesOn

LEMMA OneGoesOn ==
    ASSUME Inv, NEW r \in Requests, NEW q, request' = [request EXCEPT ![r] = q],
           NEW s, GoesOn(request[r], q, s)
    PROVE  \A p \in Requests : GoesOn(request[p], request'[p], s)
<1>1. request'[r] = q /\ \A p \in Requests \ {r} : request'[p] = request[p]
    BY DEF Inv, TypeOK
<1> HIDE DEF GoesOn
<1> QED  BY <1>1, StaysPut

LEMMA SettledTo ==
    ASSUME BudgetInv, UNCHANGED <<share, delivered, overlapped>>, NEW r \in Requests, NEW q,
           request' = [request EXCEPT ![r] = q],
           \A s \in Shares : GoesOn(request[r], q, s)
    PROVE  BudgetStep
<1>1. \A p \in Requests, s \in Shares : GoesOn(request[p], request'[p], s)
    BY OneGoesOn DEF BudgetInv
<1> QED  BY <1>1, SettledStep

LEMMA QuietGoesOn ==
    ASSUME NEW q, NEW n, n.step \notin VerifySteps, NEW s
    PROVE  GoesOn(q, n, s)
BY DEF GoesOn, Reads, Pays, VerifySteps

\* A verification reads the rows of its link: the first to do so reads the count
\* as it is, another makes the link an overlapped one.
LEMMA ReadShareSpends ==
    ASSUME BudgetInv, NEW r \in Requests, NEW t \in Tokens, ReadShare(r, t)
    PROVE  BudgetStep
<1> DEFINE q == IF t \in BadTokens THEN Start("state", t, None, None)
                ELSE Start("state", t, share[t], credential[share[t].credential])
<1>1. /\ request' = [request EXCEPT ![r] = q] /\ UNCHANGED <<share, delivered>>
      /\ request[r] = Idle
      /\ overlapped' = IF \E p \in Requests : Uncounted(p, t) THEN overlapped \cup {t}
                       ELSE overlapped
    BY DEF ReadShare, database
<1>2. q.step = "state" /\ q.id = t /\ (t \notin BadTokens => q.share = share[t])
    BY DEF Start
<1> HIDE DEF q
<1>3. \A s \in Shares \ {t} : GoesOn(request[r], q, s)
    BY <1>2 DEF GoesOn, Reads, Pays
<1>4. CASE t \in BadTokens
    <2>1. t \notin Shares
        BY <1>4, NamesAssumption DEF BadTokens
    <2>2. overlapped' = overlapped
        BY <1>1, <2>1 DEF Uncounted
    <2> QED  BY <1>1, <1>3, <2>1, <2>2, SettledTo
<1>5. CASE t \notin BadTokens
    <2>1. t \in Shares /\ share[t] # None /\ q.share = share[t]
        BY <1>2, <1>5 DEF Tokens
    <2>2. request'[r] = q /\ \A p \in Requests \ {r} : request'[p] = request[p]
        BY <1>1 DEF BudgetInv, Inv, TypeOK
    <2>3. ASSUME NEW s \in Shares \ overlapped, s # t
          PROVE  LinkSettled(request', share', delivered', s)
        <3>1. \A p \in Requests : GoesOn(request[p], request'[p], s)
            BY <1>1, <1>3, <2>3, OneGoesOn DEF BudgetInv
        <3> QED  BY <1>1, <2>3, <3>1, LinkStays DEF BudgetInv, LinksSettled
    <2>4. ViewsGrow
        BY <1>1, ViewsTypes DEF ViewsGrow, BudgetInv
    <2>5. UNCHANGED <<LimitColumn, ChargedColumn, DisclosedColumn>>
        BY <1>1 DEF LimitColumn, ChargedColumn, DisclosedColumn
    <2>6. CASE \E p \in Requests : Uncounted(p, t)
        <3>1. overlapped' = overlapped \cup {t}
            BY <1>1, <2>6
        <3>2. LinksSettled'
            BY <2>3, <3>1 DEF LinksSettled
        <3>3. LimitColumn[t] > 0
            <4>1. share[t].maxViews \in Nat \ {0}
                BY <2>1, ViewsTypes, BoundsAssumption DEF BudgetInv
            <4>2. LimitColumn[t] = share[t].maxViews
                BY <2>1 DEF LimitColumn
            <4> QED  BY <4>1, <4>2
        <3>4. Budget!Race(t)
            BY <2>5, <3>1, <3>3
               DEF Budget!Race, LimitColumn, ChargedColumn, DisclosedColumn
        <3> QED  BY <2>1, <2>4, <3>2, <3>4, BudgetMoves DEF BudgetStep
    <2>7. CASE ~\E p \in Requests : Uncounted(p, t)
        <3>1. overlapped' = overlapped
            BY <1>1, <2>7
        <3>2. \A p \in Requests : ~Reads(request[p], t)
            BY <2>1, <2>7 DEF Uncounted, Reads
        <3>3. ReadAlone(request', share', t)
            <4>1. \A p \in Requests : Reads(request'[p], t) => p = r
                BY <2>2, <3>2
            <4>2. q.share.views = ViewsOf(share[t])
                BY <2>1 DEF ViewsOf
            <4> QED  BY <1>1, <2>2, <4>1, <4>2 DEF ReadAlone
        <3>4. \A p \in Requests : Pays(request'[p], t) <=> Pays(request[p], t)
            BY <1>1, <1>2, <2>2 DEF Pays, Idle, Start
        <3>5. Payers(request', t) = Payers(request, t)
            BY <3>4 DEF Payers
        <3>6. t \notin overlapped => LinkSettled(request', share', delivered', t)
            BY <1>1, <2>1, <3>3, <3>5 DEF BudgetInv, LinksSettled, LinkSettled, PaidFor
        <3>7. LinksSettled'
            BY <2>3, <3>1, <3>6 DEF LinksSettled
        <3>8. UNCHANGED Budget!vars
            BY <2>5, <3>1, ColumnsStand DEF BudgetInv
        <3> QED  BY <2>4, <3>7, <3>8 DEF BudgetStep
    <2> QED  BY <2>6, <2>7
<1> QED  BY <1>4, <1>5

LEMMA CheckLinkSpends ==
    ASSUME BudgetInv, NEW r \in Requests, CheckLink(r)
    PROVE  BudgetStep
<1> DEFINE v == LinkVerdict(request[r].id, request[r].share)
           next == IF v = "verified" THEN "presentation" ELSE "audit"
           q == Decide(request[r], v, LinkChecks(v), next)
<1>1. /\ request' = [request EXCEPT ![r] = q] /\ UNCHANGED <<share, delivered, overlapped>>
      /\ request[r].step = "state"
    BY DEF CheckLink, database
<1> HIDE DEF v
<1>2. /\ q.step = next /\ q.id = request[r].id /\ q.share = request[r].share /\ q.verdict = v
    BY DEF Decide
<1> HIDE DEF q
<1>3. \A s \in Shares : GoesOn(request[r], q, s)
    BY <1>1, <1>2 DEF GoesOn, Reads, Pays
<1> QED  BY <1>1, <1>3, SettledTo

LEMMA CheckPresentationSpends ==
    ASSUME BudgetInv, NEW r \in Requests, CheckPresentation(r)
    PROVE  BudgetStep
<1> DEFINE v == CredentialVerdict(request[r].credential)
           next == IF v = "verified" THEN "count" ELSE "audit"
           q == Decide(request[r], v, CredentialChecks(request[r].checks, v), next)
<1>1. /\ request' = [request EXCEPT ![r] = q] /\ UNCHANGED <<share, delivered, overlapped>>
      /\ request[r].step = "presentation"
    BY DEF CheckPresentation, database
<1> HIDE DEF v
<1>2. /\ q.step = next /\ q.id = request[r].id /\ q.share = request[r].share /\ q.verdict = v
    BY DEF Decide
<1> HIDE DEF q
<1>3. \A s \in Shares : GoesOn(request[r], q, s)
    BY <1>1, <1>2 DEF GoesOn, Reads, Pays
<1> QED  BY <1>1, <1>3, SettledTo

LEMMA AuditSpends ==
    ASSUME BudgetInv, NEW r \in Requests, AuditVerification(r)
    PROVE  BudgetStep
<1> DEFINE q == MoveTo(request[r], "reply")
<1>1. /\ request' = [request EXCEPT ![r] = q] /\ UNCHANGED <<share, delivered, overlapped>>
      /\ request[r].step = "audit"
    BY DEF AuditVerification
<1>2. q.step = "reply" /\ q.id = request[r].id /\ q.verdict = request[r].verdict
    BY DEF MoveTo, Decide
<1> HIDE DEF q
<1>3. \A s \in Shares : GoesOn(request[r], q, s)
    BY <1>1, <1>2 DEF GoesOn, Reads, Pays
<1> QED  BY <1>1, <1>3, SettledTo

\* A view is charged: a request that read the count alone puts it up by one, and
\* below the limit; one that was overlapped writes some count within the limit.
LEMMA CountViewSpends ==
    ASSUME BudgetInv, NEW r \in Requests, CountView(r)
    PROVE  BudgetStep
<1> DEFINE s == request[r].id
           n == request[r].share.views + 1
           row == [share[s] EXCEPT !.views = n]
           q == MoveTo(request[r], "audit")
<1>1. /\ request' = [request EXCEPT ![r] = q] /\ share' = [share EXCEPT ![s] = row]
      /\ UNCHANGED <<delivered, overlapped>> /\ request[r].step = "count"
    BY DEF CountView
<1>2. /\ HoldsRows(r) /\ request[r].share.views < request[r].share.maxViews
      /\ request[r].verdict = "verified"
    BY <1>1 DEF BudgetInv, Inv, RequestsCoherent, RequestCoherent
<1>3. /\ s \in Shares /\ share[s] # None /\ request[r].share.maxViews = share[s].maxViews
      /\ request[r].share.views \in Nat
    BY <1>2 DEF HoldsRows, TermsOfShare, ShareRow
<1>4. /\ share[s] \in ShareRow /\ share[s].views \in Nat /\ share[s].maxViews \in Nat
    BY <1>3, ShareRowFacts, BoundsAssumption DEF BudgetInv, Inv
<1>5. n \in Nat /\ n \in 1..share[s].maxViews
    BY <1>2, <1>3, <1>4
<1>6. /\ q.step = "audit" /\ q.id = s /\ q.verdict = "verified"
    BY <1>2 DEF MoveTo, Decide
<1>7. PICK k : k = n
    OBVIOUS
<1>8. /\ row \in ShareRow /\ row.views = k /\ row.maxViews = share[s].maxViews /\ row # None
    <2>1. row = [share[s] EXCEPT !.views = k] /\ k \in Nat
        BY <1>5, <1>7
    <2>2. row \in ShareRow /\ row.views = k /\ row.maxViews = share[s].maxViews
        BY <1>4, <2>1 DEF ShareRow
    <2> QED  BY <2>2, RowsAssumption
<1> HIDE DEF row, q
<1>9. /\ share'[s] = row /\ \A u \in Shares \ {s} : share'[u] = share[u]
      /\ request'[r] = q /\ \A p \in Requests \ {r} : request'[p] = request[p]
    BY <1>1, <1>3 DEF BudgetInv, Inv, TypeOK
<1>10. PICK l \in Shares : l = s
    BY <1>3
<1>11. /\ LimitColumn' = LimitColumn /\ DisclosedColumn' = DisclosedColumn
       /\ ChargedColumn' = [ChargedColumn EXCEPT ![l] = k]
    <2> HIDE DEF s, n
    <2>1. LimitColumn' = LimitColumn
        BY <1>3, <1>8, <1>9 DEF LimitColumn
    <2>2. DisclosedColumn' = DisclosedColumn
        BY <1>1 DEF DisclosedColumn
    <2>3. ChargedColumn' = [ChargedColumn EXCEPT ![l] = k]
        BY <1>3, <1>8, <1>9, <1>10 DEF ChargedColumn
    <2> QED  BY <2>1, <2>2, <2>3
<1>12. ASSUME NEW u \in Shares \ overlapped, u # s
       PROVE  LinkSettled(request', share', delivered', u)
    <2>1. GoesOn(request[r], q, u)
        BY <1>6, <1>12 DEF GoesOn, Reads, Pays
    <2>2. \A p \in Requests : GoesOn(request[p], request'[p], u)
        BY <1>1, <2>1, OneGoesOn DEF BudgetInv
    <2> QED  BY <1>1, <1>9, <1>12, <2>2, LinkStays DEF BudgetInv, LinksSettled
<1>13. CASE s \in overlapped
    <2>1. LinksSettled'
        BY <1>1, <1>12, <1>13 DEF LinksSettled
    <2>2. ViewsGrow
        BY <1>9, <1>13, ViewsTypes DEF ViewsGrow, BudgetInv
    <2>3. k \in 1..LimitColumn[l]
        BY <1>3, <1>5, <1>7, <1>10 DEF LimitColumn
    <2>4. Budget!Recount(l, k)
        BY <1>1, <1>10, <1>11, <1>13
           DEF Budget!Recount, LimitColumn, DisclosedColumn, ChargedColumn
    <2>5. Budget!Next
        BY <2>3, <2>4 DEF Budget!Next, LimitColumn
    <2> QED  BY <2>1, <2>2, <2>5 DEF BudgetStep
<1>14. CASE s \notin overlapped
    <2>1. LinkSettled(request, share, delivered, s)
        BY <1>3, <1>14 DEF BudgetInv, LinksSettled
    <2>2. Reads(request[r], s)
        BY <1>1 DEF Reads
    <2>3. k = share[s].views + 1 /\ ViewsOf(share[s]) = share[s].views
        BY <1>3, <1>7, <2>1, <2>2 DEF LinkSettled, ReadAlone, ViewsOf
    <2>4. ViewsOf(share'[s]) = share[s].views + 1
        BY <1>8, <1>9, <2>3 DEF ViewsOf
    <2> HIDE DEF s, n
    <2>5. ReadAlone(request', share', s)
        <3>1. \A p \in Requests \ {r} : ~Reads(request[p], s)
            BY <2>1, <2>2 DEF LinkSettled, ReadAlone
        <3>2. \A p \in Requests : ~Reads(request'[p], s)
            BY <1>6, <1>9, <3>1 DEF Reads
        <3> QED  BY <3>2 DEF ReadAlone
    <2>6. PaidFor(request', share', delivered', s)
        <3>1. /\ IsFiniteSet(Payers(request, s))
              /\ delivered[s]["verified"] + Cardinality(Payers(request, s)) <= share[s].views
            BY <2>1, <2>3 DEF LinkSettled, PaidFor
        <3>2. Payers(request', s) = Payers(request, s) \cup {r} /\ r \notin Payers(request, s)
            BY <1>1, <1>6, <1>9 DEF Payers, Pays
        <3>3. /\ IsFiniteSet(Payers(request', s))
              /\ Cardinality(Payers(request', s)) = Cardinality(Payers(request, s)) + 1
            BY <3>1, <3>2, FS_AddElement
        <3>4. Cardinality(Payers(request, s)) \in Nat /\ delivered[s]["verified"] \in Nat
            BY <1>3, <3>1, FS_CardinalityType, ViewsTypes DEF BudgetInv
        <3> QED  BY <1>1, <1>4, <2>4, <3>1, <3>3, <3>4 DEF PaidFor
    <2>7. LinksSettled'
        BY <1>1, <1>12, <2>5, <2>6 DEF LinksSettled, LinkSettled
    <2>8. ViewsGrow
        <3> SUFFICES ASSUME NEW u \in Shares, share[u] # None
                     PROVE  share'[u] # None /\ share[u].views <= share'[u].views
            BY DEF ViewsGrow
        <3>1. share[u].views \in Nat
            BY ViewsTypes DEF BudgetInv
        <3> QED  BY <1>4, <1>8, <1>9, <2>3, <3>1
    <2>9. Budget!Charge(l)
        <3>1. ChargedColumn[l] < LimitColumn[l] /\ k = ChargedColumn[l] + 1
            <4>1. share[s].views < share[s].maxViews
                BY <1>4, <1>5, <1>7, <2>3 DEF n
            <4> QED  BY <1>3, <1>10, <2>3, <4>1 DEF ChargedColumn, LimitColumn
        <3> QED  BY <1>1, <1>11, <3>1
                 DEF Budget!Charge, ChargedColumn, LimitColumn, DisclosedColumn
    <2> QED  BY <2>7, <2>8, <2>9, BudgetMoves DEF BudgetStep
<1> QED  BY <1>13, <1>14

\* An answer that discloses the claims is of a view that was charged.
LEMMA ReplySpends ==
    ASSUME BudgetInv, NEW r \in Requests, Reply(r)
    PROVE  BudgetStep
<1> DEFINE u == Subject(r)
           y == Result(request[r].verdict)
<1>1. /\ request' = [request EXCEPT ![r] = Idle] /\ UNCHANGED <<share, overlapped>>
      /\ delivered' = [delivered EXCEPT ![u][y] = delivered[u][y] + 1]
      /\ request[r].step = "reply"
    BY DEF Reply, database
<1>2. \A s : GoesOn(request[r], Idle, s)
    BY QuietGoesOn DEF Idle, Start, VerifySteps
<1>3. ViewsGrow
    BY <1>1, ViewsTypes DEF ViewsGrow, BudgetInv
<1>4. request[r].id \in Shares \cup BadTokens
    BY <1>1 DEF BudgetInv, Inv, RequestsCoherent, RequestCoherent
<1>5. LimitColumn' = LimitColumn /\ ChargedColumn' = ChargedColumn
    BY <1>1 DEF LimitColumn, ChargedColumn
<1>6. delivered \in [Shares \cup {None} -> [Results -> Nat]]
    BY DEF BudgetInv, Inv, TypeOK
<1>7. u \in Shares \cup {None} /\ y \in Results /\ "verified" \in Results
    BY <1>4 DEF Subject, Result, Results
<1>8. /\ Idle.step = "idle" /\ request'[r] = Idle
      /\ \A p \in Requests \ {r} : request'[p] = request[p]
    BY <1>1 DEF BudgetInv, Inv, TypeOK, Idle, Start
<1>9. ASSUME NEW s \in Shares \ overlapped,
             delivered'[s]["verified"] = delivered[s]["verified"]
      PROVE  LinkSettled(request', share', delivered', s)
    <2>1. \A p \in Requests : GoesOn(request[p], request'[p], s)
        BY <1>1, <1>2, OneGoesOn DEF BudgetInv
    <2> QED  BY <1>1, <1>9, <2>1, LinkStays DEF BudgetInv, LinksSettled
<1>10. CASE u \in Shares /\ y = "verified"
    <2>1. request[r].verdict = "verified" /\ u = request[r].id
        BY <1>10, NamesAssumption DEF Result, Subject
    <2>2. r \in Payers(request, u)
        BY <1>1, <2>1 DEF Payers, Pays
    <2> HIDE DEF u, y
    <2>3. /\ delivered'[u]["verified"] = delivered[u]["verified"] + 1
          /\ \A s \in Shares \ {u} : delivered'[s]["verified"] = delivered[s]["verified"]
        BY <1>1, <1>6, <1>7, <1>10
    <2>4. ASSUME u \notin overlapped
          PROVE  /\ LinkSettled(request', share', delivered', u)
                 /\ delivered[u]["verified"] < ViewsOf(share[u])
        <3>1. LinkSettled(request, share, delivered, u)
            BY <1>10, <2>4 DEF BudgetInv, LinksSettled
        <3>2. ReadAlone(request', share', u)
            BY <1>1, <1>8, <3>1 DEF LinkSettled, ReadAlone, Reads
        <3>3. /\ IsFiniteSet(Payers(request, u))
              /\ delivered[u]["verified"] + Cardinality(Payers(request, u)) <= ViewsOf(share[u])
            BY <3>1 DEF LinkSettled, PaidFor
        <3>4. Payers(request', u) = Payers(request, u) \ {r}
            BY <1>8 DEF Payers, Pays
        <3>5. /\ IsFiniteSet(Payers(request', u))
              /\ Cardinality(Payers(request', u)) = Cardinality(Payers(request, u)) - 1
            BY <2>2, <3>3, <3>4, FS_RemoveElement
        <3>6. /\ Cardinality(Payers(request, u)) \in Nat /\ Cardinality(Payers(request', u)) \in Nat
              /\ delivered[u]["verified"] \in Nat /\ ViewsOf(share[u]) \in Nat
            BY <1>10, <3>3, <3>5, FS_CardinalityType, ViewsTypes DEF BudgetInv
        <3>7. PaidFor(request', share', delivered', u)
            BY <1>1, <2>3, <3>3, <3>5, <3>6 DEF PaidFor
        <3> QED  BY <3>2, <3>3, <3>5, <3>6, <3>7 DEF LinkSettled
    <2>5. LinksSettled'
        BY <1>1, <1>9, <2>3, <2>4 DEF LinksSettled
    <2>6. PICK l \in Shares : l = u
        BY <1>10
    <2>7. DisclosedColumn' = [DisclosedColumn EXCEPT ![l] = DisclosedColumn[l] + 1]
        BY <2>3, <2>6 DEF DisclosedColumn
    <2>8. l \notin overlapped => DisclosedColumn[l] < ChargedColumn[l]
        BY <2>4, <2>6 DEF DisclosedColumn, ChargedColumn, ViewsOf
    <2>9. Budget!Disclose(l)
        BY <1>1, <1>5, <2>7, <2>8
           DEF Budget!Disclose, DisclosedColumn, ChargedColumn, LimitColumn
    <2> QED  BY <1>3, <2>5, <2>9, BudgetMoves DEF BudgetStep
<1>11. CASE ~(u \in Shares /\ y = "verified")
    <2> HIDE DEF u, y
    <2>1. \A s \in Shares : delivered'[s]["verified"] = delivered[s]["verified"]
        BY <1>1, <1>6, <1>7, <1>11
    <2>2. DisclosedColumn' = DisclosedColumn
        BY <2>1 DEF DisclosedColumn
    <2>3. UNCHANGED Budget!vars
        BY <1>1, <1>5, <2>2, ColumnsStand DEF BudgetInv
    <2>4. LinksSettled'
        BY <1>1, <1>9, <2>1 DEF LinksSettled
    <2> QED  BY <1>3, <2>3, <2>4 DEF BudgetStep
<1> QED  BY <1>10, <1>11

\* A link is opened with its limit and nothing charged, and nobody has read it.
LEMMA CreateShareRowSpends ==
    ASSUME BudgetInv, NEW r \in Requests, CreateShareRow(r)
    PROVE  BudgetStep
<1> DEFINE s == request[r].id
           row == request[r].share
<1>1. s \in Shares /\ share[s] = None /\ row \in ShareRow /\ row.views = 0 /\ row # None
    BY RowsAssumption
       DEF CreateShareRow, BudgetInv, Inv, RequestsCoherent, RequestCoherent, CreateCoherent
<1>2. /\ request' = [request EXCEPT ![r] = Idle] /\ share' = [share EXCEPT ![s] = row]
      /\ UNCHANGED <<delivered, overlapped>>
    BY DEF CreateShareRow
<1> HIDE DEF s, row
<1>3. share'[s] = row /\ \A u \in Shares \ {s} : share'[u] = share[u]
    BY <1>1, <1>2 DEF BudgetInv, Inv, TypeOK
<1>4. \A u \in Shares : ViewsOf(share'[u]) = ViewsOf(share[u])
    BY <1>1, <1>3 DEF ViewsOf
<1>5. LinksSettled'
    <2> SUFFICES ASSUME NEW u \in Shares \ overlapped
                 PROVE  LinkSettled(request', share', delivered', u)
        BY <1>2 DEF LinksSettled
    <2>1. GoesOn(request[r], Idle, u)
        BY QuietGoesOn DEF Idle, Start, VerifySteps
    <2>2. \A p \in Requests : GoesOn(request[p], request'[p], u)
        BY <1>2, <2>1, OneGoesOn DEF BudgetInv
    <2> QED  BY <1>2, <1>4, <2>2, LinkStays DEF BudgetInv, LinksSettled
<1>6. ViewsGrow
    <2>1. \A u \in Shares : share[u] # None => share'[u] = share[u]
        BY <1>1, <1>3
    <2> QED  BY <2>1, ViewsTypes DEF ViewsGrow, BudgetInv
<1>7. PICK l \in Shares : l = s
    BY <1>1
<1>8. PICK n \in ViewLimits : n = row.maxViews
    BY <1>1 DEF ShareRow
<1>9. Budget!Open(l, n)
    <2>1. LimitColumn[l] = 0
        BY <1>1, <1>7 DEF LimitColumn
    <2>2. LimitColumn' = [LimitColumn EXCEPT ![l] = n]
        <3>1. \A u \in Shares : (IF share'[u] = None THEN 0 ELSE share'[u].maxViews)
                  = (IF u = l THEN n ELSE IF share[u] = None THEN 0 ELSE share[u].maxViews)
            BY <1>1, <1>3, <1>7, <1>8
        <3> QED  BY <3>1 DEF LimitColumn
    <2>3. ChargedColumn' = ChargedColumn
        BY <1>1, <1>3 DEF ChargedColumn
    <2>4. DisclosedColumn' = DisclosedColumn
        BY <1>2 DEF DisclosedColumn
    <2> QED  BY <1>2, <2>1, <2>2, <2>3, <2>4
            DEF Budget!Open, LimitColumn, ChargedColumn, DisclosedColumn
<1> QED  BY <1>5, <1>6, <1>9, BudgetMoves DEF BudgetStep

LEMMA CancelShareRowSpends ==
    ASSUME BudgetInv, NEW r \in Requests, CancelShareRow(r)
    PROVE  BudgetStep
<1> DEFINE s == request[r].id
           row == [share[s] EXCEPT !.cancelled = TRUE]
<1>1. s \in Shares /\ share[s] # None /\ share[s] \in ShareRow
    BY DEF CancelShareRow, BudgetInv, Inv, RequestsCoherent, RequestCoherent, TypeOK
<1>2. /\ request' = [request EXCEPT ![r] = Idle] /\ share' = [share EXCEPT ![s] = row]
      /\ UNCHANGED <<delivered, overlapped>>
    BY DEF CancelShareRow
<1>3. row.views = share[s].views /\ row.maxViews = share[s].maxViews /\ row # None
    <2>1. row \in ShareRow /\ row.views = share[s].views /\ row.maxViews = share[s].maxViews
        BY <1>1 DEF ShareRow
    <2> QED  BY <2>1, RowsAssumption
<1> HIDE DEF s, row
<1>4. share'[s] = row /\ \A u \in Shares \ {s} : share'[u] = share[u]
    BY <1>1, <1>2 DEF BudgetInv, Inv, TypeOK
<1>5. \A u \in Shares : ViewsOf(share'[u]) = ViewsOf(share[u])
    BY <1>1, <1>3, <1>4 DEF ViewsOf
<1>6. LinksSettled'
    <2> SUFFICES ASSUME NEW u \in Shares \ overlapped
                 PROVE  LinkSettled(request', share', delivered', u)
        BY <1>2 DEF LinksSettled
    <2>1. GoesOn(request[r], Idle, u)
        BY QuietGoesOn DEF Idle, Start, VerifySteps
    <2>2. \A p \in Requests : GoesOn(request[p], request'[p], u)
        BY <1>2, <2>1, OneGoesOn DEF BudgetInv
    <2> QED  BY <1>2, <1>5, <2>2, LinkStays DEF BudgetInv, LinksSettled
<1>7. ViewsGrow
    <2>1. \A u \in Shares : share[u] # None =>
              share'[u] # None /\ share'[u].views = share[u].views
        BY <1>1, <1>3, <1>4
    <2> QED  BY <2>1, ViewsTypes DEF ViewsGrow, BudgetInv
<1>8. UNCHANGED <<LimitColumn, ChargedColumn, DisclosedColumn, overlapped>>
    BY <1>1, <1>2, <1>3, <1>4 DEF LimitColumn, ChargedColumn, DisclosedColumn
<1> QED  BY <1>6, <1>7, <1>8, ColumnsStand DEF BudgetStep, BudgetInv

LEMMA ArrivalSpends ==
    ASSUME BudgetInv, NEW r \in Requests, Arrival(r)
    PROVE  BudgetStep
<1>1. ASSUME NEW h, NEW c, NEW D, NEW ttl, NEW limit, NEW s, CreateShare(r, h, c, D, ttl, limit, s)
      PROVE  BudgetStep
    <2> DEFINE q == Start("create", s,
                   [credential |-> c, holder |-> h, disclosed |-> D, expiresAt |-> now + ttl,
                    maxViews |-> limit, views |-> 0, cancelled |-> FALSE, madeBy |-> process], None)
    <2>1. request' = [request EXCEPT ![r] = q] /\ UNCHANGED <<share, delivered, overlapped>>
        BY <1>1 DEF CreateShare, database
    <2>2. q.step \notin VerifySteps
        BY DEF Start, VerifySteps
    <2> HIDE DEF q
    <2> QED  BY <2>1, <2>2, QuietGoesOn, SettledTo
<1>2. ASSUME NEW h, NEW s, CancelShare(r, h, s) PROVE BudgetStep
    <2>1. Start("cancel", s, None, None).step \notin VerifySteps
        BY DEF Start, VerifySteps
    <2> QED  BY <1>2, <2>1, QuietGoesOn, SettledTo DEF CancelShare, database
<1>3. ASSUME NEW i, NEW c, RevokeCredential(r, i, c) PROVE BudgetStep
    <2>1. Start("revoke", c, None, None).step \notin VerifySteps
        BY DEF Start, VerifySteps
    <2> QED  BY <1>3, <2>1, QuietGoesOn, SettledTo DEF RevokeCredential, database
<1> QED  BY <1>1, <1>2, <1>3, ReadShareSpends DEF Arrival

LEMMA NextSpends == BudgetInv /\ [Next]_vars => BudgetStep
<1> SUFFICES ASSUME BudgetInv, [Next]_vars PROVE BudgetStep
    OBVIOUS
<1>1. Idle.step \notin VerifySteps
    BY DEF Idle, Start, VerifySteps
<1>2. ASSUME NEW r \in Requests, RevokeCredentialRow(r) \/ RequestFails(r) PROVE BudgetStep
    BY <1>1, <1>2, QuietGoesOn, SettledTo DEF RevokeCredentialRow, RequestFails, database
<1>3. ASSUME NEW r \in Requests, Continue(r) PROVE BudgetStep
    BY <1>2, <1>3, CreateShareRowSpends, CancelShareRowSpends, CheckLinkSpends,
       CheckPresentationSpends, CountViewSpends, AuditSpends, ReplySpends DEF Continue
<1>4. CASE Issuance \/ Tick \/ UNCHANGED vars
    <2>1. UNCHANGED <<share, delivered, overlapped, request>>
        BY <1>4 DEF Issuance, EnsureHolderKey, IssueCredential, Tick, vars, database
    <2> QED  BY <2>1, StaysPut, SettledStep
<1>5. CASE Restart
    <2>1. /\ UNCHANGED <<share, delivered, overlapped>>
          /\ \A p \in Requests : request'[p] = Idle
        BY <1>5 DEF Restart, database
    <2> QED  BY <1>1, <2>1, QuietGoesOn, SettledStep
<1> QED  BY <1>2, <1>3, <1>4, <1>5, ArrivalSpends DEF Next

LEMMA InitBudget == Init => LinksSettled /\ Budget!Init
<1> SUFFICES ASSUME Init PROVE LinksSettled /\ Budget!Init
    OBVIOUS
<1>1. LinksSettled
    <2> SUFFICES ASSUME NEW s \in Shares PROVE LinkSettled(request, share, delivered, s)
        BY DEF LinksSettled
    <2>1. \A r \in Requests : ~Reads(request[r], s) /\ ~Pays(request[r], s)
        BY DEF Init, Idle, Start, Reads, Pays
    <2>2. Payers(request, s) = {}
        BY <2>1 DEF Payers
    <2>3. IsFiniteSet(Payers(request, s)) /\ Cardinality(Payers(request, s)) = 0
        BY <2>2, FS_EmptySet
    <2>4. delivered[s]["verified"] = 0 /\ ViewsOf(share[s]) = 0
        BY DEF Init, ViewsOf, Results
    <2> QED  BY <2>1, <2>3, <2>4 DEF LinkSettled, ReadAlone, PaidFor
<1>2. Budget!Init
    BY DEF Init, Budget!Init, Results
<1> QED  BY <1>1, <1>2

LEMMA BudgetHolds == Spec => []BudgetInv
<1>1. BudgetInv /\ [Next]_vars => BudgetInv'
    BY NextInv, NextSpends DEF BudgetInv, BudgetStep
<1>2. Init => BudgetInv
    BY InitInv, InitBudget DEF BudgetInv
<1> QED  BY <1>1, <1>2, PTL DEF Spec

\* The share service keeps the budget of every link, for any number of concurrent
\* requests, failures and restarts: a view is charged before the claims are disclosed
\* for it and none is charged beyond the limit, and a disclosure that is not paid for
\* or a charge that is lost is of a link whose verifications overlapped.
THEOREM KeepsBudget == Spec => ImplementsBudget
<1>1. BudgetInv /\ [Next]_vars => [Budget!Next]_(Budget!vars)
    BY NextSpends DEF BudgetStep
<1> QED  BY <1>1, BudgetHolds, InitBudget, PTL DEF Spec, ImplementsBudget, Budget!Spec

\* A link that disclosed its claims more often than its limit was read by two
\* verifications of which neither had counted its view: nothing else overspends it,
\* however the requests for it and for other links interleave, fail and retry.
OnlyOverlapsOverspend ==
    \A s \in Shares : share[s] # None /\ delivered[s]["verified"] > share[s].maxViews =>
        s \in overlapped
THEOREM LimitUnlessOverlapped == Spec => []OnlyOverlapsOverspend
<1>1. BudgetInv => OnlyOverlapsOverspend
    <2> SUFFICES ASSUME BudgetInv, NEW s \in Shares \ overlapped, share[s] # None
                 PROVE  ~(delivered[s]["verified"] > share[s].maxViews)
        BY DEF OnlyOverlapsOverspend
    <2>1. /\ IsFiniteSet(Payers(request, s))
          /\ delivered[s]["verified"] + Cardinality(Payers(request, s)) <= share[s].views
        BY DEF BudgetInv, LinksSettled, LinkSettled, PaidFor, ViewsOf
    <2>2. share[s].views <= share[s].maxViews
        BY DEF BudgetInv, Inv, ViewsWithinLimit
    <2>3. /\ Cardinality(Payers(request, s)) \in Nat /\ delivered[s]["verified"] \in Nat
          /\ share[s].views \in Nat /\ share[s].maxViews \in Nat
        BY <2>1, FS_CardinalityType, ViewsTypes, BoundsAssumption DEF BudgetInv
    <2> QED  BY <2>1, <2>2, <2>3
<1> QED  BY <1>1, BudgetHolds, PTL
=============================================================================
