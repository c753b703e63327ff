------------------------- MODULE VerificationHistory -------------------------
(***************************************************************************)
(* PresentationService with one auxiliary variable: for every verification *)
(* in progress, the verdicts that have been true of its link at some       *)
(* moment since the request arrived.  An answer computed from stale rows   *)
(* is right when it is one of them.                                        *)
(***************************************************************************)
EXTENDS PresentationService

VARIABLE seen

\* The reasons there are, at this moment, to refuse a share with these rows,
\* and the verdicts that are therefore true of it.
Closed(s, c) ==
    {v \in FailureCodes :
        \/ v = "cancelled" /\ s.cancelled
        \/ v = "expired" /\ (s.expiresAt <= now \/ CredentialExpired(c))
        \/ v = "exhausted" /\ s.views >= s.maxViews
        \/ v = "revoked" /\ c.revoked
        \/ v = "tampered" /\ ~(CanOpen(s.madeBy) /\ SameIssuerKey(c.madeBy))}
Truths(s, c) == IF Closed(s, c) = {} THEN {"verified"} ELSE Closed(s, c)
TrueOf(t) ==
    IF t \in BadTokens THEN {t} ELSE Truths(share[t], credential[share[t].credential])

Verifying(r) == request[r].step \in VerifySteps
TrueNow(r) == IF Verifying(r) THEN TrueOf(request[r].id) ELSE {}

InitH == Init /\ seen = [r \in Requests |-> {}]
NextH ==
    /\ Next
    /\ seen' = [r \in Requests |->
                   IF Verifying(r)' THEN seen[r] \cup TrueNow(r)' ELSE {}]
SpecH == InitH /\ [][NextH]_<<vars, seen>>

\* The rows a verification holds may be stale, but what they say has been true:
\* every reason they give to refuse the link, or the lack of any, was seen.
RowsWitnessed ==
    \A r \in Requests :
        LET q == request[r]
        IN  /\ q.step = "state" /\ q.id \in BadTokens => q.id \in seen[r]
            /\ q.step \in {"state", "presentation", "count"} /\ q.id \notin BadTokens =>
                   Truths(q.share, q.credential) \subseteq seen[r]
            /\ q.step = "presentation" /\ CredentialVerdict(q.credential) = "verified" =>
                   "verified" \in seen[r]

\* Every verdict a verifier is about to receive was true of the link at some
\* moment between the arrival of the request and its answer.  So a share that was
\* cancelled, expired or used up, or whose credential was revoked, before a request
\* arrived is never answered "verified", and a link is never refused for a reason
\* that did not hold.
AnswerWitnessed ==
    \A r \in Requests :
        request[r].step \in {"count", "audit", "reply"} => request[r].verdict \in seen[r]
=============================================================================
