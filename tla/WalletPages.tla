----------------------------- MODULE WalletPages -----------------------------
(***************************************************************************)
(* The pages on which a holder follows share links and credentials, and an *)
(* issuer what was issued, over PresentationService.  A page copies rows   *)
(* when it is opened; a client component computes its labels anew each     *)
(* time it renders, a server component when it is fetched.  Afterwards the *)
(* page changes only by what the answers to its own requests tell it,      *)
(* while the tables and the clock move on.  A user has one tab.  To a page,*)
(* a process that dies is a request that fails.                            *)
(*   apps/web/app/wallet/page.tsx, wallet/[id], wallet/shares,             *)
(*   issuer/issue; listShares, listWalletCredentials, listIssuerCredentials*)
(***************************************************************************)
EXTENDS PresentationService

CONSTANT Viewers    \* the users with a tab open

ASSUME ViewersAssumption == Viewers \subseteq Holders \cup Issuers

VARIABLES
    screen,         \* the page each viewer looks at
    awaited         \* the requests whose answer an open page awaits

pages == <<screen, awaited>>
allVars == <<vars, pages>>

HolderTabs == Viewers \cap Holders
IssuerTabs == Viewers \cap Issuers
Blank == [page |-> "blank"]

InitPages ==
    /\ Init
    /\ screen = [u \in Viewers |-> Blank]
    /\ awaited = [r \in Requests |-> FALSE]

-----------------------------------------------------------------------------
(* What a page makes of the rows.                                          *)

\* A credential as the wallet and detail pages label it.
CredentialLabel(row) ==
    IF row.revoked THEN "Revoked"
    ELSE IF row.expiresAt <= now THEN "Expired"
    ELSE "Active"

\* An item of the share history: columns of the share and of its credential.
ShareItem(s) ==
    [expiresAt |-> share[s].expiresAt, maxViews |-> share[s].maxViews,
     views |-> share[s].views, cancelled |-> share[s].cancelled,
     credentialExpiresAt |-> credential[share[s].credential].expiresAt,
     credentialRevoked |-> credential[share[s].credential].revoked]

\* Mutant: a link is shown as live through the tick in which it expires.
StatusLabelLate(item) ==
    IF item.credentialRevoked THEN "Revoked by Issuer"
    ELSE IF item.credentialExpiresAt <= now THEN "Credential Expired"
    ELSE IF item.cancelled THEN "Cancelled"
    ELSE IF item.expiresAt < now THEN "Expired"
    ELSE IF item.views >= item.maxViews THEN "Used"
    ELSE "Active"

StatusLabel(item) ==
    IF item.credentialRevoked THEN "Revoked by Issuer"
    ELSE IF item.credentialExpiresAt <= now THEN "Credential Expired"
    ELSE IF item.cancelled THEN "Cancelled"
    ELSE IF item.expiresAt <= now THEN "Expired"
    ELSE IF item.views >= item.maxViews THEN "Used"
    ELSE "Active"

-----------------------------------------------------------------------------
(* Opening a page: one read, one copy.  A page left behind awaits nothing. *)

Caller(r) ==
    LET q == request[r]
    IN  CASE q.step = "create" -> q.share.holder
          [] q.step = "cancel" -> share[q.id].holder
          [] q.step = "revoke" -> credential[q.id].issuer
Show(u, content) ==
    /\ screen' = [screen EXCEPT ![u] = content]
    /\ awaited' = [r \in Requests |-> awaited[r] /\ Caller(r) # u]
    /\ UNCHANGED vars

OpenWallet(h) ==
    LET mine == {c \in Credentials : credential[c] # None /\ credential[c].holder = h}
    IN  Show(h, [page |-> "wallet", label |-> [c \in mine |-> CredentialLabel(credential[c])]])

OpenShareHistory(h) ==
    LET mine == {s \in Shares : share[s] # None /\ share[s].holder = h}
    IN  Show(h, [page |-> "shares", item |-> [s \in mine |-> ShareItem(s)]])

\* The detail is decrypted for its claims; the form starts from a selection
\* of them, which the names of the claims decide.  (asked is history: the selection
\* that was last submitted.)
OpenCredential(h, c) ==
    /\ credential[c] # None
    /\ credential[c].holder = h
    /\ CanOpen(credential[c].madeBy)
    /\ \E D \in SUBSET credential[c].claims :
           Show(h, [page |-> "credential", id |-> c, label |-> CredentialLabel(credential[c]),
                    selected |-> D, asked |-> {}, submitting |-> FALSE, result |-> None])

OpenIssued(i) ==
    LET mine == {c \in Credentials : credential[c] # None /\ credential[c].issuer = i}
    IN  Show(i, [page |-> "issued", revoked |-> [c \in mine |-> credential[c].revoked]])

\* Signed out, service unreachable, envelope that does not open, tab closed.
LeavePage(u) == screen[u] # Blank /\ Show(u, Blank)

-----------------------------------------------------------------------------
(* What the user clicks.                                                   *)

On(u, name) == screen[u].page = name

\* Mutant: the item is marked before the answer.
ClickCancelOptimistic(r, h, s) ==
    /\ On(h, "shares")
    /\ s \in DOMAIN screen[h].item
    /\ StatusLabel(screen[h].item[s]) = "Active"
    /\ CancelShare(r, h, s)
    /\ screen' = [screen EXCEPT ![h].item[s].cancelled = TRUE]
    /\ awaited' = [awaited EXCEPT ![r] = TRUE]

\* The button is there for active links only.
ClickCancel(r, h, s) ==
    /\ On(h, "shares")
    /\ s \in DOMAIN screen[h].item
    /\ StatusLabel(screen[h].item[s]) = "Active"
    /\ CancelShare(r, h, s)
    /\ awaited' = [awaited EXCEPT ![r] = TRUE]
    /\ UNCHANGED screen

ClickRevoke(r, i, c) ==
    /\ On(i, "issued")
    /\ c \in DOMAIN screen[i].revoked
    /\ ~screen[i].revoked[c]
    /\ RevokeCredential(r, i, c)
    /\ awaited' = [awaited EXCEPT ![r] = TRUE]
    /\ UNCHANGED screen

\* The share form is there when the label read "Active" as the page was fetched.
HasForm(h) == On(h, "credential") /\ screen[h].label = "Active"

ToggleClaim(h, k) ==
    /\ HasForm(h)
    /\ k \in credential[screen[h].id].claims
    /\ screen' = [screen EXCEPT ![h].selected = IF k \in @ THEN @ \ {k} ELSE @ \cup {k}]
    /\ UNCHANGED <<vars, awaited>>

Submit(h) ==
    /\ HasForm(h)
    /\ ~screen[h].submitting
    /\ screen[h].selected # {}
ClickShare(r, h, ttl, limit, s) ==
    /\ Submit(h)
    /\ CreateShare(r, h, screen[h].id, screen[h].selected, ttl, limit, s)
    /\ screen' = [screen EXCEPT ![h].asked = screen[h].selected, ![h].submitting = TRUE,
                                ![h].result = None]
    /\ awaited' = [awaited EXCEPT ![r] = TRUE]

\* Mutant: the link made before is left on the page.
ShareRefusedKeepingResult(h) ==
    /\ Submit(h)
    /\ screen' = [screen EXCEPT ![h].asked = screen[h].selected]
    /\ UNCHANGED <<vars, awaited>>

\* The service refuses (the credential was revoked meanwhile), or is away.
ShareRefused(h) ==
    /\ Submit(h)
    /\ screen' = [screen EXCEPT ![h].asked = screen[h].selected, ![h].result = None]
    /\ UNCHANGED <<vars, awaited>>

-----------------------------------------------------------------------------
(* The answers.  revokeCredential and createShare tell the page what was   *)
(* stored; for a cancelled share the page fills in the column itself.      *)

Heard(r) == awaited' = [awaited EXCEPT ![r] = FALSE]

\* Of the answer the page renders the link, its expiry and its limit.
CreateAnswered(r) ==
    /\ CreateShareRow(r)
    /\ LET h == Caller(r)
           q == request[r]
           link == [id |-> q.id, expiresAt |-> q.share.expiresAt, maxViews |-> q.share.maxViews]
       IN  screen' = IF awaited[r]
                     THEN [screen EXCEPT ![h] = [@ EXCEPT !.submitting = FALSE, !.result = link]]
                     ELSE screen
    /\ Heard(r)

CancelAnswered(r) ==
    /\ CancelShareRow(r)
    /\ screen' = IF awaited[r]
                 THEN [screen EXCEPT ![Caller(r)].item[request[r].id].cancelled = TRUE]
                 ELSE screen
    /\ Heard(r)

RevokeAnswered(r) ==
    /\ RevokeCredentialRow(r)
    /\ screen' = IF awaited[r]
                 THEN [screen EXCEPT ![Caller(r)].revoked[request[r].id] = TRUE]
                 ELSE screen
    /\ Heard(r)

\* A fetch that ends without a good answer: only the share form shows it.
NoAnswer(R) ==
    LET gone == {r \in R : awaited[r]}
        callers == {Caller(r) : r \in gone}
    IN  /\ screen' = [u \in Viewers |-> IF u \in callers /\ On(u, "credential")
                                      THEN [screen[u] EXCEPT !.submitting = FALSE]
                                      ELSE screen[u]]
        /\ awaited' = [r \in Requests |-> awaited[r] /\ r \notin gone]
LoseConnection(r) == awaited[r] /\ NoAnswer({r}) /\ UNCHANGED vars

-----------------------------------------------------------------------------
ServiceStep(r) ==
    \/ CheckLink(r)
    \/ CheckPresentation(r)
    \/ CountView(r)
    \/ AuditVerification(r)
    \/ Reply(r)
Proceed(r) ==
    \/ CreateAnswered(r)
    \/ CancelAnswered(r)
    \/ RevokeAnswered(r)
    \/ ServiceStep(r) /\ UNCHANGED pages

Open ==
    \/ \E h \in HolderTabs :
          \/ OpenWallet(h)
          \/ OpenShareHistory(h)
          \/ \E c \in Credentials : OpenCredential(h, c)
    \/ \E i \in IssuerTabs : OpenIssued(i)
    \/ \E u \in Viewers : LeavePage(u)

Click(r) ==
    \/ \E h \in HolderTabs, s \in Shares : ClickCancel(r, h, s)
    \/ \E i \in IssuerTabs, c \in Credentials : ClickRevoke(r, i, c)
    \/ \E h \in HolderTabs, ttl \in ShareTtls, limit \in ViewLimits, s \in Shares :
           ClickShare(r, h, ttl, limit, s)

\* Verifiers with a link, and holders and issuers who use the API without a tab.
Elsewhere(r) ==
    /\ Arrival(r)
    /\ request'[r].id \notin BadTokens
    /\ UNCHANGED pages

PageNext ==
    \/ Issuance /\ UNCHANGED pages
    \/ Open
    \/ \E h \in HolderTabs : ShareRefused(h) \/ \E k \in UNION ClaimSets : ToggleClaim(h, k)
    \/ \E r \in Requests :
          \/ Click(r) \/ Elsewhere(r) \/ Proceed(r) \/ LoseConnection(r)
          \/ RequestFails(r) /\ NoAnswer({r})
    \/ Tick /\ UNCHANGED pages

SafePages == InitPages /\ [][PageNext]_allVars

-----------------------------------------------------------------------------
(* Properties.                                                             *)

\* A verifier who redeems the link now gets its claims.
Accepted(c) == CredentialVerdict(credential[c]) = "verified"
Opens(s) == LinkVerdict(s, share[s]) = "verified" /\ Accepted(share[s].credential)

\* What a page shows as closed is refused: however old the rows a page copied
\* and whatever answers it lost, a link it calls cancelled, used or expired, or a
\* credential it calls revoked or expired, is one the verification refuses now.
\* The one exception is a link called used of which two verifications overlapped:
\* the later count may be the lower one, and open it again.
ClosedIsRefused ==
    /\ \A h \in HolderTabs :
          /\ On(h, "shares") => \A s \in DOMAIN screen[h].item :
                 LET label == StatusLabel(screen[h].item[s])
                 IN  label # "Active" /\ Opens(s) => label = "Used" /\ s \in overlapped
          /\ On(h, "wallet") => \A c \in DOMAIN screen[h].label :
                 screen[h].label[c] # "Active" => ~Accepted(c)
          /\ On(h, "credential") /\ screen[h].label # "Active" => ~Accepted(screen[h].id)
    /\ \A i \in IssuerTabs : On(i, "issued") =>
          \A c \in DOMAIN screen[i].revoked : screen[i].revoked[c] => ~Accepted(c)

\* The label of the share history and the verdict of the verification are two
\* programs that judge one link, by clocks of different grain.  While an item is
\* up to date and the keys behind the link are at hand, a link that opens is never
\* labelled closed, and one labelled "Active" is refused only in the last second of
\* its credential, and not for a whole second.
FreshLabelAgrees ==
    \A h \in HolderTabs : On(h, "shares") =>
        \A s \in DOMAIN screen[h].item :
            /\ screen[h].item[s] = ShareItem(s)
            /\ CanOpen(share[s].madeBy)
            /\ SameIssuerKey(credential[share[s].credential].madeBy)
            => LET active == StatusLabel(screen[h].item[s]) = "Active"
                   end == credential[share[s].credential].expiresAt
               IN  /\ Opens(s) => active
                   /\ active /\ ~Opens(s) => now < end /\ end < now + Second

\* The link a page offers is stored as it says: it belongs to this holder, shares
\* the credential of the page, ends and wears out when the page says, and discloses
\* what was selected when it was asked for, though the holder goes on selecting
\* while it is made and earlier links and refusals went over the same form.
ResultIsStored ==
    \A h \in HolderTabs : On(h, "credential") /\ screen[h].result # None =>
        LET link == screen[h].result
            row == share[link.id]
        IN  /\ row # None
            /\ row.holder = h /\ row.credential = screen[h].id
            /\ row.expiresAt = link.expiresAt /\ row.maxViews = link.maxViews
            /\ row.disclosed = screen[h].asked
=============================================================================
