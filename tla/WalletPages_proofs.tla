-------------------------- MODULE WalletPages_proofs --------------------------
(***************************************************************************)
(* What the pages of holders and issuers show, for any number of users,    *)
(* links and requests, however old the page and whatever answers are lost. *)
(***************************************************************************)
EXTENDS WalletPages, PresentationService_proofs

-----------------------------------------------------------------------------
(* The inductive invariant: that of the service, and of each page what the *)
(* rows it copied still say.                                               *)

Labels == {"Revoked", "Expired", "Active"}
Item ==
    [expiresAt: Nat, maxViews: ViewLimits, views: Nat, cancelled: BOOLEAN,
     credentialExpiresAt: Nat, credentialRevoked: BOOLEAN]
Offer == [id: Shares, expiresAt: Nat, maxViews: ViewLimits]

WalletPage == [page: {"wallet"}, label: UNION {[D -> Labels] : D \in SUBSET Credentials}]
SharesPage == [page: {"shares"}, item: UNION {[D -> Item] : D \in SUBSET Shares}]
IssuedPage == [page: {"issued"}, revoked: UNION {[D -> BOOLEAN] : D \in SUBSET Credentials}]
CredentialPage ==
    [page: {"credential"}, id: Credentials, label: Labels, selected: SUBSET UNION ClaimSets,
     asked: SUBSET UNION ClaimSets, submitting: BOOLEAN, result: Offer \cup {None}]
Contents == {Blank} \cup WalletPage \cup SharesPage \cup IssuedPage \cup CredentialPage

\* An item is behind its share and credential in the columns that updates touch;
\* in the view count as long as no two verifications of the share overlapped.
ItemTrue(item, row, creds, alone) ==
    /\ row # None
    /\ item.expiresAt = row.expiresAt /\ item.maxViews = row.maxViews
    /\ item.cancelled => row.cancelled
    /\ alone => item.views <= row.views
    /\ item.credentialExpiresAt = creds[row.credential].expiresAt
    /\ item.credentialRevoked => creds[row.credential].revoked
LabelTrue(label, row, time) ==
    /\ row # None
    /\ label # "Active" => row.revoked \/ row.expiresAt <= time
OfferTrue(p, u, rows) ==
    p.result # None =>
        LET row == rows[p.result.id]
        IN  /\ row # None /\ row.holder = u
            /\ row.credential = p.id /\ row.disclosed = p.asked
            /\ row.expiresAt = p.result.expiresAt /\ row.maxViews = p.result.maxViews

Screened(u, p, rows, creds, time, raced) ==
    /\ p \in Contents
    /\ p.page = "shares" => \A s \in DOMAIN p.item : ItemTrue(p.item[s], rows[s], creds, s \notin raced)
    /\ p.page = "wallet" => \A c \in DOMAIN p.label : LabelTrue(p.label[c], creds[c], time)
    /\ p.page = "issued" => \A c \in DOMAIN p.revoked :
           creds[c] # None /\ (p.revoked[c] => creds[c].revoked)
    /\ p.page = "credential" => LabelTrue(p.label, creds[p.id], time) /\ OfferTrue(p, u, rows)

\* A request whose answer a page awaits is one that page sent, and a form sends
\* one at a time.
Awaited(q, screens, rows, creds) ==
    /\ q.step \in {"create", "cancel", "revoke"}
    /\ q.step = "create" =>
           LET h == q.share.holder
           IN /\ h \in Viewers /\ screens[h].page = "credential" /\ screens[h].id = q.share.credential
              /\ screens[h].submitting /\ screens[h].asked = q.share.disclosed
    /\ q.step = "cancel" =>
           LET h == rows[q.id].holder
           IN  h \in Viewers /\ screens[h].page = "shares" /\ q.id \in DOMAIN screens[h].item
    /\ q.step = "revoke" =>
           LET i == creds[q.id].issuer
           IN  i \in Viewers /\ screens[i].page = "issued" /\ q.id \in DOMAIN screens[i].revoked

OneForm ==
    \A r, p \in Requests :
        /\ awaited[r] /\ request[r].step = "create"
        /\ awaited[p] /\ request[p].step = "create"
        /\ request[r].share.holder = request[p].share.holder
        => r = p

\* The signed expiry of a credential is that of its row, in seconds.
ExpiriesMatch ==
    \A c \in Credentials : credential[c] # None =>
        credential[c].exp = Seconds(credential[c].expiresAt)

PagesInv ==
    /\ BudgetInv
    /\ ExpiriesMatch
    /\ OneForm
    /\ screen \in [Viewers -> Contents]
    /\ awaited \in [Requests -> BOOLEAN]
    /\ \A u \in Viewers : Screened(u, screen[u], share, credential, now, overlapped)
    /\ \A r \in Requests : awaited[r] => Awaited(request[r], screen, share, credential)

-----------------------------------------------------------------------------
(* The service under the pages.                                            *)

\* The tables move on: what a page copied stays behind them as it was.
TablesMoveOn ==
    /\ KeepsWithdrawals
    /\ ViewsGrow
    /\ overlapped \subseteq overlapped'
    /\ now <= now' /\ now \in Nat /\ now' \in Nat

\* A credential appears with its signed expiry.
LEMMA NewCredential ==
    ASSUME Inv, [Next]_vars, NEW c \in Credentials, credential[c] = None, credential'[c] # None
    PROVE  credential'[c].exp = Seconds(credential'[c].expiresAt)
<1>1. credential' # credential
    OBVIOUS
<1>2. ~(\E r \in Requests : RevokeCredentialRow(r))
    <2> SUFFICES ASSUME NEW r \in Requests, RevokeCredentialRow(r) PROVE FALSE
        OBVIOUS
    <2>1. request[r].id \in Credentials /\ credential[request[r].id] # None
        BY DEF RevokeCredentialRow, Inv, RequestsCoherent, RequestCoherent
    <2>2. credential'[c] = credential[c]
        BY <2>1 DEF RevokeCredentialRow, Inv, TypeOK
    <2> QED  BY <2>2
<1>3. ~(\E r \in Requests : Arrival(r) \/ Continue(r) \/ RequestFails(r))
    <2> SUFFICES ASSUME NEW r \in Requests, Arrival(r) \/ Continue(r) \/ RequestFails(r)
                 PROVE  credential' = credential
        BY <1>1
    <2>1. ASSUME NEW h, NEW d, NEW D, NEW t, NEW l, NEW s, CreateShare(r, h, d, D, t, l, s)
          PROVE  credential' = credential
        BY <2>1 DEF CreateShare, database
    <2>2. ASSUME NEW h, NEW x, CancelShare(r, h, x) \/ RevokeCredential(r, h, x) \/ ReadShare(r, x)
          PROVE  credential' = credential
        BY <2>2 DEF CancelShare, RevokeCredential, ReadShare, database
    <2>3. CASE Arrival(r)
        BY <2>1, <2>2, <2>3 DEF Arrival
    <2>4. CASE Continue(r)
        BY <1>2, <2>4 DEF Continue, CreateShareRow, CancelShareRow, CheckLink, CheckPresentation,
                          CountView, AuditVerification, Reply, database
    <2> QED  BY <2>3, <2>4 DEF RequestFails, database
<1>4. ~(Tick \/ Restart \/ UNCHANGED vars \/ \E h \in Holders : EnsureHolderKey(h))
    BY <1>1 DEF Tick, Restart, vars, EnsureHolderKey, database
<1>5. PICK d \in Credentials, h \in Holders, i \in Issuers, C \in ClaimSets :
          IssueCredential(d, h, i, C)
    BY <1>3, <1>4 DEF Next, Issuance
<1>6. c = d
    BY <1>5 DEF IssueCredential, Inv, TypeOK
<1>7. credential'[c] = [holder |-> h, issuer |-> i, claims |-> C,
                        expiresAt |-> now + CredentialTtl, exp |-> Seconds(now + CredentialTtl),
                        revoked |-> FALSE, madeBy |-> process]
    BY <1>5, <1>6 DEF IssueCredential, Inv, TypeOK
<1> QED  BY <1>7

LEMMA ServiceMovesOn ==
    ASSUME PagesInv, [Next]_vars
    PROVE  BudgetInv' /\ Inv /\ Inv' /\ TablesMoveOn /\ ExpiriesMatch'
<1>1. Inv /\ Inv' /\ KeepsWithdrawals
    BY NextInv, NextKeepsWithdrawals DEF PagesInv, BudgetInv
<1>2. ViewsGrow /\ LinksSettled'
    BY NextSpends DEF PagesInv, BudgetStep
<1>3. now \in Nat /\ now' \in Nat
    BY <1>1, BoundsAssumption DEF Inv, TypeOK
<1>4. now' = now \/ now' = now + 1
    <2>1. ASSUME NEW r \in Requests, Arrival(r) PROVE now' = now
        <3>1. ASSUME NEW h, NEW c, NEW D, NEW t, NEW l, NEW s, CreateShare(r, h, c, D, t, l, s)
              PROVE  now' = now
            BY <3>1 DEF CreateShare
        <3>2. ASSUME NEW h, NEW x, CancelShare(r, h, x) \/ RevokeCredential(r, h, x) \/ ReadShare(r, x)
              PROVE  now' = now
            BY <3>2 DEF CancelShare, RevokeCredential, ReadShare
        <3> QED  BY <2>1, <3>1, <3>2 DEF Arrival
    <2>2. ASSUME NEW r \in Requests, Continue(r) PROVE now' = now
        BY <2>2 DEF Continue, CreateShareRow, CancelShareRow, RevokeCredentialRow, CheckLink,
                    CheckPresentation, CountView, AuditVerification, Reply
    <2>3. ASSUME NEW r \in Requests, RequestFails(r) PROVE now' = now
        BY <2>3 DEF RequestFails
    <2>4. Issuance \/ Restart \/ UNCHANGED vars => now' = now
        BY DEF Issuance, EnsureHolderKey, IssueCredential, Restart, vars
    <2> QED  BY <2>1, <2>2, <2>3, <2>4 DEF Next, Tick
<1>5. now <= now'
    BY <1>3, <1>4
<1>6. overlapped \subseteq overlapped'
    <2>1. ASSUME NEW r \in Requests, Arrival(r) PROVE overlapped \subseteq overlapped'
        <3>1. ASSUME NEW h, NEW c, NEW D, NEW t, NEW l, NEW s, CreateShare(r, h, c, D, t, l, s)
              PROVE  overlapped' = overlapped
            BY <3>1 DEF CreateShare
        <3>2. ASSUME NEW h, NEW x, CancelShare(r, h, x) \/ RevokeCredential(r, h, x)
              PROVE  overlapped' = overlapped
            BY <3>2 DEF CancelShare, RevokeCredential
        <3>3. ASSUME NEW x, ReadShare(r, x) PROVE overlapped \subseteq overlapped'
            BY <3>3 DEF ReadShare
        <3> QED  BY <2>1, <3>1, <3>2, <3>3 DEF Arrival
    <2>2. ASSUME NEW r \in Requests, Continue(r) \/ RequestFails(r) PROVE overlapped' = overlapped
        BY <2>2 DEF Continue, CreateShareRow, CancelShareRow, RevokeCredentialRow, CheckLink,
                    CheckPresentation, CountView, AuditVerification, Reply, RequestFails
    <2>3. Issuance \/ Tick \/ Restart \/ UNCHANGED vars => overlapped' = overlapped
        BY DEF Issuance, EnsureHolderKey, IssueCredential, Tick, Restart, vars
    <2> QED  BY <2>1, <2>2, <2>3 DEF Next
<1>7. ExpiriesMatch'
    <2> SUFFICES ASSUME NEW c \in Credentials, credential'[c] # None
                 PROVE  credential'[c].exp = Seconds(credential'[c].expiresAt)
        BY DEF ExpiriesMatch, Seconds
    <2>1. CASE credential[c] # None
        <3>1. TermsOfCredential(credential'[c]) = TermsOfCredential(credential[c])
            BY <1>1, <2>1 DEF KeepsWithdrawals
        <3> QED  BY <2>1, <3>1 DEF TermsOfCredential, PagesInv, ExpiriesMatch
    <2>2. CASE credential[c] = None
        BY <2>2, NewCredential DEF PagesInv, BudgetInv
    <2> QED  BY <2>1, <2>2
<1> QED  BY <1>1, <1>2, <1>3, <1>5, <1>6, <1>7 DEF TablesMoveOn, BudgetInv

LEMMA ShareMovesOn ==
    ASSUME Inv, TablesMoveOn, NEW s \in Shares, share[s] # None
    PROVE  /\ share'[s] # None
           /\ share'[s].credential = share[s].credential /\ share'[s].holder = share[s].holder
           /\ share'[s].disclosed = share[s].disclosed
           /\ share'[s].expiresAt = share[s].expiresAt /\ share'[s].maxViews = share[s].maxViews
           /\ share[s].cancelled => share'[s].cancelled
           /\ s \notin overlapped' => s \notin overlapped /\ share[s].views <= share'[s].views
           /\ share[s].credential \in Credentials /\ credential[share[s].credential] # None
<1>1. /\ share'[s] # None /\ TermsOfShare(share'[s]) = TermsOfShare(share[s])
      /\ share[s].cancelled => share'[s].cancelled
    BY DEF TablesMoveOn, KeepsWithdrawals
<1>2. s \notin overlapped' => s \notin overlapped /\ share[s].views <= share'[s].views
    BY DEF TablesMoveOn, ViewsGrow
<1>3. share[s].credential \in Credentials /\ credential[share[s].credential] # None
    BY ShareRowFacts DEF Inv, ShareWithinCredential, Backed
<1> QED  BY <1>1, <1>2, <1>3 DEF TermsOfShare

LEMMA CredentialMovesOn ==
    ASSUME TablesMoveOn, NEW c \in Credentials, credential[c] # None
    PROVE  /\ credential'[c] # None
           /\ credential'[c].expiresAt = credential[c].expiresAt
           /\ credential'[c].issuer = credential[c].issuer
           /\ credential[c].revoked => credential'[c].revoked
BY DEF TablesMoveOn, KeepsWithdrawals, TermsOfCredential

\* A page stays true while it is not looked after.
LEMMA ItemKept ==
    ASSUME Inv, Inv', TablesMoveOn, NEW s \in Shares, NEW item \in Item,
           ItemTrue(item, share[s], credential, s \notin overlapped)
    PROVE  ItemTrue(item, share'[s], credential', s \notin overlapped')
<1>1. share[s] # None
    BY DEF ItemTrue
<1>2. /\ share'[s] # None /\ share'[s].credential = share[s].credential
      /\ share'[s].expiresAt = share[s].expiresAt /\ share'[s].maxViews = share[s].maxViews
      /\ share[s].cancelled => share'[s].cancelled
      /\ s \notin overlapped' => s \notin overlapped /\ share[s].views <= share'[s].views
    BY <1>1, ShareMovesOn
<1>3. PICK c \in Credentials : c = share[s].credential /\ credential[c] # None
    BY <1>1, ShareMovesOn
<1>4. /\ credential'[c].expiresAt = credential[c].expiresAt
      /\ credential[c].revoked => credential'[c].revoked
    BY <1>3, CredentialMovesOn
<1>5. share[s].views \in Nat /\ share'[s].views \in Nat /\ item.views \in Nat
    <2>1. share \in [Shares -> ShareRow \cup {None}] /\ share' \in [Shares -> ShareRow \cup {None}]
        BY DEF Inv, TypeOK
    <2> QED  BY <1>1, <1>2, <2>1 DEF ShareRow, Item
<1>6. s \notin overlapped' => item.views <= share'[s].views
    BY <1>2, <1>5 DEF ItemTrue
<1>7. share'[s].credential = c /\ share[s].credential = c
    BY <1>2, <1>3
<1> QED  BY <1>2, <1>4, <1>6, <1>7 DEF ItemTrue

LEMMA LabelKept ==
    ASSUME TablesMoveOn, NEW c \in Credentials, NEW label,
           LabelTrue(label, credential[c], now),
           credential[c] # None => credential[c].expiresAt \in Nat
    PROVE  LabelTrue(label, credential'[c], now')
<1>1. /\ credential'[c] # None /\ credential'[c].expiresAt = credential[c].expiresAt
      /\ credential[c].revoked => credential'[c].revoked
    BY CredentialMovesOn DEF LabelTrue
<1>2. now \in Nat /\ now' \in Nat /\ now <= now' /\ credential[c].expiresAt \in Nat
    BY DEF TablesMoveOn, LabelTrue
<1>3. credential[c].expiresAt <= now => credential'[c].expiresAt <= now'
    BY <1>1, <1>2
<1> QED  BY <1>1, <1>3 DEF LabelTrue

LEMMA OfferKept ==
    ASSUME Inv, TablesMoveOn, NEW u, NEW p \in CredentialPage, OfferTrue(p, u, share)
    PROVE  OfferTrue(p, u, share')
<1> SUFFICES ASSUME p.result # None PROVE OfferTrue(p, u, share')
    BY DEF OfferTrue
<1>1. p.result \in Offer
    BY DEF CredentialPage
<1>2. PICK s \in Shares : s = p.result.id
    BY <1>1 DEF Offer
<1>3. /\ share[s] # None /\ share[s].holder = u
      /\ share[s].credential = p.id /\ share[s].disclosed = p.asked
      /\ share[s].expiresAt = p.result.expiresAt /\ share[s].maxViews = p.result.maxViews
    BY <1>2 DEF OfferTrue
<1>4. /\ share'[s] # None /\ share'[s].holder = u
      /\ share'[s].credential = p.id /\ share'[s].disclosed = p.asked
      /\ share'[s].expiresAt = p.result.expiresAt /\ share'[s].maxViews = p.result.maxViews
    BY <1>3, ShareMovesOn
<1> QED  BY <1>2, <1>4 DEF OfferTrue

\* The name of a page tells what is on it.
LEMMA ContentByPage ==
    ASSUME NEW p \in Contents
    PROVE  /\ p.page = "wallet" => p \in WalletPage
           /\ p.page = "shares" => p \in SharesPage
           /\ p.page = "issued" => p \in IssuedPage
           /\ p.page = "credential" => p \in CredentialPage
<1>1. \/ p = Blank \/ p \in WalletPage \/ p \in SharesPage \/ p \in IssuedPage
      \/ p \in CredentialPage
    BY DEF Contents
<1> QED  BY <1>1 DEF Blank, WalletPage, SharesPage, IssuedPage, CredentialPage

LEMMA ContentColumns ==
    /\ \A p \in WalletPage : p.page = "wallet" /\ DOMAIN p.label \subseteq Credentials
          /\ \A c \in DOMAIN p.label : p.label[c] \in Labels
    /\ \A p \in SharesPage : p.page = "shares" /\ DOMAIN p.item \subseteq Shares
          /\ \A s \in DOMAIN p.item : p.item[s] \in Item
    /\ \A p \in IssuedPage : p.page = "issued" /\ DOMAIN p.revoked \subseteq Credentials
          /\ \A c \in DOMAIN p.revoked : p.revoked[c] \in BOOLEAN
BY DEF WalletPage, SharesPage, IssuedPage

LEMMA ScreenedKept ==
    ASSUME Inv, Inv', TablesMoveOn, NEW u, NEW p, Screened(u, p, share, credential, now, overlapped)
    PROVE  Screened(u, p, share', credential', now', overlapped')
<1>1. p \in Contents
    BY DEF Screened
<1>2. ASSUME p.page = "shares", NEW s \in DOMAIN p.item
      PROVE  ItemTrue(p.item[s], share'[s], credential', s \notin overlapped')
    <2>1. s \in Shares /\ p.item[s] \in Item
        BY <1>1, <1>2, ContentByPage, ContentColumns
    <2>2. ItemTrue(p.item[s], share[s], credential, s \notin overlapped)
        BY <1>2 DEF Screened
    <2> QED  BY <2>1, <2>2, ItemKept
<1>3. \A c \in Credentials : credential[c] # None => credential[c].expiresAt \in Nat
    BY DEF Inv, TypeOK, CredentialRow
<1>4. ASSUME p.page = "wallet", NEW c \in DOMAIN p.label
      PROVE  LabelTrue(p.label[c], credential'[c], now')
    <2>1. c \in Credentials
        BY <1>1, <1>4, ContentByPage, ContentColumns
    <2>2. LabelTrue(p.label[c], credential[c], now)
        BY <1>4 DEF Screened
    <2> QED  BY <1>3, <2>1, <2>2, LabelKept
<1>5. ASSUME p.page = "issued", NEW c \in DOMAIN p.revoked
      PROVE  credential'[c] # None /\ (p.revoked[c] => credential'[c].revoked)
    <2>1. c \in Credentials
        BY <1>1, <1>5, ContentByPage, ContentColumns
    <2>2. credential[c] # None /\ (p.revoked[c] => credential[c].revoked)
        BY <1>5 DEF Screened
    <2> QED  BY <2>1, <2>2, CredentialMovesOn
<1>6. ASSUME p.page = "credential"
      PROVE  LabelTrue(p.label, credential'[p.id], now') /\ OfferTrue(p, u, share')
    <2>1. p \in CredentialPage
        BY <1>1, <1>6, ContentByPage
    <2>2. p.id \in Credentials
        BY <2>1 DEF CredentialPage
    <2>3. LabelTrue(p.label, credential[p.id], now) /\ OfferTrue(p, u, share)
        BY <1>6 DEF Screened
    <2>4. LabelTrue(p.label, credential'[p.id], now')
        BY <1>3, <2>2, <2>3, LabelKept
    <2> QED  BY <2>1, <2>3, <2>4, OfferKept
<1> QED  BY <1>1, <1>2, <1>4, <1>5, <1>6 DEF Screened

\* Two contents of one page: what an answer that is awaited may find changed.
Alike(p, o) ==
    /\ p.page = o.page
    /\ o.page = "credential" =>
           p.id = o.id /\ (o.submitting => p.submitting /\ p.asked = o.asked)
    /\ o.page = "shares" => DOMAIN p.item = DOMAIN o.item
    /\ o.page = "issued" => DOMAIN p.revoked = DOMAIN o.revoked

LEMMA CallerIs ==
    ASSUME NEW r \in Requests
    PROVE  /\ request[r].step = "create" => Caller(r) = request[r].share.holder
           /\ request[r].step = "cancel" => Caller(r) = share[request[r].id].holder
           /\ request[r].step = "revoke" => Caller(r) = credential[request[r].id].issuer
BY DEF Caller

LEMMA AwaitedKept ==
    ASSUME PagesInv, TablesMoveOn, NEW p \in Requests, awaited[p], request'[p] = request[p],
           \A u \in Viewers : u = Caller(p) => Alike(screen'[u], screen[u])
    PROVE  Awaited(request'[p], screen', share', credential')
<1>1. Awaited(request[p], screen, share, credential) /\ RequestCoherent(p) /\ Inv
    BY DEF PagesInv, BudgetInv, Inv, RequestsCoherent
<1>2. CASE request[p].step = "create"
    <2>1. PICK h : h = request[p].share.holder
        OBVIOUS
    <2>2. /\ h \in Viewers /\ screen[h].page = "credential"
          /\ screen[h].id = request[p].share.credential
          /\ screen[h].submitting /\ screen[h].asked = request[p].share.disclosed
        BY <1>1, <1>2, <2>1 DEF Awaited
    <2>3. Alike(screen'[h], screen[h])
        BY <1>2, <2>1, <2>2, CallerIs
    <2>4. /\ screen'[h].page = "credential" /\ screen'[h].id = request[p].share.credential
          /\ screen'[h].submitting /\ screen'[h].asked = request[p].share.disclosed
        BY <2>2, <2>3 DEF Alike
    <2> QED  BY <1>2, <2>1, <2>2, <2>4 DEF Awaited
<1>3. CASE request[p].step = "cancel"
    <2>1. PICK s \in Shares : s = request[p].id /\ share[s] # None
        BY <1>1, <1>3 DEF RequestCoherent
    <2>2. PICK h : h = share[s].holder
        OBVIOUS
    <2>3. h \in Viewers /\ screen[h].page = "shares" /\ s \in DOMAIN screen[h].item
        BY <1>1, <1>3, <2>1, <2>2 DEF Awaited
    <2>4. Alike(screen'[h], screen[h])
        BY <1>3, <2>1, <2>2, <2>3, CallerIs
    <2>5. screen'[h].page = "shares" /\ s \in DOMAIN screen'[h].item
        BY <2>3, <2>4 DEF Alike
    <2>6. share'[s].holder = h
        BY <1>1, <2>1, <2>2, ShareMovesOn
    <2> QED  BY <1>3, <2>1, <2>3, <2>5, <2>6 DEF Awaited
<1>4. CASE request[p].step = "revoke"
    <2>1. PICK c \in Credentials : c = request[p].id /\ credential[c] # None
        BY <1>1, <1>4 DEF RequestCoherent
    <2>2. PICK i : i = credential[c].issuer
        OBVIOUS
    <2>3. i \in Viewers /\ screen[i].page = "issued" /\ c \in DOMAIN screen[i].revoked
        BY <1>1, <1>4, <2>1, <2>2 DEF Awaited
    <2>4. Alike(screen'[i], screen[i])
        BY <1>4, <2>1, <2>2, <2>3, CallerIs
    <2>5. screen'[i].page = "issued" /\ c \in DOMAIN screen'[i].revoked
        BY <2>3, <2>4 DEF Alike
    <2>6. credential'[c].issuer = i
        BY <2>1, <2>2, CredentialMovesOn
    <2> QED  BY <1>4, <2>1, <2>3, <2>5, <2>6 DEF Awaited
<1> QED  BY <1>1, <1>2, <1>3, <1>4 DEF Awaited

\* A form that awaits an answer is the only one of its holder to do so, and awaits
\* only that one.
LEMMA SoleCaller ==
    ASSUME PagesInv, NEW r \in Requests, awaited[r], request[r].step = "create",
           NEW p \in Requests \ {r}, awaited[p]
    PROVE  Caller(p) # Caller(r)
<1>1. Awaited(request[r], screen, share, credential) /\ Awaited(request[p], screen, share, credential)
    BY DEF PagesInv
<1>2. Caller(r) = request[r].share.holder /\ screen[Caller(r)].page = "credential"
    BY <1>1, CallerIs DEF Awaited
<1>3. CASE request[p].step = "create"
    BY <1>2, <1>3, CallerIs DEF PagesInv, OneForm
<1>4. CASE request[p].step # "create"
    <2>1. screen[Caller(p)].page \in {"shares", "issued"}
        BY <1>1, <1>4, CallerIs DEF Awaited
    <2> QED  BY <1>2, <2>1
<1> QED  BY <1>3, <1>4

LEMMA FormsKept ==
    ASSUME PagesInv,
           \A p \in Requests : awaited'[p] /\ request'[p].step = "create" =>
               awaited[p] /\ request'[p] = request[p]
    PROVE  OneForm'
BY DEF PagesInv, OneForm

\* A step of the service under the pages, and what the pages have to show for it:
\* each content is true, each awaited answer goes to a page that is still there.
LEMMA PagesMoveOn ==
    ASSUME PagesInv, [Next]_vars,
           screen' \in [Viewers -> Contents], awaited' \in [Requests -> BOOLEAN],
           \A u \in Viewers : Screened(u, screen'[u], share', credential', now', overlapped'),
           OneForm',
           \A p \in Requests : awaited'[p] =>
               \/ Awaited(request'[p], screen', share', credential')
               \/ /\ awaited[p] /\ request'[p] = request[p]
                  /\ \A u \in Viewers : u = Caller(p) => Alike(screen'[u], screen[u])
    PROVE  PagesInv'
<1>1. BudgetInv' /\ TablesMoveOn /\ ExpiriesMatch'
    BY ServiceMovesOn
<1>2. ASSUME NEW p \in Requests, awaited'[p]
      PROVE  Awaited(request'[p], screen', share', credential')
    BY <1>1, <1>2, AwaitedKept
<1> QED  BY <1>1, <1>2 DEF PagesInv

\* What the pages held stays true.
LEMMA ScreensKept ==
    ASSUME PagesInv, [Next]_vars
    PROVE  \A u \in Viewers : Screened(u, screen[u], share', credential', now', overlapped')
BY ServiceMovesOn, ScreenedKept DEF PagesInv

-----------------------------------------------------------------------------
(* Steps that no page sees, and pages opened and left.                     *)

\* The service moves and no page changes: who awaited the request no longer does.
LEMMA Unseen ==
    ASSUME PagesInv, [Next]_vars, UNCHANGED screen, awaited' \in [Requests -> BOOLEAN],
           \A p \in Requests : awaited'[p] => awaited[p] /\ request'[p] = request[p]
    PROVE  PagesInv'
<1>1. \A u \in Viewers : Alike(screen'[u], screen[u])
    BY DEF Alike
<1>2. screen' \in [Viewers -> Contents]
    BY DEF PagesInv
<1>3. \A u \in Viewers : Screened(u, screen'[u], share', credential', now', overlapped')
    BY ScreensKept
<1>4. OneForm'
    BY FormsKept
<1> QED  BY <1>1, <1>2, <1>3, <1>4, PagesMoveOn

LEMMA ShowInv ==
    ASSUME PagesInv, NEW u \in Viewers, NEW content, Show(u, content),
           Screened(u, content, share, credential, now, overlapped)
    PROVE  PagesInv'
<1>1. /\ screen' = [screen EXCEPT ![u] = content]
      /\ awaited' = [p \in Requests |-> awaited[p] /\ Caller(p) # u]
      /\ share' = share /\ credential' = credential /\ now' = now /\ request' = request
      /\ overlapped' = overlapped /\ [Next]_vars
    BY DEF Show, vars, database
<1>2. screen \in [Viewers -> Contents] /\ awaited \in [Requests -> BOOLEAN]
    BY DEF PagesInv
<1>3. content \in Contents
    BY DEF Screened
<1>4. screen' \in [Viewers -> Contents] /\ awaited' \in [Requests -> BOOLEAN]
    BY <1>1, <1>2, <1>3
<1>5. screen'[u] = content /\ \A v \in Viewers \ {u} : screen'[v] = screen[v]
    BY <1>1, <1>2
<1>6. \A v \in Viewers : Screened(v, screen'[v], share', credential', now', overlapped')
    BY <1>1, <1>5 DEF PagesInv
<1>7. ASSUME NEW p \in Requests, awaited'[p], NEW v \in Viewers, v = Caller(p)
      PROVE  Alike(screen'[v], screen[v])
    BY <1>1, <1>5, <1>7 DEF Alike
<1>8. \A p \in Requests : awaited'[p] => awaited[p] /\ request'[p] = request[p]
    BY <1>1
<1>9. OneForm'
    BY <1>8, FormsKept
<1> QED  BY <1>1, <1>4, <1>6, <1>7, <1>8, <1>9, PagesMoveOn

LEMMA LabelCopied ==
    ASSUME NEW row, row # None
    PROVE  CredentialLabel(row) \in Labels /\ LabelTrue(CredentialLabel(row), row, now)
BY DEF CredentialLabel, Labels, LabelTrue

LEMMA ItemCopied ==
    ASSUME Inv, NEW s \in Shares, share[s] # None
    PROVE  ShareItem(s) \in Item /\ ItemTrue(ShareItem(s), share[s], credential, s \notin overlapped)
<1>1. PICK c \in Credentials : c = share[s].credential /\ credential[c] # None
    BY ShareRowFacts DEF Inv, ShareWithinCredential, Backed
<1>2. share[s] \in ShareRow /\ credential[c] \in CredentialRow
    BY <1>1 DEF Inv, TypeOK
<1>3. credential[c].expiresAt \in Nat /\ credential[c].revoked \in BOOLEAN
    BY <1>2 DEF CredentialRow
<1>4. /\ share[s].expiresAt \in Nat /\ share[s].maxViews \in ViewLimits
      /\ share[s].views \in Nat /\ share[s].cancelled \in BOOLEAN
    BY <1>2 DEF ShareRow
<1>5. ShareItem(s) \in Item
    BY <1>1, <1>3, <1>4 DEF ShareItem, Item
<1>6. ItemTrue(ShareItem(s), share[s], credential, s \notin overlapped)
    BY <1>1, <1>4 DEF ShareItem, ItemTrue
<1> QED  BY <1>5, <1>6

LEMMA OpenInv == PagesInv /\ Open => PagesInv'
<1> SUFFICES ASSUME PagesInv, Open PROVE PagesInv'
    OBVIOUS
<1>1. ASSUME NEW h \in HolderTabs, OpenWallet(h) PROVE PagesInv'
    <2> DEFINE mine == {c \in Credentials : credential[c] # None /\ credential[c].holder = h}
               content == [page |-> "wallet",
                           label |-> [c \in mine |-> CredentialLabel(credential[c])]]
    <2>1. [c \in mine |-> CredentialLabel(credential[c])] \in [mine -> Labels]
        BY LabelCopied
    <2>2. content \in WalletPage
        BY <2>1 DEF WalletPage
    <2>3. \A c \in mine : LabelTrue(content.label[c], credential[c], now)
        BY LabelCopied
    <2>4. Screened(h, content, share, credential, now, overlapped)
        BY <2>2, <2>3 DEF Screened, Contents
    <2>5. Show(h, content)
        BY <1>1 DEF OpenWallet
    <2> HIDE DEF content
    <2> QED  BY <2>4, <2>5, ShowInv DEF HolderTabs
<1>2. ASSUME NEW h \in HolderTabs, OpenShareHistory(h) PROVE PagesInv'
    <2> DEFINE mine == {s \in Shares : share[s] # None /\ share[s].holder = h}
               content == [page |-> "shares", item |-> [s \in mine |-> ShareItem(s)]]
    <2>0. \A s \in mine : ShareItem(s) \in Item /\ ItemTrue(ShareItem(s), share[s], credential, s \notin overlapped)
        BY ItemCopied DEF PagesInv, BudgetInv
    <2>1. [s \in mine |-> ShareItem(s)] \in [mine -> Item]
        BY <2>0
    <2>2. content \in SharesPage
        BY <2>1 DEF SharesPage
    <2>3. \A s \in DOMAIN content.item : ItemTrue(content.item[s], share[s], credential, s \notin overlapped)
        BY <2>0
    <2>4. Screened(h, content, share, credential, now, overlapped)
        BY <2>2, <2>3 DEF Screened, Contents
    <2>5. Show(h, content)
        BY <1>2 DEF OpenShareHistory
    <2> HIDE DEF content
    <2> QED  BY <2>4, <2>5, ShowInv DEF HolderTabs
<1>3. ASSUME NEW h \in HolderTabs, NEW c \in Credentials, OpenCredential(h, c) PROVE PagesInv'
    <2>1. credential[c] # None /\ credential[c].claims \in ClaimSets
        BY <1>3 DEF OpenCredential, PagesInv, BudgetInv, Inv, TypeOK, CredentialRow
    <2>2. PICK D \in SUBSET credential[c].claims :
              Show(h, [page |-> "credential", id |-> c, label |-> CredentialLabel(credential[c]),
                       selected |-> D, asked |-> {}, submitting |-> FALSE, result |-> None])
        BY <1>3 DEF OpenCredential
    <2> DEFINE content == [page |-> "credential", id |-> c,
                           label |-> CredentialLabel(credential[c]),
                           selected |-> D, asked |-> {}, submitting |-> FALSE, result |-> None]
    <2>3. D \in SUBSET UNION ClaimSets
        BY <2>1, <2>2
    <2>4. content \in CredentialPage
        BY <2>1, <2>3, LabelCopied DEF CredentialPage
    <2>5. LabelTrue(content.label, credential[content.id], now) /\ OfferTrue(content, h, share)
        BY <2>1, LabelCopied DEF OfferTrue
    <2>6. Screened(h, content, share, credential, now, overlapped)
        BY <2>4, <2>5 DEF Screened, Contents
    <2> HIDE DEF content
    <2>7. Show(h, content)
        BY <2>2 DEF content
    <2> QED  BY <2>6, <2>7, ShowInv DEF HolderTabs
<1>4. ASSUME NEW i \in IssuerTabs, OpenIssued(i) PROVE PagesInv'
    <2> DEFINE mine == {c \in Credentials : credential[c] # None /\ credential[c].issuer = i}
               content == [page |-> "issued", revoked |-> [c \in mine |-> credential[c].revoked]]
    <2>0. \A c \in mine : credential[c].revoked \in BOOLEAN
        BY DEF PagesInv, BudgetInv, Inv, TypeOK, CredentialRow
    <2>1. [c \in mine |-> credential[c].revoked] \in [mine -> BOOLEAN]
        BY <2>0
    <2>2. content \in IssuedPage
        BY <2>1 DEF IssuedPage
    <2>3. \A c \in DOMAIN content.revoked :
              credential[c] # None /\ (content.revoked[c] => credential[c].revoked)
        OBVIOUS
    <2>4. Screened(i, content, share, credential, now, overlapped)
        BY <2>2, <2>3 DEF Screened, Contents
    <2>5. Show(i, content)
        BY <1>4 DEF OpenIssued
    <2> HIDE DEF content
    <2> QED  BY <2>4, <2>5, ShowInv DEF IssuerTabs
<1>5. ASSUME NEW u \in Viewers, LeavePage(u) PROVE PagesInv'
    <2>1. Screened(u, Blank, share, credential, now, overlapped)
        BY DEF Screened, Blank, Contents
    <2> QED  BY <1>5, <2>1, ShowInv DEF LeavePage
<1> QED  BY <1>1, <1>2, <1>3, <1>4, <1>5 DEF Open

-----------------------------------------------------------------------------
(* Clicks: the request that leaves is one its page awaits.                 *)

\* A click sends request r from a page whose rows do not change.
LEMMA ClickInv ==
    ASSUME PagesInv, [Next]_vars, NEW r \in Requests, NEW q, UNCHANGED screen,
           request' = [request EXCEPT ![r] = q], q.step # "create",
           awaited' = [awaited EXCEPT ![r] = TRUE],
           Awaited(q, screen, share', credential')
    PROVE  PagesInv'
<1>1. screen \in [Viewers -> Contents] /\ awaited \in [Requests -> BOOLEAN]
    BY DEF PagesInv
<1>2. request \in [Requests -> Request]
    BY DEF PagesInv, BudgetInv, Inv, TypeOK
<1>3. request'[r] = q /\ \A p \in Requests \ {r} : request'[p] = request[p]
    BY <1>2
<1>4. screen' \in [Viewers -> Contents] /\ awaited' \in [Requests -> BOOLEAN]
    BY <1>1
<1>5. \A p \in Requests \ {r} : awaited'[p] = awaited[p]
    BY <1>1
<1>6. \A u \in Viewers : Alike(screen'[u], screen[u])
    BY DEF Alike
<1>7. \A u \in Viewers : Screened(u, screen'[u], share', credential', now', overlapped')
    BY ScreensKept
<1>8. Awaited(request'[r], screen', share', credential')
    BY <1>3
<1>9. OneForm'
    BY <1>3, <1>5, FormsKept
<1> QED  BY <1>3, <1>4, <1>5, <1>6, <1>7, <1>8, <1>9, PagesMoveOn

LEMMA ClickCancelInv ==
    ASSUME PagesInv, NEW r \in Requests, NEW h \in HolderTabs, NEW s \in Shares,
           ClickCancel(r, h, s)
    PROVE  PagesInv'
<1> DEFINE q == Start("cancel", s, None, None)
<1>1. /\ CancelShare(r, h, s) /\ UNCHANGED screen /\ awaited' = [awaited EXCEPT ![r] = TRUE]
      /\ screen[h].page = "shares" /\ s \in DOMAIN screen[h].item
    BY DEF ClickCancel, On
<1>2. /\ request' = [request EXCEPT ![r] = q] /\ share[s].holder = h
      /\ share' = share /\ credential' = credential
    BY <1>1 DEF CancelShare, database
<1>3. [Next]_vars
    BY <1>1 DEF Next, Arrival, HolderTabs
<1>4. q.step = "cancel" /\ q.id = s
    BY DEF Start
<1> HIDE DEF q
<1>5. Awaited(q, screen, share', credential')
    BY <1>1, <1>2, <1>4 DEF Awaited, HolderTabs
<1> QED  BY <1>1, <1>2, <1>3, <1>4, <1>5, ClickInv

LEMMA ClickRevokeInv ==
    ASSUME PagesInv, NEW r \in Requests, NEW i \in IssuerTabs, NEW c \in Credentials,
           ClickRevoke(r, i, c)
    PROVE  PagesInv'
<1> DEFINE q == Start("revoke", c, None, None)
<1>1. /\ RevokeCredential(r, i, c) /\ UNCHANGED screen /\ awaited' = [awaited EXCEPT ![r] = TRUE]
      /\ screen[i].page = "issued" /\ c \in DOMAIN screen[i].revoked
    BY DEF ClickRevoke, On
<1>2. /\ request' = [request EXCEPT ![r] = q] /\ credential[c].issuer = i
      /\ share' = share /\ credential' = credential
    BY <1>1 DEF RevokeCredential, database
<1>3. [Next]_vars
    BY <1>1 DEF Next, Arrival, IssuerTabs
<1>4. q.step = "revoke" /\ q.id = c
    BY DEF Start
<1> HIDE DEF q
<1>5. Awaited(q, screen, share', credential')
    BY <1>1, <1>2, <1>4 DEF Awaited, IssuerTabs
<1> QED  BY <1>1, <1>2, <1>3, <1>4, <1>5, ClickInv

\* One page changes in place.
LEMMA EditInv ==
    ASSUME PagesInv, [Next]_vars, NEW u \in Viewers, NEW content,
           Alike(content, screen[u]), Screened(u, content, share', credential', now', overlapped'),
           screen' = [screen EXCEPT ![u] = content], awaited' \in [Requests -> BOOLEAN],
           OneForm',
           \A p \in Requests : awaited'[p] =>
               \/ Awaited(request'[p], screen', share', credential')
               \/ awaited[p] /\ request'[p] = request[p]
    PROVE  PagesInv'
<1>1. screen \in [Viewers -> Contents] /\ content \in Contents
    BY DEF PagesInv, Screened
<1>2. /\ screen' \in [Viewers -> Contents]
      /\ screen'[u] = content /\ \A v \in Viewers \ {u} : screen'[v] = screen[v]
    BY <1>1
<1>3. \A v \in Viewers : Alike(screen'[v], screen[v])
    BY <1>2 DEF Alike
<1>4. \A v \in Viewers : Screened(v, screen'[v], share', credential', now', overlapped')
    BY <1>2, ScreensKept
<1> QED  BY <1>2, <1>3, <1>4, PagesMoveOn

LEMMA FormEdited ==
    ASSUME NEW u, NEW p \in CredentialPage, NEW o \in CredentialPage,
           p.id = o.id, p.label = o.label,
           NEW rows, NEW creds, NEW time, NEW raced, Screened(u, o, rows, creds, time, raced),
           OfferTrue(p, u, rows)
    PROVE  /\ Screened(u, p, rows, creds, time, raced)
           /\ (o.submitting => p.submitting /\ p.asked = o.asked) => Alike(p, o)
<1>1. p.page = "credential" /\ o.page = "credential"
    BY DEF CredentialPage
<1>2. LabelTrue(p.label, creds[p.id], time)
    BY <1>1 DEF Screened
<1> QED  BY <1>1, <1>2 DEF Screened, Alike, Contents

LEMMA ToggleClaimInv ==
    ASSUME PagesInv, NEW h \in HolderTabs, NEW k \in UNION ClaimSets, ToggleClaim(h, k)
    PROVE  PagesInv'
<1> DEFINE o == screen[h]
           D == IF k \in o.selected THEN o.selected \ {k} ELSE o.selected \cup {k}
           content == [o EXCEPT !.selected = D]
<1>1. h \in Viewers /\ o \in Contents /\ o.page = "credential"
    BY DEF HolderTabs, PagesInv, ToggleClaim, HasForm, On
<1>2. o \in CredentialPage
    BY <1>1, ContentByPage
<1>3. /\ content \in CredentialPage /\ content.id = o.id /\ content.label = o.label
      /\ content.result = o.result /\ content.asked = o.asked
      /\ content.submitting = o.submitting
    BY <1>2 DEF CredentialPage
<1>4. /\ screen' = [screen EXCEPT ![h] = content] /\ awaited' = awaited
      /\ share' = share /\ credential' = credential /\ now' = now /\ request' = request
      /\ overlapped' = overlapped /\ [Next]_vars
    BY <1>1 DEF ToggleClaim, vars, database, PagesInv
<1>5. Screened(h, o, share, credential, now, overlapped)
    BY <1>1 DEF PagesInv
<1>6. OfferTrue(content, h, share)
    BY <1>1, <1>3, <1>5 DEF Screened, OfferTrue
<1> HIDE DEF content
<1>7. Alike(content, o) /\ Screened(h, content, share, credential, now, overlapped)
    BY <1>1, <1>2, <1>3, <1>5, <1>6, FormEdited
<1>8. awaited' \in [Requests -> BOOLEAN] /\ OneForm'
    BY <1>4, FormsKept DEF PagesInv
<1> QED  BY <1>1, <1>4, <1>7, <1>8, EditInv

LEMMA ShareRefusedInv ==
    ASSUME PagesInv, NEW h \in HolderTabs, ShareRefused(h)
    PROVE  PagesInv'
<1> DEFINE o == screen[h]
           content == [o EXCEPT !.asked = o.selected, !.result = None]
<1>1. h \in Viewers /\ o \in Contents /\ o.page = "credential" /\ ~o.submitting
    BY DEF HolderTabs, PagesInv, ShareRefused, Submit, HasForm, On
<1>2. o \in CredentialPage
    BY <1>1, ContentByPage
<1>3. /\ content \in CredentialPage /\ content.id = o.id /\ content.label = o.label
      /\ content.result = None
    BY <1>2 DEF CredentialPage
<1>4. /\ screen' = [screen EXCEPT ![h] = content] /\ awaited' = awaited
      /\ share' = share /\ credential' = credential /\ now' = now /\ request' = request
      /\ overlapped' = overlapped /\ [Next]_vars
    BY <1>1 DEF ShareRefused, vars, database, PagesInv
<1>5. Screened(h, o, share, credential, now, overlapped)
    BY <1>1 DEF PagesInv
<1>6. OfferTrue(content, h, share)
    BY <1>3 DEF OfferTrue
<1> HIDE DEF content
<1>7. Alike(content, o) /\ Screened(h, content, share, credential, now, overlapped)
    BY <1>1, <1>2, <1>3, <1>5, <1>6, FormEdited
<1>8. awaited' \in [Requests -> BOOLEAN] /\ OneForm'
    BY <1>4, FormsKept DEF PagesInv
<1> QED  BY <1>1, <1>4, <1>7, <1>8, EditInv

LEMMA ClickShareInv ==
    ASSUME PagesInv, NEW r \in Requests, NEW h \in HolderTabs, NEW ttl \in ShareTtls,
           NEW limit \in ViewLimits, NEW s \in Shares, ClickShare(r, h, ttl, limit, s)
    PROVE  PagesInv'
<1> DEFINE o == screen[h]
           content == [o EXCEPT !.asked = o.selected, !.submitting = TRUE, !.result = None]
           row == [credential |-> o.id, holder |-> h, disclosed |-> o.selected,
                   expiresAt |-> now + ttl, maxViews |-> limit, views |-> 0,
                   cancelled |-> FALSE, madeBy |-> process]
           q == Start("create", s, row, None)
<1>1. /\ h \in Viewers /\ o \in Contents /\ o.page = "credential" /\ o.selected # {}
      /\ ~o.submitting
      /\ screen' = [screen EXCEPT ![h] = content] /\ awaited' = [awaited EXCEPT ![r] = TRUE]
      /\ CreateShare(r, h, o.id, o.selected, ttl, limit, s)
    BY DEF HolderTabs, PagesInv, ClickShare, Submit, HasForm, On
<1>2. o \in CredentialPage
    BY <1>1, ContentByPage
<1>3. o.id \in Credentials
    BY <1>2 DEF CredentialPage
<1>4. /\ request' = [request EXCEPT ![r] = q] /\ share' = share /\ credential' = credential
      /\ now' = now /\ overlapped' = overlapped /\ credential[o.id] # None /\ o.selected \subseteq credential[o.id].claims
    BY <1>1 DEF CreateShare, database
<1>5. credential[o.id].claims \in ClaimSets
    BY <1>3, <1>4 DEF PagesInv, BudgetInv, Inv, TypeOK, CredentialRow
<1>6. [Next]_vars
    <2>1. o.selected \in (SUBSET credential[o.id].claims) \ {{}}
        BY <1>1, <1>4
    <2>2. Arrival(r)
        BY <1>1, <1>3, <1>5, <2>1 DEF Arrival, HolderTabs
    <2> QED  BY <2>2 DEF Next
<1>7. /\ content \in CredentialPage /\ content.id = o.id /\ content.label = o.label
      /\ content.result = None /\ content.submitting /\ content.asked = o.selected
    BY <1>2 DEF CredentialPage
<1>8. Screened(h, o, share, credential, now, overlapped)
    BY <1>1 DEF PagesInv
<1>9. /\ q.step = "create" /\ q.share.holder = h /\ q.share.credential = o.id
      /\ q.share.disclosed = o.selected
    BY DEF Start
<1> HIDE DEF content, q
<1>10. Alike(content, o) /\ Screened(h, content, share, credential, now, overlapped)
    <2>1. OfferTrue(content, h, share)
        BY <1>7 DEF OfferTrue
    <2> QED  BY <1>1, <1>2, <1>7, <1>8, <2>1, FormEdited
<1>11. screen'[h] = content /\ content.page = "credential"
    BY <1>1, <1>7 DEF PagesInv, CredentialPage
<1>12. Awaited(q, screen', share', credential')
    BY <1>1, <1>7, <1>9, <1>11 DEF Awaited
<1>13. request'[r] = q /\ \A p \in Requests \ {r} : request'[p] = request[p]
    BY <1>4 DEF PagesInv, BudgetInv, Inv, TypeOK
<1>14. /\ awaited' \in [Requests -> BOOLEAN]
       /\ \A p \in Requests \ {r} : awaited'[p] = awaited[p]
    BY <1>1 DEF PagesInv
<1>15. \A p \in Requests : awaited'[p] =>
           \/ Awaited(request'[p], screen', share', credential')
           \/ awaited[p] /\ request'[p] = request[p]
    BY <1>12, <1>13, <1>14
<1>16. Screened(h, content, share', credential', now', overlapped')
    BY <1>4, <1>10
<1>17. OneForm'
    <2>1. ASSUME NEW p \in Requests \ {r}, awaited[p], request[p].step = "create"
          PROVE  request[p].share.holder # h
        BY <1>1, <2>1 DEF PagesInv, Awaited
    <2> QED  BY <1>9, <1>13, <1>14, <2>1 DEF OneForm, PagesInv
<1> QED  BY <1>1, <1>6, <1>10, <1>14, <1>15, <1>16, <1>17, EditInv

-----------------------------------------------------------------------------
(* Answers.                                                                *)

LEMMA HeardOnce ==
    ASSUME PagesInv, NEW r \in Requests, NEW q, request' = [request EXCEPT ![r] = q], Heard(r)
    PROVE  /\ awaited' \in [Requests -> BOOLEAN]
           /\ \A p \in Requests : awaited'[p] => awaited[p] /\ request'[p] = request[p]
<1>1. awaited \in [Requests -> BOOLEAN] /\ request \in [Requests -> Request]
    BY DEF PagesInv, BudgetInv, Inv, TypeOK
<1> QED  BY <1>1 DEF Heard

LEMMA CreateAnsweredInv ==
    ASSUME PagesInv, NEW r \in Requests, CreateAnswered(r)
    PROVE  PagesInv'
<1> DEFINE q == request[r]
           h == Caller(r)
           o == screen[h]
           told == [id |-> q.id, expiresAt |-> q.share.expiresAt, maxViews |-> q.share.maxViews]
           content == [o EXCEPT !.submitting = FALSE, !.result = told]
<1>1. /\ CreateShareRow(r) /\ Heard(r) /\ q.step = "create"
      /\ share' = [share EXCEPT ![q.id] = q.share] /\ request' = [request EXCEPT ![r] = Idle]
    BY DEF CreateAnswered, CreateShareRow
<1>2. [Next]_vars
    BY <1>1 DEF Next, Continue
<1>3. /\ awaited' \in [Requests -> BOOLEAN]
      /\ \A p \in Requests : awaited'[p] => awaited[p] /\ request'[p] = request[p]
    BY <1>1, HeardOnce
<1>4. CASE ~awaited[r]
    <2>1. screen' = screen
        BY <1>4 DEF CreateAnswered
    <2> QED  BY <1>2, <1>3, <2>1, Unseen
<1>5. CASE awaited[r]
    <2>1. Awaited(q, screen, share, credential) /\ RequestCoherent(r)
        BY <1>5 DEF PagesInv, BudgetInv, Inv, RequestsCoherent
    <2>2. h = q.share.holder
        BY <1>1, CallerIs
    <2>3. /\ h \in Viewers /\ o.page = "credential" /\ o.id = q.share.credential
          /\ o.asked = q.share.disclosed
        BY <1>1, <2>1, <2>2 DEF Awaited
    <2>4. q.id \in Shares /\ q.share \in ShareRow /\ share[q.id] = None
        BY <1>1, <2>1 DEF RequestCoherent, CreateCoherent
    <2>5. told \in Offer
        BY <2>4 DEF Offer, ShareRow
    <2>6. o \in CredentialPage
        BY <2>3, ContentByPage DEF PagesInv
    <2>7. /\ content \in CredentialPage /\ content.id = o.id /\ content.label = o.label
          /\ content.result = told /\ content.asked = o.asked
        BY <2>5, <2>6 DEF CredentialPage
    <2>8. screen' = [screen EXCEPT ![h] = content]
        BY <1>5 DEF CreateAnswered
    <2>9. Screened(h, o, share', credential', now', overlapped')
        BY <1>2, <2>3, ScreensKept
    <2>10. share'[q.id] = q.share /\ q.share # None
        BY <1>1, <2>4, RowsAssumption DEF PagesInv, BudgetInv, Inv, TypeOK
    <2>11. OfferTrue(content, h, share')
        BY <2>2, <2>3, <2>7, <2>10 DEF OfferTrue
    <2> HIDE DEF content
    <2>12. Screened(h, content, share', credential', now', overlapped')
        BY <2>6, <2>7, <2>9, <2>11, FormEdited
    <2>13. /\ screen'[h] = content /\ \A v \in Viewers \ {h} : screen'[v] = screen[v]
           /\ screen' \in [Viewers -> Contents]
        BY <2>3, <2>8, <2>12 DEF PagesInv, Screened
    <2>14. \A v \in Viewers : Screened(v, screen'[v], share', credential', now', overlapped')
        BY <1>2, <2>12, <2>13, ScreensKept
    <2>15. ASSUME NEW p \in Requests, awaited'[p], NEW u \in Viewers, u = Caller(p)
           PROVE  Alike(screen'[u], screen[u])
        <3>1. p # r
            BY <1>1, <2>15 DEF Heard, PagesInv
        <3>2. u # h
            BY <1>1, <1>3, <1>5, <2>15, <3>1, SoleCaller
        <3> QED  BY <2>13, <3>2 DEF Alike
    <2>16. OneForm'
        BY <1>3, FormsKept
    <2> QED  BY <1>2, <1>3, <2>13, <2>14, <2>15, <2>16, PagesMoveOn
<1> QED  BY <1>4, <1>5 

LEMMA CancelAnsweredInv ==
    ASSUME PagesInv, NEW r \in Requests, CancelAnswered(r)
    PROVE  PagesInv'
<1>1. /\ CancelShareRow(r) /\ Heard(r) /\ request[r].step = "cancel"
      /\ share' = [share EXCEPT ![request[r].id].cancelled = TRUE]
      /\ request' = [request EXCEPT ![r] = Idle]
    BY DEF CancelAnswered, CancelShareRow
<1>2. [Next]_vars
    BY <1>1 DEF Next, Continue
<1>3. /\ awaited' \in [Requests -> BOOLEAN]
      /\ \A p \in Requests : awaited'[p] => awaited[p] /\ request'[p] = request[p]
    BY <1>1, HeardOnce
<1>4. CASE ~awaited[r]
    <2>1. screen' = screen
        BY <1>4 DEF CancelAnswered
    <2> QED  BY <1>2, <1>3, <2>1, Unseen
<1>5. CASE awaited[r]
    <2>1. Awaited(request[r], screen, share, credential) /\ RequestCoherent(r)
        BY <1>5 DEF PagesInv, BudgetInv, Inv, RequestsCoherent
    <2>2. PICK s \in Shares : s = request[r].id /\ share[s] # None
        BY <1>1, <2>1 DEF RequestCoherent
    <2>3. PICK h : h = share[s].holder
        OBVIOUS
    <2>4. h \in Viewers /\ screen[h].page = "shares" /\ s \in DOMAIN screen[h].item
        BY <1>1, <2>1, <2>2, <2>3 DEF Awaited
    <2>5. Caller(r) = h
        BY <1>1, <2>2, <2>3, CallerIs
    <2> DEFINE o == screen[h]
               mark == [o.item[s] EXCEPT !.cancelled = TRUE]
               content == [o EXCEPT !.item = [o.item EXCEPT ![s] = mark]]
    <2>6. screen' = [screen EXCEPT ![h] = content]
        BY <1>5, <2>2, <2>5 DEF CancelAnswered
    <2>7. Screened(h, o, share', credential', now', overlapped')
        BY <1>2, <2>4, ScreensKept
    <2>8. o \in SharesPage
        BY <2>4, <2>7, ContentByPage DEF Screened
    <2>9. PICK D \in SUBSET Shares : o.item \in [D -> Item]
        BY <2>8 DEF SharesPage
    <2>10. s \in D /\ o.item[s] \in Item /\ mark \in Item
        BY <2>4, <2>9 DEF Item
    <2>11. [o.item EXCEPT ![s] = mark] \in [D -> Item]
        BY <2>9, <2>10
    <2>12. content \in SharesPage /\ content.item = [o.item EXCEPT ![s] = mark]
        BY <2>8, <2>11 DEF SharesPage
    <2>13. Alike(content, o)
        BY <2>8, <2>9, <2>12 DEF Alike, SharesPage
    <2>14. ItemTrue(mark, share'[s], credential', s \notin overlapped')
        <3>1. ItemTrue(o.item[s], share'[s], credential', s \notin overlapped')
            BY <2>4, <2>7 DEF Screened
        <3>2. share'[s].cancelled
            BY <1>1, <2>2 DEF PagesInv, BudgetInv, Inv, TypeOK, ShareRow
        <3>3. /\ mark.expiresAt = o.item[s].expiresAt /\ mark.maxViews = o.item[s].maxViews
              /\ mark.views = o.item[s].views
              /\ mark.credentialExpiresAt = o.item[s].credentialExpiresAt
              /\ mark.credentialRevoked = o.item[s].credentialRevoked
            BY <2>10 DEF Item
        <3> HIDE DEF mark
        <3> QED  BY <3>1, <3>2, <3>3 DEF ItemTrue
    <2>15. ASSUME NEW x \in DOMAIN content.item
           PROVE  ItemTrue(content.item[x], share'[x], credential', x \notin overlapped')
        <3> HIDE DEF mark
        <3>1. CASE x = s
            BY <2>9, <2>10, <2>12, <2>14, <3>1
        <3>2. CASE x # s
            <4>1. x \in DOMAIN o.item /\ content.item[x] = o.item[x]
                BY <2>9, <2>12, <3>2
            <4> QED  BY <2>4, <2>7, <4>1 DEF Screened
        <3> QED  BY <3>1, <3>2
    <2>16. content.page = "shares"
        BY <2>12 DEF SharesPage
    <2> HIDE DEF content
    <2>17. Screened(h, content, share', credential', now', overlapped')
        BY <2>12, <2>15, <2>16 DEF Screened, Contents
    <2> QED  BY <1>2, <1>3, <2>4, <2>6, <2>13, <2>17, FormsKept, EditInv
<1> QED  BY <1>4, <1>5

LEMMA RevokeAnsweredInv ==
    ASSUME PagesInv, NEW r \in Requests, RevokeAnswered(r)
    PROVE  PagesInv'
<1>1. /\ RevokeCredentialRow(r) /\ Heard(r) /\ request[r].step = "revoke"
      /\ credential' = [credential EXCEPT ![request[r].id].revoked = TRUE]
      /\ request' = [request EXCEPT ![r] = Idle]
    BY DEF RevokeAnswered, RevokeCredentialRow
<1>2. [Next]_vars
    BY <1>1 DEF Next, Continue
<1>3. /\ awaited' \in [Requests -> BOOLEAN]
      /\ \A p \in Requests : awaited'[p] => awaited[p] /\ request'[p] = request[p]
    BY <1>1, HeardOnce
<1>4. CASE ~awaited[r]
    <2>1. screen' = screen
        BY <1>4 DEF RevokeAnswered
    <2> QED  BY <1>2, <1>3, <2>1, Unseen
<1>5. CASE awaited[r]
    <2>1. Awaited(request[r], screen, share, credential) /\ RequestCoherent(r)
        BY <1>5 DEF PagesInv, BudgetInv, Inv, RequestsCoherent
    <2>2. PICK c \in Credentials : c = request[r].id /\ credential[c] # None
        BY <1>1, <2>1 DEF RequestCoherent
    <2>3. PICK i : i = credential[c].issuer
        OBVIOUS
    <2>4. i \in Viewers /\ screen[i].page = "issued" /\ c \in DOMAIN screen[i].revoked
        BY <1>1, <2>1, <2>2, <2>3 DEF Awaited
    <2>5. Caller(r) = i
        BY <1>1, <2>2, <2>3, CallerIs
    <2> DEFINE o == screen[i]
               marks == [o.revoked EXCEPT ![c] = TRUE]
               content == [o EXCEPT !.revoked = marks]
    <2>6. screen' = [screen EXCEPT ![i] = content]
        BY <1>5, <2>2, <2>5 DEF RevokeAnswered
    <2>7. Screened(i, o, share', credential', now', overlapped')
        BY <1>2, <2>4, ScreensKept
    <2>8. o \in IssuedPage
        BY <2>4, <2>7, ContentByPage DEF Screened
    <2>9. PICK D \in SUBSET Credentials : o.revoked \in [D -> BOOLEAN]
        BY <2>8 DEF IssuedPage
    <2>10. marks \in [D -> BOOLEAN] /\ \A x \in D : x = c \/ marks[x] = o.revoked[x]
        BY <2>9
    <2> HIDE DEF marks
    <2>11. content \in IssuedPage /\ content.revoked = marks
        BY <2>8, <2>10 DEF IssuedPage
    <2>12. Alike(content, o)
        BY <2>8, <2>9, <2>10, <2>11 DEF Alike, IssuedPage
    <2>13. credential'[c].revoked
        BY <1>1, <2>2 DEF PagesInv, BudgetInv, Inv, TypeOK, CredentialRow
    <2>14. ASSUME NEW x \in DOMAIN content.revoked
           PROVE  credential'[x] # None /\ (content.revoked[x] => credential'[x].revoked)
        <3>1. x \in DOMAIN o.revoked
            BY <2>9, <2>10, <2>11
        <3>2. credential'[x] # None /\ (o.revoked[x] => credential'[x].revoked)
            BY <2>4, <2>7, <3>1 DEF Screened
        <3>3. x = c \/ content.revoked[x] = o.revoked[x]
            BY <2>9, <2>10, <2>11
        <3> QED  BY <2>13, <3>2, <3>3
    <2>15. content.page = "issued"
        BY <2>11 DEF IssuedPage
    <2> HIDE DEF content
    <2>16. Screened(i, content, share', credential', now', overlapped')
        BY <2>11, <2>14, <2>15 DEF Screened, Contents
    <2> QED  BY <1>2, <1>3, <2>4, <2>6, <2>12, <2>16, FormsKept, EditInv
<1> QED  BY <1>4, <1>5

-----------------------------------------------------------------------------
(* No answer, and what happens elsewhere.                                  *)

LEMMA NoAnswerInv ==
    ASSUME PagesInv, [Next]_vars, NEW r \in Requests, NoAnswer({r}),
           \A p \in Requests \ {r} : request'[p] = request[p]
    PROVE  PagesInv'
<1> DEFINE told == {Caller(p) : p \in {q \in {r} : awaited[q]}}
<1>1. /\ screen' = [u \in Viewers |-> IF u \in told /\ On(u, "credential")
                                      THEN [screen[u] EXCEPT !.submitting = FALSE] ELSE screen[u]]
      /\ awaited' = [p \in Requests |-> awaited[p] /\ p \notin {q \in {r} : awaited[q]}]
    BY DEF NoAnswer
<1>2. screen \in [Viewers -> Contents] /\ awaited \in [Requests -> BOOLEAN]
    BY DEF PagesInv
<1> HIDE DEF told
<1>3. ASSUME NEW u \in Viewers
      PROVE  Screened(u, screen'[u], share', credential', now', overlapped')
    <2>1. Screened(u, screen[u], share', credential', now', overlapped')
        BY ScreensKept
    <2>2. CASE screen'[u] = screen[u]
        BY <2>1, <2>2
    <2>3. CASE /\ screen'[u] = [screen[u] EXCEPT !.submitting = FALSE]
               /\ screen[u].page = "credential"
        <3> DEFINE o == screen[u]
                   content == [o EXCEPT !.submitting = FALSE]
        <3>1. o \in CredentialPage
            BY <1>2, <2>3, ContentByPage
        <3>2. /\ content \in CredentialPage /\ content.id = o.id /\ content.label = o.label
              /\ content.result = o.result /\ content.asked = o.asked
            BY <3>1 DEF CredentialPage
        <3>3. OfferTrue(content, u, share')
            BY <2>1, <2>3, <3>2 DEF Screened, OfferTrue
        <3> HIDE DEF content
        <3>4. Screened(u, content, share', credential', now', overlapped')
            BY <2>1, <3>1, <3>2, <3>3, FormEdited
        <3> QED  BY <2>3, <3>4 DEF content
    <2> QED  BY <1>1, <2>2, <2>3 DEF On
<1>4. screen' \in [Viewers -> Contents]
    BY <1>1, <1>3 DEF Screened
<1>5. /\ awaited' \in [Requests -> BOOLEAN] /\ ~awaited'[r]
      /\ \A p \in Requests : awaited'[p] => awaited[p]
    BY <1>1, <1>2
<1>6. \A p \in Requests : awaited'[p] => awaited[p] /\ request'[p] = request[p]
    BY <1>5
<1>7. ASSUME NEW p \in Requests, awaited'[p], NEW u \in Viewers, u = Caller(p)
      PROVE  screen'[u] = screen[u]
    <2> SUFFICES ASSUME u \in told, screen[u].page = "credential" PROVE FALSE
        BY <1>1 DEF On
    <2>1. awaited[r] /\ u = Caller(r)
        BY DEF told
    <2>2. request[r].step = "create"
        <3>1. Awaited(request[r], screen, share, credential)
            BY <2>1 DEF PagesInv
        <3>2. request[r].step = "cancel" => screen[u].page = "shares"
            BY <2>1, <3>1, CallerIs DEF Awaited
        <3>3. request[r].step = "revoke" => screen[u].page = "issued"
            BY <2>1, <3>1, CallerIs DEF Awaited
        <3> QED  BY <3>1, <3>2, <3>3 DEF Awaited
    <2>3. p # r /\ awaited[p]
        BY <1>5, <1>7
    <2> QED  BY <1>7, <2>1, <2>2, <2>3, SoleCaller
<1>8. \A p \in Requests : awaited'[p] =>
          \A u \in Viewers : u = Caller(p) => Alike(screen'[u], screen[u])
    BY <1>7 DEF Alike
<1>9. OneForm'
    BY <1>6, FormsKept
<1> QED  BY <1>3, <1>4, <1>5, <1>6, <1>8, <1>9, PagesMoveOn

\* Nobody awaits a request that is idle, or a verification.
LEMMA NotAwaited ==
    ASSUME PagesInv, NEW r \in Requests, request[r].step \notin {"create", "cancel", "revoke"}
    PROVE  ~awaited[r]
BY DEF PagesInv, Awaited

LEMMA UnawaitedInv ==
    ASSUME PagesInv, [Next]_vars, UNCHANGED pages, NEW r \in Requests, NEW q,
           request' = [request EXCEPT ![r] = q],
           request[r].step \notin {"create", "cancel", "revoke"}
    PROVE  PagesInv'
<1>1. screen' = screen /\ awaited' = awaited
    BY DEF pages
<1>2. awaited \in [Requests -> BOOLEAN] /\ request \in [Requests -> Request]
    BY DEF PagesInv, BudgetInv, Inv, TypeOK
<1>3. ~awaited[r]
    BY NotAwaited
<1>4. \A p \in Requests : awaited'[p] => awaited[p] /\ request'[p] = request[p]
    BY <1>1, <1>2, <1>3
<1> QED  BY <1>1, <1>2, <1>4, Unseen

LEMMA ElsewhereInv ==
    ASSUME PagesInv, NEW r \in Requests, Elsewhere(r)
    PROVE  PagesInv'
<1>1. Arrival(r) /\ UNCHANGED pages
    BY DEF Elsewhere
<1>2. [Next]_vars
    BY <1>1 DEF Next
<1>3. request[r] = Idle /\ \E q : request' = [request EXCEPT ![r] = q]
    <2>1. ASSUME NEW h, NEW c, NEW D, NEW t, NEW l, NEW s, CreateShare(r, h, c, D, t, l, s)
          PROVE  request[r] = Idle /\ \E q : request' = [request EXCEPT ![r] = q]
        BY <2>1 DEF CreateShare
    <2>2. ASSUME NEW h, NEW x, CancelShare(r, h, x) \/ RevokeCredential(r, h, x) \/ ReadShare(r, x)
          PROVE  request[r] = Idle /\ \E q : request' = [request EXCEPT ![r] = q]
        BY <2>2 DEF CancelShare, RevokeCredential, ReadShare
    <2> QED  BY <1>1, <2>1, <2>2 DEF Arrival
<1>4. request[r].step \notin {"create", "cancel", "revoke"}
    BY <1>3 DEF Idle, Start
<1> QED  BY <1>1, <1>2, <1>3, <1>4, UnawaitedInv

LEMMA ServiceStepInv ==
    ASSUME PagesInv, NEW r \in Requests, ServiceStep(r), UNCHANGED pages
    PROVE  PagesInv'
<1>1. [Next]_vars
    BY DEF ServiceStep, Next, Continue
<1>2. /\ request[r].step \notin {"create", "cancel", "revoke"}
      /\ \E q : request' = [request EXCEPT ![r] = q]
    BY DEF ServiceStep, CheckLink, CheckPresentation, CountView, AuditVerification, Reply
<1> QED  BY <1>1, <1>2, UnawaitedInv

LEMMA PageNextInv == PagesInv /\ [PageNext]_allVars => PagesInv'
<1> SUFFICES ASSUME PagesInv, [PageNext]_allVars PROVE PagesInv'
    OBVIOUS
<1>1. awaited \in [Requests -> BOOLEAN]
    BY DEF PagesInv
<1>2. ASSUME ((Issuance \/ Tick) /\ UNCHANGED pages) \/ UNCHANGED allVars PROVE PagesInv'
    <2>1. [Next]_vars /\ UNCHANGED pages
        BY <1>2 DEF Next, allVars
    <2>2. request' = request
        BY <1>2 DEF Issuance, EnsureHolderKey, IssueCredential, Tick, allVars, vars
    <2>3. screen' = screen /\ awaited' = awaited
        BY <2>1 DEF pages
    <2> QED  BY <1>1, <2>1, <2>2, <2>3, Unseen
<1>3. ASSUME NEW h \in HolderTabs,
             ShareRefused(h) \/ \E k \in UNION ClaimSets : ToggleClaim(h, k)
      PROVE  PagesInv'
    BY <1>3, ShareRefusedInv, ToggleClaimInv
<1>4. ASSUME NEW r \in Requests, Click(r) PROVE PagesInv'
    BY <1>4, ClickCancelInv, ClickRevokeInv, ClickShareInv DEF Click
<1>5. ASSUME NEW r \in Requests, Proceed(r) PROVE PagesInv'
    BY <1>5, CreateAnsweredInv, CancelAnsweredInv, RevokeAnsweredInv, ServiceStepInv DEF Proceed
<1>6. ASSUME NEW r \in Requests, LoseConnection(r) PROVE PagesInv'
    <2>1. [Next]_vars /\ NoAnswer({r}) /\ request' = request
        BY <1>6 DEF LoseConnection, vars
    <2> QED  BY <2>1, NoAnswerInv
<1>7. ASSUME NEW r \in Requests, RequestFails(r), NoAnswer({r}) PROVE PagesInv'
    <2>1. request' = [request EXCEPT ![r] = Idle] /\ request \in [Requests -> Request]
        BY <1>7 DEF RequestFails, PagesInv, BudgetInv, Inv, TypeOK
    <2>2. [Next]_vars
        BY <1>7 DEF Next
    <2> QED  BY <1>7, <2>1, <2>2, NoAnswerInv
<1> QED  BY <1>2, <1>3, <1>4, <1>5, <1>6, <1>7, OpenInv, ElsewhereInv DEF PageNext

LEMMA InitPagesInv == InitPages => PagesInv
<1> SUFFICES ASSUME InitPages PROVE PagesInv
    OBVIOUS
<1>1. Init /\ screen = [u \in Viewers |-> Blank] /\ awaited = [r \in Requests |-> FALSE]
    BY DEF InitPages
<1>2. BudgetInv /\ ExpiriesMatch
    BY <1>1, InitInv, InitBudget DEF BudgetInv, Init, ExpiriesMatch
<1>3. \A u \in Viewers : screen[u] = Blank /\ Blank \in Contents /\ Blank.page = "blank"
    BY <1>1 DEF Contents, Blank
<1>4. screen \in [Viewers -> Contents] /\ awaited \in [Requests -> BOOLEAN]
    BY <1>1, <1>3
<1>5. \A u \in Viewers : Screened(u, screen[u], share, credential, now, overlapped)
    BY <1>3 DEF Screened
<1>6. \A r \in Requests : ~awaited[r]
    BY <1>1
<1> QED  BY <1>2, <1>4, <1>5, <1>6 DEF PagesInv, OneForm

\* What a page copied stays behind the rows it copied, and every awaited answer
\* finds the page that asked for it.
THEOREM PagesStayTrue == SafePages => []PagesInv
BY InitPagesInv, PageNextInv, PTL DEF SafePages

-----------------------------------------------------------------------------
(* What the invariant says of the properties.                              *)

LEMMA OffersHold == PagesInv => ResultIsStored
<1> SUFFICES ASSUME PagesInv, NEW h \in HolderTabs, On(h, "credential"),
                    screen[h].result # None
             PROVE  LET link == screen[h].result
                        row == share[link.id]
                    IN  /\ row # None
                        /\ row.holder = h /\ row.credential = screen[h].id
                        /\ row.expiresAt = link.expiresAt /\ row.maxViews = link.maxViews
                        /\ row.disclosed = screen[h].asked
    BY DEF ResultIsStored
<1>1. Screened(h, screen[h], share, credential, now, overlapped)
    BY DEF PagesInv, HolderTabs
<1> QED  BY <1>1 DEF Screened, OfferTrue, On

\* A credential that is revoked or has expired is not accepted.
LEMMA ClosedCredential ==
    ASSUME NEW c, NEW label, LabelTrue(label, credential[c], now), label # "Active"
    PROVE  ~Accepted(c)
BY DEF LabelTrue, Accepted, CredentialVerdict, CredentialExpired

LEMMA ClosedHolds == PagesInv => ClosedIsRefused
<1> SUFFICES ASSUME PagesInv PROVE ClosedIsRefused
    OBVIOUS
<1>1. ASSUME NEW h \in HolderTabs, On(h, "shares"), NEW s \in DOMAIN screen[h].item,
             StatusLabel(screen[h].item[s]) # "Active", Opens(s)
      PROVE  StatusLabel(screen[h].item[s]) = "Used" /\ s \in overlapped
    <2> DEFINE item == screen[h].item[s]
    <2>1. Screened(h, screen[h], share, credential, now, overlapped)
        BY DEF PagesInv, HolderTabs
    <2>2. ItemTrue(item, share[s], credential, s \notin overlapped)
        BY <1>1, <2>1 DEF Screened, On
    <2>3. s \in Shares /\ item \in Item
        BY <1>1, <2>1, ContentByPage, ContentColumns DEF Screened, On
    <2>4. share[s] # None /\ share[s] \in ShareRow
        BY <2>2, <2>3 DEF ItemTrue, PagesInv, BudgetInv, Inv, TypeOK
    <2>5. /\ item.views \in Nat /\ share[s].views \in Nat
          /\ item.maxViews \in Nat /\ share[s].maxViews \in Nat
        BY <2>3, <2>4, BoundsAssumption DEF Item, ShareRow
    <2>6. ~item.credentialRevoked /\ ~(item.credentialExpiresAt <= now)
        BY <1>1, <2>2
           DEF ItemTrue, Opens, Accepted, CredentialVerdict, CredentialExpired
    <2>7. /\ ~share[s].cancelled /\ ~(share[s].expiresAt <= now)
          /\ ~(share[s].views >= share[s].maxViews)
        BY <1>1, <2>4 DEF Opens, LinkVerdict
    <2>8. ~item.cancelled /\ ~(item.expiresAt <= now)
        BY <2>2, <2>7 DEF ItemTrue
    <2>9. StatusLabel(item) = "Used" /\ item.views >= item.maxViews
        BY <1>1, <2>6, <2>8 DEF StatusLabel
    <2>10. s \in overlapped
        BY <2>2, <2>5, <2>7, <2>9 DEF ItemTrue
    <2> QED  BY <2>9, <2>10
<1>2. ASSUME NEW h \in HolderTabs, On(h, "wallet"), NEW c \in DOMAIN screen[h].label,
             screen[h].label[c] # "Active"
      PROVE  ~Accepted(c)
    <2>1. Screened(h, screen[h], share, credential, now, overlapped)
        BY DEF PagesInv, HolderTabs
    <2> QED  BY <1>2, <2>1, ClosedCredential DEF Screened, On
<1>3. ASSUME NEW h \in HolderTabs, On(h, "credential"), screen[h].label # "Active"
      PROVE  ~Accepted(screen[h].id)
    <2>1. Screened(h, screen[h], share, credential, now, overlapped)
        BY DEF PagesInv, HolderTabs
    <2> QED  BY <1>3, <2>1, ClosedCredential DEF Screened, On
<1>4. ASSUME NEW i \in IssuerTabs, On(i, "issued"), NEW c \in DOMAIN screen[i].revoked,
             screen[i].revoked[c]
      PROVE  ~Accepted(c)
    <2>1. Screened(i, screen[i], share, credential, now, overlapped)
        BY DEF PagesInv, IssuerTabs
    <2>2. credential[c].revoked
        BY <1>4, <2>1 DEF Screened, On
    <2> QED  BY <2>2 DEF Accepted, CredentialVerdict
<1> QED  BY <1>1, <1>2, <1>3, <1>4 DEF ClosedIsRefused

\* A credential whose seconds are over has less than one second left.
LEMMA LastSecond ==
    ASSUME PagesInv, NEW c \in Credentials, credential[c] # None,
           CredentialExpired(credential[c])
    PROVE  credential[c].expiresAt < now + Second
<1>1. credential[c].expiresAt \in Nat /\ now \in Nat
    BY BoundsAssumption DEF PagesInv, BudgetInv, Inv, TypeOK, CredentialRow
<1>2. credential[c].exp = Seconds(credential[c].expiresAt)
    BY DEF PagesInv, ExpiriesMatch
<1>3. PICK k \in Nat : k = Seconds(credential[c].expiresAt)
                       /\ credential[c].expiresAt < k * Second + Second
    BY <1>1, SecondsBounds
<1>4. PICK n \in Nat : n = Seconds(now) /\ n * Second <= now
    BY <1>1, SecondsBounds
<1>5. Second \in Nat \ {0}
    BY BoundsAssumption
<1>6. CASE credential[c].expiresAt <= now
    BY <1>1, <1>5, <1>6
<1>7. CASE k <= n
    <2>1. k * Second <= n * Second /\ k * Second \in Nat /\ n * Second \in Nat
        BY <1>5, <1>7
    <2> QED  BY <1>1, <1>3, <1>4, <1>5, <2>1
<1> QED  BY <1>2, <1>3, <1>4, <1>6, <1>7 DEF CredentialExpired

LEMMA FreshLabelsHold == PagesInv => FreshLabelAgrees
<1> SUFFICES ASSUME PagesInv, NEW h \in HolderTabs, On(h, "shares"),
                    NEW s \in DOMAIN screen[h].item, screen[h].item[s] = ShareItem(s),
                    CanOpen(share[s].madeBy),
                    SameIssuerKey(credential[share[s].credential].madeBy)
             PROVE  LET active == StatusLabel(screen[h].item[s]) = "Active"
                        end == credential[share[s].credential].expiresAt
                    IN  /\ Opens(s) => active
                        /\ active /\ ~Opens(s) => now < end /\ end < now + Second
    BY DEF FreshLabelAgrees
<1>1. Screened(h, screen[h], share, credential, now, overlapped)
    BY DEF PagesInv, HolderTabs
<1>2. ItemTrue(screen[h].item[s], share[s], credential, s \notin overlapped) /\ s \in Shares
    BY <1>1, ContentByPage, ContentColumns DEF Screened, On
<1>3. share[s] # None
    BY <1>2 DEF ItemTrue
<1>4. PICK item : item = ShareItem(s)
    OBVIOUS
<1>5. PICK c \in Credentials : c = share[s].credential /\ credential[c] # None
    BY <1>2, <1>3, ShareRowFacts DEF PagesInv, BudgetInv, Inv, ShareWithinCredential, Backed
<1>6. /\ item.expiresAt = share[s].expiresAt /\ item.maxViews = share[s].maxViews
      /\ item.views = share[s].views /\ item.cancelled = share[s].cancelled
      /\ item.credentialExpiresAt = credential[c].expiresAt
      /\ item.credentialRevoked = credential[c].revoked
    BY <1>4, <1>5 DEF ShareItem
<1>7. Opens(s) => StatusLabel(item) = "Active"
    BY <1>3, <1>5, <1>6
       DEF StatusLabel, Opens, Accepted, LinkVerdict, CredentialVerdict, CredentialExpired
<1>8. ASSUME StatusLabel(item) = "Active", ~Opens(s)
      PROVE  now < credential[c].expiresAt /\ credential[c].expiresAt < now + Second
    <2>1. now \in Nat /\ credential[c].expiresAt \in Nat
        BY <1>5, BoundsAssumption DEF PagesInv, BudgetInv, Inv, TypeOK, CredentialRow
    <2>2. /\ ~credential[c].revoked /\ ~(credential[c].expiresAt <= now)
          /\ ~share[s].cancelled /\ ~(share[s].expiresAt <= now)
          /\ ~(share[s].views >= share[s].maxViews)
        BY <1>6, <1>8 DEF StatusLabel
    <2>3. LinkVerdict(s, share[s]) = "verified"
        BY <1>3, <2>2 DEF LinkVerdict
    <2>4. CredentialExpired(credential[c])
        BY <1>5, <1>8, <2>2, <2>3 DEF Opens, Accepted, CredentialVerdict
    <2> QED  BY <1>5, <2>1, <2>2, <2>4, LastSecond
<1> QED  BY <1>4, <1>5, <1>7, <1>8

\* The link a page offers is stored as the page says and discloses what was asked
\* for, for any number of holders, requests and lost answers.
THEOREM OffersAreStored == SafePages => []ResultIsStored
BY PagesStayTrue, OffersHold, PTL

\* While an item of the share history is up to date, a link that opens is labelled
\* "Active", and one so labelled is refused only in the last second of its credential.
THEOREM FreshLabelsAgree == SafePages => []FreshLabelAgrees
BY PagesStayTrue, FreshLabelsHold, PTL

\* What a page shows as closed is refused, however old the rows it copied and however
\* requests interleave; only a used link of which two verifications overlapped may
\* open again.
THEOREM ClosedStaysRefused == SafePages => []ClosedIsRefused
BY PagesStayTrue, ClosedHolds, PTL
=============================================================================
