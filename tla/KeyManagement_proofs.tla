------------------------- MODULE KeyManagement_proofs -------------------------
(***************************************************************************)
(* What holds of keys, credentials and links for any holders and any       *)
(* number of concurrent requests, key pairs and restarts.                  *)
(***************************************************************************)
EXTENDS KeyManagement, TLAPS

-----------------------------------------------------------------------------
(* The inductive invariant.                                                *)

\* A key pair that was drawn and is no holder's.
IssuersKey(k, hk, n) == k \in 0..n /\ \A u \in Users : hk[u] # k

\* A credential bound to the key its holder has, signed by an issuer's.
BoundRow(row, us, hk, n) ==
    LET h == row.holder
        jwt == row.sdJwt.jwt
    IN  /\ h \in us /\ hk[h] # None
        /\ jwt.payload.cnf = hk[h]
        /\ IssuersKey(jwt.key, hk, n)
        /\ row.sdJwt.disclosures = Claims

\* A link row that presents the credential it names, signed by its holder.
GenuineRow(row, hk, cr) ==
    LET c == row.credential
    IN  /\ row # None /\ c \in Credentials /\ cr[c] # None
        /\ row.presentation =
               CreatePresentation(cr[c].sdJwt, row.disclosed, hk[cr[c].holder], row.binding)

\* What a request relies on: that its user exists, that the keys it has read are
\* the ones the tables hold, and that the row it carries is one it may trust.
Coherent(q, us, hk, cr, n) ==
    /\ q.step = "user" => q.kind = "register" /\ q.user \in Users
    /\ q.step = "ensure" => q.kind = "issue"
    /\ q.step = "key" => q.kind \in {"register", "issue"}
    /\ q.step \in {"signing", "memo"} => q.kind \in {"issue", "jwks", "verify"}
    /\ q.step = "store" => q.kind = "issue"
    /\ q.step \in {"private", "present"} => q.kind = "share"
    /\ q.step = "public" => q.kind \in {"share", "verify"}
    /\ q.step \in {"check", "verified", "tampered"} => q.kind = "verify"
    /\ q.step \in {"ensure", "key"} => q.user \in us
    /\ q.kind = "issue" /\ q.step \in {"signing", "memo", "store"} => q.user \in us
    /\ q.kind = "issue" /\ q.step \in {"memo", "store"} => q.bound = hk[q.user] /\ q.bound # None
    /\ q.step \in {"memo", "store", "publish", "check", "verified", "tampered"} =>
           q.key # None /\ IssuersKey(q.key, hk, n)
    /\ q.kind = "verify" /\ q.step = "public" => q.key # None /\ IssuersKey(q.key, hk, n)
    /\ q.kind = "share" =>
           /\ q.share # None /\ q.share.credential \in Credentials
           /\ cr[q.share.credential] # None
           /\ q.user = cr[q.share.credential].holder
           /\ q.share.presentation = cr[q.share.credential].sdJwt
    /\ q.kind = "share" /\ q.step \in {"public", "present"} =>
           q.bound = hk[q.user] /\ q.bound # None
    /\ q.kind = "verify" => /\ GenuineRow(q.share, hk, cr)
                            /\ q.user = cr[q.share.credential].holder
    /\ q.step = "check" => q.bound = hk[q.user] /\ q.bound # None
    /\ q.step = "tampered" => ~SignedBy(q.share.presentation.jwt, q.key)

\* Holders' keys were drawn, each for one holder.
KeysApart ==
    \A u \in Users : holderKey[u] # None =>
        /\ holderKey[u] \in 1..keys
        /\ \A v \in Users \ {u} : holderKey[v] # holderKey[u]

CredentialsCoherent ==
    \A c \in Credentials : credential[c] # None => BoundRow(credential[c], users, holderKey, keys)
SharesCoherent ==
    \A s \in Shares : share[s] # None => /\ share[s].binding.nonce = s
                                         /\ GenuineRow(share[s], holderKey, credential)
RequestsCoherent ==
    \A r \in Requests : Coherent(request[r], users, holderKey, credential, keys)

Inv ==
    /\ TypeOK
    /\ KeysApart
    /\ issuerKey # None => IssuersKey(issuerKey, holderKey, keys)
    /\ CredentialsCoherent
    /\ SharesCoherent
    /\ RequestsCoherent

\* The requests that have the issuer's key from its field.
Holding(q) ==
    q.kind # "share"
    /\ q.step \in {"store", "publish", "public", "check", "verified", "tampered"}

\* Unless two first uses overlapped and drew two keys, every key that is held and
\* every signature of this run is the field's: a single first use fills it in, and
\* until it does nobody holds a key and nothing is signed.
OneKey == ~raced \/ IssuerKeyConfigured
IssuerInv ==
    /\ IssuerKeyConfigured =>
           /\ issuerKey \in {None, Configured}
           /\ \A r \in Requests : request[r].step = "memo" => request[r].key = Configured
    /\ OneKey =>
           /\ signedHere \subseteq {issuerKey}
           /\ \A r \in Requests : Holding(request[r]) => request[r].key = issuerKey
    /\ ~raced => \A r \in Requests : request[r].step = "memo" =>
           issuerKey = None /\ \A p \in Requests : request[p].step = "memo" => p = r

-----------------------------------------------------------------------------
(* What it implies.                                                        *)

LEMMA CreatePresentationType ==
    ASSUME NEW sdJwt \in SdJwts, NEW D \in SUBSET Claims, NEW key \in KeyPairs,
           NEW binding \in Bindings, sdJwt.disclosures = Claims
    PROVE  LET p == CreatePresentation(sdJwt, D, key, binding)
           IN  /\ p \in SdJwts /\ p.jwt = sdJwt.jwt /\ p.disclosures = D
               /\ p.kb # None /\ p.kb.key = key /\ p.kb.payload.binding = binding
               /\ p.kb.payload.sdHash = SdHash(p.jwt, p.disclosures)
<1> DEFINE kb == Signed([binding |-> binding, sdHash |-> SdHash(sdJwt.jwt, D)], key)
<1>1. Claims \cap D = D
    OBVIOUS
<1>2. sdJwt.jwt \in Jwts
    BY DEF SdJwts
<1>3. kb \in Kbs
    BY <1>2 DEF Signed, SdHash, Kbs, SdHashes
<1>4. kb # None /\ binding # None
    BY <1>3, RowsAssumption
<1>5. CreatePresentation(sdJwt, D, key, binding) = [jwt |-> sdJwt.jwt, disclosures |-> D, kb |-> kb]
    BY <1>1, <1>4 DEF CreatePresentation, SdJwt
<1>6. /\ kb.key = key /\ kb.payload.binding = binding
      /\ kb.payload.sdHash = SdHash(sdJwt.jwt, D)
    BY DEF Signed
<1> HIDE DEF kb
<1> QED  BY <1>2, <1>3, <1>4, <1>5, <1>6 DEF SdJwts

\* What may be relied on of the row a link was made from.
LEMMA GenuineFacts ==
    ASSUME Inv, NEW row \in ShareRow, GenuineRow(row, holderKey, credential)
    PROVE  LET c == row.credential
               h == credential[c].holder
           IN  /\ c \in Credentials /\ credential[c] # None /\ h \in Users
               /\ credential[c].sdJwt \in SdJwts /\ credential[c].sdJwt.disclosures = Claims
               /\ credential[c].sdJwt.jwt.payload.cnf = holderKey[h]
               /\ holderKey[h] \in KeyPairs
               /\ row.disclosed \in SUBSET Claims /\ row.binding \in Bindings
               /\ row.presentation = CreatePresentation(credential[c].sdJwt, row.disclosed,
                                                        holderKey[h], row.binding)
<1> DEFINE c == row.credential
           h == credential[c].holder
<1>1. c \in Credentials /\ credential[c] # None
    BY DEF GenuineRow
<1>2. credential[c] \in CredentialRow /\ BoundRow(credential[c], users, holderKey, keys)
    BY <1>1 DEF Inv, TypeOK, CredentialsCoherent
<1>3. /\ h \in Users /\ credential[c].sdJwt \in SdJwts
      /\ holderKey[h] \in KeyPairs
    BY <1>2 DEF CredentialRow, BoundRow, Inv, TypeOK
<1>4. row.disclosed \in SUBSET Claims /\ row.binding \in Bindings
    BY DEF ShareRow
<1> QED  BY <1>1, <1>2, <1>3, <1>4 DEF BoundRow, GenuineRow

\* A link's presentation verifies under the binding of its row exactly with the
\* key its credential was signed with, and under no other binding.
LEMMA LinkVerifies ==
    ASSUME Inv, NEW row \in ShareRow, GenuineRow(row, holderKey, credential), NEW issuer
    PROVE  LET p == row.presentation
               key == holderKey[credential[row.credential].holder]
           IN  /\ p.disclosures = row.disclosed
               /\ p.jwt.key = issuer => VerifyPresentation(p, issuer, key, row.binding, TRUE)
               /\ \A other :
                      other # row.binding => ~VerifyPresentation(p, issuer, key, other, TRUE)
<1> DEFINE p == row.presentation
           sdJwt == credential[row.credential].sdJwt
           key == holderKey[credential[row.credential].holder]
<1>1. /\ sdJwt \in SdJwts /\ sdJwt.disclosures = Claims /\ sdJwt.jwt.payload.cnf = key
      /\ key \in KeyPairs /\ row.disclosed \in SUBSET Claims /\ row.binding \in Bindings
      /\ p = CreatePresentation(sdJwt, row.disclosed, key, row.binding)
    BY GenuineFacts
<1> HIDE DEF p, sdJwt, key
<1>2. /\ p.jwt = sdJwt.jwt /\ p.disclosures = row.disclosed
      /\ p.kb # None /\ p.kb.key = key /\ p.kb.payload.binding = row.binding
      /\ p.kb.payload.sdHash = SdHash(p.jwt, p.disclosures)
    BY <1>1, CreatePresentationType
<1>3. p.jwt.payload.sd = Claims /\ p.jwt.payload.cnf = key /\ row.binding # None
    BY <1>1, <1>2, RowsAssumption DEF SdJwts, Jwts
<1>4. p.jwt.key = issuer => VerifyPresentation(p, issuer, key, row.binding, TRUE)
    BY <1>1, <1>2, <1>3 DEF VerifyPresentation, KbVerifies, SignedBy
<1>5. \A other : other # row.binding => ~VerifyPresentation(p, issuer, key, other, TRUE)
    BY <1>2 DEF VerifyPresentation, KbVerifies
<1> QED  BY <1>2, <1>4, <1>5 DEF p, key

LEMMA InvImplies == Inv => CredentialsBound /\ LinksAnswerForThemselves
<1> SUFFICES ASSUME Inv
             PROVE  CredentialsBound /\ LinksAnswerForThemselves
    OBVIOUS
<1>1. CredentialsBound
    <2> SUFFICES ASSUME NEW c \in Credentials, credential[c] # None
                 PROVE  LET h == credential[c].holder
                            jwt == credential[c].sdJwt.jwt
                        IN  /\ h \in users
                            /\ holderKey[h] # None
                            /\ jwt.payload.cnf = holderKey[h]
                            /\ \A u \in Users \ {h} : holderKey[u] # holderKey[h]
                            /\ ~SignedBy(jwt, holderKey[h])
        BY DEF CredentialsBound
    <2>1. BoundRow(credential[c], users, holderKey, keys) /\ users \subseteq Users
        BY DEF Inv, TypeOK, CredentialsCoherent
    <2> QED  BY <2>1 DEF BoundRow, IssuersKey, SignedBy, Inv, KeysApart
<1>2. LinksAnswerForThemselves
    <2> SUFFICES ASSUME NEW s \in Shares, share[s] # None
                 PROVE  LET p == share[s].presentation
                            Verifies(t) == VerifyPresentation(p, p.jwt.key,
                                holderKey[credential[share[s].credential].holder],
                                share[t].binding, TRUE)
                        IN  /\ PresentationClaims(p) = share[s].disclosed
                            /\ Verifies(s)
                            /\ \A t \in Shares \ {s} : share[t] # None => ~Verifies(t)
        BY DEF LinksAnswerForThemselves
    <2> DEFINE p == share[s].presentation
               key == holderKey[credential[share[s].credential].holder]
    <2>1. share[s] \in ShareRow /\ GenuineRow(share[s], holderKey, credential)
        BY DEF Inv, TypeOK, SharesCoherent
    <2>2. /\ p.disclosures = share[s].disclosed
          /\ VerifyPresentation(p, p.jwt.key, key, share[s].binding, TRUE)
          /\ \A other : other # share[s].binding
                 => ~VerifyPresentation(p, p.jwt.key, key, other, TRUE)
        BY <2>1, LinkVerifies
    <2>3. \A t \in Shares \ {s} : share[t] # None => share[t].binding # share[s].binding
        BY DEF Inv, SharesCoherent
    <2> HIDE DEF p, key
    <2> QED  BY <2>2, <2>3 DEF PresentationClaims, p, key
<1> QED  BY <1>1, <1>2

-----------------------------------------------------------------------------
(* What every step does to the tables.                                     *)

\* Users stay, a key is created where there is none and with a pair that was just
\* drawn, and a credential that exists stays as it is.
TablesGrow ==
    /\ users \subseteq users' /\ keys' \in Nat /\ keys <= keys'
    /\ \A u \in Users : \/ holderKey'[u] = holderKey[u]
                        \/ holderKey[u] = None /\ holderKey'[u] \in (keys + 1)..keys'
    /\ \A c \in Credentials : credential[c] # None => credential'[c] = credential[c]

LEMMA TablesSame ==
    ASSUME Inv, UNCHANGED <<users, holderKey, credential, keys>> PROVE TablesGrow
BY DEF Inv, TypeOK, TablesGrow

LEMMA IdleType ==
    /\ Idle \in Request
    /\ \A us, hk, cr, n : Coherent(Idle, us, hk, cr, n)
BY RowsAssumption DEF Idle, Start, Request, Kinds, Steps, Coherent

LEMMA IssuersKept ==
    ASSUME Inv, TablesGrow, NEW k, IssuersKey(k, holderKey, keys)
    PROVE  IssuersKey(k, holderKey', keys')
<1>1. k \in 0..keys /\ keys \in Nat /\ keys' \in Nat /\ keys <= keys'
    BY DEF IssuersKey, Inv, TypeOK, TablesGrow
<1>2. k \in 0..keys'
    BY <1>1
<1>3. ASSUME NEW u \in Users PROVE holderKey'[u] # k
    BY <1>1 DEF IssuersKey, TablesGrow
<1> QED  BY <1>2, <1>3 DEF IssuersKey

LEMMA BoundKept ==
    ASSUME Inv, TablesGrow, NEW row \in CredentialRow, BoundRow(row, users, holderKey, keys)
    PROVE  BoundRow(row, users', holderKey', keys')
<1>1. row.holder \in Users
    BY DEF CredentialRow
<1>2. holderKey'[row.holder] = holderKey[row.holder] /\ users \subseteq users'
    BY <1>1 DEF BoundRow, TablesGrow
<1>3. IssuersKey(row.sdJwt.jwt.key, holderKey', keys')
    BY IssuersKept DEF BoundRow
<1> QED  BY <1>2, <1>3 DEF BoundRow

\* The credential of a row and the key of its holder are there to stay.
LEMMA RowKept ==
    ASSUME Inv, TablesGrow, NEW c \in Credentials, credential[c] # None
    PROVE  /\ credential'[c] = credential[c]
           /\ credential[c].holder \in Users
           /\ holderKey'[credential[c].holder] = holderKey[credential[c].holder]
<1>1. credential[c] \in CredentialRow /\ BoundRow(credential[c], users, holderKey, keys)
    BY DEF Inv, TypeOK, CredentialsCoherent
<1>2. credential[c].holder \in Users /\ holderKey[credential[c].holder] # None
    BY <1>1 DEF BoundRow, CredentialRow
<1> QED  BY <1>2 DEF TablesGrow

LEMMA GenuineKept ==
    ASSUME Inv, TablesGrow, NEW row, GenuineRow(row, holderKey, credential)
    PROVE  /\ GenuineRow(row, holderKey', credential')
           /\ credential'[row.credential] = credential[row.credential]
<1>1. row.credential \in Credentials /\ credential[row.credential] # None
    BY DEF GenuineRow
<1>2. /\ credential'[row.credential] = credential[row.credential]
      /\ holderKey'[credential[row.credential].holder] = holderKey[credential[row.credential].holder]
    BY <1>1, RowKept
<1> QED  BY <1>2 DEF GenuineRow

LEMMA CoherentKept ==
    ASSUME Inv, TablesGrow, NEW q \in Request, Coherent(q, users, holderKey, credential, keys)
    PROVE  Coherent(q, users', holderKey', credential', keys')
<1>1. users \subseteq users' /\ users \subseteq Users
    BY DEF TablesGrow, Inv, TypeOK
<1>2. IssuersKey(q.key, holderKey, keys) => IssuersKey(q.key, holderKey', keys')
    BY IssuersKept
<1>3. q.kind = "verify" => /\ GenuineRow(q.share, holderKey', credential')
                           /\ q.user = credential'[q.share.credential].holder
    BY GenuineKept DEF Coherent
<1>4. q.kind = "share" =>
          /\ q.share # None /\ q.share.credential \in Credentials
          /\ credential'[q.share.credential] # None
          /\ q.user = credential'[q.share.credential].holder
          /\ q.share.presentation = credential'[q.share.credential].sdJwt
    BY DEF Coherent, TablesGrow
<1>5. ASSUME q.user \in Users, q.bound = holderKey[q.user], q.bound # None
      PROVE  q.bound = holderKey'[q.user]
    BY <1>5 DEF TablesGrow
<1>6. ASSUME \/ q.kind = "issue" /\ q.step \in {"memo", "store"}
             \/ q.kind = "share" /\ q.step \in {"public", "present"}
             \/ q.step = "check"
      PROVE  q.bound = holderKey'[q.user] /\ q.bound # None
    <2>1. CASE q.kind = "issue" /\ q.step \in {"memo", "store"}
        BY <1>1, <1>5, <2>1 DEF Coherent
    <2>2. CASE q.kind = "share" /\ q.step \in {"public", "present"}
        <3>1. q.user \in Users
            BY <2>2, RowKept DEF Coherent
        <3> QED  BY <1>5, <2>2, <3>1 DEF Coherent
    <2>3. CASE q.step = "check"
        <3>1. q.kind = "verify" /\ GenuineRow(q.share, holderKey, credential)
            BY <2>3 DEF Coherent
        <3>2. q.user \in Users
            BY <3>1, RowKept DEF Coherent, GenuineRow
        <3> QED  BY <1>5, <2>3, <3>2 DEF Coherent
    <2> QED  BY <1>6, <2>1, <2>2, <2>3
<1>7. q.user \in users => q.user \in users'
    BY <1>1
<1> QED  BY <1>2, <1>3, <1>4, <1>6, <1>7 DEF Coherent

\* A step of one request keeps the invariant when the tables grow, what it stores
\* is bound and genuine, and the request it leaves is coherent.
LEMMA StepInv ==
    ASSUME Inv, TypeOK', TablesGrow, KeysApart',
           issuerKey' # None => IssuersKey(issuerKey', holderKey', keys'),
           \A c \in Credentials : credential'[c] # None /\ credential[c] = None
               => BoundRow(credential'[c], users', holderKey', keys'),
           \A s \in Shares : \/ share'[s] = share[s]
                             \/ /\ share'[s].binding.nonce = s
                                /\ GenuineRow(share'[s], holderKey', credential'),
           NEW r \in Requests, \A p \in Requests \ {r} : request'[p] = request[p],
           Coherent(request'[r], users', holderKey', credential', keys')
    PROVE  Inv'
<1>1. CredentialsCoherent'
    <2> SUFFICES ASSUME NEW c \in Credentials, credential'[c] # None
                 PROVE  BoundRow(credential'[c], users', holderKey', keys')
        BY DEF CredentialsCoherent
    <2>1. CASE credential[c] # None
        <3>1. /\ credential[c] \in CredentialRow /\ credential'[c] = credential[c]
              /\ BoundRow(credential[c], users, holderKey, keys)
            BY <2>1 DEF Inv, TypeOK, CredentialsCoherent, TablesGrow
        <3> QED  BY <3>1, BoundKept
    <2> QED  BY <2>1
<1>2. SharesCoherent'
    <2> SUFFICES ASSUME NEW s \in Shares, share'[s] # None
                 PROVE  /\ share'[s].binding.nonce = s
                        /\ GenuineRow(share'[s], holderKey', credential')
        BY DEF SharesCoherent
    <2>1. CASE share'[s] = share[s]
        BY <2>1, GenuineKept DEF Inv, SharesCoherent
    <2> QED  BY <2>1
<1>3. RequestsCoherent'
    <2> SUFFICES ASSUME NEW p \in Requests
                 PROVE  Coherent(request'[p], users', holderKey', credential', keys')
        BY DEF RequestsCoherent
    <2>1. request[p] \in Request /\ Coherent(request[p], users, holderKey, credential, keys)
        BY DEF Inv, TypeOK, RequestsCoherent
    <2> QED  BY <2>1, CoherentKept
<1> QED  BY <1>1, <1>2, <1>3 DEF Inv

\* The steps that change nothing but what their request knows.
LEMMA RequestStep ==
    ASSUME Inv, NEW r \in Requests, NEW q \in Request, request' = [request EXCEPT ![r] = q],
           UNCHANGED <<tables, issuerKey, history, keys, restarts>>,
           published' \subseteq KeyPairs,
           Coherent(q, users, holderKey, credential, keys)
    PROVE  Inv'
<1>1. UNCHANGED <<users, holderKey, credential, share>>
    BY DEF tables
<1>2. request'[r] = q /\ \A p \in Requests \ {r} : request'[p] = request[p]
    BY DEF Inv, TypeOK
<1>3. TypeOK' /\ TablesGrow /\ KeysApart'
    BY <1>1, TablesSame DEF Inv, TypeOK, KeysApart, history
<1>4. issuerKey' # None => IssuersKey(issuerKey', holderKey', keys')
    BY <1>1 DEF Inv
<1>5. Coherent(request'[r], users', holderKey', credential', keys')
    BY <1>1, <1>2
<1> QED  BY <1>1, <1>2, <1>3, <1>4, <1>5, StepInv

-----------------------------------------------------------------------------
(* The actions.                                                            *)

LEMMA RequestFacts ==
    ASSUME Inv, NEW r \in Requests
    PROVE  request[r] \in Request /\ Coherent(request[r], users, holderKey, credential, keys)
BY DEF Inv, TypeOK, RequestsCoherent

LEMMA GoType ==
    ASSUME NEW q \in Request, NEW step \in Steps
    PROVE  /\ Go(q, step) \in Request /\ Go(q, step).step = step
           /\ Go(q, step).kind = q.kind /\ Go(q, step).user = q.user
           /\ Go(q, step).bound = q.bound /\ Go(q, step).key = q.key /\ Go(q, step).share = q.share
BY DEF Go, Request

LEMMA StartType ==
    ASSUME NEW kind \in Kinds, NEW step \in Steps, NEW u \in Users \cup {None},
           NEW row \in ShareRow \cup {None}
    PROVE  LET q == Start(kind, step, u, row)
           IN  /\ q \in Request /\ q.kind = kind /\ q.step = step /\ q.user = u
               /\ q.bound = None /\ q.key = None /\ q.share = row
BY DEF Start, Request

\* The arrivals of requests that carry no row.
LEMMA RegisterInv ==
    ASSUME Inv, NEW r \in Requests, NEW u \in Users, Register(r, u) \/ Issue(r, u)
    PROVE  Inv'
<1>1. PICK q : /\ \/ q = Start("register", "user", u, None)
                  \/ q = Start("issue", "ensure", u, None) /\ u \in users
               /\ request' = [request EXCEPT ![r] = q]
               /\ UNCHANGED <<tables, issuerKey, published, history, keys, restarts>>
    BY DEF Register, Issue
<1>2. "register" \in Kinds /\ "issue" \in Kinds /\ "user" \in Steps /\ "ensure" \in Steps
    BY DEF Kinds, Steps
<1>3. /\ q \in Request /\ q.user = u
      /\ \/ q.kind = "register" /\ q.step = "user"
         \/ q.kind = "issue" /\ q.step = "ensure" /\ u \in users
    BY <1>1, <1>2, StartType
<1>4. Coherent(q, users, holderKey, credential, keys)
    BY <1>3 DEF Coherent
<1> QED  BY <1>1, <1>3, <1>4, RequestStep DEF Inv, TypeOK

LEMMA GetIssuerJwksInv ==
    ASSUME Inv, NEW r \in Requests, GetIssuerJwks(r) PROVE Inv'
<1>1. PICK q : /\ q = Start("jwks", "signing", None, None)
               /\ request' = [request EXCEPT ![r] = q]
               /\ UNCHANGED <<tables, issuerKey, published, history, keys, restarts>>
    BY DEF GetIssuerJwks
<1>2. "jwks" \in Kinds /\ "signing" \in Steps
    BY DEF Kinds, Steps
<1>3. q \in Request /\ q.kind = "jwks" /\ q.step = "signing"
    BY <1>1, <1>2, StartType
<1>4. Coherent(q, users, holderKey, credential, keys)
    BY <1>3 DEF Coherent
<1> QED  BY <1>1, <1>3, <1>4, RequestStep DEF Inv, TypeOK

LEMMA CreateUserInv ==
    ASSUME Inv, NEW r \in Requests, CreateUser(r) PROVE Inv'
<1> DEFINE q == request[r]
<1>1. /\ q \in Request /\ Coherent(q, users, holderKey, credential, keys)
      /\ q.kind = "register" /\ q.user \in Users
    BY RequestFacts DEF CreateUser, Coherent
<1>2. CASE q.user \in users
    <2>1. /\ request' = [request EXCEPT ![r] = Go(q, "conflict")]
          /\ UNCHANGED <<tables, issuerKey, published, history, keys, restarts>>
        BY <1>2 DEF CreateUser, tables
    <2>2. "conflict" \in Steps
        BY DEF Steps
    <2>3. /\ Go(q, "conflict") \in Request /\ Go(q, "conflict").step = "conflict"
          /\ Go(q, "conflict").kind = "register"
        BY <1>1, <2>2, GoType
    <2>4. Coherent(Go(q, "conflict"), users, holderKey, credential, keys)
        BY <2>3 DEF Coherent
    <2> QED  BY <2>1, <2>3, <2>4, RequestStep DEF Inv, TypeOK
<1>3. CASE q.user \notin users
    <2> DEFINE new == [q EXCEPT !.step = "key", !.created = TRUE]
    <2>1. /\ request' = [request EXCEPT ![r] = new] /\ users' = users \cup {q.user}
          /\ UNCHANGED <<holderKey, credential, share, issuerKey, published, history, keys, restarts>>
        BY <1>3 DEF CreateUser
    <2>2. /\ new \in Request /\ new.step = "key" /\ new.kind = "register" /\ new.user = q.user
        BY <1>1 DEF Request, Steps
    <2> HIDE DEF new
    <2>3. TypeOK'
        BY <1>1, <2>1, <2>2 DEF Inv, TypeOK, history
    <2>4. TablesGrow /\ KeysApart'
        BY <2>1 DEF TablesGrow, KeysApart, Inv, TypeOK
    <2>5. issuerKey' # None => IssuersKey(issuerKey', holderKey', keys')
        BY <2>1 DEF Inv
    <2>6. request'[r] = new /\ \A p \in Requests \ {r} : request'[p] = request[p]
        BY <2>1 DEF Inv, TypeOK
    <2>7. Coherent(request'[r], users', holderKey', credential', keys')
        BY <2>1, <2>2, <2>6 DEF Coherent
    <2> QED  BY <2>1, <2>3, <2>4, <2>5, <2>6, <2>7, StepInv
<1> QED  BY <1>2, <1>3

LEMMA CreateHolderKeyInv ==
    ASSUME Inv, NEW r \in Requests, CreateHolderKey(r) PROVE Inv'
<1> DEFINE q == request[r]
<1>1. /\ q \in Request /\ Coherent(q, users, holderKey, credential, keys)
      /\ q.kind \in {"register", "issue"} /\ q.user \in users /\ q.user \in Users
    BY RequestFacts DEF CreateHolderKey, Coherent, Inv, TypeOK
<1>2. keys' = keys + 1 /\ keys \in Nat /\ keys' \in 0..MaxKeys
    BY KeysAssumption DEF CreateHolderKey, Inv, TypeOK
<1>3. /\ UNCHANGED <<users, credential, share, issuerKey, published, history, restarts>>
      /\ \/ /\ holderKey[q.user] = None
            /\ holderKey' = [holderKey EXCEPT ![q.user] = keys']
            /\ request' = [request EXCEPT ![r] = AfterKey(q)]
         \/ /\ request' = [request EXCEPT ![r] = Go(q, "conflict")]
            /\ UNCHANGED holderKey
    BY DEF CreateHolderKey
<1>4. PICK new : /\ new = AfterKey(q) \/ new = Go(q, "conflict")
                 /\ request' = [request EXCEPT ![r] = new]
    BY <1>3
<1>5. /\ new \in Request
      /\ \/ new = Idle
         \/ /\ new.kind = q.kind /\ new.user = q.user
            /\ new.step \in {"conflict", "signing"}
            /\ new.step = "signing" => new.kind = "issue"
    <2>1. "conflict" \in Steps /\ "signing" \in Steps
        BY DEF Steps
    <2>2. CASE new = Go(q, "conflict")
        BY <1>1, <2>1, <2>2, GoType
    <2>3. CASE new = AfterKey(q)
        <3>1. CASE q.kind = "register"
            BY <2>3, <3>1, IdleType DEF AfterKey
        <3>2. CASE q.kind = "issue"
            <4>1. new = Go(q, "signing")
                BY <2>3, <3>2 DEF AfterKey
            <4> QED  BY <1>1, <2>1, <3>2, <4>1, GoType
        <3> QED  BY <1>1, <3>1, <3>2
    <2> QED  BY <1>4, <2>2, <2>3
<1>6. TablesGrow
    BY <1>2, <1>3 DEF Inv, TypeOK, TablesGrow
<1>7. KeysApart'
    <2>1. CASE UNCHANGED holderKey
        BY <1>2, <2>1 DEF Inv, KeysApart
    <2>2. CASE holderKey' = [holderKey EXCEPT ![q.user] = keys']
        <3>1. \A u \in Users : holderKey[u] # None => holderKey[u] \in 1..keys
            BY DEF Inv, KeysApart
        <3>2. None \notin 0..keys'
            BY <1>2, KeysAssumption
        <3>3. holderKey'[q.user] = keys'
              /\ \A u \in Users \ {q.user} : holderKey'[u] = holderKey[u] /\ holderKey'[u] # keys'
            BY <1>1, <1>2, <2>2, <3>1, <3>2 DEF Inv, TypeOK
        <3> QED  BY <1>2, <3>1, <3>3 DEF Inv, KeysApart
    <2> QED  BY <1>3, <2>1, <2>2
<1>8. TypeOK'
    BY <1>2, <1>3, <1>4, <1>5 DEF Inv, TypeOK, KeyPairs, history
<1>9. issuerKey' # None => IssuersKey(issuerKey', holderKey', keys')
    BY <1>3, <1>6, IssuersKept DEF Inv
<1>10. request'[r] = new /\ \A p \in Requests \ {r} : request'[p] = request[p]
    BY <1>4 DEF Inv, TypeOK
<1>11. Coherent(new, users', holderKey', credential', keys')
    <2>1. CASE new = Idle
        BY <2>1, IdleType
    <2>2. CASE new # Idle
        BY <1>1, <1>3, <1>5, <2>2 DEF Coherent
    <2> QED  BY <2>1, <2>2
<1> QED  BY <1>3, <1>6, <1>7, <1>8, <1>9, <1>10, <1>11, StepInv

LEMMA EnsureHolderKeyInv ==
    ASSUME Inv, NEW r \in Requests, EnsureHolderKey(r) PROVE Inv'
<1> DEFINE q == request[r]
<1>1. /\ q \in Request /\ q.kind = "issue" /\ q.user \in users
    BY RequestFacts DEF EnsureHolderKey, Coherent
<1>2. PICK step \in {"key", "signing"} :
          /\ request' = [request EXCEPT ![r] = Go(q, step)]
          /\ UNCHANGED <<tables, issuerKey, published, history, keys, restarts>>
    BY DEF EnsureHolderKey
<1>3. step \in Steps
    BY DEF Steps
<1>4. /\ Go(q, step) \in Request /\ Go(q, step).step = step
      /\ Go(q, step).kind = "issue" /\ Go(q, step).user = q.user
    BY <1>1, <1>3, GoType
<1>5. Coherent(Go(q, step), users, holderKey, credential, keys)
    BY <1>1, <1>4 DEF Coherent
<1> QED  BY <1>2, <1>4, <1>5, RequestStep DEF Inv, TypeOK

\* The answers that end a request, or fail to.
LEMMA EndInv ==
    ASSUME Inv, NEW r \in Requests, AnswerVerification(r) \/ Conflict(r) \/ RequestFails(r)
    PROVE  Inv'
<1>1. /\ request' = [request EXCEPT ![r] = Idle]
      /\ UNCHANGED <<tables, issuerKey, published, history, keys, restarts>>
    BY DEF AnswerVerification, Conflict, RequestFails
<1> QED  BY <1>1, IdleType, RequestStep DEF Inv, TypeOK

LEMMA PublishInv ==
    ASSUME Inv, NEW r \in Requests, Publish(r) PROVE Inv'
<1>1. request[r].key \in KeyPairs
    BY RequestFacts DEF Publish, Coherent, Request
<1>2. /\ request' = [request EXCEPT ![r] = Idle]
      /\ published' \subseteq KeyPairs
      /\ UNCHANGED <<tables, issuerKey, history, keys, restarts>>
    BY <1>1 DEF Publish, Inv, TypeOK
<1> QED  BY <1>2, IdleType, RequestStep

LEMMA RestartInv == ASSUME Inv, Restart PROVE Inv'
<1>1. /\ UNCHANGED <<users, holderKey, credential, share, published, keys>>
      /\ request' = [r \in Requests |-> Idle] /\ issuerKey' = None /\ signedHere' = {}
      /\ raced' = FALSE /\ restarts' \in 0..MaxRestarts
    BY KeysAssumption DEF Restart, tables, Inv, TypeOK
<1>2. TypeOK'
    BY <1>1, IdleType DEF Inv, TypeOK
<1>3. KeysApart' /\ CredentialsCoherent' /\ SharesCoherent'
    BY <1>1 DEF Inv, KeysApart, CredentialsCoherent, SharesCoherent
<1>4. RequestsCoherent'
    BY <1>1, IdleType DEF RequestsCoherent
<1> QED  BY <1>1, <1>2, <1>3, <1>4 DEF Inv

\* A request that has an issuer key goes on to what it needs the key for.
LEMMA AfterSigningKeyType ==
    ASSUME NEW q \in Request, q.kind \in {"issue", "jwks", "verify"}, NEW k \in KeyPairs
    PROVE  LET new == AfterSigningKey(q, k)
           IN  /\ new \in Request /\ new.kind = q.kind /\ new.user = q.user
               /\ new.bound = q.bound /\ new.share = q.share /\ new.key = k
               /\ q.kind = "issue" => new.step = "store"
               /\ q.kind = "jwks" => new.step = "publish"
               /\ q.kind = "verify" => new.step = "public"
<1>1. CASE q.kind = "issue"
    BY <1>1 DEF AfterSigningKey, Request, Steps
<1>2. CASE q.kind = "jwks"
    BY <1>2 DEF AfterSigningKey, Request, Steps
<1>3. CASE q.kind = "verify"
    BY <1>3 DEF AfterSigningKey, Request, Steps
<1> QED  BY <1>1, <1>2, <1>3

LEMMA AfterSigningKeyCoherent ==
    ASSUME NEW us, NEW hk, NEW cr, NEW n, NEW q \in Request, NEW k \in KeyPairs, k # None,
           q.kind \in {"issue", "jwks", "verify"}, IssuersKey(k, hk, n),
           q.kind = "issue" => q.user \in us /\ q.bound = hk[q.user] /\ q.bound # None,
           q.kind = "verify" => GenuineRow(q.share, hk, cr) /\ q.user = cr[q.share.credential].holder
    PROVE  Coherent(AfterSigningKey(q, k), us, hk, cr, n)
<1> DEFINE new == AfterSigningKey(q, k)
<1>1. /\ new.kind = q.kind /\ new.user = q.user
      /\ new.bound = q.bound /\ new.share = q.share /\ new.key = k
      /\ q.kind = "issue" => new.step = "store"
      /\ q.kind = "jwks" => new.step = "publish"
      /\ q.kind = "verify" => new.step = "public"
    BY AfterSigningKeyType
<1> HIDE DEF new
<1>2. Coherent(new, us, hk, cr, n)
    BY <1>1 DEF Coherent
<1> QED  BY <1>2 DEF new

LEMMA KeyPairsDrawn ==
    ASSUME Inv
    PROVE  /\ None \notin KeyPairs /\ 0..keys \subseteq KeyPairs
           /\ IssuersKey(Configured, holderKey, keys)
           /\ keys + 1 <= MaxKeys => keys + 1 \in KeyPairs
           /\ IssuersKey(keys + 1, holderKey, keys + 1)
<1>1. keys \in Nat /\ keys <= MaxKeys /\ MaxKeys \in Nat /\ None \notin Nat
    BY KeysAssumption DEF Inv, TypeOK
<1>2. \A u \in Users : holderKey[u] # None => holderKey[u] \in 1..keys
    BY DEF Inv, KeysApart
<1>3. IssuersKey(0, holderKey, keys) /\ IssuersKey(keys + 1, holderKey, keys + 1)
    BY <1>1, <1>2 DEF IssuersKey
<1> QED  BY <1>1, <1>3 DEF KeyPairs, Configured

LEMMA GetIssuerSigningKeyInv ==
    ASSUME Inv, NEW r \in Requests, GetIssuerSigningKey(r) PROVE Inv'
<1> DEFINE q == [request[r] EXCEPT !.bound = HolderPublicJwk(request[r])]
<1>1. /\ request[r] \in Request /\ request[r].kind \in {"issue", "jwks", "verify"}
      /\ request[r].kind = "issue" => request[r].user \in users
      /\ request[r].kind = "verify" => /\ GenuineRow(request[r].share, holderKey, credential)
                                       /\ request[r].user = credential[request[r].share.credential].holder
    BY RequestFacts DEF GetIssuerSigningKey, Coherent
<1>2. HolderPublicJwk(request[r]) \in KeyPairs \cup {None}
    BY <1>1 DEF HolderPublicJwk, Inv, TypeOK
<1>3. /\ q \in Request /\ q.kind = request[r].kind /\ q.user = request[r].user
      /\ q.share = request[r].share /\ q.step = request[r].step /\ q.key = request[r].key
      /\ q.bound = HolderPublicJwk(request[r])
    BY <1>1, <1>2 DEF Request
<1>4. /\ UNCHANGED <<users, holderKey, credential, share, issuerKey, published, signedHere, restarts>>
      /\ \/ /\ issuerKey # None /\ keys' = keys /\ raced' = raced
            /\ request' = [request EXCEPT ![r] = AfterSigningKey(q, issuerKey)]
         \/ /\ IssuerKeyConfigured \/ keys < MaxKeys
            /\ keys' = IF IssuerKeyConfigured THEN keys ELSE keys + 1
            /\ raced' = (raced \/ \E p \in Requests : request[p].step = "memo")
            /\ request' = [request EXCEPT ![r] = [q EXCEPT !.step = "memo", !.key = Candidate]]
    BY DEF GetIssuerSigningKey, tables
<1>5. /\ q.kind = "issue" => q.user \in users /\ q.bound = holderKey[q.user] /\ q.bound # None
      /\ q.kind = "verify" => /\ GenuineRow(q.share, holderKey, credential)
                              /\ q.user = credential[q.share.credential].holder
    BY <1>1, <1>3 DEF GetIssuerSigningKey, HolderPublicJwk
<1> HIDE DEF q
<1>6. CASE /\ issuerKey # None /\ keys' = keys /\ raced' = raced
           /\ request' = [request EXCEPT ![r] = AfterSigningKey(q, issuerKey)]
    <2>1. issuerKey \in KeyPairs /\ IssuersKey(issuerKey, holderKey, keys)
        BY <1>6 DEF Inv, TypeOK
    <2>2. AfterSigningKey(q, issuerKey) \in Request
        BY <1>1, <1>3, <2>1, AfterSigningKeyType
    <2>3. Coherent(AfterSigningKey(q, issuerKey), users, holderKey, credential, keys)
        BY <1>1, <1>3, <1>5, <1>6, <2>1, AfterSigningKeyCoherent
    <2> QED  BY <1>4, <1>6, <2>2, <2>3, RequestStep DEF tables, history, Inv, TypeOK
<1>7. CASE /\ IssuerKeyConfigured \/ keys < MaxKeys
           /\ keys' = IF IssuerKeyConfigured THEN keys ELSE keys + 1
           /\ raced' = (raced \/ \E p \in Requests : request[p].step = "memo")
           /\ request' = [request EXCEPT ![r] = [q EXCEPT !.step = "memo", !.key = Candidate]]
    <2> DEFINE new == [q EXCEPT !.step = "memo", !.key = Candidate]
    <2>1. /\ Candidate \in KeyPairs /\ Candidate # None /\ IssuersKey(Candidate, holderKey, keys')
          /\ keys' \in 0..MaxKeys /\ keys <= keys' /\ keys \in Nat
        <3>1. keys \in 0..MaxKeys /\ MaxKeys \in Nat
            BY KeysAssumption DEF Inv, TypeOK
        <3> QED  BY <1>7, <3>1, KeyPairsDrawn DEF Candidate, KeyPairs, Configured
    <2>2. /\ new \in Request /\ new.step = "memo" /\ new.kind = q.kind /\ new.user = q.user
          /\ new.bound = q.bound /\ new.share = q.share /\ new.key = Candidate
        BY <1>3, <2>1 DEF Request, Steps
    <2>3. request' = [request EXCEPT ![r] = new]
        BY <1>7
    <2> HIDE DEF new
    <2>4. request'[r] = new /\ \A p \in Requests \ {r} : request'[p] = request[p]
        BY <2>3 DEF Inv, TypeOK
    <2>5. TypeOK'
        <3>1. raced' \in BOOLEAN
            BY <1>7, Zenon
        <3> QED  BY <1>4, <2>1, <2>2, <2>3, <3>1 DEF Inv, TypeOK
    <2>6. TablesGrow
        BY <1>4, <2>1 DEF TablesGrow
    <2>7. KeysApart'
        BY <1>4, <2>1 DEF Inv, KeysApart
    <2>8. issuerKey' # None => IssuersKey(issuerKey', holderKey', keys')
        BY <1>4, <2>6, IssuersKept DEF Inv
    <2>9. Coherent(new, users', holderKey', credential', keys')
        BY <1>1, <1>3, <1>4, <1>5, <2>1, <2>2 DEF Coherent
    <2> QED  BY <1>4, <2>4, <2>5, <2>6, <2>7, <2>8, <2>9, StepInv
<1> QED  BY <1>4, <1>6, <1>7

LEMMA FillIssuerKeyInv ==
    ASSUME Inv, NEW r \in Requests, FillIssuerKey(r) PROVE Inv'
<1> DEFINE q == request[r]
           new == AfterSigningKey(q, q.key)
<1>1. /\ q \in Request /\ Coherent(q, users, holderKey, credential, keys) /\ q.step = "memo"
      /\ q.kind \in {"issue", "jwks", "verify"}
      /\ q.key # None /\ IssuersKey(q.key, holderKey, keys)
    BY RequestFacts DEF FillIssuerKey, Coherent
<1>2. q.key \in KeyPairs
    BY <1>1 DEF Request
<1>3. /\ UNCHANGED <<users, holderKey, credential, share, published, history, keys, restarts>>
      /\ issuerKey' = q.key /\ request' = [request EXCEPT ![r] = new]
    BY DEF FillIssuerKey, tables
<1>4. new \in Request
    BY <1>1, <1>2, AfterSigningKeyType
<1>5. Coherent(new, users, holderKey, credential, keys)
    <2>1. /\ q.kind = "issue" => q.user \in users /\ q.bound = holderKey[q.user] /\ q.bound # None
          /\ q.kind = "verify" => /\ GenuineRow(q.share, holderKey, credential)
                                  /\ q.user = credential[q.share.credential].holder
        BY <1>1 DEF Coherent
    <2> QED  BY <1>1, <1>2, <2>1, AfterSigningKeyCoherent
<1> HIDE DEF new
<1>6. request'[r] = new /\ \A p \in Requests \ {r} : request'[p] = request[p]
    BY <1>3 DEF Inv, TypeOK
<1>7. TypeOK' /\ KeysApart' /\ TablesGrow
    BY <1>2, <1>3, <1>4, TablesSame DEF Inv, TypeOK, KeysApart, history
<1>8. issuerKey' # None => IssuersKey(issuerKey', holderKey', keys')
    BY <1>1, <1>3
<1>9. Coherent(request'[r], users', holderKey', credential', keys')
    BY <1>3, <1>5, <1>6
<1> QED  BY <1>3, <1>6, <1>7, <1>8, <1>9, StepInv

LEMMA StoreCredentialInv ==
    ASSUME Inv, NEW r \in Requests, NEW c \in Credentials, StoreCredential(r, c) PROVE Inv'
<1> DEFINE q == request[r]
           row == [holder |-> q.user, sdJwt |-> SdJwtCredential(Claims, q.bound, q.key)]
<1>1. /\ q \in Request /\ q.user \in users /\ q.user \in Users
      /\ q.bound = holderKey[q.user] /\ q.bound # None /\ q.bound \in KeyPairs
      /\ q.key # None /\ q.key \in KeyPairs /\ IssuersKey(q.key, holderKey, keys)
    BY RequestFacts DEF StoreCredential, Coherent, Request, Inv, TypeOK
<1>2. /\ credential[c] = None /\ credential' = [credential EXCEPT ![c] = row]
      /\ signedHere' = signedHere \cup {q.key} /\ request' = [request EXCEPT ![r] = Idle]
      /\ UNCHANGED <<users, holderKey, share, issuerKey, published, raced, keys, restarts>>
    BY DEF StoreCredential
<1>3. /\ row.holder = q.user /\ row.sdJwt.jwt.payload.cnf = q.bound
      /\ row.sdJwt.jwt.key = q.key /\ row.sdJwt.disclosures = Claims
    BY DEF SdJwtCredential, SdJwt, Signed
<1>4. row \in CredentialRow
    <2>1. SdJwtCredential(Claims, q.bound, q.key) \in SdJwts
        BY <1>1 DEF SdJwtCredential, SdJwt, Signed, SdJwts, Jwts
    <2> QED  BY <1>1, <2>1 DEF CredentialRow
<1> HIDE DEF row
<1>5. BoundRow(row, users, holderKey, keys)
    BY <1>1, <1>3 DEF BoundRow
<1>6. TypeOK'
    BY <1>1, <1>2, <1>4, IdleType DEF Inv, TypeOK
<1>7. TablesGrow /\ KeysApart'
    BY <1>2 DEF Inv, TypeOK, TablesGrow, KeysApart
<1>8. issuerKey' # None => IssuersKey(issuerKey', holderKey', keys')
    BY <1>2 DEF Inv
<1>9. \A d \in Credentials : credential'[d] # None /\ credential[d] = None
          => BoundRow(credential'[d], users', holderKey', keys')
    BY <1>2, <1>5 DEF Inv, TypeOK
<1>10. request'[r] = Idle /\ \A p \in Requests \ {r} : request'[p] = request[p]
    BY <1>2 DEF Inv, TypeOK
<1>11. Coherent(request'[r], users', holderKey', credential', keys')
    BY <1>10, IdleType
<1> QED  BY <1>2, <1>6, <1>7, <1>8, <1>9, <1>10, <1>11, StepInv

LEMMA CreateShareInv ==
    ASSUME Inv, NEW r \in Requests, NEW c \in Credentials, NEW s \in Shares,
           NEW D \in SUBSET Claims, NEW aud \in Audiences, NEW iat \in IssuedAts,
           CreateShare(r, c, s, D, aud, iat)
    PROVE  Inv'
<1> DEFINE row == [credential |-> c, disclosed |-> D, binding |-> HolderBinding(aud, s, iat),
                   presentation |-> credential[c].sdJwt]
           q == Start("share", "private", credential[c].holder, row)
<1>1. /\ credential[c] # None /\ request' = [request EXCEPT ![r] = q]
      /\ UNCHANGED <<tables, issuerKey, published, history, keys, restarts>>
    BY DEF CreateShare
<1>2. credential[c].holder \in Users /\ credential[c].sdJwt \in SdJwts
    BY <1>1 DEF Inv, TypeOK, CredentialRow
<1>3. row \in ShareRow /\ row # None
    <2>1. HolderBinding(aud, s, iat) \in Bindings
        BY DEF HolderBinding, Bindings
    <2>2. row \in ShareRow
        BY <1>2, <2>1 DEF ShareRow
    <2> QED  BY <2>2, RowsAssumption
<1>4. row.credential = c /\ row.presentation = credential[c].sdJwt
    OBVIOUS
<1> HIDE DEF row
<1>5. "share" \in Kinds /\ "private" \in Steps
    BY DEF Kinds, Steps
<1>6. /\ q \in Request /\ q.kind = "share" /\ q.step = "private"
      /\ q.user = credential[c].holder /\ q.share = row
    BY <1>2, <1>3, <1>5, StartType
<1> HIDE DEF q
<1>7. Coherent(q, users, holderKey, credential, keys)
    BY <1>1, <1>3, <1>4, <1>6 DEF Coherent
<1> QED  BY <1>1, <1>6, <1>7, RequestStep DEF Inv, TypeOK

LEMMA GetHolderPrivateJwkInv ==
    ASSUME Inv, NEW r \in Requests, GetHolderPrivateJwk(r) PROVE Inv'
<1> DEFINE q == request[r]
           new == [q EXCEPT !.step = "public", !.bound = holderKey[q.user]]
<1>1. /\ q \in Request /\ Coherent(q, users, holderKey, credential, keys)
      /\ q.kind = "share" /\ q.share.credential \in Credentials
      /\ credential[q.share.credential] # None
      /\ q.user = credential[q.share.credential].holder
    BY RequestFacts DEF GetHolderPrivateJwk, Coherent
<1>2. /\ request' = [request EXCEPT ![r] = new] /\ holderKey[q.user] # None
      /\ UNCHANGED <<tables, issuerKey, published, history, keys, restarts>>
    BY DEF GetHolderPrivateJwk
<1>3. q.user \in Users /\ holderKey[q.user] \in KeyPairs
    BY <1>1, <1>2 DEF Inv, TypeOK, CredentialRow
<1>4. /\ new \in Request /\ new.step = "public" /\ new.kind = "share" /\ new.user = q.user
      /\ new.bound = holderKey[q.user] /\ new.share = q.share
    BY <1>1, <1>3 DEF Request, Steps
<1> HIDE DEF new
<1>5. Coherent(new, users, holderKey, credential, keys)
    BY <1>1, <1>2, <1>4 DEF Coherent
<1> QED  BY <1>2, <1>4, <1>5, RequestStep DEF Inv, TypeOK

LEMMA GetHolderPublicJwkInv ==
    ASSUME Inv, NEW r \in Requests, GetHolderPublicJwk(r) PROVE Inv'
<1> DEFINE q == request[r]
<1>1. /\ q \in Request /\ Coherent(q, users, holderKey, credential, keys)
      /\ q.step = "public" /\ q.kind \in {"share", "verify"}
    BY RequestFacts DEF GetHolderPublicJwk, Coherent
<1>2. /\ holderKey[q.user] # None
      /\ UNCHANGED <<tables, issuerKey, published, history, keys, restarts>>
    BY DEF GetHolderPublicJwk
<1>3. CASE q.kind = "share"
    <2>1. request' = [request EXCEPT ![r] = Go(q, "present")]
        BY <1>3 DEF GetHolderPublicJwk
    <2>2. "present" \in Steps
        BY DEF Steps
    <2>3. /\ Go(q, "present") \in Request /\ Go(q, "present").step = "present"
          /\ Go(q, "present").kind = "share" /\ Go(q, "present").user = q.user
          /\ Go(q, "present").bound = q.bound /\ Go(q, "present").share = q.share
        BY <1>1, <1>3, <2>2, GoType
    <2>4. Coherent(Go(q, "present"), users, holderKey, credential, keys)
        BY <1>1, <1>3, <2>3 DEF Coherent
    <2> QED  BY <1>2, <2>1, <2>3, <2>4, RequestStep DEF Inv, TypeOK
<1>4. CASE q.kind = "verify"
    <2> DEFINE new == [q EXCEPT !.step = "check", !.bound = holderKey[q.user]]
    <2>1. request' = [request EXCEPT ![r] = new]
        BY <1>4 DEF GetHolderPublicJwk
    <2>2. /\ GenuineRow(q.share, holderKey, credential)
          /\ q.user = credential[q.share.credential].holder
          /\ q.key # None /\ IssuersKey(q.key, holderKey, keys)
        BY <1>1, <1>4 DEF Coherent
    <2>3. q.user \in Users
        BY <2>2 DEF GenuineRow, Inv, TypeOK, CredentialRow
    <2>4. holderKey[q.user] \in KeyPairs
        BY <1>2, <2>3 DEF Inv, TypeOK
    <2>5. /\ new \in Request /\ new.step = "check" /\ new.kind = "verify" /\ new.user = q.user
          /\ new.bound = holderKey[q.user] /\ new.share = q.share /\ new.key = q.key
        BY <1>1, <1>4, <2>4 DEF Request, Steps
    <2> HIDE DEF new
    <2>6. Coherent(new, users, holderKey, credential, keys)
        BY <1>2, <2>2, <2>5 DEF Coherent
    <2> QED  BY <1>2, <2>1, <2>5, <2>6, RequestStep DEF Inv, TypeOK
<1> QED  BY <1>1, <1>3, <1>4

LEMMA StoreShareInv ==
    ASSUME Inv, NEW r \in Requests, StoreShare(r) PROVE Inv'
<1> DEFINE q == request[r]
           c == q.share.credential
           p == CreatePresentation(q.share.presentation, q.share.disclosed, q.bound, q.share.binding)
           row == [q.share EXCEPT !.presentation = p]
<1>1. /\ q \in Request /\ q.share # None /\ c \in Credentials /\ credential[c] # None
      /\ q.user = credential[c].holder /\ q.share.presentation = credential[c].sdJwt
      /\ q.bound = holderKey[q.user] /\ q.bound # None
    BY RequestFacts DEF StoreShare, Coherent
<1>2. /\ share' = [share EXCEPT ![q.share.binding.nonce] = row]
      /\ request' = [request EXCEPT ![r] = Idle]
      /\ UNCHANGED <<users, holderKey, credential, issuerKey, published, history, keys, restarts>>
    BY DEF StoreShare
<1>3. /\ q.share \in ShareRow /\ q.bound \in KeyPairs
    BY <1>1 DEF Request
<1>4. /\ q.share.disclosed \in SUBSET Claims /\ q.share.binding \in Bindings
      /\ q.share.binding.nonce \in Shares
    BY <1>3 DEF ShareRow, Bindings
<1>5. credential[c].sdJwt \in SdJwts /\ credential[c].sdJwt.disclosures = Claims
    BY <1>1 DEF Inv, TypeOK, CredentialRow, CredentialsCoherent, BoundRow
<1>6. p \in SdJwts
    BY <1>1, <1>3, <1>4, <1>5, CreatePresentationType
<1>7. p = CreatePresentation(credential[c].sdJwt, q.share.disclosed,
                             holderKey[credential[c].holder], q.share.binding)
    BY <1>1
<1> HIDE DEF p
<1>8. /\ row \in ShareRow /\ row.credential = c /\ row.disclosed = q.share.disclosed
      /\ row.binding = q.share.binding /\ row.presentation = p
    BY <1>3, <1>6 DEF ShareRow
<1>9. row # None
    BY <1>8, RowsAssumption
<1> HIDE DEF row
<1>10. GenuineRow(row, holderKey, credential)
    BY <1>1, <1>7, <1>8, <1>9 DEF GenuineRow
<1>11. TypeOK' /\ TablesGrow /\ KeysApart'
    BY <1>2, <1>8, IdleType, TablesSame DEF Inv, TypeOK, KeysApart, history
<1>12. issuerKey' # None => IssuersKey(issuerKey', holderKey', keys')
    BY <1>2 DEF Inv
<1>13. \A s \in Shares : \/ share'[s] = share[s]
                         \/ /\ share'[s].binding.nonce = s
                            /\ GenuineRow(share'[s], holderKey', credential')
    BY <1>2, <1>4, <1>8, <1>10 DEF Inv, TypeOK
<1>14. request'[r] = Idle /\ \A o \in Requests \ {r} : request'[o] = request[o]
    BY <1>2 DEF Inv, TypeOK
<1>15. Coherent(request'[r], users', holderKey', credential', keys')
    BY <1>14, IdleType
<1> QED  BY <1>2, <1>11, <1>12, <1>13, <1>14, <1>15, StepInv

LEMMA VerifyShareInv ==
    ASSUME Inv, NEW r \in Requests, NEW s \in Shares, VerifyShare(r, s) PROVE Inv'
<1> DEFINE h == credential[share[s].credential].holder
           q == Start("verify", "signing", h, share[s])
<1>1. /\ share[s] # None /\ request' = [request EXCEPT ![r] = q]
      /\ UNCHANGED <<tables, issuerKey, published, history, keys, restarts>>
    BY DEF VerifyShare
<1>2. share[s] \in ShareRow /\ GenuineRow(share[s], holderKey, credential)
    BY <1>1 DEF Inv, TypeOK, SharesCoherent
<1>3. h \in Users
    BY <1>2, GenuineFacts
<1>4. "verify" \in Kinds /\ "signing" \in Steps
    BY DEF Kinds, Steps
<1>5. /\ q \in Request /\ q.kind = "verify" /\ q.step = "signing"
      /\ q.user = h /\ q.share = share[s]
    BY <1>2, <1>3, <1>4, StartType
<1> HIDE DEF q
<1>6. Coherent(q, users, holderKey, credential, keys)
    BY <1>2, <1>5 DEF Coherent
<1> QED  BY <1>1, <1>5, <1>6, RequestStep DEF Inv, TypeOK

\* The verdict is "tampered" only for want of the issuer's signature: the rest of
\* what is checked holds of every row that was stored.
LEMMA CheckPresentationInv ==
    ASSUME Inv, NEW r \in Requests, CheckPresentation(r) PROVE Inv'
<1> DEFINE q == request[r]
           genuine == VerifyPresentation(q.share.presentation, q.key, q.bound, q.share.binding, TRUE)
<1>1. /\ q \in Request /\ Coherent(q, users, holderKey, credential, keys)
      /\ q.kind = "verify" /\ GenuineRow(q.share, holderKey, credential)
      /\ q.user = credential[q.share.credential].holder /\ q.bound = holderKey[q.user]
      /\ q.key # None /\ IssuersKey(q.key, holderKey, keys)
    BY RequestFacts DEF CheckPresentation, Coherent
<1>2. q.share \in ShareRow
    BY <1>1 DEF Request, GenuineRow
<1>3. q.share.presentation.jwt.key = q.key => genuine
    BY <1>1, <1>2, LinkVerifies
<1>4. PICK step \in {"verified", "tampered"} :
          /\ request' = [request EXCEPT ![r] = Go(q, step)]
          /\ step = "tampered" => ~genuine
    BY DEF CheckPresentation
<1>5. UNCHANGED <<tables, issuerKey, published, history, keys, restarts>>
    BY DEF CheckPresentation
<1> HIDE DEF genuine
<1>6. step \in Steps
    BY DEF Steps
<1>7. /\ Go(q, step) \in Request /\ Go(q, step).step = step /\ Go(q, step).kind = "verify"
      /\ Go(q, step).user = q.user /\ Go(q, step).key = q.key /\ Go(q, step).share = q.share
    BY <1>1, <1>6, GoType
<1>8. Coherent(Go(q, step), users, holderKey, credential, keys)
    BY <1>1, <1>3, <1>4, <1>7 DEF Coherent, SignedBy
<1> QED  BY <1>4, <1>5, <1>7, <1>8, RequestStep DEF Inv, TypeOK

LEMMA NextInv == Inv /\ [Next]_vars => Inv'
<1> SUFFICES ASSUME Inv, [Next]_vars PROVE Inv'
    OBVIOUS
<1>1. ASSUME NEW r \in Requests, Arrival(r) PROVE Inv'
    BY <1>1, RegisterInv, GetIssuerJwksInv, CreateShareInv, VerifyShareInv DEF Arrival
<1>2. ASSUME NEW r \in Requests, Continue(r) PROVE Inv'
    <2>1. CASE CreateUser(r) \/ EnsureHolderKey(r) \/ CreateHolderKey(r)
        BY <2>1, CreateUserInv, EnsureHolderKeyInv, CreateHolderKeyInv
    <2>2. CASE GetIssuerSigningKey(r) \/ FillIssuerKey(r) \/ Publish(r)
        BY <2>2, GetIssuerSigningKeyInv, FillIssuerKeyInv, PublishInv
    <2>3. CASE \E c \in Credentials : StoreCredential(r, c)
        BY <2>3, StoreCredentialInv
    <2>4. CASE GetHolderPrivateJwk(r) \/ GetHolderPublicJwk(r) \/ StoreShare(r)
        BY <2>4, GetHolderPrivateJwkInv, GetHolderPublicJwkInv, StoreShareInv
    <2>5. CASE CheckPresentation(r) \/ AnswerVerification(r) \/ Conflict(r)
        BY <2>5, CheckPresentationInv, EndInv
    <2> QED  BY <1>2, <2>1, <2>2, <2>3, <2>4, <2>5 DEF Continue
<1>3. ASSUME NEW r \in Requests, RequestFails(r) PROVE Inv'
    BY <1>3, EndInv
<1>4. CASE UNCHANGED vars
    BY <1>4 DEF vars, tables, history, Inv, TypeOK, KeysApart, CredentialsCoherent, SharesCoherent,
                RequestsCoherent
<1> QED  BY <1>1, <1>2, <1>3, <1>4, RestartInv DEF Next

LEMMA InitInv == Init => Inv
<1> SUFFICES ASSUME Init PROVE Inv
    OBVIOUS
<1>1. TypeOK
    <2>1. raced \in BOOLEAN /\ signedHere \subseteq KeyPairs /\ issuerKey \in KeyPairs \cup {None}
        BY DEF Init
    <2>2. /\ users \subseteq Users /\ published \subseteq KeyPairs
          /\ keys \in 0..MaxKeys /\ restarts \in 0..MaxRestarts
        BY KeysAssumption DEF Init
    <2>3. /\ holderKey \in [Users -> KeyPairs \cup {None}]
          /\ credential \in [Credentials -> CredentialRow \cup {None}]
          /\ share \in [Shares -> ShareRow \cup {None}]
          /\ request \in [Requests -> Request]
        BY IdleType DEF Init
    <2> QED  BY <2>1, <2>2, <2>3 DEF TypeOK
<1>2. KeysApart /\ CredentialsCoherent /\ SharesCoherent /\ RequestsCoherent
    BY IdleType DEF Init, KeysApart, CredentialsCoherent, SharesCoherent, RequestsCoherent
<1> QED  BY <1>1, <1>2 DEF Init, Inv

-----------------------------------------------------------------------------
(* The issuer's key of a run of the process.                               *)

\* The step of a request that finds the field as it is and leaves it so.
LEMMA IssuerStep ==
    ASSUME Inv, IssuerInv, NEW r \in Requests,
           \A p \in Requests \ {r} : request'[p] = request[p],
           request'[r].step # "memo",
           OneKey /\ Holding(request'[r]) => request'[r].key = issuerKey,
           issuerKey' = issuerKey, raced' = raced,
           OneKey => signedHere' \subseteq signedHere \cup {issuerKey}
    PROVE  IssuerInv'
<1>1. OneKey' <=> OneKey
    BY DEF OneKey
<1>2. OneKey => /\ signedHere' \subseteq {issuerKey'}
                /\ \A p \in Requests : Holding(request'[p]) => request'[p].key = issuerKey'
    BY DEF IssuerInv
<1>3. IssuerKeyConfigured =>
          /\ issuerKey' \in {None, Configured}
          /\ \A p \in Requests : request'[p].step = "memo" => request'[p].key = Configured
    BY DEF IssuerInv
<1>4. ~raced' => \A p \in Requests : request'[p].step = "memo" =>
          issuerKey' = None /\ \A o \in Requests : request'[o].step = "memo" => o = p
    BY DEF IssuerInv
<1> QED  BY <1>1, <1>2, <1>3, <1>4 DEF IssuerInv

\* Few steps touch what IssuerInv is about.
LEMMA OtherSteps ==
    ASSUME Inv, NEW r \in Requests,
           \/ Arrival(r) \/ RequestFails(r)
           \/ CreateUser(r) \/ EnsureHolderKey(r) \/ CreateHolderKey(r) \/ Publish(r)
           \/ GetHolderPrivateJwk(r) \/ GetHolderPublicJwk(r) \/ StoreShare(r)
           \/ CheckPresentation(r) \/ AnswerVerification(r) \/ Conflict(r)
    PROVE  /\ issuerKey' = issuerKey /\ signedHere' = signedHere /\ raced' = raced
           /\ request'[r].step # "memo"
           /\ Holding(request'[r]) => Holding(request[r]) /\ request'[r].key = request[r].key
           /\ \A p \in Requests \ {r} : request'[p] = request[p]
<1>1. /\ request \in [Requests -> Request] /\ request[r] \in Request
      /\ Coherent(request[r], users, holderKey, credential, keys)
    BY RequestFacts DEF Inv, TypeOK
<1>2. CASE Arrival(r)
    BY <1>1, <1>2 DEF Arrival, Register, Issue, GetIssuerJwks, CreateShare, VerifyShare, Start,
                      Holding, history
<1>3. CASE RequestFails(r) \/ Publish(r) \/ StoreShare(r) \/ AnswerVerification(r) \/ Conflict(r)
    BY <1>1, <1>3 DEF RequestFails, Publish, StoreShare, AnswerVerification, Conflict, Idle, Start,
                      Holding, history
<1>4. \A step \in Steps : /\ Go(request[r], step).step = step
                          /\ Go(request[r], step).kind = request[r].kind
                          /\ Go(request[r], step).key = request[r].key
    BY <1>1, GoType
<1>5. CASE CreateUser(r)
    <2>1. /\ \/ request' = [request EXCEPT ![r] = Go(request[r], "conflict")]
             \/ request' = [request EXCEPT ![r] = [request[r] EXCEPT !.step = "key", !.created = TRUE]]
          /\ UNCHANGED <<issuerKey, history>>
        BY <1>5 DEF CreateUser
    <2>2. /\ Go(request[r], "conflict").step = "conflict"
          /\ [request[r] EXCEPT !.step = "key", !.created = TRUE].step = "key"
        BY <1>1, <1>4 DEF Steps, Request
    <2> QED  BY <1>1, <2>1, <2>2 DEF Holding, history
<1>6. CASE EnsureHolderKey(r)
    <2>1. PICK step \in {"key", "signing"} : request' = [request EXCEPT ![r] = Go(request[r], step)]
        BY <1>6 DEF EnsureHolderKey
    <2>2. Go(request[r], step).step = step
        BY <1>4 DEF Steps
    <2> QED  BY <1>1, <1>6, <2>1, <2>2 DEF EnsureHolderKey, Holding, history
<1>7. CASE CheckPresentation(r)
    <2>1. PICK step \in {"verified", "tampered"} :
              request' = [request EXCEPT ![r] = Go(request[r], step)]
        BY <1>7 DEF CheckPresentation
    <2>2. Go(request[r], step).step = step /\ Go(request[r], step).key = request[r].key
        BY <1>4 DEF Steps
    <2>3. Holding(request[r])
        BY <1>1, <1>7 DEF CheckPresentation, Coherent, Holding
    <2> QED  BY <1>1, <1>7, <2>1, <2>2, <2>3 DEF CheckPresentation, history
<1>8. CASE CreateHolderKey(r)
    <2>1. /\ request' \in {[request EXCEPT ![r] = AfterKey(request[r])],
                            [request EXCEPT ![r] = Go(request[r], "conflict")]}
          /\ UNCHANGED <<issuerKey, history>>
        BY <1>8 DEF CreateHolderKey
    <2>2. Go(request[r], "conflict").step = "conflict" /\ Go(request[r], "signing").step = "signing"
        BY <1>4 DEF Steps
    <2>3. AfterKey(request[r]).step \in {"idle", "signing"}
        BY <2>2 DEF AfterKey, Idle, Start
    <2> QED  BY <1>1, <2>1, <2>2, <2>3 DEF Holding, history
<1>9. CASE GetHolderPrivateJwk(r)
    <2>1. /\ request' = [request EXCEPT ![r] =
                [request[r] EXCEPT !.step = "public", !.bound = holderKey[request[r].user]]]
          /\ UNCHANGED <<issuerKey, history>>
          /\ request[r].kind = "share"
        BY <1>1, <1>9 DEF GetHolderPrivateJwk, Coherent
    <2> QED  BY <1>1, <2>1 DEF Request, Holding, history
<1>10. CASE GetHolderPublicJwk(r)
    <2>1. /\ UNCHANGED <<issuerKey, history>> /\ request[r].step = "public"
          /\ request' = [request EXCEPT ![r] =
                 IF request[r].kind = "share" THEN Go(request[r], "present")
                 ELSE [request[r] EXCEPT !.step = "check", !.bound = holderKey[request[r].user]]]
        BY <1>10 DEF GetHolderPublicJwk
    <2>2. Go(request[r], "present").step = "present"
        BY <1>4 DEF Steps
    <2> QED  BY <1>1, <2>1, <2>2 DEF Request, Holding, history
<1> QED  BY <1>2, <1>3, <1>5, <1>6, <1>7, <1>8, <1>9, <1>10

LEMMA OtherStepsIssuer ==
    ASSUME Inv, IssuerInv, NEW r \in Requests,
           \/ Arrival(r) \/ RequestFails(r)
           \/ CreateUser(r) \/ EnsureHolderKey(r) \/ CreateHolderKey(r) \/ Publish(r)
           \/ GetHolderPrivateJwk(r) \/ GetHolderPublicJwk(r) \/ StoreShare(r)
           \/ CheckPresentation(r) \/ AnswerVerification(r) \/ Conflict(r)
    PROVE  IssuerInv'
<1>1. OneKey /\ Holding(request[r]) => request[r].key = issuerKey
    BY DEF IssuerInv
<1> QED  BY <1>1, OtherSteps, IssuerStep

\* A request takes the field's key, or is the first to find the field empty, or
\* the next: then two first uses overlap.
LEMMA GetIssuerSigningKeyIssuer ==
    ASSUME Inv, IssuerInv, NEW r \in Requests, GetIssuerSigningKey(r) PROVE IssuerInv'
<1> DEFINE q == [request[r] EXCEPT !.bound = HolderPublicJwk(request[r])]
           new == [q EXCEPT !.step = "memo", !.key = Candidate]
<1>1. /\ q.step = "signing" /\ q.kind \in {"issue", "jwks", "verify"} /\ q \in Request
      /\ issuerKey' = issuerKey /\ signedHere' = signedHere
    <2>1. request[r] \in Request /\ request[r].kind \in {"issue", "jwks", "verify"}
        BY RequestFacts DEF GetIssuerSigningKey, Coherent
    <2>2. HolderPublicJwk(request[r]) \in KeyPairs \cup {None}
        BY <2>1, RequestFacts DEF HolderPublicJwk, GetIssuerSigningKey, Coherent, Inv, TypeOK
    <2> QED  BY <2>1, <2>2 DEF GetIssuerSigningKey, Request
<1>2. \/ /\ issuerKey # None /\ raced' = raced
         /\ request' = [request EXCEPT ![r] = AfterSigningKey(q, issuerKey)]
      \/ /\ issuerKey = None /\ raced' = (raced \/ \E p \in Requests : request[p].step = "memo")
         /\ request' = [request EXCEPT ![r] = new]
    BY DEF GetIssuerSigningKey
<1>3. new.step = "memo" /\ (IssuerKeyConfigured => new.key = Configured)
    BY <1>1 DEF Request, Candidate
<1> HIDE DEF q, new
<1>4. CASE /\ issuerKey # None /\ raced' = raced
           /\ request' = [request EXCEPT ![r] = AfterSigningKey(q, issuerKey)]
    <2>1. /\ AfterSigningKey(q, issuerKey).step # "memo"
          /\ AfterSigningKey(q, issuerKey).key = issuerKey
        BY <1>1, <1>4, AfterSigningKeyType DEF Inv, TypeOK
    <2>2. /\ \A p \in Requests \ {r} : request'[p] = request[p]
          /\ request'[r].step # "memo" /\ request'[r].key = issuerKey
        BY <1>4, <2>1 DEF Inv, TypeOK
    <2> QED  BY <1>1, <1>4, <2>2, IssuerStep
<1>5. CASE /\ issuerKey = None
           /\ raced' = (raced \/ \E p \in Requests : request[p].step = "memo")
           /\ request' = [request EXCEPT ![r] = new]
    <2>1. request'[r] = new /\ \A p \in Requests \ {r} : request'[p] = request[p]
        BY <1>5 DEF Inv, TypeOK
    <2>2. ~raced' => ~raced /\ \A p \in Requests : request[p].step # "memo"
        BY <1>5, Zenon
    <2>3. OneKey' => OneKey
        BY <2>2, Zenon DEF OneKey
    <2>4. ~Holding(new)
        BY <1>3 DEF Holding
    <2>5. OneKey' => /\ signedHere' \subseteq {issuerKey'}
                     /\ \A p \in Requests : Holding(request'[p]) => request'[p].key = issuerKey'
        BY <1>1, <2>1, <2>3, <2>4 DEF IssuerInv
    <2>6. IssuerKeyConfigured =>
              /\ issuerKey' \in {None, Configured}
              /\ \A p \in Requests : request'[p].step = "memo" => request'[p].key = Configured
        BY <1>1, <1>3, <2>1 DEF IssuerInv
    <2>7. ~raced' => \A p \in Requests : request'[p].step = "memo" =>
              issuerKey' = None /\ \A o \in Requests : request'[o].step = "memo" => o = p
        <3>1. ~raced' => \A p \in Requests : request'[p].step = "memo" => p = r
            BY <2>1, <2>2, Zenon
        <3> QED  BY <1>1, <1>5, <3>1, Zenon
    <2> QED  BY <2>5, <2>6, <2>7 DEF IssuerInv
<1> QED  BY <1>2, <1>4, <1>5

\* A single first use finds that nobody else has a key and nothing is signed.
LEMMA FillIssuerKeyIssuer ==
    ASSUME Inv, IssuerInv, NEW r \in Requests, FillIssuerKey(r) PROVE IssuerInv'
<1> DEFINE q == request[r]
           new == AfterSigningKey(q, q.key)
<1>1. /\ q \in Request /\ q.kind \in {"issue", "jwks", "verify"} /\ q.step = "memo"
      /\ q.key \in KeyPairs /\ q.key # None
      /\ signedHere' = signedHere /\ raced' = raced /\ issuerKey' = q.key
      /\ request' = [request EXCEPT ![r] = new]
    BY RequestFacts DEF FillIssuerKey, Coherent, Request, history
<1>2. new.key = q.key /\ new.step # "memo"
    BY <1>1, AfterSigningKeyType
<1> HIDE DEF new
<1>3. request'[r] = new /\ \A p \in Requests \ {r} : request'[p] = request[p]
    BY <1>1 DEF Inv, TypeOK
<1>4. OneKey => issuerKey \in {None, q.key}
    <2>1. CASE IssuerKeyConfigured
        BY <1>1, <2>1 DEF IssuerInv
    <2>2. CASE ~raced
        BY <1>1, <2>2 DEF IssuerInv
    <2> QED  BY <2>1, <2>2 DEF OneKey
<1>5. OneKey => /\ signedHere' \subseteq {issuerKey'}
                /\ \A p \in Requests : Holding(request'[p]) => request'[p].key = issuerKey'
    <2> SUFFICES ASSUME OneKey
                 PROVE  /\ signedHere' \subseteq {issuerKey'}
                        /\ \A p \in Requests : Holding(request'[p]) => request'[p].key = issuerKey'
        OBVIOUS
    <2>1. signedHere \subseteq {issuerKey} /\ signedHere \subseteq KeyPairs /\ None \notin KeyPairs
        BY KeyPairsDrawn DEF IssuerInv, Inv, TypeOK
    <2>2. ASSUME NEW p \in Requests, Holding(request[p]) PROVE request[p].key = q.key
        <3>1. /\ request[p].kind # "share"
              /\ request[p].step \in {"store", "publish", "public", "check", "verified", "tampered"}
              /\ Coherent(request[p], users, holderKey, credential, keys)
            BY <2>2, RequestFacts DEF Holding
        <3>2. request[p].key # None
            BY <3>1 DEF Coherent
        <3> QED  BY <1>4, <2>2, <3>2 DEF IssuerInv
    <2> QED  BY <1>1, <1>2, <1>3, <1>4, <2>1, <2>2
<1>6. IssuerKeyConfigured =>
          /\ issuerKey' \in {None, Configured}
          /\ \A p \in Requests : request'[p].step = "memo" => request'[p].key = Configured
    BY <1>1, <1>2, <1>3 DEF IssuerInv
<1>7. ~raced' => \A p \in Requests : request'[p].step # "memo"
    BY <1>1, <1>2, <1>3 DEF IssuerInv
<1>8. OneKey' <=> OneKey
    BY <1>1 DEF OneKey
<1> QED  BY <1>5, <1>6, <1>7, <1>8 DEF IssuerInv

LEMMA IssuerNext ==
    ASSUME Inv, IssuerInv, [Next]_vars PROVE IssuerInv'
<1>1. ASSUME NEW r \in Requests, NEW c \in Credentials, StoreCredential(r, c) PROVE IssuerInv'
    <2>1. /\ request'[r] = Idle /\ \A p \in Requests \ {r} : request'[p] = request[p]
          /\ issuerKey' = issuerKey /\ raced' = raced
          /\ signedHere' = signedHere \cup {request[r].key}
        BY <1>1 DEF StoreCredential, Inv, TypeOK
    <2>2. OneKey => request[r].key = issuerKey
        <3>1. request[r].kind = "issue" /\ request[r].step = "store"
            BY <1>1, RequestFacts DEF StoreCredential, Coherent
        <3> QED  BY <3>1 DEF Holding, IssuerInv
    <2>3. Idle.step = "idle"
        BY DEF Idle, Start
    <2>4. ~Holding(Idle)
        BY <2>3 DEF Holding
    <2> QED  BY <2>1, <2>2, <2>3, <2>4, IssuerStep
<1>2. ASSUME NEW r \in Requests, Arrival(r) \/ RequestFails(r) PROVE IssuerInv'
    BY <1>2, OtherStepsIssuer
<1>3. ASSUME NEW r \in Requests, Continue(r) PROVE IssuerInv'
    BY <1>1, <1>3, OtherStepsIssuer, GetIssuerSigningKeyIssuer, FillIssuerKeyIssuer DEF Continue
<1>4. CASE Restart
    <2>1. /\ request' = [r \in Requests |-> Idle] /\ issuerKey' = None /\ signedHere' = {}
        BY <1>4 DEF Restart
    <2>2. Idle.step = "idle"
        BY DEF Idle, Start
    <2> QED  BY <2>1, <2>2 DEF IssuerInv, Holding
<1>5. CASE UNCHANGED vars
    BY <1>5 DEF vars, history, IssuerInv, OneKey
<1> QED  BY <1>2, <1>3, <1>4, <1>5 DEF Next

LEMMA InitIssuer == Init => IssuerInv
<1>1. Idle.step = "idle"
    BY DEF Idle, Start
<1> QED  BY <1>1 DEF Init, IssuerInv, Holding

\* A verification that answers "tampered" held the field's key.
LEMMA IssuerImplies == Inv /\ IssuerInv => SignedIsVerifiable /\ TamperedIsForeign
<1> SUFFICES ASSUME Inv, IssuerInv PROVE SignedIsVerifiable /\ TamperedIsForeign
    OBVIOUS
<1>1. SignedIsVerifiable
    BY DEF IssuerInv, OneKey, SignedIsVerifiable
<1>2. ASSUME NEW r \in Requests, request[r].step = "tampered"
      PROVE  LET signer == request[r].share.presentation.jwt.key
             IN  signer # request[r].key /\ (signer \in signedHere => raced)
    <2>1. /\ request[r].kind = "verify"
          /\ request[r].share.presentation.jwt.key # request[r].key
        BY <1>2, RequestFacts DEF Coherent, SignedBy
    <2>2. ~raced => signedHere \subseteq {request[r].key}
        BY <1>2, <2>1 DEF IssuerInv, OneKey, Holding
    <2> QED  BY <2>1, <2>2
<1> QED  BY <1>1, <1>2 DEF TamperedIsForeign

-----------------------------------------------------------------------------
(* The theorems.                                                           *)

\* However requests and restarts interleave, tables, keys and requests agree.
THEOREM KeysStayCoherent == Spec => []Inv
BY InitInv, NextInv, PTL DEF Spec

\* Tables, keys and requests keep their shape.
THEOREM KeysTypeCorrect == Spec => []TypeOK
BY KeysStayCoherent, PTL DEF Inv

\* A credential is bound to the key its holder has and nobody else, and is not
\* signed by it, however registrations and issuances race to create that key.
THEOREM CredentialsStayBound == Spec => []CredentialsBound
BY KeysStayCoherent, InvImplies, PTL

\* A stored link verifies under its own binding with the keys behind it, shows
\* what it was made to show, and verifies under the binding of no other link.
THEOREM LinksStandAlone == Spec => []LinksAnswerForThemselves
BY KeysStayCoherent, InvImplies, PTL

\* However requests and restarts interleave, keys that are held are the field's.
LEMMA IssuerKeeps == Spec => [](Inv /\ IssuerInv)
<1>1. Inv /\ IssuerInv /\ [Next]_vars => IssuerInv'
    BY IssuerNext
<1> QED  BY <1>1, InitIssuer, KeysStayCoherent, PTL DEF Spec

\* With any configuration and however many requests race: every key this run of
\* the process signed with is the one it verifies with and publishes, unless it
\* generates the key and two first uses overlapped.
THEOREM OneIssuerKeySigns == Spec => []SignedIsVerifiable
BY IssuerKeeps, IssuerImplies, PTL

\* A verification answers "tampered" only when the credential was signed with an
\* issuer key other than the one it verifies with, one of an earlier run of the
\* process unless two first uses of the key overlapped in this one.
THEOREM TamperedMeansForeign == Spec => []TamperedIsForeign
BY IssuerKeeps, IssuerImplies, PTL
=============================================================================
