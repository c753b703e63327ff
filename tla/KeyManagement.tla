---------------------------- MODULE KeyManagement ----------------------------
(***************************************************************************)
(* Who signs and who is bound: registration and issuance create a holder's *)
(* key if there is none; issuance, verification and the key endpoint take  *)
(* the issuer's key from a field that the first of them fills in; sharing  *)
(* signs with the holder's key, and verification asks for both keys again. *)
(* None of this is atomic: a request reads, waits, and writes.  The state  *)
(* of a link (limits, expiry, withdrawal) is in PresentationService.       *)
(*   apps/api/src/credentials/key-management-service.ts                    *)
(*   apps/api/src/credentials/credential-service.ts                        *)
(*   apps/api/src/credentials/presentation-service.ts                      *)
(*   apps/api/src/auth/auth-service.ts                                     *)
(***************************************************************************)
EXTENDS Naturals, FiniteSets

CONSTANTS
    Users,              \* emails of holders
    Seeded,             \* those the seed script created, without a key
    Credentials,        \* identifiers of credential rows
    Shares,             \* identifiers of share rows
    Claims,             \* the claims of every credential
    Audiences,          \* the audiences a holder may name
    IssuedAts,          \* the seconds in which shares are made
    Requests,           \* requests the process serves at a time
    MaxKeys,            \* bound: key pairs generated
    MaxRestarts,        \* bound: restarts of the process
    IssuerKeyConfigured,\* ISSUER_PRIVATE_JWK is set
    None                \* an absent row or value

INSTANCE CredentialCrypto

ASSUME KeysAssumption ==
    /\ Seeded \subseteq Users
    /\ MaxKeys \in Nat /\ MaxRestarts \in Nat
    /\ IssuerKeyConfigured \in BOOLEAN
    /\ None \notin Nat \cup Users \cup Shares

VARIABLES
    users,          \* table User: the holders that exist
    holderKey,      \* table HolderKey: the key pair of a holder
    credential,     \* table Credential
    share,          \* table Share
    issuerKey,      \* the fields issuerPrivateJwk and issuerPublicJwk
    published,      \* keys GET /.well-known/jwks.json has answered with
    signedHere,     \* keys this run of the process signed credentials with
    raced,          \* two first uses of the issuer's key overlapped in this run
    keys,           \* key pairs generated so far: each is its number
    restarts,       \* restarts so far
    request         \* the requests in progress

tables == <<users, holderKey, credential, share>>
history == <<signedHere, raced>>
vars == <<tables, issuerKey, published, history, keys, restarts, request>>

-----------------------------------------------------------------------------
Configured == 0                 \* the configured issuer key pair
KeyPairs == 0..MaxKeys
Kinds == {"register", "issue", "jwks", "share", "verify"}
Steps == {"idle", "user", "ensure", "key", "signing", "memo", "store", "publish", "conflict",
          "private", "public", "present", "check", "verified", "tampered"}

Bindings == [aud: Audiences, nonce: Shares, iat: IssuedAts]
Jwts == [payload: [cnf: KeyPairs, sd: {Claims}], key: KeyPairs]
SdHashes == [jwt: Jwts, disclosures: SUBSET Claims]
Kbs == [payload: [binding: Bindings, sdHash: SdHashes], key: KeyPairs]
SdJwts == [jwt: Jwts, disclosures: SUBSET Claims, kb: Kbs \cup {None}]

CredentialRow == [holder: Users, sdJwt: SdJwts]
ShareRow ==
    [credential: Credentials, disclosed: SUBSET Claims, binding: Bindings, presentation: SdJwts]

\* An absent row is not a row, and an absent signature or binding is neither.
ASSUME RowsAssumption ==
    /\ None \notin CredentialRow /\ None \notin ShareRow
    /\ None \notin Kbs /\ None \notin Bindings /\ None \notin Kinds

\* created: the request has made the user row itself; bound: the holder key and
\* key: the issuer key it has read; share: the row it has read or will write.
Request ==
    [kind: Kinds \cup {None}, step: Steps, user: Users \cup {None}, created: BOOLEAN,
     bound: KeyPairs \cup {None}, key: KeyPairs \cup {None}, share: ShareRow \cup {None}]
Start(kind, step, u, row) ==
    [kind |-> kind, step |-> step, user |-> u, created |-> FALSE, bound |-> None, key |-> None,
     share |-> row]
Idle == Start(None, "idle", None, None)
Go(q, step) == [q EXCEPT !.step = step]

Init ==
    /\ users = Seeded
    /\ holderKey = [u \in Users |-> None]
    /\ credential = [c \in Credentials |-> None]
    /\ share = [s \in Shares |-> None]
    /\ issuerKey = None
    /\ published = {}
    /\ signedHere = {}
    /\ raced = FALSE
    /\ keys = 0
    /\ restarts = 0
    /\ request = [r \in Requests |-> Idle]

-----------------------------------------------------------------------------
(* register: hash the password, create the user, create the key.  A unique *)
(* column that is taken ends the request with 409 "Email already registered"*)

Register(r, u) ==
    /\ request[r] = Idle
    /\ request' = [request EXCEPT ![r] = Start("register", "user", u, None)]
    /\ UNCHANGED <<tables, issuerKey, published, history, keys, restarts>>

CreateUser(r) ==
    /\ request[r].step = "user"
    /\ LET q == request[r]
       IN  IF q.user \in users
           THEN /\ request' = [request EXCEPT ![r] = Go(q, "conflict")]
                /\ UNCHANGED users
           ELSE /\ users' = users \cup {q.user}
                /\ request' = [request EXCEPT ![r] = [q EXCEPT !.step = "key", !.created = TRUE]]
    /\ UNCHANGED <<holderKey, credential, share, issuerKey, published, history, keys, restarts>>

\* After its key a registration creates a session, see AuthSessions.
AfterKey(q) == IF q.kind = "register" THEN Idle ELSE Go(q, "signing")

\* Mutant: a key that exists is overwritten.
UpsertHolderKey(r) ==
    /\ request[r].step = "key"
    /\ keys < MaxKeys
    /\ keys' = keys + 1
    /\ holderKey' = [holderKey EXCEPT ![request[r].user] = keys']
    /\ request' = [request EXCEPT ![r] = AfterKey(@)]
    /\ UNCHANGED <<users, credential, share, issuerKey, published, history, restarts>>

CreateHolderKey(r) ==
    /\ request[r].step = "key"
    /\ keys < MaxKeys
    /\ keys' = keys + 1
    /\ LET q == request[r]
       IN  IF holderKey[q.user] = None
           THEN /\ holderKey' = [holderKey EXCEPT ![q.user] = keys']
                /\ request' = [request EXCEPT ![r] = AfterKey(q)]
           ELSE /\ request' = [request EXCEPT ![r] = Go(q, "conflict")]
                /\ UNCHANGED holderKey
    /\ UNCHANGED <<users, credential, share, issuerKey, published, history, restarts>>

-----------------------------------------------------------------------------
(* issueCredential and issueDerivedAcademicCredential.                     *)

Issue(r, u) ==
    /\ request[r] = Idle
    /\ u \in users
    /\ request' = [request EXCEPT ![r] = Start("issue", "ensure", u, None)]
    /\ UNCHANGED <<tables, issuerKey, published, history, keys, restarts>>

EnsureHolderKey(r) ==
    /\ request[r].step = "ensure"
    /\ request' = [request EXCEPT ![r] =
           Go(@, IF holderKey[@.user] = None THEN "key" ELSE "signing")]
    /\ UNCHANGED <<tables, issuerKey, published, history, keys, restarts>>

\* getHolderPublicJwk, then getIssuerSigningKey: the field if it is filled, else
\* the configured key or a new one, which is written to the field after an await.
HolderPublicJwk(q) == IF q.kind = "issue" THEN holderKey[q.user] ELSE None
AfterSigningKey(q, k) ==
    LET step == CASE q.kind = "issue"  -> "store"
                  [] q.kind = "jwks"   -> "publish"
                  [] q.kind = "verify" -> "public"
    IN  [q EXCEPT !.step = step, !.key = k]
Candidate == IF IssuerKeyConfigured THEN Configured ELSE keys + 1

GetIssuerSigningKey(r) ==
    /\ request[r].step = "signing"
    /\ request[r].kind = "issue" => holderKey[request[r].user] # None
    /\ LET q == [request[r] EXCEPT !.bound = HolderPublicJwk(request[r])]
       IN  IF issuerKey # None
           THEN /\ request' = [request EXCEPT ![r] = AfterSigningKey(q, issuerKey)]
                /\ UNCHANGED <<keys, raced>>
           ELSE /\ IssuerKeyConfigured \/ keys < MaxKeys
                /\ keys' = IF IssuerKeyConfigured THEN keys ELSE keys + 1
                /\ raced' = (raced \/ \E p \in Requests : request[p].step = "memo")
                /\ request' = [request EXCEPT ![r] =
                       [q EXCEPT !.step = "memo", !.key = Candidate]]
    /\ UNCHANGED <<tables, issuerKey, published, signedHere, restarts>>

\* Mutant: the key is used and the field is not filled.
LeaveIssuerKey(r) ==
    /\ request[r].step = "memo"
    /\ request' = [request EXCEPT ![r] = AfterSigningKey(@, @.key)]
    /\ UNCHANGED <<tables, issuerKey, published, history, keys, restarts>>

FillIssuerKey(r) ==
    /\ request[r].step = "memo"
    /\ issuerKey' = request[r].key
    /\ request' = [request EXCEPT ![r] = AfterSigningKey(@, @.key)]
    /\ UNCHANGED <<tables, published, history, keys, restarts>>

StoreCredential(r, c) ==
    /\ request[r].step = "store"
    /\ credential[c] = None
    /\ LET q == request[r]
       IN  /\ credential' = [credential EXCEPT ![c] =
                  [holder |-> q.user, sdJwt |-> SdJwtCredential(Claims, q.bound, q.key)]]
           /\ signedHere' = signedHere \cup {q.key}
    /\ request' = [request EXCEPT ![r] = Idle]
    /\ UNCHANGED <<users, holderKey, share, issuerKey, published, raced, keys, restarts>>

(* getIssuerJwks.                                                          *)

\* Mutant: the field is published as it is.
PublishField(r) ==
    /\ request[r] = Idle
    /\ request' = [request EXCEPT ![r] = [Start("jwks", "publish", None, None) EXCEPT !.key = issuerKey]]
    /\ UNCHANGED <<tables, issuerKey, published, history, keys, restarts>>

GetIssuerJwks(r) ==
    /\ request[r] = Idle
    /\ request' = [request EXCEPT ![r] = Start("jwks", "signing", None, None)]
    /\ UNCHANGED <<tables, issuerKey, published, history, keys, restarts>>

Publish(r) ==
    /\ request[r].step = "publish"
    /\ published' = published \cup {request[r].key}
    /\ request' = [request EXCEPT ![r] = Idle]
    /\ UNCHANGED <<tables, issuerKey, history, keys, restarts>>

-----------------------------------------------------------------------------
(* createShare: the credential, then the holder's private key, then his    *)
(* public key, then the presentation, and the row.  The nonce is drawn for *)
(* this share alone, so it is named by the share.                          *)

CreateShare(r, c, s, D, aud, iat) ==
    /\ request[r] = Idle
    /\ credential[c] # None
    /\ share[s] = None
    /\ \A p \in Requests : request[p].kind = "share" => request[p].share.binding.nonce # s
    /\ LET row == [credential |-> c, disclosed |-> D, binding |-> HolderBinding(aud, s, iat),
                   presentation |-> credential[c].sdJwt]
       IN  request' = [request EXCEPT ![r] = Start("share", "private", credential[c].holder, row)]
    /\ UNCHANGED <<tables, issuerKey, published, history, keys, restarts>>

GetHolderPrivateJwk(r) ==
    /\ request[r].step = "private"
    /\ holderKey[request[r].user] # None
    /\ request' = [request EXCEPT ![r] =
           [@ EXCEPT !.step = "public", !.bound = holderKey[request[r].user]]]
    /\ UNCHANGED <<tables, issuerKey, published, history, keys, restarts>>

\* Sharing reads the public key and does nothing with it.
GetHolderPublicJwk(r) ==
    /\ request[r].step = "public"
    /\ holderKey[request[r].user] # None
    /\ LET q == request[r]
       IN  request' = [request EXCEPT ![r] =
               IF q.kind = "share" THEN Go(q, "present")
               ELSE [q EXCEPT !.step = "check", !.bound = holderKey[q.user]]]
    /\ UNCHANGED <<tables, issuerKey, published, history, keys, restarts>>

StoreShare(r) ==
    /\ request[r].step = "present"
    /\ LET q == request[r]
           row == q.share
           p == CreatePresentation(row.presentation, row.disclosed, q.bound, row.binding)
       IN  share' = [share EXCEPT ![row.binding.nonce] = [row EXCEPT !.presentation = p]]
    /\ request' = [request EXCEPT ![r] = Idle]
    /\ UNCHANGED <<users, holderKey, credential, issuerKey, published, history, keys, restarts>>

(* verifyCredential past the state of the link: the issuer's key, the      *)
(* holder's, the presentation against both and against its own row.        *)
VerifyShare(r, s) ==
    /\ request[r] = Idle
    /\ share[s] # None
    /\ LET h == credential[share[s].credential].holder
       IN  request' = [request EXCEPT ![r] = Start("verify", "signing", h, share[s])]
    /\ UNCHANGED <<tables, issuerKey, published, history, keys, restarts>>

CheckPresentation(r) ==
    /\ request[r].step = "check"
    /\ LET q == request[r]
           genuine == VerifyPresentation(q.share.presentation, q.key, q.bound, q.share.binding, TRUE)
       IN  request' = [request EXCEPT ![r] = Go(q, IF genuine THEN "verified" ELSE "tampered")]
    /\ UNCHANGED <<tables, issuerKey, published, history, keys, restarts>>

AnswerVerification(r) ==
    /\ request[r].step \in {"verified", "tampered"}
    /\ request' = [request EXCEPT ![r] = Idle]
    /\ UNCHANGED <<tables, issuerKey, published, history, keys, restarts>>

-----------------------------------------------------------------------------
\* The 409 is sent.
Conflict(r) ==
    /\ request[r].step = "conflict"
    /\ request' = [request EXCEPT ![r] = Idle]
    /\ UNCHANGED <<tables, issuerKey, published, history, keys, restarts>>

RequestFails(r) ==
    /\ request[r] # Idle
    /\ request' = [request EXCEPT ![r] = Idle]
    /\ UNCHANGED <<tables, issuerKey, published, history, keys, restarts>>

Restart ==
    /\ restarts < MaxRestarts
    /\ restarts' = restarts + 1
    /\ request' = [r \in Requests |-> Idle]
    /\ issuerKey' = None
    /\ signedHere' = {}
    /\ raced' = FALSE
    /\ UNCHANGED <<tables, published, keys>>

Arrival(r) ==
    \/ \E u \in Users : Register(r, u) \/ Issue(r, u)
    \/ GetIssuerJwks(r)
    \/ \E c \in Credentials, s \in Shares, D \in (SUBSET Claims) \ {{}}, aud \in Audiences,
          iat \in IssuedAts : CreateShare(r, c, s, D, aud, iat)
    \/ \E s \in Shares : VerifyShare(r, s)

Continue(r) ==
    \/ CreateUser(r)
    \/ EnsureHolderKey(r)
    \/ CreateHolderKey(r)
    \/ GetIssuerSigningKey(r)
    \/ FillIssuerKey(r)
    \/ \E c \in Credentials : StoreCredential(r, c)
    \/ Publish(r)
    \/ GetHolderPrivateJwk(r)
    \/ GetHolderPublicJwk(r)
    \/ StoreShare(r)
    \/ CheckPresentation(r)
    \/ AnswerVerification(r)
    \/ Conflict(r)

Next ==
    \/ \E r \in Requests : Arrival(r) \/ Continue(r) \/ RequestFails(r)
    \/ Restart

Spec == Init /\ [][Next]_vars

-----------------------------------------------------------------------------
(* Properties.                                                             *)

\* Tables, keys, requests and counters keep their shape.
TypeOK ==
    /\ users \subseteq Users
    /\ holderKey \in [Users -> KeyPairs \cup {None}]
    /\ credential \in [Credentials -> CredentialRow \cup {None}]
    /\ share \in [Shares -> ShareRow \cup {None}]
    /\ issuerKey \in KeyPairs \cup {None}
    /\ published \subseteq KeyPairs
    /\ signedHere \subseteq KeyPairs
    /\ raced \in BOOLEAN
    /\ keys \in 0..MaxKeys
    /\ restarts \in 0..MaxRestarts
    /\ request \in [Requests -> Request]

\* Every credential is bound to the key its holder has, and nobody else has that
\* key: however registrations and issuances overtake one another, no key they
\* created is replaced and no holder is left with a credential he cannot present.
CredentialsBound ==
    \A c \in Credentials : credential[c] # None =>
        LET h == credential[c].holder
            jwt == credential[c].sdJwt.jwt
        IN  /\ h \in users
            /\ holderKey[h] # None
            /\ jwt.payload.cnf = holderKey[h]
            /\ \A u \in Users \ {h} : holderKey[u] # holderKey[h]
            /\ ~SignedBy(jwt, holderKey[h])

\* The issuer's key is one key for a run of the process: what the run signed
\* verifies with the key it verifies with and publishes.  The one exception is a run
\* that generates the key, of which two first uses overlapped: each generates one,
\* the field keeps the later, and the earlier may have signed already.
SignedIsVerifiable ==
    signedHere \subseteq {issuerKey} \/ (raced /\ ~IssuerKeyConfigured)

\* Nobody is told that a good link is forged: a verification calls tampered only a
\* presentation signed with another issuer key than the one it read, and unless
\* two first uses of the key overlapped it was an earlier run that signed it,
\* whatever key reads, issuances and registrations this run is among.
TamperedIsForeign ==
    \A r \in Requests : request[r].step = "tampered" =>
        LET signer == request[r].share.presentation.jwt.key
        IN  signer # request[r].key /\ (signer \in signedHere => raced)

\* A stored presentation answers for its own link and no other: it carries exactly
\* the claims the link was made for, verifies under its row's binding with the keys
\* behind it, and under the binding of no other row of that holder.
LinksAnswerForThemselves ==
    \A s \in Shares : share[s] # None =>
        LET p == share[s].presentation
            Verifies(t) == VerifyPresentation(p, p.jwt.key,
                holderKey[credential[share[s].credential].holder], share[t].binding, TRUE)
        IN  /\ PresentationClaims(p) = share[s].disclosed
            /\ Verifies(s)
            /\ \A t \in Shares \ {s} : share[t] # None => ~Verifies(t)

\* "Email already registered" is answered to a registration, for an email that
\* was registered before.
ConflictMeansRegistered ==
    \A r \in Requests : request[r].step = "conflict" =>
        request[r].kind = "register" /\ ~request[r].created
=============================================================================
