----------------------------- MODULE AuthSessions -----------------------------
(***************************************************************************)
(* Sessions of RevealID.  A session is a row with the hash of its current  *)
(* refresh token; a browser holds three cookies: an access token naming    *)
(* the session, the refresh token and a CSRF token.  Refreshing rotates    *)
(* all three, logging out revokes the row and clears them.  A browser may  *)
(* have several requests under way, each with the cookies of the moment it *)
(* was sent, and their answers may come back in any order or not at all.   *)
(*   apps/api/src/auth/auth-service.ts, apps/api/src/auth/token-service.ts *)
(*   apps/api/src/http/auth-plugin.ts, apps/api/src/http/cookies.ts        *)
(*   apps/api/src/routes/auth-routes.ts                                    *)
(***************************************************************************)
EXTENDS Naturals, FiniteSets

CONSTANTS
    Users,          \* accounts, by email
    Browsers,
    Sessions,       \* identifiers of session rows
    Requests,       \* requests under way at a time
    AccessTtl,      \* lifetime of an access token (15 minutes in the code)
    RefreshTtl,     \* lifetime of a session since its last refresh (30 days)
    MaxTime,        \* bound: the clock stops here
    MaxTokens,      \* bound: token pairs created
    RepliesMayBeLost,
    None            \* an absent row, cookie or value

ASSUME SessionsAssumption ==
    /\ AccessTtl \in Nat \ {0} /\ RefreshTtl \in Nat /\ AccessTtl <= RefreshTtl
    /\ MaxTime \in Nat /\ MaxTokens \in Nat
    /\ RepliesMayBeLost \in BOOLEAN
    /\ None \notin Sessions \cup Users \cup Nat

VARIABLES
    now,        \* Date.now(), in ticks
    session,    \* table RefreshSession
    tokens,     \* random tokens drawn so far: each is its number
    jar,        \* the cookies of each browser
    request     \* requests under way

vars == <<now, session, tokens, jar, request>>

-----------------------------------------------------------------------------
\* A refresh token and the CSRF token drawn with it are named by one number.
Tokens == 1..MaxTokens
Row(u, t) ==
    [user |-> u, token |-> t, csrfToken |-> t, expiresAt |-> now + RefreshTtl, revoked |-> FALSE]
SessionRow ==
    [user: Users, token: Tokens, csrfToken: Tokens, expiresAt: Nat, revoked: BOOLEAN]

\* signAccessToken: a signed statement, good until it expires.
AccessToken(s, u, t) == [session |-> s, user |-> u, csrfToken |-> t, expiresAt |-> now + AccessTtl]
AccessTokens == [session: Sessions, user: Users, csrfToken: Tokens, expiresAt: Nat]

\* An absent row or token is not one.
ASSUME RowsAssumption == None \notin SessionRow /\ None \notin AccessTokens

Cookies ==
    [access: AccessTokens \cup {None}, refresh: Tokens \cup {None}, csrf: Tokens \cup {None}]
NoCookies == [access |-> None, refresh |-> None, csrf |-> None]
\* setAuthCookies: the three are set by one answer.
AuthCookies(s, u, t) == [access |-> AccessToken(s, u, t), refresh |-> t, csrf |-> t]

Steps == {"idle", "create", "rotate", "revoke", "signedIn", "signedOut"}
Request ==
    [step: Steps, browser: Browsers \cup {None}, user: Users \cup {None},
     session: Sessions \cup {None}, cookies: Cookies]
Ask(step, b, u, s, cookies) ==
    [step |-> step, browser |-> b, user |-> u, session |-> s, cookies |-> cookies]
Idle == Ask("idle", None, None, None, NoCookies)

Live(s) == session[s] # None /\ ~session[s].revoked /\ session[s].expiresAt > now

\* authenticate: the access token is intact and current and its session is live.
Authenticated(cookies) ==
    /\ cookies.access # None
    /\ cookies.access.expiresAt > now
    /\ Live(cookies.access.session)

\* requireCsrf: the header, the cookie and the access token agree.
PassesCsrf(cookies, header) ==
    /\ Authenticated(cookies)
    /\ cookies.csrf # None
    /\ header = cookies.csrf
    /\ header = cookies.access.csrfToken

Init ==
    /\ now = 0
    /\ session = [s \in Sessions |-> None]
    /\ tokens = 0
    /\ jar = [b \in Browsers |-> NoCookies]
    /\ request = [r \in Requests |-> Idle]

-----------------------------------------------------------------------------
(* register and login, from the moment the user is known; see KeyManagement *)
(* for what register does before.                                          *)

SignIn(r, b, u) ==
    /\ request[r] = Idle
    /\ tokens < MaxTokens
    /\ request' = [request EXCEPT ![r] = Ask("create", b, u, None, NoCookies)]
    /\ UNCHANGED <<now, session, tokens, jar>>

\* Mutant: the token is not drawn anew.
CreateSessionReusingToken(r, s) ==
    /\ request[r].step = "create"
    /\ session[s] = None
    /\ LET q == request[r]
       IN  /\ session' = [session EXCEPT ![s] = Row(q.user, 1)]
           /\ request' = [request EXCEPT ![r] =
                  Ask("signedIn", q.browser, q.user, s, AuthCookies(s, q.user, 1))]
    /\ UNCHANGED <<now, tokens, jar>>

CreateSession(r, s) ==
    /\ request[r].step = "create"
    /\ session[s] = None
    /\ tokens < MaxTokens
    /\ tokens' = tokens + 1
    /\ LET q == request[r]
       IN  /\ session' = [session EXCEPT ![s] = Row(q.user, tokens')]
           /\ request' = [request EXCEPT ![r] =
                  Ask("signedIn", q.browser, q.user, s, AuthCookies(s, q.user, tokens'))]
    /\ UNCHANGED <<now, jar>>

(* refresh: find the session by the token, then update it by its id.       *)

Refresh(r, b, s) ==
    /\ request[r] = Idle
    /\ tokens < MaxTokens
    /\ jar[b].refresh # None
    /\ Live(s) /\ session[s].token = jar[b].refresh
    /\ request' = [request EXCEPT ![r] = Ask("rotate", b, session[s].user, s, jar[b])]
    /\ UNCHANGED <<now, session, tokens, jar>>

\* Mutant: a refresh brings a revoked session back.
RotatedLive(row, t) ==
    [user |-> row.user, token |-> t, csrfToken |-> t, expiresAt |-> now + RefreshTtl,
     revoked |-> FALSE]

Rotated(row, t) ==
    [user |-> row.user, token |-> t, csrfToken |-> t, expiresAt |-> now + RefreshTtl,
     revoked |-> row.revoked]

\* Mutants: the new access token is signed with the old CSRF token; the row's
\* expiry is dropped.
RotateKeepingCsrf(r) ==
    /\ request[r].step = "rotate"
    /\ tokens < MaxTokens
    /\ tokens' = tokens + 1
    /\ LET q == request[r]
           old == session[q.session].csrfToken
       IN  /\ session' = [session EXCEPT ![q.session] = Rotated(@, tokens')]
           /\ request' = [request EXCEPT ![r] =
                  Ask("signedIn", q.browser, q.user, q.session,
                      [AuthCookies(q.session, q.user, tokens')
                          EXCEPT !.access = AccessToken(q.session, q.user, old)])]
    /\ UNCHANGED <<now, jar>>
RotateDroppingExpiry(r) ==
    /\ request[r].step = "rotate"
    /\ tokens < MaxTokens
    /\ tokens' = tokens + 1
    /\ session' = [session EXCEPT ![request[r].session] =
                      [Rotated(@, tokens') EXCEPT !.expiresAt = None]]
    /\ request' = [request EXCEPT ![r] =
           Ask("signedIn", @.browser, @.user, @.session, AuthCookies(@.session, @.user, tokens'))]
    /\ UNCHANGED <<now, jar>>

RotateSession(r) ==
    /\ request[r].step = "rotate"
    /\ tokens < MaxTokens
    /\ tokens' = tokens + 1
    /\ LET q == request[r]
       IN  /\ session' = [session EXCEPT ![q.session] = Rotated(@, tokens')]
           /\ request' = [request EXCEPT ![r] =
                  Ask("signedIn", q.browser, q.user, q.session,
                      AuthCookies(q.session, q.user, tokens'))]
    /\ UNCHANGED <<now, jar>>

(* logout: the session is revoked by the refresh token the request carried. *)

Logout(r, b) ==
    /\ request[r] = Idle
    /\ PassesCsrf(jar[b], jar[b].csrf)
    /\ request' = [request EXCEPT ![r] =
           Ask("revoke", b, jar[b].access.user, jar[b].access.session, jar[b])]
    /\ UNCHANGED <<now, session, tokens, jar>>

Revoked(row) ==
    [user |-> row.user, token |-> row.token, csrfToken |-> row.csrfToken,
     expiresAt |-> row.expiresAt, revoked |-> TRUE]
RevokeSession(r) ==
    /\ request[r].step = "revoke"
    /\ session' = [s \in Sessions |->
           IF session[s] # None /\ session[s].token = request[r].cookies.refresh
           THEN Revoked(session[s]) ELSE session[s]]
    /\ request' = [request EXCEPT ![r] =
           Ask("signedOut", @.browser, @.user, @.session, NoCookies)]
    /\ UNCHANGED <<now, tokens, jar>>

-----------------------------------------------------------------------------
\* The answer reaches the browser, which takes its cookies over.
Reply(r) ==
    /\ request[r].step \in {"signedIn", "signedOut"}
    /\ jar' = [jar EXCEPT ![request[r].browser] = request[r].cookies]
    /\ request' = [request EXCEPT ![r] = Idle]
    /\ UNCHANGED <<now, session, tokens>>

\* An await throws, or the answer never arrives.
RequestFails(r) ==
    /\ RepliesMayBeLost
    /\ request[r] # Idle
    /\ request' = [request EXCEPT ![r] = Idle]
    /\ UNCHANGED <<now, session, tokens, jar>>

Tick ==
    /\ now < MaxTime
    /\ now' = now + 1
    /\ UNCHANGED <<session, tokens, jar, request>>

Arrival(r) ==
    \/ \E b \in Browsers, u \in Users : SignIn(r, b, u)
    \/ \E b \in Browsers, s \in Sessions : Refresh(r, b, s)
    \/ \E b \in Browsers : Logout(r, b)

Continue(r) ==
    \/ \E s \in Sessions : CreateSession(r, s)
    \/ RotateSession(r)
    \/ RevokeSession(r)
    \/ Reply(r)

Next ==
    \/ \E r \in Requests : Arrival(r) \/ Continue(r) \/ RequestFails(r)
    \/ Tick

Spec == Init /\ [][Next]_vars

-----------------------------------------------------------------------------
(* Properties.                                                             *)

\* Rows, cookies, requests and counters keep their shape.
TypeOK ==
    /\ now \in 0..MaxTime
    /\ session \in [Sessions -> SessionRow \cup {None}]
    /\ tokens \in 0..MaxTokens
    /\ jar \in [Browsers -> Cookies]
    /\ request \in [Requests -> Request]

\* A session that was revoked stays revoked, even when a refresh that found it
\* live writes its new token after the logout; and a session never changes hands.
KeepsRevoked ==
    \A s \in Sessions : session[s] # None =>
        /\ session'[s] # None
        /\ session'[s].user = session[s].user
        /\ session[s].revoked => session'[s].revoked
RevocationIsFinal == [][KeepsRevoked]_vars

\* No refresh token opens two sessions, and none opens another user's: whatever
\* mixture of answers a browser received, its refresh cookie can only lead to
\* the session, and its access token to the user, it was issued with.
CookiesLeadHome ==
    \A b \in Browsers : jar[b].access # None =>
        LET a == jar[b].access
        IN  /\ session[a.session] # None
            /\ session[a.session].user = a.user
            /\ \A s \in Sessions :
                   session[s] # None /\ session[s].token = jar[b].refresh => s = a.session

\* A browser that sends back what it holds is never refused for its CSRF token:
\* while its session is authenticated the three cookies agree.
CsrfAgrees ==
    \A b \in Browsers : Authenticated(jar[b]) => PassesCsrf(jar[b], jar[b].csrf)

\* A logout that is answered has revoked the session it was asked for.
LogoutRevokes ==
    \A r \in Requests :
        request[r].step = "signedOut" => session[request[r].session].revoked
=============================================================================
