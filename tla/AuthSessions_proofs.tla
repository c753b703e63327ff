------------------------- MODULE AuthSessions_proofs -------------------------
(***************************************************************************)
(* What holds of sessions for any users, browsers, session rows and        *)
(* concurrent requests, whatever answers are lost or reordered.            *)
(***************************************************************************)
EXTENDS AuthSessions, TLAPS

-----------------------------------------------------------------------------
(* The inductive invariant.                                                *)

\* Three cookies that one answer set: they were drawn together, and among the
\* given rows only the session of the access token can have their refresh token,
\* now or after any rotation.
LeadHome(cookies, rows, drawn) ==
    cookies # NoCookies =>
        LET a == cookies.access
        IN  /\ a # None /\ cookies.refresh # None
            /\ cookies.csrf = cookies.refresh /\ a.csrfToken = cookies.refresh
            /\ cookies.refresh \in 1..drawn
            /\ rows[a.session] # None /\ rows[a.session].user = a.user
            /\ \A s \in Sessions :
                   rows[s] # None /\ rows[s].token = cookies.refresh => s = a.session

\* What a request relies on: the browser it answers, the user it signs in, the
\* session it read and will write.
Coherent(q, rows, drawn) ==
    /\ LeadHome(q.cookies, rows, drawn)
    /\ q.step # "idle" => q.browser \in Browsers
    /\ q.step \in {"create", "rotate"} => q.user \in Users
    /\ q.step = "rotate" => /\ q.session \in Sessions
                            /\ rows[q.session] # None
                            /\ rows[q.session].user = q.user

TokensDrawn == \A s \in Sessions : session[s] # None => session[s].token <= tokens

Inv ==
    /\ TypeOK
    /\ TokensDrawn
    /\ \A b \in Browsers : LeadHome(jar[b], session, tokens)
    /\ \A r \in Requests : Coherent(request[r], session, tokens)

LEMMA InvImplies == Inv => CookiesLeadHome /\ CsrfAgrees
<1> SUFFICES ASSUME Inv PROVE CookiesLeadHome /\ CsrfAgrees
    OBVIOUS
<1>1. CookiesLeadHome
    BY DEF Inv, LeadHome, NoCookies, CookiesLeadHome
<1>2. CsrfAgrees
    BY DEF Inv, LeadHome, NoCookies, CsrfAgrees, PassesCsrf, Authenticated
<1> QED  BY <1>1, <1>2

-----------------------------------------------------------------------------
(* What every step does to the rows.                                       *)

\* A row that exists stays, with its user and its revocation, and its token is
\* the one it had or one that was drawn in this step.
RowsMoveOn ==
    /\ tokens' \in Nat /\ tokens <= tokens'
    /\ \A s \in Sessions :
           /\ session[s] # None => /\ session'[s] # None
                                   /\ session'[s].user = session[s].user
                                   /\ session[s].revoked => session'[s].revoked
           /\ session'[s] # None => \/ /\ session[s] # None
                                       /\ session'[s].token = session[s].token
                                    \/ session'[s].token \in (tokens + 1)..tokens'

LEMMA IdleType == Idle \in Request /\ NoCookies \in Cookies
BY DEF Idle, Ask, Request, Steps, NoCookies, Cookies

LEMMA IdleCoherent ==
    ASSUME NEW rows, NEW drawn
    PROVE  LeadHome(NoCookies, rows, drawn) /\ Coherent(Idle, rows, drawn)
BY DEF LeadHome, Coherent, Idle, Ask

LEMMA RowsSame ==
    ASSUME Inv, session' = session, tokens' = tokens PROVE RowsMoveOn
BY DEF Inv, TypeOK, RowsMoveOn

LEMMA CookiesKept ==
    ASSUME Inv, RowsMoveOn, NEW c \in Cookies, LeadHome(c, session, tokens)
    PROVE  LeadHome(c, session', tokens')
<1> SUFFICES ASSUME c # NoCookies PROVE LeadHome(c, session', tokens')
    BY DEF LeadHome
<1>1. /\ c.access \in AccessTokens /\ c.refresh \in 1..tokens
      /\ c.csrf = c.refresh /\ c.access.csrfToken = c.refresh
      /\ session[c.access.session] # None
      /\ session[c.access.session].user = c.access.user
      /\ \A s \in Sessions :
             session[s] # None /\ session[s].token = c.refresh => s = c.access.session
    BY DEF LeadHome, Cookies
<1>2. c.access.session \in Sessions /\ c.refresh \in Nat /\ tokens \in Nat /\ tokens' \in Nat
    BY <1>1 DEF AccessTokens, Inv, TypeOK, RowsMoveOn
<1>3. /\ session'[c.access.session] # None
      /\ session'[c.access.session].user = c.access.user
    BY <1>1, <1>2 DEF RowsMoveOn
<1>4. c.refresh \in 1..tokens'
    BY <1>1, <1>2 DEF RowsMoveOn
<1>5. ASSUME NEW s \in Sessions, session'[s] # None, session'[s].token = c.refresh
      PROVE  s = c.access.session
    <2>1. session'[s].token \notin (tokens + 1)..tokens'
        BY <1>1, <1>2, <1>5
    <2>2. session[s] # None /\ session[s].token = c.refresh
        BY <1>5, <2>1 DEF RowsMoveOn
    <2> QED  BY <1>1, <2>2
<1>6. c.access # None /\ c.refresh # None
    BY DEF LeadHome
<1> QED  BY <1>1, <1>3, <1>4, <1>5, <1>6 DEF LeadHome

LEMMA CoherentKept ==
    ASSUME Inv, RowsMoveOn, NEW p \in Requests
    PROVE  Coherent(request[p], session', tokens')
<1>1. Coherent(request[p], session, tokens) /\ request[p].cookies \in Cookies
    BY DEF Inv, TypeOK, Request
<1>2. LeadHome(request[p].cookies, session', tokens')
    BY <1>1, CookiesKept DEF Coherent
<1>3. request[p].step = "rotate" => /\ session'[request[p].session] # None
                                    /\ session'[request[p].session].user = request[p].user
    BY <1>1 DEF Coherent, RowsMoveOn
<1> QED  BY <1>1, <1>2, <1>3 DEF Coherent

\* A step of one request keeps the invariant when it moves the rows on, leaves a
\* coherent request, and gives a browser nothing but the cookies of its answer.
LEMMA StepInv ==
    ASSUME Inv, TypeOK', RowsMoveOn, NEW r \in Requests,
           \A p \in Requests \ {r} : request'[p] = request[p],
           Coherent(request'[r], session', tokens'),
           \A b \in Browsers : jar'[b] = jar[b] \/ jar'[b] = request[r].cookies
    PROVE  Inv'
<1>1. TokensDrawn'
    <2> SUFFICES ASSUME NEW s \in Sessions, session'[s] # None PROVE session'[s].token <= tokens'
        BY DEF TokensDrawn
    <2>1. tokens \in Nat /\ tokens' \in Nat /\ tokens <= tokens'
        BY DEF Inv, TypeOK, RowsMoveOn
    <2>2. session[s] # None => session[s].token <= tokens /\ session[s].token \in Nat
        BY DEF Inv, TypeOK, TokensDrawn, SessionRow, Tokens
    <2> QED  BY <2>1, <2>2 DEF RowsMoveOn
<1>2. ASSUME NEW b \in Browsers PROVE LeadHome(jar'[b], session', tokens')
    <2>1. LeadHome(jar[b], session', tokens')
        BY CookiesKept DEF Inv, TypeOK
    <2>2. LeadHome(request[r].cookies, session', tokens')
        BY CoherentKept DEF Coherent
    <2> QED  BY <2>1, <2>2
<1>3. ASSUME NEW p \in Requests PROVE Coherent(request'[p], session', tokens')
    BY CoherentKept
<1> QED  BY <1>1, <1>2, <1>3 DEF Inv

-----------------------------------------------------------------------------
(* The actions.                                                            *)

LEMMA RequestAt ==
    ASSUME Inv, NEW r \in Requests
    PROVE  request[r] \in Request /\ Coherent(request[r], session, tokens)
BY DEF Inv, TypeOK

\* The answer to a sign-in or a refresh: cookies drawn together for one session.
LEMMA FreshCookies ==
    ASSUME Inv, NEW s \in Sessions, NEW u \in Users, tokens < MaxTokens
    PROVE  /\ AuthCookies(s, u, tokens + 1) \in Cookies
           /\ AuthCookies(s, u, tokens + 1).access # None
           /\ AuthCookies(s, u, tokens + 1).access =
                  [session |-> s, user |-> u, csrfToken |-> tokens + 1, expiresAt |-> now + AccessTtl]
           /\ AuthCookies(s, u, tokens + 1).refresh = tokens + 1
           /\ AuthCookies(s, u, tokens + 1).csrf = tokens + 1
           /\ tokens + 1 \in Tokens /\ tokens + 1 \in Nat /\ tokens \in Nat /\ tokens + 1 # None
           /\ now + RefreshTtl \in Nat
<1>1. tokens + 1 \in Tokens /\ now \in Nat /\ tokens \in Nat
    BY SessionsAssumption DEF Inv, TypeOK, Tokens
<1>2. AccessToken(s, u, tokens + 1) \in AccessTokens
    BY <1>1, SessionsAssumption DEF AccessToken, AccessTokens
<1>3. AccessToken(s, u, tokens + 1) # None
    BY <1>2, RowsAssumption
<1>4. tokens + 1 # None /\ now + RefreshTtl \in Nat
    BY <1>1, SessionsAssumption
<1> QED  BY <1>1, <1>2, <1>3, <1>4 DEF AuthCookies, Cookies, AccessToken

\* A session gets a token that was drawn in this step: it alone can be found by
\* it, and the cookies of the answer lead to it.
LEMMA TokenWritten ==
    ASSUME Inv, NEW s \in Sessions, NEW u \in Users, NEW row \in SessionRow, NEW b \in Browsers,
           tokens < MaxTokens, tokens' = tokens + 1,
           session' = [session EXCEPT ![s] = row],
           row.user = u, row.token = tokens + 1,
           session[s] # None => /\ session[s].user = u
                                /\ session[s].revoked => row.revoked
    PROVE  /\ RowsMoveOn
           /\ Coherent(Ask("signedIn", b, u, s, AuthCookies(s, u, tokens + 1)), session', tokens')
<1> DEFINE q == Ask("signedIn", b, u, s, AuthCookies(s, u, tokens + 1))
<1>1. session \in [Sessions -> SessionRow \cup {None}] /\ tokens \in Nat /\ row # None
    BY RowsAssumption DEF Inv, TypeOK
<1>2. session'[s] = row /\ \A p \in Sessions \ {s} : session'[p] = session[p]
    BY <1>1
<1>3. RowsMoveOn
    BY <1>1, <1>2 DEF RowsMoveOn
<1>4. \A p \in Sessions : session'[p] # None /\ session'[p].token = tokens + 1 => p = s
    <2> SUFFICES ASSUME NEW p \in Sessions \ {s}, session[p] # None
                 PROVE  session[p].token # tokens + 1
        BY <1>2
    <2>1. session[p].token \in Nat /\ session[p].token <= tokens
        BY <1>1 DEF Inv, TokensDrawn, SessionRow, Tokens
    <2> QED  BY <1>1, <2>1
<1>5. /\ q.step = "signedIn" /\ q.browser = b
      /\ q.cookies = AuthCookies(s, u, tokens + 1)
    BY DEF Ask
<1>6. /\ q.cookies.access # None
      /\ q.cookies.access.session = s /\ q.cookies.access.user = u
      /\ q.cookies.access.csrfToken = tokens + 1
      /\ q.cookies.refresh = tokens + 1 /\ q.cookies.csrf = tokens + 1 /\ tokens + 1 # None
    <2> DEFINE c == AuthCookies(s, u, tokens + 1)
    <2>1. /\ c.access # None /\ c.refresh = tokens + 1 /\ c.csrf = tokens + 1 /\ tokens + 1 # None
          /\ c.access = [session |-> s, user |-> u, csrfToken |-> tokens + 1,
                         expiresAt |-> now + AccessTtl]
        BY FreshCookies
    <2>2. q.cookies = c
        BY <1>5
    <2> HIDE DEF q, c
    <2> QED  BY <2>1, <2>2
<1>7. q.cookies.refresh \in 1..tokens'
    BY <1>1, <1>6
<1> HIDE DEF q
<1>8. LeadHome(q.cookies, session', tokens')
    BY <1>1, <1>2, <1>4, <1>6, <1>7 DEF LeadHome
<1>9. Coherent(q, session', tokens')
    BY <1>5, <1>8 DEF Coherent
<1> QED  BY <1>3, <1>9 DEF q

LEMMA SignInInv ==
    ASSUME Inv, NEW r \in Requests, NEW b \in Browsers, NEW u \in Users, SignIn(r, b, u)
    PROVE  RowsMoveOn /\ Inv'
<1> DEFINE q == Ask("create", b, u, None, NoCookies)
<1>1. request' = [request EXCEPT ![r] = q] /\ UNCHANGED <<now, session, tokens, jar>>
    BY DEF SignIn
<1>2. RowsMoveOn
    BY <1>1, RowsSame
<1>3. q \in Request /\ q.step = "create" /\ q.browser = b /\ q.user = u /\ q.cookies = NoCookies
    BY IdleType DEF Ask, Request, Steps
<1> HIDE DEF q
<1>4. Coherent(q, session', tokens')
    BY <1>3, IdleCoherent DEF Coherent
<1>5. request'[r] = q /\ \A p \in Requests \ {r} : request'[p] = request[p]
    BY <1>1 DEF Inv, TypeOK
<1>6. TypeOK'
    BY <1>1, <1>3 DEF Inv, TypeOK
<1> QED  BY <1>1, <1>2, <1>4, <1>5, <1>6, StepInv

LEMMA CreateSessionInv ==
    ASSUME Inv, NEW r \in Requests, NEW s \in Sessions, CreateSession(r, s)
    PROVE  RowsMoveOn /\ Inv'
<1>1. PICK u \in Users, b \in Browsers : u = request[r].user /\ b = request[r].browser
    BY RequestAt DEF CreateSession, Coherent
<1> DEFINE row == Row(u, tokens + 1)
           q == Ask("signedIn", b, u, s, AuthCookies(s, u, tokens + 1))
<1>2. /\ tokens < MaxTokens /\ tokens' = tokens + 1 /\ session[s] = None
      /\ session' = [session EXCEPT ![s] = row] /\ request' = [request EXCEPT ![r] = q]
      /\ UNCHANGED <<now, jar>>
    BY <1>1 DEF CreateSession
<1>3. row \in SessionRow /\ row.user = u /\ row.token = tokens + 1
    BY <1>2, FreshCookies DEF Row, SessionRow
<1>4. q \in Request
    BY <1>2, FreshCookies DEF Ask, Request, Steps
<1> HIDE DEF row
<1>5. RowsMoveOn /\ Coherent(q, session', tokens')
    BY <1>2, <1>3, TokenWritten
<1> HIDE DEF q
<1>6. request'[r] = q /\ \A p \in Requests \ {r} : request'[p] = request[p]
    BY <1>2 DEF Inv, TypeOK
<1>7. TypeOK'
    <2>1. tokens' \in 0..MaxTokens
        BY <1>2, SessionsAssumption DEF Inv, TypeOK
    <2> QED  BY <1>2, <1>3, <1>4, <2>1 DEF Inv, TypeOK
<1> QED  BY <1>2, <1>5, <1>6, <1>7, StepInv

LEMMA RefreshInv ==
    ASSUME Inv, NEW r \in Requests, NEW b \in Browsers, NEW s \in Sessions, Refresh(r, b, s)
    PROVE  RowsMoveOn /\ Inv'
<1> DEFINE q == Ask("rotate", b, session[s].user, s, jar[b])
<1>1. request' = [request EXCEPT ![r] = q] /\ UNCHANGED <<now, session, tokens, jar>>
      /\ session[s] # None
    BY DEF Refresh, Live
<1>2. RowsMoveOn
    BY <1>1, RowsSame
<1>3. session[s].user \in Users /\ jar[b] \in Cookies /\ LeadHome(jar[b], session, tokens)
    BY <1>1 DEF Inv, TypeOK, SessionRow
<1>4. /\ q \in Request /\ q.step = "rotate" /\ q.browser = b /\ q.user = session[s].user
      /\ q.session = s /\ q.cookies = jar[b]
    BY <1>3 DEF Ask, Request, Steps
<1> HIDE DEF q
<1>5. Coherent(q, session', tokens')
    BY <1>1, <1>3, <1>4 DEF Coherent
<1>6. request'[r] = q /\ \A p \in Requests \ {r} : request'[p] = request[p]
    BY <1>1 DEF Inv, TypeOK
<1>7. TypeOK'
    BY <1>1, <1>4 DEF Inv, TypeOK
<1> QED  BY <1>1, <1>2, <1>5, <1>6, <1>7, StepInv

LEMMA RotateSessionInv ==
    ASSUME Inv, NEW r \in Requests, RotateSession(r)
    PROVE  RowsMoveOn /\ Inv'
<1>1. PICK u \in Users, b \in Browsers, s \in Sessions :
          /\ u = request[r].user /\ b = request[r].browser /\ s = request[r].session
          /\ session[s] # None /\ session[s].user = u
    BY RequestAt DEF RotateSession, Coherent
<1> DEFINE row == Rotated(session[s], tokens + 1)
           q == Ask("signedIn", b, u, s, AuthCookies(s, u, tokens + 1))
<1>2. /\ tokens < MaxTokens /\ tokens' = tokens + 1
      /\ session' = [session EXCEPT ![s] = row] /\ request' = [request EXCEPT ![r] = q]
      /\ UNCHANGED <<now, jar>>
    BY <1>1 DEF RotateSession
<1>3. /\ row \in SessionRow /\ row.user = u /\ row.token = tokens + 1
      /\ row.revoked = session[s].revoked
    <2>1. session[s] \in SessionRow
        BY <1>1 DEF Inv, TypeOK
    <2> QED  BY <1>1, <1>2, <2>1, FreshCookies DEF Rotated, SessionRow
<1>4. q \in Request
    BY <1>2, FreshCookies DEF Ask, Request, Steps
<1> HIDE DEF row
<1>5. RowsMoveOn /\ Coherent(q, session', tokens')
    BY <1>1, <1>2, <1>3, TokenWritten
<1> HIDE DEF q
<1>6. request'[r] = q /\ \A p \in Requests \ {r} : request'[p] = request[p]
    BY <1>2 DEF Inv, TypeOK
<1>7. TypeOK'
    <2>1. tokens' \in 0..MaxTokens
        BY <1>2, SessionsAssumption DEF Inv, TypeOK
    <2> QED  BY <1>2, <1>3, <1>4, <2>1 DEF Inv, TypeOK
<1> QED  BY <1>2, <1>5, <1>6, <1>7, StepInv

LEMMA LogoutInv ==
    ASSUME Inv, NEW r \in Requests, NEW b \in Browsers, Logout(r, b)
    PROVE  RowsMoveOn /\ Inv'
<1> DEFINE q == Ask("revoke", b, jar[b].access.user, jar[b].access.session, jar[b])
<1>1. request' = [request EXCEPT ![r] = q] /\ UNCHANGED <<now, session, tokens, jar>>
      /\ jar[b].access # None
    BY DEF Logout, PassesCsrf, Authenticated
<1>2. RowsMoveOn
    BY <1>1, RowsSame
<1>3. /\ jar[b] \in Cookies /\ LeadHome(jar[b], session, tokens)
      /\ jar[b].access.user \in Users /\ jar[b].access.session \in Sessions
    BY <1>1 DEF Inv, TypeOK, Cookies, AccessTokens
<1>4. q \in Request /\ q.step = "revoke" /\ q.browser = b /\ q.cookies = jar[b]
    BY <1>3 DEF Ask, Request, Steps
<1> HIDE DEF q
<1>5. Coherent(q, session', tokens')
    BY <1>1, <1>3, <1>4 DEF Coherent
<1>6. request'[r] = q /\ \A p \in Requests \ {r} : request'[p] = request[p]
    BY <1>1 DEF Inv, TypeOK
<1>7. TypeOK'
    BY <1>1, <1>4 DEF Inv, TypeOK
<1> QED  BY <1>1, <1>2, <1>5, <1>6, <1>7, StepInv

LEMMA RevokeSessionInv ==
    ASSUME Inv, NEW r \in Requests, RevokeSession(r)
    PROVE  RowsMoveOn /\ Inv'
<1> DEFINE q == Ask("signedOut", request[r].browser, request[r].user, request[r].session, NoCookies)
<1>1. request' = [request EXCEPT ![r] = q] /\ UNCHANGED <<now, tokens, jar>>
    BY DEF RevokeSession
<1>2. \A s \in Sessions :
          \/ session'[s] = session[s]
          \/ session[s] # None /\ session'[s] = Revoked(session[s])
    BY DEF RevokeSession
<1>3. ASSUME NEW row \in SessionRow
      PROVE  /\ Revoked(row) \in SessionRow /\ Revoked(row) # None
             /\ Revoked(row).user = row.user /\ Revoked(row).token = row.token
             /\ Revoked(row).revoked
    <2>1. Revoked(row) \in SessionRow
        BY DEF Revoked, SessionRow
    <2>2. Revoked(row) # None
        BY <2>1, RowsAssumption
    <2> QED  BY <2>1, <2>2 DEF Revoked
<1>4. RowsMoveOn
    BY <1>1, <1>2, <1>3 DEF Inv, TypeOK, RowsMoveOn
<1>5. q \in Request /\ q.step = "signedOut" /\ q.browser = request[r].browser /\ q.cookies = NoCookies
    BY RequestAt, IdleType DEF Ask, Request, Steps
<1>6. request[r].browser \in Browsers
    BY RequestAt DEF RevokeSession, Coherent
<1> HIDE DEF q
<1>7. Coherent(q, session', tokens')
    BY <1>5, <1>6, IdleCoherent DEF Coherent
<1>8. request'[r] = q /\ \A p \in Requests \ {r} : request'[p] = request[p]
    BY <1>1 DEF Inv, TypeOK
<1>9. session' \in [Sessions -> SessionRow \cup {None}]
    <2>1. session' = [s \in Sessions |-> session'[s]]
        BY DEF RevokeSession
    <2>2. \A s \in Sessions : session'[s] \in SessionRow \cup {None}
        BY <1>2, <1>3 DEF Inv, TypeOK
    <2> QED  BY <2>1, <2>2
<1>10. TypeOK'
    BY <1>1, <1>5, <1>9 DEF Inv, TypeOK
<1> QED  BY <1>1, <1>4, <1>7, <1>8, <1>10, StepInv

\* The answer arrives, or is lost, and the request is over.
LEMMA EndInv ==
    ASSUME Inv, NEW r \in Requests, Reply(r) \/ RequestFails(r)
    PROVE  RowsMoveOn /\ Inv'
<1>1. /\ request' = [request EXCEPT ![r] = Idle] /\ UNCHANGED <<now, session, tokens>>
      /\ \/ jar' = [jar EXCEPT ![request[r].browser] = request[r].cookies]
         \/ jar' = jar
    BY DEF Reply, RequestFails
<1>2. RowsMoveOn
    BY <1>1, RowsSame
<1>3. request[r].cookies \in Cookies /\ jar \in [Browsers -> Cookies]
    BY RequestAt DEF Request, Inv, TypeOK
<1>4. \A b \in Browsers : jar'[b] = jar[b] \/ jar'[b] = request[r].cookies
    BY <1>1, <1>3
<1>5. request'[r] = Idle /\ \A p \in Requests \ {r} : request'[p] = request[p]
    BY <1>1 DEF Inv, TypeOK
<1>6. TypeOK'
    BY <1>1, <1>3, IdleType DEF Inv, TypeOK
<1>7. Coherent(request'[r], session', tokens')
    BY <1>5, IdleCoherent
<1> QED  BY <1>2, <1>4, <1>5, <1>6, <1>7, StepInv

LEMMA NextInv == Inv /\ [Next]_vars => RowsMoveOn /\ Inv'
<1> SUFFICES ASSUME Inv, [Next]_vars PROVE RowsMoveOn /\ Inv'
    OBVIOUS
<1>1. ASSUME NEW r \in Requests, Arrival(r) PROVE RowsMoveOn /\ Inv'
    BY <1>1, SignInInv, RefreshInv, LogoutInv DEF Arrival
<1>2. ASSUME NEW r \in Requests, Continue(r) PROVE RowsMoveOn /\ Inv'
    BY <1>2, CreateSessionInv, RotateSessionInv, RevokeSessionInv, EndInv DEF Continue
<1>3. ASSUME NEW r \in Requests, RequestFails(r) PROVE RowsMoveOn /\ Inv'
    BY <1>3, EndInv
<1>4. CASE Tick \/ UNCHANGED vars
    <2>1. UNCHANGED <<session, tokens, jar, request>> /\ now' \in 0..MaxTime
        BY <1>4, SessionsAssumption DEF Tick, vars, Inv, TypeOK
    <2>2. TypeOK' /\ TokensDrawn'
        BY <2>1 DEF Inv, TypeOK, TokensDrawn
    <2>3. RowsMoveOn
        BY <2>1, RowsSame
    <2> QED  BY <2>1, <2>2, <2>3 DEF Inv
<1> QED  BY <1>1, <1>2, <1>3, <1>4 DEF Next

LEMMA InitInv == Init => Inv
<1> SUFFICES ASSUME Init PROVE Inv
    OBVIOUS
<1>1. TypeOK
    BY IdleType, SessionsAssumption DEF Init, TypeOK
<1>2. TokensDrawn
    BY DEF Init, TokensDrawn
<1> QED  BY <1>1, <1>2, IdleCoherent DEF Init, Inv

-----------------------------------------------------------------------------
(* The theorems.                                                           *)

\* Whatever requests of a browser overlap and whichever answers it gets, rows,
\* cookies and requests stay coherent.
THEOREM SessionsStayCoherent == Spec => []Inv
BY InitInv, NextInv, PTL DEF Spec

\* Session rows, cookies and requests keep their shape.
THEOREM SessionsTypeCorrect == Spec => []TypeOK
BY SessionsStayCoherent, PTL DEF Inv

\* The cookies a browser holds lead to the session and the user they were issued
\* with and to no other, however answers of its requests were lost or reordered.
THEOREM CookiesLeadHomeAlways == Spec => []CookiesLeadHome
BY SessionsStayCoherent, InvImplies, PTL

\* A browser that is authenticated passes the CSRF check with what it holds.
THEOREM CsrfAgreesAlways == Spec => []CsrfAgrees
BY SessionsStayCoherent, InvImplies, PTL

\* A logout is final and a session keeps its user: a refresh that read the row
\* before the logout and writes it after does not bring the session back.
THEOREM RevocationHolds == Spec => RevocationIsFinal
<1>1. Inv /\ [Next]_vars => [KeepsRevoked]_vars
    BY NextInv DEF RowsMoveOn, KeepsRevoked
<1> QED  BY <1>1, SessionsStayCoherent, PTL DEF Spec, RevocationIsFinal
=============================================================================
