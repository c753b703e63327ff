-------------------------- MODULE ImportForm_proofs --------------------------
(***************************************************************************)
(* What the import page shows, for any tabs, documents, imports and        *)
(* requests, whatever answers are lost and however the server fails.       *)
(***************************************************************************)
EXTENDS ImportForm, OpenCertsImport_proofs

-----------------------------------------------------------------------------
(* The inductive invariant: that of the server, and of each tab what it    *)
(* shows and what its fetches are about to tell it.                        *)

\* What an import and "Open credential" may be shown to holder h for.
ImportShown(i, h, imports) ==
    /\ i \in Imports /\ imports[i] # None
    /\ imports[i].holder = h /\ imports[i].status # "FAILED"
CredentialShown(c, h, imports, credentials) ==
    /\ c \in Credentials /\ credentials[c] # None
    /\ credentials[c].holder = h
    /\ imports[credentials[c].source].derived = c

Answers == Imports \cup Credentials \cup {"error", None}
Calls == [server: Requests \cup {None}, answer: Answers]
Awaits(v) == v # NoCall
Tells(v) == v.answer \notin {None, "error"}

\* A fetch that is served is served by a request of its holder that is still at
\* it, and an answer is about rows that are there.
VerifyTold(v, h, requests, imports) ==
    /\ v \in Calls
    /\ v.server # None =>
           /\ v.answer = None
           /\ requests[v.server].step \in {"verify", "record"}
           /\ requests[v.server].row.holder = h
    /\ Tells(v) => ImportShown(v.answer, h, imports)
DeriveTold(d, h, requests, imports, credentials) ==
    /\ d \in Calls
    /\ d.server # None =>
           /\ d.answer = None
           /\ requests[d.server].step \in DeriveSteps
           /\ requests[d.server].row.holder = h
    /\ Tells(d) => CredentialShown(d.answer, h, imports, credentials)
Shows(f, h, imports, credentials) ==
    /\ f \in FormState
    /\ f.preview # None => ImportShown(f.preview, h, imports)
    /\ f.derived # None => CredentialShown(f.derived, h, imports, credentials)

\* While a verification is under way there is no preview, and a credential that
\* is being stored or was stored since is not the next preview's.  Otherwise the
\* preview is the import that is being stored, or was.
Overlaps(f, v, d, turned, requests, imports) ==
    /\ Awaits(v) => f.submitting
    /\ Awaits(d) => f.deriving
    /\ f.submitting => f.preview = None /\ (f.deriving \/ f.derived # None => turned)
    /\ f.preview # None /\ ~turned =>
           /\ d.server # None => requests[d.server].id = f.preview
           /\ Tells(d) => imports[f.preview].derived = d.answer
           /\ f.derived # None => imports[f.preview].derived = f.derived

Tab(f, v, d, turned, h, requests, imports, credentials) ==
    /\ VerifyTold(v, h, requests, imports)
    /\ DeriveTold(d, h, requests, imports, credentials)
    /\ Shows(f, h, imports, credentials)
    /\ Overlaps(f, v, d, turned, requests, imports)
TabsCoherent ==
    \A t \in Tabs : Tab(form[t], call[t]["verify"], call[t]["derive"], moved[t],
                        HolderOf[t], request, import, credential)

\* A document that a credential may come from, and what a request and an import
\* row owe to the one they came from.
Genuine(source) ==
    /\ SampleMode(source.document)
    /\ source.mode = "LOCAL_TRUSTVC" => source.document.intact
Sourced(q, source) ==
    /\ q.step = "verify" =>
           /\ source.document = q.document /\ source.mode = q.mode
           /\ q.row.status = "FAILED"
    /\ q.step = "record" /\ q.row.status = "VERIFIED" => Genuine(source)
OriginsGenuine ==
    /\ \A r \in Requests : Sourced(request[r], origin[r])
    /\ \A i \in Imports : import[i] # None /\ import[i].status # "FAILED" => Genuine(origin[i])

PageType ==
    /\ form \in [Tabs -> FormState]
    /\ call \in [Tabs -> [Kinds -> Calls]]
    /\ moved \in [Tabs -> BOOLEAN]
    /\ DOMAIN origin = Imports \cup Requests
    /\ origin = [x \in DOMAIN origin |-> origin[x]]

PageInv == Inv /\ PageType /\ TabsCoherent /\ OriginsGenuine

-----------------------------------------------------------------------------
(* The server under the page.                                              *)

\* Rows stay, keep their holder, do not come to fail, and keep their link.
RowsMoveOn ==
    /\ \A i \in Imports : import[i] # None =>
           /\ import'[i] # None
           /\ import'[i].holder = import[i].holder
           /\ import[i].status # "FAILED" => import'[i].status # "FAILED"
           /\ import[i].derived # None => import'[i].derived = import[i].derived
    /\ CredentialsKept

LEMMA RewrittenRow ==
    ASSUME Inv, NEW i \in Imports, import[i] # None, NEW s \in Statuses,
           s # "FAILED", NEW c \in Credentials \cup {None},
           import' = [import EXCEPT ![i] = WithStatus(import[i], s, c)],
           import[i].derived # None => c = import[i].derived
    PROVE  \A j \in Imports : import[j] # None =>
               /\ import'[j] # None
               /\ import'[j].holder = import[j].holder
               /\ import[j].status # "FAILED" => import'[j].status # "FAILED"
               /\ import[j].derived # None => import'[j].derived = import[j].derived
<1> DEFINE row == WithStatus(import[i], s, c)
<1>1. import \in [Imports -> ImportRow \cup {None}] /\ import[i] \in ImportRow
    BY DEF Inv, TypeOK
<1>2. row \in ImportRow /\ row.holder = import[i].holder /\ row.status = s /\ row.derived = c
    BY <1>1, WithStatusType DEF WithStatus
<1>3. row # None
    BY <1>2, RowsAssumption
<1>4. import' = [import EXCEPT ![i] = row]
    OBVIOUS
<1> HIDE DEF row
<1> QED  BY <1>1, <1>2, <1>3, <1>4

LEMMA BridgeMovesOn == Inv /\ [Next]_vars => RowsMoveOn
<1> SUFFICES ASSUME Inv, [Next]_vars PROVE RowsMoveOn
    OBVIOUS
<1> DEFINE ImportsMoveOn ==
        \A i \in Imports : import[i] # None =>
           /\ import'[i] # None
           /\ import'[i].holder = import[i].holder
           /\ import[i].status # "FAILED" => import'[i].status # "FAILED"
           /\ import[i].derived # None => import'[i].derived = import[i].derived
<1>1. UNCHANGED import => ImportsMoveOn
    OBVIOUS
<1>2. UNCHANGED credential => CredentialsKept
    BY DEF CredentialsKept
<1>3. RowsMoveOn <=> ImportsMoveOn /\ CredentialsKept
    BY DEF RowsMoveOn
<1>4. ASSUME NEW r \in Requests, NEW i \in Imports, RecordImport(r, i) PROVE RowsMoveOn
    <2>1. ImportsMoveOn
        BY <1>4 DEF RecordImport, Inv, TypeOK
    <2> QED  BY <1>2, <1>3, <1>4, <2>1 DEF RecordImport
<1>5. ASSUME NEW r \in Requests, ClaimImport(r) \/ ClaimAnswerLost(r) PROVE RowsMoveOn
    <2>1. PICK i \in Imports : i = request[r].id /\ import[i] # None
        BY <1>5 DEF Inv, RequestsCoherent, RequestCoherent, DeriveSteps, ClaimImport,
                    ClaimAnswerLost
    <2>2. \/ import' = [import EXCEPT ![i] = WithStatus(import[i], "DERIVING", import[i].derived)]
          \/ UNCHANGED import
        BY <1>5, <2>1 DEF ClaimImport, ClaimAnswerLost, Claimed
    <2>3. import[i].derived \in Credentials \cup {None} /\ "DERIVING" \in Statuses
        BY <2>1 DEF Inv, TypeOK, ImportRow, Statuses
    <2>4. ImportsMoveOn
        BY <1>1, <2>1, <2>2, <2>3, RewrittenRow
    <2> QED  BY <1>2, <1>3, <1>5, <2>4 DEF ClaimImport, ClaimAnswerLost
<1>6. ASSUME NEW r \in Requests, LinkCredential(r) \/ LinkAnswerLost(r) PROVE RowsMoveOn
    <2>1. PICK i \in Imports : i = request[r].id /\ Busy(request[r], i) /\ request[r].step = "link"
        BY <1>6, WorkedImport DEF LinkCredential, LinkAnswerLost, Busy
    <2>2. /\ import[i] # None /\ import[i].status = "DERIVING" /\ RequestCoherent(r) /\ BackedAt(i)
        BY <2>1, WorkFacts
    <2>3. PICK c \in Credentials : c = request[r].credential
        BY <2>1, <2>2 DEF RequestCoherent
    <2>4. import' = [import EXCEPT ![i] = WithStatus(import[i], "DERIVED", c)]
        BY <1>6, <2>1, <2>3 DEF LinkCredential, LinkAnswerLost, Linked
    <2>5. import[i].derived = None /\ "DERIVED" \in Statuses
        BY <2>2 DEF BackedAt, Statuses
    <2>6. ImportsMoveOn
        BY <2>2, <2>4, <2>5, RewrittenRow
    <2> QED  BY <1>2, <1>3, <1>6, <2>6 DEF LinkCredential, LinkAnswerLost
<1>7. ASSUME NEW r \in Requests, ReleaseImport(r) PROVE RowsMoveOn
    <2>1. PICK i \in Imports : i = request[r].id /\ Busy(request[r], i)
        BY <1>7, WorkedImport DEF ReleaseImport, Busy
    <2>2. import[i] # None
        BY <2>1, WorkFacts
    <2>3. \/ import' = [import EXCEPT ![i] = WithStatus(import[i], "VERIFIED", import[i].derived)]
          \/ UNCHANGED import
        BY <1>7, <2>1 DEF ReleaseImport
    <2>4. import[i].derived \in Credentials \cup {None} /\ "VERIFIED" \in Statuses
        BY <2>2 DEF Inv, TypeOK, ImportRow, Statuses
    <2>5. ImportsMoveOn
        BY <1>1, <2>2, <2>3, <2>4, RewrittenRow
    <2> QED  BY <1>2, <1>3, <1>7, <2>5 DEF ReleaseImport
<1>8. ASSUME NEW r \in Requests, NEW c \in Credentials,
             IssueDerivedAcademicCredential(r, c) \/ IssueAnswerLost(r, c)
      PROVE  RowsMoveOn
    <2>1. CredentialsKept
        BY <1>8 DEF IssueDerivedAcademicCredential, IssueAnswerLost, CredentialsKept, Inv, TypeOK
    <2> QED  BY <1>1, <1>3, <1>8, <2>1 DEF IssueDerivedAcademicCredential, IssueAnswerLost
<1>9. UNCHANGED <<import, credential>> => RowsMoveOn
    BY <1>1, <1>2, <1>3
<1>10. ASSUME NEW r \in Requests, Arrival(r) PROVE RowsMoveOn
    BY <1>9, <1>10 DEF Arrival, ImportOpenCerts, DeriveFromImport
<1>11. ASSUME NEW r \in Requests, ImportStep(r) PROVE RowsMoveOn
    BY <1>4, <1>9, <1>11 DEF ImportStep, VerifySource, VerifierUnavailable
<1>12. ASSUME NEW r \in Requests, DeriveStep(r) PROVE RowsMoveOn
    <2>1. IssueFails(r) \/ LinkFails(r) \/ ReleaseFails(r) => RowsMoveOn
        BY <1>9 DEF IssueFails, LinkFails, ReleaseFails
    <2> QED  BY <1>5, <1>6, <1>7, <1>8, <1>12, <2>1 DEF DeriveStep
<1>13. CASE Crash \/ UNCHANGED vars
    BY <1>9, <1>13 DEF Crash, vars
<1> QED  BY <1>10, <1>11, <1>12, <1>13 DEF Next

\* A request goes on with what it does.
GoesOn(q, next) ==
    /\ q.step \in {"verify", "record"} =>
           next.step \in {"verify", "record"} /\ next.row.holder = q.row.holder
    /\ q.step \in DeriveSteps =>
           /\ next.step \in DeriveSteps
           /\ next.row.holder = q.row.holder /\ next.id = q.id

LEMMA ImportShownKept ==
    ASSUME RowsMoveOn, NEW i, NEW h, ImportShown(i, h, import)
    PROVE  ImportShown(i, h, import')
BY DEF RowsMoveOn, ImportShown

LEMMA CredentialShownKept ==
    ASSUME Inv, RowsMoveOn, NEW c, NEW h, CredentialShown(c, h, import, credential)
    PROVE  CredentialShown(c, h, import', credential')
<1>1. c \in Credentials /\ credential[c] # None /\ credential'[c] = credential[c] /\ c # None
    BY ImportAssumption DEF RowsMoveOn, CredentialsKept, CredentialShown
<1>2. credential[c].source \in Imports /\ import[credential[c].source] # None
    BY <1>1 DEF Inv, TypeOK, CredentialRow, SourcesRecorded
<1> QED  BY <1>1, <1>2 DEF RowsMoveOn, CredentialShown

\* What a tab shows and awaits stays true while the server goes on.
LEMMA TabKept ==
    ASSUME Inv, RowsMoveOn,
           \A p \in Requests : GoesOn(request[p], request'[p]),
           NEW f, NEW v, NEW d, NEW turned, NEW h,
           Tab(f, v, d, turned, h, request, import, credential)
    PROVE  Tab(f, v, d, turned, h, request', import', credential')
<1>1. VerifyTold(v, h, request', import')
    <2>1. v.server # None => v.server \in Requests
        BY DEF Tab, VerifyTold, Calls
    <2> QED  BY <2>1, ImportShownKept DEF Tab, VerifyTold, GoesOn
<1>2. d.server # None => d.server \in Requests
    BY DEF Tab, DeriveTold, Calls
<1>3. DeriveTold(d, h, request', import', credential')
    BY <1>2, CredentialShownKept DEF Tab, DeriveTold, GoesOn
<1>4. Shows(f, h, import', credential')
    BY ImportShownKept, CredentialShownKept DEF Tab, Shows
<1>5. f.preview # None => f.preview \in Imports /\ import[f.preview] # None
    BY DEF Tab, Shows, ImportShown
<1>6. Tells(d) => d.answer # None
    BY DEF Tells
<1>7. d.server # None => request'[d.server].id = request[d.server].id
    BY <1>2 DEF Tab, DeriveTold, GoesOn
<1>8. f.preview # None /\ import[f.preview].derived # None =>
          import'[f.preview].derived = import[f.preview].derived
    BY <1>5 DEF RowsMoveOn
<1>9. Overlaps(f, v, d, turned, request', import')
    <2>1. f.preview # None /\ ~turned /\ Tells(d) => import'[f.preview].derived = d.answer
        BY <1>6, <1>8 DEF Tab, Overlaps
    <2>2. f.preview # None /\ ~turned /\ f.derived # None => import'[f.preview].derived = f.derived
        BY <1>8 DEF Tab, Overlaps
    <2> HIDE DEF Awaits, Tells
    <2> QED  BY <1>7, <2>1, <2>2 DEF Tab, Overlaps
<1> QED  BY <1>1, <1>3, <1>4, <1>9 DEF Tab

-----------------------------------------------------------------------------
(* Fetches.                                                                *)

LEMMA FetchTypes ==
    /\ NoCall \in Calls /\ ~Awaits(NoCall) /\ ~Tells(NoCall)
    /\ NoCall.server = None
    /\ AnsweredWith("error") \in Calls
    /\ \A x \in Answers : /\ AnsweredWith(x) \in Calls /\ AnsweredWith(x).server = None
                          /\ AnsweredWith(x).answer = x
    /\ \A r \in Requests : /\ ServedBy(r) \in Calls /\ ServedBy(r).server = r
                           /\ ServedBy(r).answer = None /\ ~Tells(ServedBy(r))
BY DEF NoCall, AnsweredWith, ServedBy, Calls, Answers, Awaits, Tells

LEMMA TabFacts ==
    ASSUME PageInv, NEW t \in Tabs
    PROVE  /\ form[t] \in FormState /\ moved[t] \in BOOLEAN
           /\ call[t] \in [Kinds -> Calls]
           /\ call[t]["verify"] \in Calls /\ call[t]["derive"] \in Calls
           /\ Tab(form[t], call[t]["verify"], call[t]["derive"], moved[t],
                  HolderOf[t], request, import, credential)
<1>1. "verify" \in Kinds /\ "derive" \in Kinds
    BY DEF Kinds
<1> QED  BY <1>1 DEF PageInv, PageType, TabsCoherent

\* A tab with another fetch of a kind.
LEMMA TabWithVerify ==
    ASSUME NEW f, NEW v, NEW w, NEW d, NEW turned, NEW h, NEW Q, NEW I, NEW C,
           Tab(f, v, d, turned, h, Q, I, C), VerifyTold(w, h, Q, I),
           Awaits(w) => f.submitting
    PROVE  Tab(f, w, d, turned, h, Q, I, C)
BY DEF Tab, Overlaps

LEMMA TabWithDerive ==
    ASSUME NEW f, NEW v, NEW d, NEW e, NEW turned, NEW h, NEW Q, NEW I, NEW C,
           Tab(f, v, d, turned, h, Q, I, C), DeriveTold(e, h, Q, I, C),
           Awaits(e) => f.deriving,
           f.preview # None /\ ~turned =>
               /\ e.server # None => Q[e.server].id = f.preview
               /\ Tells(e) => I[f.preview].derived = e.answer
    PROVE  Tab(f, v, e, turned, h, Q, I, C)
BY DEF Tab, Overlaps

LEMMA NothingTold ==
    ASSUME NEW h, NEW Q, NEW I, NEW C
    PROVE  /\ VerifyTold(NoCall, h, Q, I) /\ DeriveTold(NoCall, h, Q, I, C)
           /\ VerifyTold(AnsweredWith("error"), h, Q, I)
           /\ DeriveTold(AnsweredWith("error"), h, Q, I, C)
           /\ NoCall.server = None /\ ~Tells(NoCall) /\ ~Awaits(NoCall)
           /\ AnsweredWith("error").server = None /\ ~Tells(AnsweredWith("error"))
<1>1. /\ AnsweredWith("error") \in Calls /\ AnsweredWith("error").server = None
      /\ AnsweredWith("error").answer = "error"
    BY FetchTypes DEF Answers
<1> QED  BY <1>1, FetchTypes DEF VerifyTold, DeriveTold, Tells

-----------------------------------------------------------------------------
(* Steps of a tab that the server takes no part in.                        *)

LEMMA PageOnly ==
    ASSUME PageInv, UNCHANGED vars, UNCHANGED origin, PageType', NEW t \in Tabs,
           \A u \in Tabs \ {t} :
               form'[u] = form[u] /\ call'[u] = call[u] /\ moved'[u] = moved[u],
           Tab(form'[t], call'[t]["verify"], call'[t]["derive"], moved'[t],
               HolderOf[t], request, import, credential)
    PROVE  PageInv'
<1>1. Inv'
    BY NextInv DEF PageInv
<1>2. UNCHANGED <<request, import, credential>>
    BY DEF vars
<1>3. TabsCoherent'
    <2> SUFFICES ASSUME NEW u \in Tabs
                 PROVE  Tab(form'[u], call'[u]["verify"], call'[u]["derive"], moved'[u],
                            HolderOf[u], request', import', credential')
        BY DEF TabsCoherent
    <2> HIDE DEF Tab
    <2> QED  BY <1>2 DEF PageInv, TabsCoherent
<1>4. OriginsGenuine'
    BY <1>2 DEF PageInv, OriginsGenuine
<1> QED  BY <1>1, <1>3, <1>4 DEF PageInv

LEMMA SetDocumentInv ==
    ASSUME PageInv, NEW t \in Tabs, NEW text \in Texts, SetDocument(t, text)
    PROVE  PageInv'
<1> DEFINE f == [form[t] EXCEPT !.document = text, !.preview = None, !.derived = None]
<1>1. /\ form' = [form EXCEPT ![t] = f] /\ moved' = [moved EXCEPT ![t] = form[t].deriving]
      /\ UNCHANGED <<vars, call, origin>>
    BY DEF SetDocument
<1>2. /\ f \in FormState /\ f.preview = None /\ f.derived = None
      /\ f.submitting = form[t].submitting /\ f.deriving = form[t].deriving
    BY TabFacts DEF FormState
<1>3. form[t].deriving \in BOOLEAN
    BY TabFacts DEF FormState
<1> HIDE DEF f
<1>4. PageType'
    BY <1>1, <1>2, <1>3 DEF PageInv, PageType
<1>5. form'[t] = f /\ moved'[t] = form[t].deriving /\ call' = call
    BY <1>1 DEF PageInv, PageType
<1>6. Tab(f, call[t]["verify"], call[t]["derive"], form[t].deriving,
          HolderOf[t], request, import, credential)
    <2>1. Tab(form[t], call[t]["verify"], call[t]["derive"], moved[t],
              HolderOf[t], request, import, credential)
        BY TabFacts
    <2> HIDE DEF Awaits, Tells, VerifyTold, DeriveTold
    <2> QED  BY <1>2, <2>1 DEF Tab, Overlaps, Shows
<1>7. \A u \in Tabs \ {t} : form'[u] = form[u] /\ moved'[u] = moved[u]
    BY <1>1 DEF PageInv, PageType
<1> QED  BY <1>1, <1>4, <1>5, <1>6, <1>7, PageOnly

LEMMA SetVerificationModeInv ==
    ASSUME PageInv, NEW t \in Tabs, NEW mode \in Modes, SetVerificationMode(t, mode)
    PROVE  PageInv'
<1> DEFINE f == [form[t] EXCEPT !.mode = mode]
<1>1. form' = [form EXCEPT ![t] = f] /\ UNCHANGED <<vars, call, origin, moved>>
    BY DEF SetVerificationMode
<1>2. /\ f \in FormState /\ f.preview = form[t].preview /\ f.derived = form[t].derived
      /\ f.submitting = form[t].submitting /\ f.deriving = form[t].deriving
    BY TabFacts DEF FormState
<1> HIDE DEF f
<1>3. PageType'
    BY <1>1, <1>2 DEF PageInv, PageType
<1>4. form'[t] = f
    BY <1>1 DEF PageInv, PageType
<1>5. Tab(f, call[t]["verify"], call[t]["derive"], moved[t],
          HolderOf[t], request, import, credential)
    <2>1. Tab(form[t], call[t]["verify"], call[t]["derive"], moved[t],
              HolderOf[t], request, import, credential)
        BY TabFacts
    <2> HIDE DEF Awaits, Tells, VerifyTold, DeriveTold, ImportShown, CredentialShown
    <2> QED  BY <1>2, <2>1 DEF Tab, Overlaps, Shows
<1>6. \A u \in Tabs \ {t} : form'[u] = form[u]
    BY <1>1 DEF PageInv, PageType
<1> QED  BY <1>1, <1>3, <1>4, <1>5, <1>6, PageOnly

\* The click that asks for a verification: no preview, and what is being stored
\* is of an earlier one.
LEMMA ClickVerifyFacts ==
    ASSUME PageInv, NEW t \in Tabs, ClickVerify(t)
    PROVE  /\ form' \in [Tabs -> FormState] /\ moved' \in [Tabs -> BOOLEAN]
           /\ \A u \in Tabs \ {t} : form'[u] = form[u] /\ moved'[u] = moved[u]
           /\ form[t].document # NotJson => form'[t].submitting
           /\ Tab(form'[t], NoCall, call[t]["derive"], moved'[t],
                  HolderOf[t], request, import, credential)
<1> DEFINE f == [form[t] EXCEPT !.preview = None, !.derived = None,
                                !.submitting = form[t].document # NotJson]
<1>1. /\ form' = [form EXCEPT ![t] = f] /\ moved' = [moved EXCEPT ![t] = form[t].deriving]
      /\ ~form[t].submitting
    BY DEF ClickVerify
<1>2. /\ f \in FormState /\ f.preview = None /\ f.derived = None
      /\ f.submitting = (form[t].document # NotJson) /\ f.deriving = form[t].deriving
    BY TabFacts DEF FormState
<1>3. form[t].deriving \in BOOLEAN
    BY TabFacts DEF FormState
<1> HIDE DEF f
<1>4. form'[t] = f /\ moved'[t] = form[t].deriving
    BY <1>1 DEF PageInv, PageType
<1>5. Tab(f, NoCall, call[t]["derive"], form[t].deriving,
          HolderOf[t], request, import, credential)
    <2>1. Tab(form[t], call[t]["verify"], call[t]["derive"], moved[t],
              HolderOf[t], request, import, credential)
        BY TabFacts
    <2> HIDE DEF Awaits, Tells, VerifyTold, DeriveTold
    <2> QED  BY <1>2, <2>1, NothingTold DEF Tab, Overlaps, Shows
<1>6. form' \in [Tabs -> FormState] /\ moved' \in [Tabs -> BOOLEAN]
    BY <1>1, <1>2, <1>3 DEF PageInv, PageType
<1>7. \A u \in Tabs \ {t} : form'[u] = form[u] /\ moved'[u] = moved[u]
    BY <1>1 DEF PageInv, PageType
<1> HIDE DEF Tab
<1> QED  BY <1>2, <1>4, <1>5, <1>6, <1>7

LEMMA CallTo ==
    ASSUME PageInv, NEW t \in Tabs, NEW k \in Kinds, NEW v \in Calls,
           call' = [call EXCEPT ![t][k] = v]
    PROVE  /\ call' \in [Tabs -> [Kinds -> Calls]]
           /\ \A u \in Tabs \ {t} : call'[u] = call[u]
           /\ call'[t][k] = v
           /\ \A j \in Kinds \ {k} : call'[t][j] = call[t][j]
BY DEF PageInv, PageType

LEMMA VerifyNotSentInv ==
    ASSUME PageInv, NEW t \in Tabs, VerifyNotJson(t) \/ VerifyRefused(t)
    PROVE  PageInv'
<1>1. ClickVerify(t) /\ UNCHANGED <<vars, origin>>
    BY DEF VerifyNotJson, VerifyRefused
<1>2. "verify" \in Kinds /\ "derive" \in Kinds /\ "derive" # "verify"
    BY DEF Kinds
<1>3. AnsweredWith("error") \in Calls
    BY FetchTypes
<1>4. CASE VerifyNotJson(t)
    <2>1. call' = call
        BY <1>4 DEF VerifyNotJson
    <2>2. call[t]["verify"] = NoCall
        BY <1>1, TabFacts DEF ClickVerify, Tab, Overlaps, Awaits
    <2>3. PageType'
        BY <1>1, <2>1, ClickVerifyFacts DEF PageInv, PageType
    <2> QED  BY <1>1, <2>1, <2>2, <2>3, ClickVerifyFacts, PageOnly
<1>5. CASE VerifyRefused(t)
    <2>1. call' = [call EXCEPT ![t]["verify"] = AnsweredWith("error")]
        BY <1>5 DEF VerifyRefused
    <2>2. /\ call' \in [Tabs -> [Kinds -> Calls]]
          /\ \A u \in Tabs \ {t} : call'[u] = call[u]
          /\ call'[t]["verify"] = AnsweredWith("error")
          /\ call'[t]["derive"] = call[t]["derive"]
        BY <1>2, <1>3, <2>1, CallTo
    <2>3. form'[t].submitting
        BY <1>1, <1>5, ClickVerifyFacts, TabsAssumption DEF VerifyRefused
    <2>4. Tab(form'[t], AnsweredWith("error"), call[t]["derive"], moved'[t],
              HolderOf[t], request, import, credential)
        BY <1>1, <2>3, ClickVerifyFacts, NothingTold, TabWithVerify
    <2>5. PageType'
        BY <1>1, <2>2, ClickVerifyFacts DEF PageInv, PageType
    <2> QED  BY <1>1, <2>2, <2>4, <2>5, ClickVerifyFacts, PageOnly
<1> QED  BY <1>4, <1>5

\* The click that asks for the credential of the preview.
LEMMA ClickDeriveFacts ==
    ASSUME PageInv, NEW t \in Tabs, ClickDerive(t)
    PROVE  /\ form' \in [Tabs -> FormState] /\ moved' \in [Tabs -> BOOLEAN]
           /\ \A u \in Tabs \ {t} : form'[u] = form[u] /\ moved'[u] = moved[u]
           /\ form'[t].deriving /\ form'[t].preview = form[t].preview
           /\ ImportShown(form[t].preview, HolderOf[t], import)
           /\ Tab(form'[t], call[t]["verify"], NoCall, moved'[t],
                  HolderOf[t], request, import, credential)
<1> DEFINE f == [form[t] EXCEPT !.deriving = TRUE]
<1>1. /\ form' = [form EXCEPT ![t] = f] /\ moved' = [moved EXCEPT ![t] = FALSE]
      /\ form[t].preview # None /\ form[t].derived = None
    BY DEF ClickDerive
<1>2. /\ f \in FormState /\ f.preview = form[t].preview /\ f.derived = None
      /\ f.submitting = form[t].submitting /\ f.deriving = TRUE
    BY <1>1, TabFacts DEF FormState
<1> HIDE DEF f
<1>3. form'[t] = f /\ moved'[t] = FALSE
    BY <1>1 DEF PageInv, PageType
<1>4. Tab(form[t], call[t]["verify"], call[t]["derive"], moved[t],
          HolderOf[t], request, import, credential)
    BY TabFacts
<1>5. Tab(f, call[t]["verify"], NoCall, FALSE, HolderOf[t], request, import, credential)
    <2> HIDE DEF Awaits, Tells, VerifyTold, DeriveTold, ImportShown, CredentialShown
    <2> QED  BY <1>1, <1>2, <1>4, NothingTold DEF Tab, Overlaps, Shows
<1>6. form' \in [Tabs -> FormState] /\ moved' \in [Tabs -> BOOLEAN]
    BY <1>1, <1>2 DEF PageInv, PageType
<1>7. \A u \in Tabs \ {t} : form'[u] = form[u] /\ moved'[u] = moved[u]
    BY <1>1 DEF PageInv, PageType
<1>8. ImportShown(form[t].preview, HolderOf[t], import)
    BY <1>1, <1>4 DEF Tab, Shows
<1> HIDE DEF Tab, ImportShown
<1> QED  BY <1>2, <1>3, <1>5, <1>6, <1>7, <1>8

LEMMA DeriveRefusedInv ==
    ASSUME PageInv, NEW t \in Tabs, DeriveRefused(t)
    PROVE  PageInv'
<1>1. /\ ClickDerive(t) /\ UNCHANGED <<vars, origin>>
      /\ call' = [call EXCEPT ![t]["derive"] = AnsweredWith("error")]
    BY DEF DeriveRefused
<1>2. "verify" \in Kinds /\ "derive" \in Kinds /\ "derive" # "verify"
    BY DEF Kinds
<1>3. AnsweredWith("error") \in Calls
    BY FetchTypes
<1>4. /\ call' \in [Tabs -> [Kinds -> Calls]]
      /\ \A u \in Tabs \ {t} : call'[u] = call[u]
      /\ call'[t]["derive"] = AnsweredWith("error")
      /\ call'[t]["verify"] = call[t]["verify"]
    BY <1>1, <1>2, <1>3, CallTo
<1>5. Tab(form'[t], call[t]["verify"], AnsweredWith("error"), moved'[t],
          HolderOf[t], request, import, credential)
    BY <1>1, ClickDeriveFacts, NothingTold, TabWithDerive
<1>6. PageType'
    BY <1>1, <1>4, ClickDeriveFacts DEF PageInv, PageType
<1> QED  BY <1>1, <1>4, <1>5, <1>6, ClickDeriveFacts, PageOnly

LEMMA ReloadInv ==
    ASSUME PageInv, NEW t \in Tabs, Reload(t)
    PROVE  PageInv'
<1>1. /\ form' = [form EXCEPT ![t] = FreshForm]
      /\ call' = [call EXCEPT ![t] = [k \in Kinds |-> NoCall]]
      /\ moved' = [moved EXCEPT ![t] = FALSE]
      /\ UNCHANGED <<vars, origin>>
    BY DEF Reload
<1>2. /\ FreshForm \in FormState /\ FreshForm.preview = None /\ FreshForm.derived = None
      /\ ~FreshForm.submitting /\ ~FreshForm.deriving
    BY DEF FreshForm, FormState, Texts, Modes
<1>3. /\ form'[t] = FreshForm /\ moved'[t] = FALSE
      /\ call'[t]["verify"] = NoCall /\ call'[t]["derive"] = NoCall
    BY <1>1 DEF PageInv, PageType, Kinds
<1>4. Tab(FreshForm, NoCall, NoCall, FALSE, HolderOf[t], request, import, credential)
    <2> HIDE DEF FreshForm, Awaits, Tells, VerifyTold, DeriveTold, NoCall
    <2> QED  BY <1>2, NothingTold DEF Tab, Overlaps, Shows
<1>5. PageType'
    <2>1. call' \in [Tabs -> [Kinds -> Calls]]
        BY <1>1, FetchTypes DEF PageInv, PageType
    <2> QED  BY <1>1, <1>2, <2>1 DEF PageInv, PageType
<1>6. \A u \in Tabs \ {t} : form'[u] = form[u] /\ call'[u] = call[u] /\ moved'[u] = moved[u]
    BY <1>1 DEF PageInv, PageType
<1> QED  BY <1>1, <1>3, <1>4, <1>5, <1>6, PageOnly

LEMMA LoseConnectionInv ==
    ASSUME PageInv, NEW t \in Tabs, NEW k \in Kinds, LoseConnection(t, k)
    PROVE  PageInv'
<1>1. /\ call' = [call EXCEPT ![t][k] = AnsweredWith("error")] /\ call[t][k] # NoCall
      /\ UNCHANGED <<vars, form, origin, moved>>
    BY DEF LoseConnection
<1>2. /\ call' \in [Tabs -> [Kinds -> Calls]]
      /\ \A u \in Tabs \ {t} : call'[u] = call[u]
      /\ call'[t][k] = AnsweredWith("error")
      /\ \A j \in Kinds \ {k} : call'[t][j] = call[t][j]
    BY <1>1, FetchTypes, CallTo
<1>3. PageType'
    BY <1>1, <1>2 DEF PageInv, PageType
<1>4. Tab(form[t], call[t]["verify"], call[t]["derive"], moved[t],
          HolderOf[t], request, import, credential)
    BY TabFacts
<1>5. CASE k = "verify"
    <2>1. form[t].submitting
        BY <1>1, <1>4, <1>5 DEF Tab, Overlaps, Awaits
    <2>2. Tab(form[t], AnsweredWith("error"), call[t]["derive"], moved[t],
              HolderOf[t], request, import, credential)
        BY <1>4, <2>1, NothingTold, TabWithVerify
    <2>3. call'[t]["verify"] = AnsweredWith("error") /\ call'[t]["derive"] = call[t]["derive"]
        BY <1>2, <1>5 DEF Kinds
    <2> QED  BY <1>1, <1>2, <1>3, <2>2, <2>3, PageOnly
<1>6. CASE k = "derive"
    <2>1. form[t].deriving
        BY <1>1, <1>4, <1>6 DEF Tab, Overlaps, Awaits
    <2>2. Tab(form[t], call[t]["verify"], AnsweredWith("error"), moved[t],
              HolderOf[t], request, import, credential)
        BY <1>4, <2>1, NothingTold, TabWithDerive
    <2>3. call'[t]["derive"] = AnsweredWith("error") /\ call'[t]["verify"] = call[t]["verify"]
        BY <1>2, <1>6 DEF Kinds
    <2> QED  BY <1>1, <1>2, <1>3, <2>2, <2>3, PageOnly
<1> QED  BY <1>5, <1>6 DEF Kinds

LEMMA VerifyAnsweredInv ==
    ASSUME PageInv, NEW t \in Tabs, VerifyAnswered(t)
    PROVE  PageInv'
<1> DEFINE v == call[t]["verify"]
           shown == IF v.answer = "error" THEN form[t].preview ELSE v.answer
           f == [form[t] EXCEPT !.submitting = FALSE,
                                !.preview = IF v.answer = "error" THEN form[t].preview ELSE v.answer]
<1>1. /\ form' = [form EXCEPT ![t] = f] /\ call' = [call EXCEPT ![t]["verify"] = NoCall]
      /\ v.answer # None /\ UNCHANGED <<vars, origin, moved>>
    BY DEF VerifyAnswered
<1>1a. call' = [call EXCEPT ![t]["verify"] = NoCall]
    BY <1>1
<1>2. Tab(form[t], v, call[t]["derive"], moved[t], HolderOf[t], request, import, credential)
    BY TabFacts
<1>3. v # NoCall
    BY <1>1 DEF NoCall
<1>4. form[t].submitting /\ form[t].preview = None
    BY <1>2, <1>3 DEF Tab, Overlaps, Awaits
<1>5. shown # None => ImportShown(shown, HolderOf[t], import)
    BY <1>1, <1>2, <1>4 DEF Tab, VerifyTold, Tells
<1>6. shown \in Imports \cup {None}
    BY <1>5 DEF ImportShown
<1>7. /\ f \in FormState /\ f.preview = shown /\ f.derived = form[t].derived
      /\ ~f.submitting /\ f.deriving = form[t].deriving
    BY <1>6, TabFacts DEF FormState
<1> HIDE DEF f, v, shown
<1>9. Tab(f, NoCall, call[t]["derive"], moved[t], HolderOf[t], request, import, credential)
    <2>1. ~moved[t] => ~form[t].deriving /\ form[t].derived = None
        BY <1>2, <1>4 DEF Tab, Overlaps
    <2>2. ~moved[t] => call[t]["derive"] = NoCall
        BY <1>2, <2>1 DEF Tab, Overlaps, Awaits
    <2> HIDE DEF Awaits, Tells, VerifyTold, DeriveTold, ImportShown, CredentialShown, NoCall
    <2> QED  BY <1>2, <1>5, <1>7, <2>1, <2>2, NothingTold DEF Tab, Overlaps, Shows
<1>10. "verify" \in Kinds /\ "derive" \in Kinds /\ "derive" # "verify"
    BY DEF Kinds
<1>11. /\ call' \in [Tabs -> [Kinds -> Calls]]
       /\ \A u \in Tabs \ {t} : call'[u] = call[u]
       /\ call'[t]["verify"] = NoCall
       /\ call'[t]["derive"] = call[t]["derive"]
    <2>1. NoCall \in Calls
        BY FetchTypes
    <2> QED  BY <1>1a, <1>10, <2>1, CallTo
<1>12. form'[t] = f /\ \A u \in Tabs \ {t} : form'[u] = form[u]
    BY <1>1 DEF PageInv, PageType
<1>13. PageType'
    BY <1>1, <1>7, <1>11 DEF PageInv, PageType
<1> QED  BY <1>1, <1>9, <1>11, <1>12, <1>13, PageOnly

LEMMA DeriveAnsweredInv ==
    ASSUME PageInv, NEW t \in Tabs, DeriveAnswered(t)
    PROVE  PageInv'
<1> DEFINE d == call[t]["derive"]
           got == IF d.answer = "error" THEN form[t].derived ELSE d.answer
           f == [form[t] EXCEPT !.deriving = FALSE,
                                !.derived = IF d.answer = "error" THEN form[t].derived ELSE d.answer]
<1>1. /\ form' = [form EXCEPT ![t] = f] /\ call' = [call EXCEPT ![t]["derive"] = NoCall]
      /\ d.answer # None /\ UNCHANGED <<vars, origin, moved>>
    BY DEF DeriveAnswered
<1>2. Tab(form[t], call[t]["verify"], d, moved[t], HolderOf[t], request, import, credential)
    BY TabFacts
<1>3. d # NoCall
    BY <1>1 DEF NoCall
<1>4. form[t].deriving
    BY <1>2, <1>3 DEF Tab, Overlaps, Awaits
<1>5. got # None => CredentialShown(got, HolderOf[t], import, credential)
    BY <1>1, <1>2 DEF Tab, DeriveTold, Shows, Tells
<1>6. got \in Credentials \cup {None}
    BY <1>5 DEF CredentialShown
<1>7. form[t].preview # None /\ ~moved[t] /\ got # None => import[form[t].preview].derived = got
    BY <1>1, <1>2 DEF Tab, Overlaps, Tells
<1>8. /\ f \in FormState /\ f.preview = form[t].preview /\ f.derived = got
      /\ f.submitting = form[t].submitting /\ ~f.deriving
    BY <1>6, TabFacts DEF FormState
<1> HIDE DEF f, d, got
<1>9. Tab(f, call[t]["verify"], NoCall, moved[t], HolderOf[t], request, import, credential)
    <2>1. f.submitting => f.preview = None /\ moved[t]
        BY <1>2, <1>4, <1>8 DEF Tab, Overlaps
    <2> HIDE DEF Awaits, Tells, VerifyTold, DeriveTold, ImportShown, CredentialShown, NoCall
    <2> QED  BY <1>2, <1>5, <1>7, <1>8, <2>1, NothingTold DEF Tab, Overlaps, Shows
<1>10. "verify" \in Kinds /\ "derive" \in Kinds /\ "derive" # "verify"
    BY DEF Kinds
<1>11. /\ call' \in [Tabs -> [Kinds -> Calls]]
       /\ \A u \in Tabs \ {t} : call'[u] = call[u]
       /\ call'[t]["derive"] = NoCall
       /\ call'[t]["verify"] = call[t]["verify"]
    <2>1. NoCall \in Calls
        BY FetchTypes
    <2> QED  BY <1>1, <1>10, <2>1, CallTo
<1>12. form'[t] = f /\ \A u \in Tabs \ {t} : form'[u] = form[u]
    BY <1>1 DEF PageInv, PageType
<1>13. PageType'
    BY <1>1, <1>8, <1>11 DEF PageInv, PageType
<1> QED  BY <1>1, <1>9, <1>11, <1>12, <1>13, PageOnly

-----------------------------------------------------------------------------
(* Steps of the server.                                                    *)

\* A tab whose fetch of one kind is not looked at: that of the other is.
LEMMA TabWithout ==
    ASSUME NEW f, NEW v, NEW d, NEW turned, NEW h, NEW Q, NEW I, NEW C,
           Tab(f, v, d, turned, h, Q, I, C)
    PROVE  /\ Tab(f, NoCall, d, turned, h, Q, I, C)
           /\ Tab(f, v, NoCall, turned, h, Q, I, C)
<1>1. Tab(f, NoCall, d, turned, h, Q, I, C)
    BY NothingTold, TabWithVerify
<1>2. Tab(f, v, NoCall, turned, h, Q, I, C)
    BY NothingTold, TabWithDerive
<1> QED  BY <1>1, <1>2

\* As TabKept, when one request stops and the tab does not wait for it.
LEMMA TabKeptBut ==
    ASSUME Inv, RowsMoveOn, NEW r \in Requests,
           \A p \in Requests \ {r} : request'[p] = request[p],
           NEW f, NEW v, NEW d, NEW turned, NEW h,
           Tab(f, v, d, turned, h, request, import, credential),
           v.server # r, d.server # r
    PROVE  Tab(f, v, d, turned, h, request', import', credential')
<1>1. v.server # None => v.server \in Requests /\ request'[v.server] = request[v.server]
    BY DEF Tab, VerifyTold, Calls
<1>2. d.server # None => d.server \in Requests /\ request'[d.server] = request[d.server]
    BY DEF Tab, DeriveTold, Calls
<1>3. VerifyTold(v, h, request', import')
    BY <1>1, ImportShownKept DEF Tab, VerifyTold
<1>4. DeriveTold(d, h, request', import', credential')
    BY <1>2, CredentialShownKept DEF Tab, DeriveTold
<1>5. Shows(f, h, import', credential')
    BY ImportShownKept, CredentialShownKept DEF Tab, Shows
<1>6. f.preview # None => f.preview \in Imports /\ import[f.preview] # None
    BY DEF Tab, Shows, ImportShown
<1>7. Tells(d) => d.answer # None
    BY DEF Tells
<1>8. f.preview # None /\ import[f.preview].derived # None =>
          import'[f.preview].derived = import[f.preview].derived
    BY <1>6 DEF RowsMoveOn
<1>9. Overlaps(f, v, d, turned, request', import')
    <2>1. f.preview # None /\ ~turned /\ Tells(d) => import'[f.preview].derived = d.answer
        BY <1>7, <1>8 DEF Tab, Overlaps
    <2>2. f.preview # None /\ ~turned /\ f.derived # None => import'[f.preview].derived = f.derived
        BY <1>8 DEF Tab, Overlaps
    <2> HIDE DEF Awaits, Tells
    <2> QED  BY <1>2, <2>1, <2>2 DEF Tab, Overlaps
<1> QED  BY <1>3, <1>4, <1>5, <1>9 DEF Tab

\* The fetch that request r serves, if any, is of the kind of what r does.
LEMMA ServersApart ==
    ASSUME NEW f, NEW v, NEW d, NEW turned, NEW h, NEW r \in Requests,
           Tab(f, v, d, turned, h, request, import, credential)
    PROVE  /\ v.server = r => request[r].step \in {"verify", "record"} /\ request[r].row.holder = h
           /\ d.server = r => request[r].step \in DeriveSteps /\ request[r].row.holder = h
           /\ ~(v.server = r /\ d.server = r)
           /\ request[r].step = "idle" => v.server # r /\ d.server # r
           /\ d.server = r /\ f.preview # None /\ ~turned => request[r].id = f.preview
<1>1. r # None
    BY RequestsAssumption
<1>2. v.server = r => request[r].step \in {"verify", "record"} /\ request[r].row.holder = h
    BY <1>1 DEF Tab, VerifyTold
<1>3. d.server = r => request[r].step \in DeriveSteps /\ request[r].row.holder = h
    BY <1>1 DEF Tab, DeriveTold
<1>4. d.server = r /\ f.preview # None /\ ~turned => request[r].id = f.preview
    BY <1>1 DEF Tab, Overlaps
<1>5. {"verify", "record"} \cap DeriveSteps = {} /\ "idle" \notin DeriveSteps
    BY DEF DeriveSteps
<1> QED  BY <1>2, <1>3, <1>4, <1>5

\* The step that ends request r with answer x.
LEMMA AnswerStep ==
    ASSUME PageInv, RowsMoveOn, NEW r \in Requests, NEW x \in Answers,
           \A p \in Requests \ {r} : request'[p] = request[p],
           AnswerOf(r, x), UNCHANGED <<form, moved>>,
           request[r].step \in {"verify", "record"} /\ x \notin {None, "error"} =>
               ImportShown(x, request[r].row.holder, import'),
           request[r].step \in DeriveSteps /\ x \notin {None, "error"} =>
               /\ CredentialShown(x, request[r].row.holder, import', credential')
               /\ import'[request[r].id].derived = x
    PROVE  TabsCoherent' /\ call' \in [Tabs -> [Kinds -> Calls]]
<1>1. AnsweredWith(x) \in Calls
    BY FetchTypes
<1>2. call' = [t \in Tabs |-> [k \in Kinds |->
                  IF call[t][k].server = r THEN AnsweredWith(x) ELSE call[t][k]]]
    BY DEF AnswerOf, Answered
<1>3. call' \in [Tabs -> [Kinds -> Calls]]
    BY <1>1, <1>2 DEF PageInv, PageType
<1>4. ASSUME NEW t \in Tabs
      PROVE  Tab(form'[t], call'[t]["verify"], call'[t]["derive"], moved'[t],
                 HolderOf[t], request', import', credential')
    <2> DEFINE f == form[t]  v == call[t]["verify"]  d == call[t]["derive"]
               turned == moved[t]  h == HolderOf[t]
    <2>1. Tab(f, v, d, turned, h, request, import, credential)
        BY TabFacts
    <2>2. /\ call'[t]["verify"] = IF v.server = r THEN AnsweredWith(x) ELSE v
          /\ call'[t]["derive"] = IF d.server = r THEN AnsweredWith(x) ELSE d
        BY <1>2 DEF Kinds
    <2> HIDE DEF f, v, d, turned, h
    <2>3. NoCall.server # r
        BY FetchTypes, RequestsAssumption
    <2>4. /\ Tab(f, NoCall, d, turned, h, request, import, credential)
          /\ Tab(f, v, NoCall, turned, h, request, import, credential)
        BY <2>1, TabWithout
    <2>5. Inv
        BY DEF PageInv
    <2>6. v.server # r /\ d.server # r => Tab(f, v, d, turned, h, request', import', credential')
        BY <2>1, <2>5, TabKeptBut
    <2>7. /\ v.server = r => request[r].step \in {"verify", "record"} /\ request[r].row.holder = h
          /\ d.server = r => request[r].step \in DeriveSteps /\ request[r].row.holder = h
          /\ ~(v.server = r /\ d.server = r)
          /\ d.server = r /\ f.preview # None /\ ~turned => request[r].id = f.preview
        BY <2>1, ServersApart
    <2>8. v.server = r => Tab(f, NoCall, d, turned, h, request', import', credential')
        BY <2>3, <2>4, <2>5, <2>7, TabKeptBut
    <2>9. d.server = r => Tab(f, v, NoCall, turned, h, request', import', credential')
        BY <2>3, <2>4, <2>5, <2>7, TabKeptBut
    <2>10. v.server = r /\ x \notin {None, "error"} => ImportShown(x, h, import')
        BY <2>7
    <2>11. d.server = r /\ x \notin {None, "error"} =>
              /\ CredentialShown(x, h, import', credential')
              /\ f.preview # None /\ ~turned => import'[f.preview].derived = x
        BY <2>7
    <2>12. /\ AnsweredWith(x).server = None /\ AnsweredWith(x).answer = x
           /\ Tells(AnsweredWith(x)) <=> x \notin {None, "error"}
        BY FetchTypes DEF Tells
    <2>13. CASE v.server = r
        <3>1. VerifyTold(AnsweredWith(x), h, request', import')
            BY <1>1, <2>10, <2>12, <2>13 DEF VerifyTold
        <3>2. f.submitting
            BY <2>1, <2>3, <2>13 DEF Tab, Overlaps, Awaits
        <3>3. Tab(f, AnsweredWith(x), d, turned, h, request', import', credential')
            BY <2>8, <2>13, <3>1, <3>2 DEF Tab, Overlaps
        <3>4. d.server # r
            BY <2>7, <2>13
        <3> QED  BY <2>2, <2>13, <3>3, <3>4 DEF f, v, d, turned, h
    <2>14. CASE d.server = r
        <3>1. DeriveTold(AnsweredWith(x), h, request', import', credential')
            BY <1>1, <2>11, <2>12, <2>14 DEF DeriveTold
        <3>2. f.deriving
            BY <2>1, <2>3, <2>14 DEF Tab, Overlaps, Awaits
        <3>3. Tab(f, v, AnsweredWith(x), turned, h, request', import', credential')
            BY <2>9, <2>11, <2>12, <2>14, <3>1, <3>2 DEF Tab, Overlaps
        <3>4. v.server # r
            BY <2>7, <2>14
        <3> QED  BY <2>2, <2>14, <3>3, <3>4 DEF f, v, d, turned, h
    <2>15. CASE v.server # r /\ d.server # r
        BY <2>2, <2>6, <2>15 DEF f, v, d, turned, h
    <2> QED  BY <2>13, <2>14, <2>15
<1>5. TabsCoherent'
    BY <1>4 DEF TabsCoherent
<1> QED  BY <1>3, <1>5

\* A step that no fetch hears of.
LEMMA UnheardStep ==
    ASSUME PageInv, RowsMoveOn, \A p \in Requests : GoesOn(request[p], request'[p]),
           UNCHANGED <<form, call, moved>>
    PROVE  TabsCoherent' /\ call' \in [Tabs -> [Kinds -> Calls]]
<1>1. Inv
    BY DEF PageInv
<1>2. ASSUME NEW t \in Tabs
      PROVE  Tab(form'[t], call'[t]["verify"], call'[t]["derive"], moved'[t],
                 HolderOf[t], request', import', credential')
    BY <1>1, TabFacts, TabKept
<1> QED  BY <1>2 DEF TabsCoherent, PageInv, PageType

-----------------------------------------------------------------------------
(* The server's answers.                                                   *)

\* What a step of a derivation does to the request, and what it has stored when
\* the last one is done.
LEMMA ClaimStepFacts ==
    ASSUME Inv, NEW r \in Requests, ClaimImport(r) \/ ClaimAnswerLost(r)
    PROVE  /\ request[r].step = "claim"
           /\ \A p \in Requests \ {r} : request'[p] = request[p]
           /\ request'[r] = Idle \/ request'[r] = Go(request[r], "issue")
           /\ \A i \in Imports : import'[i] # None /\ import'[i].status # "FAILED" =>
                  import[i] # None /\ import[i].status # "FAILED"
<1>1. PICK i \in Imports : i = request[r].id /\ import[i] # None /\ import[i].status # "FAILED"
    BY DEF ClaimImport, ClaimAnswerLost, Inv, RequestsCoherent, RequestCoherent, DeriveSteps
<1>2. import' = import \/ import' = [import EXCEPT ![i] = WithStatus(import[i], "DERIVING", import[i].derived)]
    BY <1>1 DEF ClaimImport, ClaimAnswerLost, Claimed
<1>3. \A j \in Imports : import'[j] # None /\ import'[j].status # "FAILED" =>
          import[j] # None /\ import[j].status # "FAILED"
    BY <1>1, <1>2 DEF Inv, TypeOK
<1>4. \/ request' = [request EXCEPT ![r] = Go(request[r], "issue")]
      \/ request' = [request EXCEPT ![r] = Idle]
    BY DEF ClaimImport, ClaimAnswerLost
<1>5. request \in [Requests -> Request] /\ request[r].step = "claim"
    BY DEF Inv, TypeOK, ClaimImport, ClaimAnswerLost
<1> QED  BY <1>3, <1>4, <1>5

LEMMA IssueStepFacts ==
    ASSUME Inv, NEW r \in Requests, NEW c \in Credentials,
           \/ IssueDerivedAcademicCredential(r, c)
           \/ IssueAnswerLost(r, c)
           \/ IssueFails(r)
    PROVE  /\ request[r].step = "issue"
           /\ \A p \in Requests \ {r} : request'[p] = request[p]
           /\ \/ request'[r] = Go(request[r], "release")
              \/ request'[r] = Holding("link", request[r].id, request[r].row, c)
           /\ import' = import
<1>1. \/ request' = [request EXCEPT ![r] = Go(request[r], "release")]
      \/ request' = [request EXCEPT ![r] = Holding("link", request[r].id, request[r].row, c)]
    BY DEF IssueDerivedAcademicCredential, IssueAnswerLost, IssueFails
<1>2. request \in [Requests -> Request] /\ request[r].step = "issue" /\ import' = import
    BY DEF Inv, TypeOK, IssueDerivedAcademicCredential, IssueAnswerLost, IssueFails
<1> QED  BY <1>1, <1>2

LEMMA LinkStepFacts ==
    ASSUME Inv, NEW r \in Requests, LinkCredential(r) \/ LinkAnswerLost(r)
    PROVE  /\ request[r].step = "link"
           /\ \A p \in Requests \ {r} : request'[p] = request[p]
           /\ request'[r] = Idle \/ request'[r] = Go(request[r], "release")
           /\ \A i \in Imports : import'[i] # None /\ import'[i].status # "FAILED" =>
                  import[i] # None /\ import[i].status # "FAILED"
           /\ CredentialShown(request[r].credential, request[r].row.holder, import', credential')
           /\ import'[request[r].id].derived = request[r].credential
<1>1. PICK i \in Imports : i = request[r].id /\ Busy(request[r], i) /\ request[r].step = "link"
    BY WorkedImport DEF LinkCredential, LinkAnswerLost, Busy
<1>2. import[i] # None /\ import[i].status # "FAILED" /\ RequestCoherent(r)
    BY <1>1, WorkFacts
<1>3. PICK c \in Credentials : /\ c = request[r].credential
                               /\ credential[c] # None /\ credential[c].source = i
                               /\ credential[c].holder = request[r].row.holder
    BY <1>1, <1>2 DEF RequestCoherent
<1>4. import' = [import EXCEPT ![i] = WithStatus(import[i], "DERIVED", c)] /\ credential' = credential
    BY <1>1, <1>3 DEF LinkCredential, LinkAnswerLost, Linked
<1>5. import'[i].derived = c
    BY <1>4 DEF Inv, TypeOK, WithStatus
<1>6. \A j \in Imports : import'[j] # None /\ import'[j].status # "FAILED" =>
          import[j] # None /\ import[j].status # "FAILED"
    BY <1>2, <1>4 DEF Inv, TypeOK
<1>7. \/ request' = [request EXCEPT ![r] = Go(request[r], "release")]
      \/ request' = [request EXCEPT ![r] = Idle]
    BY DEF LinkCredential, LinkAnswerLost
<1>8. request \in [Requests -> Request]
    BY DEF Inv, TypeOK
<1> QED  BY <1>1, <1>3, <1>4, <1>5, <1>6, <1>7, <1>8 DEF CredentialShown

LEMMA ReleaseStepFacts ==
    ASSUME Inv, NEW r \in Requests, LinkFails(r) \/ ReleaseImport(r) \/ ReleaseFails(r)
    PROVE  /\ request[r].step \in {"link", "release"}
           /\ \A p \in Requests \ {r} : request'[p] = request[p]
           /\ \/ request'[r] = Idle /\ request[r].step = "release"
              \/ request'[r] = Go(request[r], "release")
           /\ \A i \in Imports : import'[i] # None /\ import'[i].status # "FAILED" =>
                  import[i] # None /\ import[i].status # "FAILED"
<1>1. PICK i \in Imports : i = request[r].id /\ Busy(request[r], i)
    BY WorkedImport DEF LinkFails, ReleaseImport, ReleaseFails, Busy
<1>2. import[i] # None /\ import[i].status # "FAILED"
    BY <1>1, WorkFacts
<1>3. import' = import \/ import' = [import EXCEPT ![i] = WithStatus(import[i], "VERIFIED", import[i].derived)]
    BY <1>1 DEF LinkFails, ReleaseImport, ReleaseFails
<1>4. \A j \in Imports : import'[j] # None /\ import'[j].status # "FAILED" =>
          import[j] # None /\ import[j].status # "FAILED"
    BY <1>2, <1>3 DEF Inv, TypeOK
<1>5. \/ request' = [request EXCEPT ![r] = Go(request[r], "release")]
      \/ request' = [request EXCEPT ![r] = Idle] /\ request[r].step = "release"
    BY DEF LinkFails, ReleaseImport, ReleaseFails
<1>6. request \in [Requests -> Request] /\ request[r].step \in {"link", "release"}
    BY DEF Inv, TypeOK, LinkFails, ReleaseImport, ReleaseFails
<1> QED  BY <1>4, <1>5, <1>6

LEMMA DeriveStepFacts ==
    ASSUME Inv, NEW r \in Requests, DeriveStep(r)
    PROVE  /\ request[r].step \in DeriveSteps
           /\ \A p \in Requests \ {r} : request'[p] = request[p]
           /\ request'[r] # Idle => GoesOn(request[r], request'[r])
           /\ request'[r].step \in {"idle"} \cup DeriveSteps
           /\ \A i \in Imports : import'[i] # None /\ import'[i].status # "FAILED" =>
                  import[i] # None /\ import[i].status # "FAILED"
           /\ request'[r] = Idle /\ request[r].step = "link" =>
                  /\ CredentialShown(request[r].credential, request[r].row.holder,
                                     import', credential')
                  /\ import'[request[r].id].derived = request[r].credential
<1>1. /\ \A step \in DeriveSteps : /\ Go(request[r], step).step = step
                                    /\ Go(request[r], step).row = request[r].row
                                    /\ Go(request[r], step).id = request[r].id
      /\ \A c : /\ Holding("link", request[r].id, request[r].row, c).step = "link"
                /\ Holding("link", request[r].id, request[r].row, c).row = request[r].row
                /\ Holding("link", request[r].id, request[r].row, c).id = request[r].id
    BY DEF Go, Holding
<1>2. /\ Idle.step = "idle" /\ "idle" \notin DeriveSteps
      /\ {"claim", "issue", "link", "release"} \subseteq DeriveSteps
      /\ "verify" \notin DeriveSteps /\ "record" \notin DeriveSteps
    BY IdleType DEF DeriveSteps
<1>3. ASSUME NEW q, q.step \in DeriveSteps, q.row = request[r].row, q.id = request[r].id,
             request[r].step \in DeriveSteps
      PROVE  q # Idle /\ GoesOn(request[r], q)
    BY <1>2, <1>3 DEF GoesOn
<1>4. CASE ClaimImport(r) \/ ClaimAnswerLost(r)
    BY <1>1, <1>2, <1>3, <1>4, ClaimStepFacts
<1>5. ASSUME NEW c \in Credentials,
             IssueDerivedAcademicCredential(r, c) \/ IssueAnswerLost(r, c)
      PROVE  request[r].step = "issue" /\ import' = import
             /\ (\A p \in Requests \ {r} : request'[p] = request[p])
             /\ request'[r].step \in DeriveSteps /\ request'[r].row = request[r].row
             /\ request'[r].id = request[r].id
    BY <1>1, <1>2, <1>5, IssueStepFacts
<1>6. CASE \E c \in Credentials : IssueDerivedAcademicCredential(r, c) \/ IssueAnswerLost(r, c)
    BY <1>2, <1>3, <1>5, <1>6
<1>7. CASE IssueFails(r)
    <2>1. /\ request[r].step = "issue" /\ import' = import
          /\ request' = [request EXCEPT ![r] = Go(request[r], "release")]
        BY <1>7 DEF IssueFails
    <2>2. request \in [Requests -> Request]
        BY DEF Inv, TypeOK
    <2> QED  BY <1>1, <1>2, <1>3, <2>1, <2>2
<1>8. CASE LinkCredential(r) \/ LinkAnswerLost(r)
    BY <1>1, <1>2, <1>3, <1>8, LinkStepFacts
<1>9. CASE LinkFails(r) \/ ReleaseImport(r) \/ ReleaseFails(r)
    BY <1>1, <1>2, <1>3, <1>9, ReleaseStepFacts
<1> QED  BY <1>4, <1>6, <1>7, <1>8, <1>9 DEF DeriveStep

LEMMA ServerIsNext ==
    /\ \A r \in Requests : ServeDerive(r) => Next
    /\ \A r \in Requests : ServeImport(r) => Next
    /\ ServerCrashes => Next
BY DEF ServeDerive, ServeImport, ServerCrashes, Next, ImportStep

LEMMA ServeDeriveInv ==
    ASSUME PageInv, NEW r \in Requests, ServeDerive(r)
    PROVE  PageInv'
<1>1. /\ Inv /\ Inv' /\ RowsMoveOn
      /\ DeriveStep(r) /\ UNCHANGED <<form, origin, moved>>
    BY NextInv, BridgeMovesOn, ServerIsNext DEF PageInv, ServeDerive
<1>2. /\ request[r].step \in DeriveSteps
      /\ \A p \in Requests \ {r} : request'[p] = request[p]
      /\ request'[r] # Idle => GoesOn(request[r], request'[r])
      /\ request'[r].step \in {"idle"} \cup DeriveSteps
      /\ \A i \in Imports : import'[i] # None /\ import'[i].status # "FAILED" =>
             import[i] # None /\ import[i].status # "FAILED"
    BY <1>1, DeriveStepFacts
<1>3. OriginsGenuine'
    <2>1. \A q : Sourced(q, origin[r]) \/ q.step \in {"verify", "record"}
        BY DEF Sourced
    <2>2. Sourced(request'[r], origin[r])
        BY <1>2, <2>1 DEF DeriveSteps
    <2> QED  BY <1>1, <1>2, <2>2 DEF PageInv, OriginsGenuine
<1>4. TabsCoherent' /\ call' \in [Tabs -> [Kinds -> Calls]]
    <2>1. CASE request'[r] # Idle
        <3>1. call' = call
            BY <2>1 DEF ServeDerive
        <3>2. \A p \in Requests : GoesOn(request[p], request'[p])
            BY <1>2, <2>1 DEF GoesOn
        <3> QED  BY <1>1, <3>1, <3>2, UnheardStep
    <2>2. CASE request'[r] = Idle /\ request[r].step = "link"
        <3>1. PICK x \in Answers : x = request[r].credential
            BY <1>1, <2>2 DEF Inv, RequestsCoherent, RequestCoherent, Answers
        <3>2. AnswerOf(r, x)
            BY <2>2, <3>1 DEF ServeDerive
        <3>3. /\ CredentialShown(x, request[r].row.holder, import', credential')
              /\ import'[request[r].id].derived = x
            BY <1>1, <2>2, <3>1, DeriveStepFacts
        <3>4. request[r].step \notin {"verify", "record"}
            BY <2>2
        <3> QED  BY <1>1, <1>2, <3>2, <3>3, <3>4, AnswerStep
    <2>3. CASE request'[r] = Idle /\ request[r].step # "link"
        <3>1. AnswerOf(r, "error") /\ "error" \in Answers
            BY <2>3 DEF ServeDerive, Answers
        <3> QED  BY <1>1, <1>2, <3>1, AnswerStep
    <2> QED  BY <2>1, <2>2, <2>3
<1>5. PageType'
    BY <1>1, <1>4 DEF PageInv, PageType
<1> QED  BY <1>1, <1>3, <1>4, <1>5 DEF PageInv

\* A verified outcome is about a genuine document.
LEMMA VerifiedIsGenuine ==
    ASSUME NEW d \in DocumentType, NEW mode, NEW policy, NEW result \in VerifyResults(d, mode),
           OutcomeOf(result, policy, d) = "verified"
    PROVE  SampleMode(d) /\ (mode = "LOCAL_TRUSTVC" => d.intact)
<1>1. result.accepted /\ SampleMode(d)
    BY DEF OutcomeOf, PolicyAllows
<1>2. ASSUME mode = "LOCAL_TRUSTVC", ~d.intact PROVE FALSE
    <2>1. result \in VerifyWithTrustVc(d)
        BY <1>2 DEF VerifyResults
    <2>2. PICK s \in {SummarizeFragments(SignatureThrew, FALSE), SummarizeFragments({}, FALSE)} :
              result = [summary |-> s, accepted |-> s.documentIntegrity]
        BY <1>2, <2>1 DEF VerifyWithTrustVc
    <2>3. \A f : ~SummarizeFragments(f, FALSE).documentIntegrity
        BY DEF SummarizeFragments
    <2> QED  BY <1>1, <2>2, <2>3
<1>3. d.intact \in BOOLEAN
    BY DEF DocumentType
<1> QED  BY <1>1, <1>2, <1>3

LEMMA VerifySourceFacts ==
    ASSUME PageInv, NEW r \in Requests, VerifySource(r) \/ VerifierUnavailable(r)
    PROVE  /\ \A p \in Requests \ {r} : request'[p] = request[p]
           /\ GoesOn(request[r], request'[r])
           /\ Sourced(request'[r], origin[r])
           /\ import' = import
<1> DEFINE q == request[r]  d == q.document
<1>1. /\ q.step = "verify" /\ d \in DocumentType /\ request \in [Requests -> Request]
      /\ origin[r].document = d /\ origin[r].mode = q.mode /\ q.row.status = "FAILED"
      /\ q.row.holder \in Holders
    <2>1. q.step = "verify"
        BY DEF VerifySource, VerifierUnavailable
    <2>2. RequestCoherent(r) /\ request \in [Requests -> Request] /\ Sourced(q, origin[r])
        BY DEF PageInv, Inv, TypeOK, RequestsCoherent, OriginsGenuine
    <2>3. q.row \in ImportRow
        BY <2>1, <2>2 DEF RequestCoherent, Request
    <2> QED  BY <2>1, <2>2, <2>3, ImportAssumption DEF RequestCoherent, Sourced, ImportRow
<1>2. import' = import
    BY DEF VerifySource, VerifierUnavailable
<1>3. "verify" \notin DeriveSteps /\ "record" \notin DeriveSteps
    BY DEF DeriveSteps
<1>4. CASE VerifySource(r)
    <2>1. PICK result \in VerifyResults(d, q.mode) :
              request' = [request EXCEPT ![r] =
                  Holding("record", None,
                          RecordOf(q.row.holder, result, OutcomeOf(result, q.policy, d), d), None)]
        BY <1>4 DEF VerifySource
    <2> DEFINE outcome == OutcomeOf(result, q.policy, d)
               row == RecordOf(q.row.holder, result, outcome, d)
    <2>2. /\ row.holder = q.row.holder
          /\ row.status = "VERIFIED" => outcome = "verified"
        BY DEF RecordOf
    <2>3. row.status = "VERIFIED" => Genuine(origin[r])
        BY <1>1, <2>2, VerifiedIsGenuine DEF Genuine
    <2>4. /\ \A p \in Requests \ {r} : request'[p] = request[p]
          /\ request'[r].step = "record" /\ request'[r].row = row
        <3> HIDE DEF row, q
        <3>1. request' = [request EXCEPT ![r] = Holding("record", None, row, None)]
            BY <2>1 DEF row
        <3> QED  BY <1>1, <3>1 DEF Holding
    <2> HIDE DEF row, outcome
    <2> QED  BY <1>1, <1>2, <1>3, <2>2, <2>3, <2>4 DEF GoesOn, Sourced
<1>5. CASE VerifierUnavailable(r)
    <2>1. request' = [request EXCEPT ![r] = Go(request[r], "record")]
        BY <1>5 DEF VerifierUnavailable
    <2>2. /\ \A p \in Requests \ {r} : request'[p] = request[p]
          /\ request'[r].step = "record" /\ request'[r].row = q.row
        BY <1>1, <2>1 DEF Go, Holding
    <2> HIDE DEF q
    <2>3. q = request[r]
        BY DEF q
    <2> QED  BY <1>1, <1>2, <1>3, <2>2, <2>3 DEF GoesOn, Sourced
<1> QED  BY <1>4, <1>5

LEMMA ServeImportInv ==
    ASSUME PageInv, NEW r \in Requests, ServeImport(r)
    PROVE  PageInv'
<1>1. Inv /\ Inv' /\ RowsMoveOn
    BY NextInv, BridgeMovesOn, ServerIsNext DEF PageInv
<1>2. CASE (VerifySource(r) \/ VerifierUnavailable(r)) /\ UNCHANGED page
    <2>1. /\ \A p \in Requests \ {r} : request'[p] = request[p]
          /\ GoesOn(request[r], request'[r]) /\ Sourced(request'[r], origin[r])
          /\ import' = import /\ UNCHANGED <<form, call, origin, moved>>
        BY <1>2, VerifySourceFacts DEF page
    <2>2. \A p \in Requests : GoesOn(request[p], request'[p])
        BY <2>1 DEF GoesOn
    <2>3. TabsCoherent' /\ call' \in [Tabs -> [Kinds -> Calls]]
        BY <1>1, <2>1, <2>2, UnheardStep
    <2>4. OriginsGenuine'
        BY <2>1 DEF PageInv, OriginsGenuine
    <2>5. PageType'
        BY <2>1, <2>3 DEF PageInv, PageType
    <2> QED  BY <1>1, <2>3, <2>4, <2>5 DEF PageInv
<1>3. ASSUME NEW i \in Imports, RecordImport(r, i),
             AnswerOf(r, IF request[r].row.status = "VERIFIED" THEN i ELSE "error"),
             origin' = [origin EXCEPT ![i] = origin[r], ![r] = None], UNCHANGED <<form, moved>>
      PROVE  PageInv'
    <2> DEFINE row == request[r].row
    <2>1. /\ request[r].step = "record" /\ import' = [import EXCEPT ![i] = row]
          /\ request' = [request EXCEPT ![r] = Idle]
        BY <1>3 DEF RecordImport
    <2>2. row # None /\ row.status \in {"VERIFIED", "FAILED"}
        BY <1>1, <2>1 DEF Inv, RequestsCoherent, RequestCoherent
    <2>3. /\ \A p \in Requests \ {r} : request'[p] = request[p]
          /\ request'[r] = Idle
          /\ import'[i] = row /\ \A j \in Imports \ {i} : import'[j] = import[j]
        BY <1>1, <2>1 DEF Inv, TypeOK
    <2>4. PICK x \in Answers : x = IF row.status = "VERIFIED" THEN i ELSE "error"
        BY DEF Answers
    <2>5. x \notin {None, "error"} => ImportShown(x, row.holder, import')
        BY <2>2, <2>3, <2>4 DEF ImportShown
    <2>6. TabsCoherent' /\ call' \in [Tabs -> [Kinds -> Calls]]
        <3>1. AnswerOf(r, x)
            BY <1>3, <2>4
        <3>2. request[r].step \notin DeriveSteps
            BY <2>1 DEF DeriveSteps
        <3> QED  BY <1>1, <1>3, <2>3, <2>5, <3>1, <3>2, AnswerStep
    <2>7. /\ DOMAIN origin' = Imports \cup Requests
          /\ origin'[i] = origin[r]
          /\ \A x2 \in (Imports \cup Requests) \ {i, r} : origin'[x2] = origin[x2]
        BY <1>3, RequestsAssumption DEF PageInv, PageType
    <2>8. OriginsGenuine'
        <3>1. \A p \in Requests \ {r} : Sourced(request'[p], origin'[p])
            <4>1. \A p \in Requests \ {r} : origin'[p] = origin[p]
                BY <2>7, RequestsAssumption
            <4> QED  BY <2>3, <4>1 DEF PageInv, OriginsGenuine
        <3>2. Sourced(request'[r], origin'[r])
            BY <2>3, IdleType DEF Sourced
        <3>3. row.status = "VERIFIED" => Genuine(origin[r])
            BY <2>1 DEF PageInv, OriginsGenuine, Sourced
        <3>4. \A j \in Imports \ {i} : origin'[j] = origin[j]
            BY <2>7, RequestsAssumption
        <3> QED  BY <2>2, <2>3, <2>7, <3>1, <3>2, <3>3, <3>4 DEF PageInv, OriginsGenuine
    <2>9. origin' = [x2 \in DOMAIN origin' |-> origin'[x2]]
        BY <1>3 DEF PageInv, PageType
    <2>10. PageType'
        BY <1>3, <2>6, <2>7, <2>9 DEF PageInv, PageType
    <2> QED  BY <1>1, <2>6, <2>8, <2>10 DEF PageInv
<1> QED  BY <1>2, <1>3 DEF ServeImport

LEMMA ServerCrashesInv == ASSUME PageInv, ServerCrashes PROVE PageInv'
<1>1. /\ Inv' /\ request' = [r \in Requests |-> Idle]
      /\ UNCHANGED <<import, credential, form, moved>>
    BY NextInv, ServerIsNext DEF PageInv, ServerCrashes, Crash
<1>2. call' = [t \in Tabs |-> [k \in Kinds |->
                  IF call[t][k].server \in Requests THEN AnsweredWith("error") ELSE call[t][k]]]
    BY DEF ServerCrashes, Answered
<1>3. AnsweredWith("error") \in Calls
    BY FetchTypes
<1>4. call' \in [Tabs -> [Kinds -> Calls]]
    BY <1>2, <1>3 DEF PageInv, PageType
<1>5. ASSUME NEW t \in Tabs
      PROVE  Tab(form'[t], call'[t]["verify"], call'[t]["derive"], moved'[t],
                 HolderOf[t], request', import', credential')
    <2> DEFINE f == form[t]  v == call[t]["verify"]  d == call[t]["derive"]
               turned == moved[t]  h == HolderOf[t]
               w == IF v.server \in Requests THEN AnsweredWith("error") ELSE v
               e == IF d.server \in Requests THEN AnsweredWith("error") ELSE d
    <2>1. Tab(f, v, d, turned, h, request, import, credential)
        BY TabFacts
    <2>2. call'[t]["verify"] = w /\ call'[t]["derive"] = e
        BY <1>2 DEF Kinds
    <2>3. w.server = None /\ e.server = None
        BY <2>1, NothingTold DEF Tab, VerifyTold, DeriveTold, Calls
    <2> HIDE DEF f, v, d, turned, h
    <2>4. v.server \in Requests => f.submitting
        BY <2>1, FetchTypes, RequestsAssumption DEF Tab, Overlaps, Awaits
    <2>5. Tab(f, w, d, turned, h, request, import, credential)
        BY <2>1, <2>4, NothingTold, TabWithVerify
    <2>6. d.server \in Requests => f.deriving
        BY <2>1, FetchTypes, RequestsAssumption DEF Tab, Overlaps, Awaits
    <2>7. Tab(f, w, e, turned, h, request, import, credential)
        BY <2>5, <2>6, NothingTold, TabWithDerive
    <2> HIDE DEF w, e
    <2>8. Tab(f, w, e, turned, h, request', import, credential)
        BY <2>3, <2>7 DEF Tab, VerifyTold, DeriveTold, Overlaps
    <2> QED  BY <1>1, <2>2, <2>8 DEF f, turned, h
<1>6. TabsCoherent'
    BY <1>5 DEF TabsCoherent
<1>7. /\ DOMAIN origin' = Imports \cup Requests
      /\ \A i \in Imports : origin'[i] = origin[i]
      /\ origin' = [x \in DOMAIN origin' |-> origin'[x]]
    BY RequestsAssumption DEF PageInv, PageType, ServerCrashes
<1>8. OriginsGenuine'
    BY <1>1, <1>7, IdleType DEF PageInv, OriginsGenuine, Sourced
<1>9. PageType'
    BY <1>1, <1>4, <1>7 DEF PageInv, PageType
<1> QED  BY <1>1, <1>6, <1>8, <1>9 DEF PageInv

-----------------------------------------------------------------------------
(* A tab asks the server.                                                  *)

\* A request that was idle served no fetch: one tab now waits for it.
LEMMA AskedStep ==
    ASSUME PageInv, RowsMoveOn, NEW t \in Tabs, NEW r \in Requests, request[r] = Idle,
           \A p \in Requests \ {r} : request'[p] = request[p],
           \A u \in Tabs \ {t} :
               form'[u] = form[u] /\ call'[u] = call[u] /\ moved'[u] = moved[u],
           Tab(form'[t], call'[t]["verify"], call'[t]["derive"], moved'[t],
               HolderOf[t], request', import', credential')
    PROVE  TabsCoherent'
<1>1. Inv /\ request[r].step = "idle"
    BY IdleType DEF PageInv
<1>2. ASSUME NEW u \in Tabs \ {t}
      PROVE  Tab(form'[u], call'[u]["verify"], call'[u]["derive"], moved'[u],
                 HolderOf[u], request', import', credential')
    <2>1. Tab(form[u], call[u]["verify"], call[u]["derive"], moved[u],
              HolderOf[u], request, import, credential)
        BY TabFacts
    <2>2. call[u]["verify"].server # r /\ call[u]["derive"].server # r
        BY <1>1, <2>1, ServersApart
    <2>3. Tab(form[u], call[u]["verify"], call[u]["derive"], moved[u],
              HolderOf[u], request', import', credential')
        BY <1>1, <2>1, <2>2, TabKeptBut
    <2> QED  BY <2>3
<1> QED  BY <1>2 DEF TabsCoherent

LEMMA SendVerifyInv ==
    ASSUME PageInv, NEW t \in Tabs, NEW r \in Requests, SendVerify(t, r)
    PROVE  PageInv'
<1> DEFINE d == form[t].document  mode == form[t].mode  h == HolderOf[t]
<1>1. /\ ClickVerify(t) /\ ImportOpenCerts(r, h, d, mode, "DEMO")
      /\ d \in Documents /\ h \in Holders /\ mode \in Modes
      /\ call' = [call EXCEPT ![t]["verify"] = ServedBy(r)]
      /\ origin' = [origin EXCEPT ![r] = [document |-> d, mode |-> mode]]
    BY TabFacts, TabsAssumption DEF SendVerify, FormState
<1>2. Next
    <2>1. "DEMO" \in PolicyModes
        BY DEF PolicyModes
    <2> QED  BY <1>1, <2>1 DEF Next, Arrival
<1>3. Inv /\ Inv' /\ RowsMoveOn
    BY <1>2, NextInv, BridgeMovesOn DEF PageInv
<1>4. /\ request[r] = Idle /\ request[r].step = "idle"
      /\ request' = [request EXCEPT ![r] = Verify(h, d, mode, "DEMO")] /\ import' = import
    BY <1>1, IdleType DEF ImportOpenCerts
<1>5. /\ \A p \in Requests \ {r} : request'[p] = request[p]
      /\ request'[r].step = "verify" /\ request'[r].row.holder = h
      /\ request'[r].row.status = "FAILED"
      /\ request'[r].document = d /\ request'[r].mode = mode
    BY <1>3, <1>4 DEF Inv, TypeOK, Verify
<1>6. ServedBy(r) \in Calls /\ "verify" \in Kinds /\ "derive" \in Kinds /\ "derive" # "verify"
    BY FetchTypes DEF Kinds
<1>7. /\ call' \in [Tabs -> [Kinds -> Calls]]
      /\ \A u \in Tabs \ {t} : call'[u] = call[u]
      /\ call'[t]["verify"] = ServedBy(r)
      /\ call'[t]["derive"] = call[t]["derive"]
    BY <1>1, <1>6, CallTo
<1>8. /\ form' \in [Tabs -> FormState] /\ moved' \in [Tabs -> BOOLEAN]
      /\ \A u \in Tabs \ {t} : form'[u] = form[u] /\ moved'[u] = moved[u]
      /\ form'[t].submitting
      /\ Tab(form'[t], NoCall, call[t]["derive"], moved'[t], h, request, import, credential)
    BY <1>1, ClickVerifyFacts, TabsAssumption
<1>9. Tab(form'[t], ServedBy(r), call[t]["derive"], moved'[t], h, request', import', credential')
    <2>1. NoCall.server # r
        BY FetchTypes, RequestsAssumption
    <2>2. call[t]["derive"].server # r
        <3>1. Tab(form[t], call[t]["verify"], call[t]["derive"], moved[t],
                  HolderOf[t], request, import, credential)
            BY TabFacts
        <3> QED  BY <1>4, <3>1, ServersApart
    <2> DEFINE f == form'[t]  e == call[t]["derive"]  turned == moved'[t]
    <2>3. Tab(f, NoCall, e, turned, h, request, import, credential) /\ e.server # r /\ f.submitting
        BY <1>8, <2>2
    <2> HIDE DEF f, e, turned, h
    <2>4. Tab(f, NoCall, e, turned, h, request', import', credential')
        BY <1>3, <1>5, <2>1, <2>3, TabKeptBut
    <2>5. VerifyTold(ServedBy(r), h, request', import')
        BY <1>5, FetchTypes DEF VerifyTold
    <2>6. Tab(f, ServedBy(r), e, turned, h, request', import', credential')
        BY <2>3, <2>4, <2>5, TabWithVerify
    <2> QED  BY <2>6 DEF f, e, turned, h
<1>10. TabsCoherent'
    BY <1>3, <1>4, <1>5, <1>7, <1>8, <1>9, AskedStep
<1>11. /\ DOMAIN origin' = Imports \cup Requests
       /\ origin' = [x \in DOMAIN origin' |-> origin'[x]]
       /\ origin'[r] = [document |-> d, mode |-> mode]
       /\ \A x \in (Imports \cup Requests) \ {r} : origin'[x] = origin[x]
    BY <1>1 DEF PageInv, PageType
<1>12. OriginsGenuine'
    <2>1. Sourced(request'[r], origin'[r])
        BY <1>5, <1>11 DEF Sourced
    <2>2. \A i \in Imports : origin'[i] = origin[i]
        BY <1>11, RequestsAssumption
    <2>3. \A p \in Requests \ {r} : origin'[p] = origin[p]
        BY <1>11
    <2> QED  BY <1>4, <1>5, <2>1, <2>2, <2>3 DEF PageInv, OriginsGenuine
<1>13. PageType'
    BY <1>7, <1>8, <1>11 DEF PageType
<1> QED  BY <1>3, <1>10, <1>12, <1>13 DEF PageInv

LEMMA SendDeriveInv ==
    ASSUME PageInv, NEW t \in Tabs, NEW r \in Requests, SendDerive(t, r)
    PROVE  PageInv'
<1> DEFINE h == HolderOf[t]
<1>1. PICK i \in Imports : i = form[t].preview /\ ImportShown(i, h, import)
    BY ClickDeriveFacts DEF SendDerive, ImportShown
<1>2. /\ ClickDerive(t) /\ DeriveFromImport(r, h, i) /\ h \in Holders
      /\ call' = [call EXCEPT ![t]["derive"] = ServedBy(r)] /\ origin' = origin
    BY <1>1, TabsAssumption DEF SendDerive
<1>3. Next
    BY <1>2 DEF Next, Arrival
<1>4. Inv /\ Inv' /\ RowsMoveOn
    BY <1>3, NextInv, BridgeMovesOn DEF PageInv
<1>5. /\ request[r] = Idle /\ request[r].step = "idle" /\ import' = import /\ import[i].holder = h
      /\ request' = [request EXCEPT ![r] = Holding("claim", i, import[i], None)]
    BY <1>2, IdleType DEF DeriveFromImport
<1>6. /\ \A p \in Requests \ {r} : request'[p] = request[p]
      /\ request'[r].step = "claim" /\ request'[r].row.holder = h /\ request'[r].id = i
    BY <1>4, <1>5 DEF Inv, TypeOK, Holding
<1>7. ServedBy(r) \in Calls /\ "verify" \in Kinds /\ "derive" \in Kinds /\ "derive" # "verify"
    BY FetchTypes DEF Kinds
<1>8. /\ call' \in [Tabs -> [Kinds -> Calls]]
      /\ \A u \in Tabs \ {t} : call'[u] = call[u]
      /\ call'[t]["derive"] = ServedBy(r)
      /\ call'[t]["verify"] = call[t]["verify"]
    BY <1>2, <1>7, CallTo
<1>9. /\ form' \in [Tabs -> FormState] /\ moved' \in [Tabs -> BOOLEAN]
      /\ \A u \in Tabs \ {t} : form'[u] = form[u] /\ moved'[u] = moved[u]
      /\ form'[t].deriving /\ form'[t].preview = i
      /\ Tab(form'[t], call[t]["verify"], NoCall, moved'[t], h, request, import, credential)
    BY <1>1, <1>2, ClickDeriveFacts
<1>10. Tab(form'[t], call[t]["verify"], ServedBy(r), moved'[t], h, request', import', credential')
    <2>1. NoCall.server # r
        BY FetchTypes, RequestsAssumption
    <2>2. call[t]["verify"].server # r
        <3>1. Tab(form[t], call[t]["verify"], call[t]["derive"], moved[t],
                  HolderOf[t], request, import, credential)
            BY TabFacts
        <3> QED  BY <1>5, <3>1, ServersApart
    <2> DEFINE f == form'[t]  v == call[t]["verify"]  turned == moved'[t]
    <2>3. /\ Tab(f, v, NoCall, turned, h, request, import, credential)
          /\ v.server # r /\ f.deriving /\ f.preview = i
        BY <1>9, <2>2
    <2> HIDE DEF f, v, turned, h
    <2>4. Tab(f, v, NoCall, turned, h, request', import', credential')
        BY <1>4, <1>6, <2>1, <2>3, TabKeptBut
    <2>5. DeriveTold(ServedBy(r), h, request', import', credential')
        BY <1>6, FetchTypes DEF DeriveTold, DeriveSteps
    <2>6. ServedBy(r).server = r /\ ~Tells(ServedBy(r))
        BY FetchTypes
    <2>7. Tab(f, v, ServedBy(r), turned, h, request', import', credential')
        BY <1>6, <2>3, <2>4, <2>5, <2>6, TabWithDerive
    <2> QED  BY <2>7 DEF f, v, turned, h
<1>11. TabsCoherent'
    <2>1. Tab(form'[t], call'[t]["verify"], call'[t]["derive"], moved'[t],
              HolderOf[t], request', import', credential')
        BY <1>8, <1>10
    <2>2. \A u \in Tabs \ {t} :
              form'[u] = form[u] /\ call'[u] = call[u] /\ moved'[u] = moved[u]
        BY <1>8, <1>9
    <2>3. request[r] = Idle /\ RowsMoveOn /\ \A p \in Requests \ {r} : request'[p] = request[p]
        BY <1>4, <1>5, <1>6
    <2> QED  BY <2>1, <2>2, <2>3, AskedStep
<1>12. OriginsGenuine'
    <2>1. Sourced(request'[r], origin[r])
        BY <1>6 DEF Sourced
    <2> QED  BY <1>2, <1>5, <1>6, <2>1 DEF PageInv, OriginsGenuine
<1>13. PageType'
    BY <1>2, <1>8, <1>9 DEF PageInv, PageType
<1> QED  BY <1>4, <1>11, <1>12, <1>13 DEF PageInv

-----------------------------------------------------------------------------
LEMMA InitPageInv == InitPage => PageInv
<1> SUFFICES ASSUME InitPage PROVE PageInv
    OBVIOUS
<1>1. Inv
    BY InitInv DEF InitPage
<1>2. /\ FreshForm \in FormState /\ FreshForm.preview = None /\ FreshForm.derived = None
      /\ ~FreshForm.submitting /\ ~FreshForm.deriving
    BY DEF FreshForm, FormState, Texts, Modes
<1>3. PageType
    BY <1>2, FetchTypes DEF InitPage, PageType
<1>4. ASSUME NEW h PROVE Tab(FreshForm, NoCall, NoCall, FALSE, h, request, import, credential)
    <2> HIDE DEF FreshForm, Awaits, Tells, VerifyTold, DeriveTold, NoCall
    <2> QED  BY <1>2, NothingTold DEF Tab, Overlaps, Shows
<1>5. TabsCoherent
    BY <1>4 DEF InitPage, TabsCoherent, Kinds
<1>6. OriginsGenuine
    BY IdleType DEF InitPage, Init, OriginsGenuine, Sourced
<1> QED  BY <1>1, <1>3, <1>5, <1>6 DEF PageInv

LEMMA NextPageInv == PageInv /\ [NextPage]_allVars => PageInv'
<1> SUFFICES ASSUME PageInv, [NextPage]_allVars PROVE PageInv'
    OBVIOUS
<1>1. ASSUME NEW t \in Tabs, Holder(t) PROVE PageInv'
    BY <1>1, SetDocumentInv, SetVerificationModeInv, VerifyNotSentInv, DeriveRefusedInv,
       SendVerifyInv, SendDeriveInv, ReloadInv DEF Holder
<1>2. ASSUME NEW t \in Tabs, NEW k \in Kinds, LoseConnection(t, k) PROVE PageInv'
    BY <1>2, LoseConnectionInv
<1>3. ASSUME NEW t \in Tabs, VerifyAnswered(t) \/ DeriveAnswered(t) PROVE PageInv'
    BY <1>3, VerifyAnsweredInv, DeriveAnsweredInv
<1>4. ASSUME NEW r \in Requests, ServeImport(r) \/ ServeDerive(r) PROVE PageInv'
    BY <1>4, ServeImportInv, ServeDeriveInv
<1>5. ASSUME ServerCrashes PROVE PageInv'
    BY <1>5, ServerCrashesInv
<1>6. CASE UNCHANGED allVars
    <2>1. UNCHANGED vars /\ UNCHANGED <<form, call, origin, moved>>
        BY <1>6 DEF allVars, page
    <2>2. Inv'
        BY <2>1, NextInv DEF PageInv
    <2>3. UNCHANGED <<request, import, credential>>
        BY <2>1 DEF vars
    <2> QED  BY <2>1, <2>2, <2>3 DEF PageInv, PageType, TabsCoherent, OriginsGenuine
<1> QED  BY <1>1, <1>2, <1>3, <1>4, <1>5, <1>6 DEF NextPage

\* The tabs, their fetches and the server stay coherent, whatever the holder
\* does, whatever is lost, and however the server fails.
THEOREM PageStaysCoherent == SafePage => []PageInv
BY InitPageInv, NextPageInv, PTL DEF SafePage

LEMMA PageInvImplies == PageInv => ShownIsStored /\ OpensPreviewed /\ DerivedFromGenuine
<1> SUFFICES ASSUME PageInv PROVE ShownIsStored /\ OpensPreviewed /\ DerivedFromGenuine
    OBVIOUS
<1>1. ShownIsStored
    BY TabFacts DEF ShownIsStored, Tab, Shows, ImportShown, CredentialShown
<1>2. OpensPreviewed
    BY TabFacts DEF OpensPreviewed, Tab, Overlaps
<1>3. DerivedFromGenuine
    <2> SUFFICES ASSUME NEW c \in Credentials, credential[c] # None
                 PROVE  Genuine(origin[credential[c].source])
        BY DEF DerivedFromGenuine, Genuine
    <2>1. PICK i \in Imports : i = credential[c].source
        BY DEF PageInv, Inv, TypeOK, CredentialRow
    <2>2. import[i] # None /\ import[i].status # "FAILED"
        BY <2>1 DEF PageInv, Inv, SourcesRecorded, HiddenNeverStored
    <2> QED  BY <2>1, <2>2 DEF PageInv, OriginsGenuine
<1> QED  BY <1>1, <1>2, <1>3

\* What a tab shows is in the tables: a preview is an import of its holder that
\* passed, "Open credential" a credential of its holder that was stored and linked.
THEOREM PageShowsStored == SafePage => []ShownIsStored
BY PageStaysCoherent, PageInvImplies, PTL

\* However a verification and a derivation of one tab overlap, "Open credential"
\* under a preview opens that preview's credential.
THEOREM PageOpensPreviewed == SafePage => []OpensPreviewed
BY PageStaysCoherent, PageInvImplies, PTL

\* No wallet credential comes from a document that is not of the demo issuer or,
\* in local mode, not intact, through whatever requests and restarts it was made.
THEOREM CredentialsAreGenuine == SafePage => []DerivedFromGenuine
BY PageStaysCoherent, PageInvImplies, PTL
=============================================================================
