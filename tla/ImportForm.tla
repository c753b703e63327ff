----------------------------- MODULE ImportForm -----------------------------
(***************************************************************************)
(* The import page of the web application over the OpenCerts bridge: tabs  *)
(* in which a holder edits a document, has it verified, sees the preview   *)
(* and stores the derived credential.  A tab has at most one verification  *)
(* and one derivation under way, but the two overlap, and the holder goes  *)
(* on editing meanwhile.  The server's actions are those of OpenCertsImport;*)
(* here each is the service of some tab's call.                            *)
(*   apps/web/app/wallet/import/OpenCertsImportForm.tsx                    *)
(*   apps/api/src/routes/import-routes.ts                                  *)
(***************************************************************************)
EXTENDS OpenCertsImport

CONSTANTS
    Tabs,           \* browser tabs on the import page
    HolderOf,       \* the holder signed in in each tab
    NotJson         \* a text that does not parse

ASSUME TabsAssumption ==
    /\ HolderOf \in [Tabs -> Holders]
    /\ NotJson \notin Documents /\ NotJson # None
    /\ "error" \notin Imports \cup Credentials
\* Requests are neither imports nor absent: both index a fetch or a history.
ASSUME RequestsAssumption == None \notin Requests /\ Requests \cap Imports = {}

VARIABLES
    form,           \* React state of each tab
    call,           \* the fetches of each tab
    origin,         \* history: the document and mode behind an import row
    moved           \* history: the tab turned to another document or preview
                    \* while its credential was being stored

page == <<form, call, origin, moved>>
allVars == <<vars, page>>

Kinds == {"verify", "derive"}
Texts == Documents \cup {NotJson, None}
FormState ==
    [document: Texts, mode: Modes, preview: Imports \cup {None}, derived: Credentials \cup {None},
     submitting: BOOLEAN, deriving: BOOLEAN]
\* A fetch: the request that serves it, then its answer.
NoCall == [server |-> None, answer |-> None]
ServedBy(r) == [server |-> r, answer |-> None]
AnsweredWith(x) == [server |-> None, answer |-> x]

FreshForm ==
    [document |-> None, mode |-> "LOCAL_TRUSTVC", preview |-> None, derived |-> None,
     submitting |-> FALSE, deriving |-> FALSE]

InitPage ==
    /\ Init
    /\ form = [t \in Tabs |-> FreshForm]
    /\ call = [t \in Tabs |-> [k \in Kinds |-> NoCall]]
    /\ origin = [x \in Imports \cup Requests |-> None]
    /\ moved = [t \in Tabs |-> FALSE]

-----------------------------------------------------------------------------
(* What the holder does in a tab.                                          *)

\* A chosen file whose text has been read, or an edit of the text.
SetDocument(t, d) ==
    /\ d # form[t].document
    /\ form' = [form EXCEPT ![t] = [@ EXCEPT !.document = d, !.preview = None, !.derived = None]]
    /\ moved' = [moved EXCEPT ![t] = form[t].deriving]
    /\ UNCHANGED <<vars, call, origin>>

SetVerificationMode(t, mode) ==
    /\ mode # form[t].mode
    /\ form' = [form EXCEPT ![t].mode = mode]
    /\ UNCHANGED <<vars, call, origin, moved>>

\* Mutant: the link to the credential of an earlier preview stays.
ClickVerifyKeepingDerived(t) ==
    /\ ~form[t].submitting
    /\ form[t].document # None
    /\ form' = [form EXCEPT ![t] = [@ EXCEPT !.preview = None,
                                            !.submitting = form[t].document # NotJson]]
    /\ moved' = [moved EXCEPT ![t] = form[t].deriving]

\* verifyImport clears what is shown, and asks the server if the text parses.
ClickVerify(t) ==
    /\ ~form[t].submitting
    /\ form[t].document # None
    /\ form' = [form EXCEPT ![t] = [@ EXCEPT !.preview = None, !.derived = None,
                                            !.submitting = form[t].document # NotJson]]
    /\ moved' = [moved EXCEPT ![t] = form[t].deriving]

VerifyNotJson(t) ==
    /\ form[t].document = NotJson
    /\ ClickVerify(t)
    /\ UNCHANGED <<vars, call, origin>>
SendVerify(t, r) ==
    /\ form[t].document \in Documents
    /\ ClickVerify(t)
    /\ ImportOpenCerts(r, HolderOf[t], form[t].document, form[t].mode, "DEMO")
    /\ call' = [call EXCEPT ![t]["verify"] = ServedBy(r)]
    /\ origin' = [origin EXCEPT ![r] = [document |-> form[t].document, mode |-> form[t].mode]]
\* No session or CSRF cookie, a body the contract refuses, or no connection.
VerifyRefused(t) ==
    /\ form[t].document \in Documents
    /\ ClickVerify(t)
    /\ call' = [call EXCEPT ![t]["verify"] = AnsweredWith("error")]
    /\ UNCHANGED <<vars, origin>>

ClickDerive(t) ==
    /\ form[t].preview # None
    /\ form[t].derived = None
    /\ ~form[t].deriving
    /\ form' = [form EXCEPT ![t].deriving = TRUE]
    /\ moved' = [moved EXCEPT ![t] = FALSE]
SendDerive(t, r) ==
    /\ ClickDerive(t)
    /\ DeriveFromImport(r, HolderOf[t], form[t].preview)
    /\ call' = [call EXCEPT ![t]["derive"] = ServedBy(r)]
    /\ UNCHANGED origin
\* As for a verification, or the import is no longer VERIFIED.
DeriveRefused(t) ==
    /\ ClickDerive(t)
    /\ call' = [call EXCEPT ![t]["derive"] = AnsweredWith("error")]
    /\ UNCHANGED <<vars, origin>>

\* A reload forgets the form and its fetches; the server goes on.
Reload(t) ==
    /\ form' = [form EXCEPT ![t] = FreshForm]
    /\ call' = [call EXCEPT ![t] = [k \in Kinds |-> NoCall]]
    /\ moved' = [moved EXCEPT ![t] = FALSE]
    /\ form[t] # FreshForm
    /\ UNCHANGED <<vars, origin>>

-----------------------------------------------------------------------------
(* The server's steps, and the answers some of them are.                   *)

Answered(answers) ==
    call' = [t \in Tabs |-> [k \in Kinds |->
        LET r == call[t][k].server
        IN  IF r \in DOMAIN answers THEN AnsweredWith(answers[r]) ELSE call[t][k]]]
AnswerOf(r, x) == Answered([q \in {r} |-> x])

\* Mutant: the answer to a failed import, which names its row too, is taken for
\* that to a verified one.
ServeImportUnchecked(r) ==
    \/ /\ VerifySource(r) \/ VerifierUnavailable(r)
       /\ UNCHANGED page
    \/ \E i \in Imports :
           /\ RecordImport(r, i)
           /\ AnswerOf(r, i)
           /\ origin' = [origin EXCEPT ![i] = origin[r], ![r] = None]
           /\ UNCHANGED <<form, moved>>

ServeImport(r) ==
    \/ /\ VerifySource(r) \/ VerifierUnavailable(r)
       /\ UNCHANGED page
    \/ \E i \in Imports :
           /\ RecordImport(r, i)
           /\ AnswerOf(r, IF request[r].row.status = "VERIFIED" THEN i ELSE "error")
           /\ origin' = [origin EXCEPT ![i] = origin[r], ![r] = None]
           /\ UNCHANGED <<form, moved>>

ServeDerive(r) ==
    /\ DeriveStep(r)
    /\ IF request'[r] # Idle THEN UNCHANGED call
       ELSE AnswerOf(r, IF request[r].step = "link" THEN request[r].credential ELSE "error")
    /\ UNCHANGED <<form, origin, moved>>

ServerCrashes ==
    /\ Crash
    /\ Answered([r \in Requests |-> "error"])
    /\ origin' = [x \in DOMAIN origin |-> IF x \in Requests THEN None ELSE origin[x]]
    /\ UNCHANGED <<form, moved>>

\* The connection breaks, before or after the server has answered.
LoseConnection(t, k) ==
    /\ call[t][k] \notin {NoCall, AnsweredWith("error")}
    /\ call' = [call EXCEPT ![t][k] = AnsweredWith("error")]
    /\ UNCHANGED <<vars, form, origin, moved>>

VerifyAnswered(t) ==
    LET answer == call[t]["verify"].answer
    IN  /\ answer # None
        /\ form' = [form EXCEPT ![t] = [@ EXCEPT !.submitting = FALSE,
                        !.preview = IF answer = "error" THEN form[t].preview ELSE answer]]
        /\ call' = [call EXCEPT ![t]["verify"] = NoCall]
        /\ UNCHANGED <<vars, origin, moved>>

\* Mutant: the button comes back only with a credential.
DeriveAnsweredNoFinally(t) ==
    LET answer == call[t]["derive"].answer
    IN  /\ answer # None
        /\ form' = [form EXCEPT ![t] = [@ EXCEPT !.deriving = answer = "error",
                        !.derived = IF answer = "error" THEN form[t].derived ELSE answer]]
        /\ call' = [call EXCEPT ![t]["derive"] = NoCall]
        /\ UNCHANGED <<vars, origin, moved>>

DeriveAnswered(t) ==
    LET answer == call[t]["derive"].answer
    IN  /\ answer # None
        /\ form' = [form EXCEPT ![t] = [@ EXCEPT !.deriving = FALSE,
                        !.derived = IF answer = "error" THEN form[t].derived ELSE answer]]
        /\ call' = [call EXCEPT ![t]["derive"] = NoCall]
        /\ UNCHANGED <<vars, origin, moved>>

-----------------------------------------------------------------------------
Holder(t) ==
    \/ \E d \in Texts : SetDocument(t, d)
    \/ \E mode \in Modes : SetVerificationMode(t, mode)
    \/ VerifyNotJson(t)
    \/ VerifyRefused(t)
    \/ DeriveRefused(t)
    \/ \E r \in Requests : SendVerify(t, r) \/ SendDerive(t, r)
    \/ Reload(t)

NextPage ==
    \/ \E t \in Tabs :
           \/ Holder(t)
           \/ \E k \in Kinds : LoseConnection(t, k)
           \/ VerifyAnswered(t)
           \/ DeriveAnswered(t)
    \/ \E r \in Requests : ServeImport(r) \/ ServeDerive(r)
    \/ ServerCrashes

\* Beyond the server's fairness: the browser runs the continuation of a fetch
\* that settled.
FairPage ==
    /\ \A r \in Requests : WF_allVars(ServeDerive(r))
    /\ \A t \in Tabs : WF_allVars(DeriveAnswered(t))

SafePage == InitPage /\ [][NextPage]_allVars
SpecPage == SafePage /\ FairPage

-----------------------------------------------------------------------------
(* Properties.                                                             *)

\* A form keeps its shape, and what it shows is in the tables: a preview stands
\* for an import of its holder that passed, "Open credential" for one that was
\* stored and linked.
ShownIsStored ==
    \A t \in Tabs :
        LET i == form[t].preview
            c == form[t].derived
        IN  /\ form[t] \in FormState
            /\ i # None => import[i] # None /\ import[i].holder = HolderOf[t]
                           /\ import[i].status # "FAILED"
            /\ c # None => credential[c] # None /\ credential[c].holder = HolderOf[t]
                           /\ import[credential[c].source].derived = c

\* "Open credential" under a preview opens the credential of that preview,
\* unless the holder turned to another document while it was being stored.
OpensPreviewed ==
    \A t \in Tabs : form[t].preview # None /\ form[t].derived # None /\ ~moved[t] =>
        import[form[t].preview].derived = form[t].derived

\* Through verification, record, claim and retries, a credential is made only
\* from a document of the demo issuer, and in local mode from an intact one.
DerivedFromGenuine ==
    \A c \in Credentials : credential[c] # None =>
        LET source == origin[credential[c].source]
        IN  /\ SampleMode(source.document)
            /\ source.mode = "LOCAL_TRUSTVC" => source.document.intact

\* The button "Store in wallet" comes back, whatever became of the request.
ButtonComesBack ==
    \A t \in Tabs : form[t].deriving ~> ~form[t].deriving
=============================================================================
