---------------------------- MODULE ImportLifecycle ----------------------------
(***************************************************************************)
(* What an OpenCerts import promises: it is recorded once, as VERIFIED or  *)
(* FAILED; a VERIFIED one may be claimed for derivation and given back any *)
(* number of times; a claimed one becomes DERIVED, with one credential, and*)
(* FAILED and DERIVED are final.                                           *)
(***************************************************************************)
CONSTANTS Imports, Results, None

VARIABLES
    status,     \* of each import, None before it is recorded
    result      \* the credential derived from it, or None

vars == <<status, result>>

Init ==
    /\ status = [i \in Imports |-> None]
    /\ result = [i \in Imports |-> None]

Record(i, s) ==
    /\ status[i] = None
    /\ status' = [status EXCEPT ![i] = s]
    /\ UNCHANGED result

Claim(i) ==
    /\ status[i] = "VERIFIED"
    /\ status' = [status EXCEPT ![i] = "DERIVING"]
    /\ UNCHANGED result

GiveBack(i) ==
    /\ status[i] = "DERIVING"
    /\ status' = [status EXCEPT ![i] = "VERIFIED"]
    /\ UNCHANGED result

\* A credential is the result of one import only.
Derive(i, c) ==
    /\ status[i] = "DERIVING"
    /\ \A j \in Imports : result[j] # c
    /\ status' = [status EXCEPT ![i] = "DERIVED"]
    /\ result' = [result EXCEPT ![i] = c]

Next ==
    \E i \in Imports :
        \/ \E s \in {"VERIFIED", "FAILED"} : Record(i, s)
        \/ Claim(i)
        \/ GiveBack(i)
        \/ \E c \in Results : Derive(i, c)

Spec == Init /\ [][Next]_vars
=============================================================================
