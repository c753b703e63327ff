----------------------------- MODULE ShareBudget -----------------------------
(***************************************************************************)
(* What a share link promises its holder: it is opened with a number of    *)
(* views, a view is charged before the claims are disclosed for it, and no *)
(* view is charged beyond the limit.  Of a link that is redeemed twice at  *)
(* the same time only the last is kept: a charge may be lost.              *)
(*   docs/protocol.md:65, docs/threat-model.md:48                          *)
(***************************************************************************)
EXTENDS Naturals

CONSTANTS Links, Limits

VARIABLES
    limit,      \* views the link was opened with, 0 before it exists
    charged,    \* views counted against it
    disclosed,  \* times its claims reached a verifier
    raced       \* links that were redeemed twice at the same time

vars == <<limit, charged, disclosed, raced>>

Init ==
    /\ limit = [l \in Links |-> 0]
    /\ charged = [l \in Links |-> 0]
    /\ disclosed = [l \in Links |-> 0]
    /\ raced = {}

Open(l, n) ==
    /\ limit[l] = 0
    /\ limit' = [limit EXCEPT ![l] = n]
    /\ UNCHANGED <<charged, disclosed, raced>>

Charge(l) ==
    /\ charged[l] < limit[l]
    /\ charged' = [charged EXCEPT ![l] = @ + 1]
    /\ UNCHANGED <<limit, disclosed, raced>>

\* The count of a raced link is written over.
Recount(l, n) ==
    /\ l \in raced
    /\ charged' = [charged EXCEPT ![l] = n]
    /\ UNCHANGED <<limit, disclosed, raced>>

Disclose(l) ==
    /\ l \notin raced => disclosed[l] < charged[l]
    /\ disclosed' = [disclosed EXCEPT ![l] = @ + 1]
    /\ UNCHANGED <<limit, charged, raced>>

Race(l) ==
    /\ limit[l] > 0
    /\ raced' = raced \cup {l}
    /\ UNCHANGED <<limit, charged, disclosed>>

Next ==
    \E l \in Links :
        \/ \E n \in Limits : Open(l, n)
        \/ \E n \in 1..limit[l] : Recount(l, n)
        \/ Charge(l) \/ Disclose(l) \/ Race(l)

Spec == Init /\ [][Next]_vars
=============================================================================
