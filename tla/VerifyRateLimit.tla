--------------------------- MODULE VerifyRateLimit ---------------------------
(***************************************************************************)
(* The rate limits in front of the two public verification routes.  The    *)
(* hook of @fastify/rate-limit counts a request by socket address when its *)
(* headers are there; verifyRateLimit counts it by forwarded address once  *)
(* its body is read and valid.  No timeout is set: any time may pass       *)
(* between the two.  Both count in fixed windows that begin with the first *)
(* attempt after the previous window, so two windows may meet in the       *)
(* middle of a burst.  Both tables live in the process and die with it.    *)
(*   apps/api/src/routes/credential-routes.ts                              *)
(***************************************************************************)
EXTENDS Naturals, FiniteSets, FiniteSetsExt

CONSTANTS
    Routes,         \* "verify", "share": the prefix of a limiter's key
    Peers,          \* socket addresses: request.ip
    Clients,        \* addresses x-forwarded-for names, request.ip without it
    Limit,          \* 20 attempts
    Window,         \* one minute, in ticks of the clock
    Second,         \* one second, in ticks
    MaxTime,        \* bound: the clock stops here
    MaxCount,       \* bound: attempts counted in one window
    MaxRestarts,    \* bound: restarts of the process
    None

ASSUME LimiterAssumption ==
    /\ Limit \in Nat \ {0} /\ Window \in Nat \ {0} /\ Second \in 1..Window
    /\ MaxTime \in Nat /\ MaxCount \in Nat \ {0} /\ MaxRestarts \in Nat
    /\ None \notin Nat

VARIABLES
    now,                    \* Date.now()
    restarts,               \* restarts so far
    peerAttempts,           \* the plugin's table, one per route
    verificationAttempts,   \* the map of verifyRateLimit
    waiting,                \* requests past the plugin whose body is not read yet
    passed,                 \* history: the requests the plugin let through
    admitted,               \* history: those the preHandler let through too
    promised                \* history: the retry time the last refusal of the
                            \* running window named

history == <<passed, admitted, promised>>
vars == <<now, restarts, peerAttempts, verificationAttempts, waiting, history>>

Keys == Routes \X Clients
Times == 0..MaxTime
Entry == [count: 1..MaxCount, resetAt: Nat]

\* An absent entry is not an entry.
ASSUME EntryAssumption == None \notin Entry

\* A request the plugin let through, the nth of its route, socket and instant, and
\* one that the preHandler let through later, for the client its headers name.
Passage == [route: Routes, peer: Peers, at: Times, nth: Nat]
Admission == [client: Clients, at: Times, by: Passage]

\* A map without entries.
Empty(keys) == [k \in keys |-> None]

Init ==
    /\ now = 0
    /\ restarts = 0
    /\ peerAttempts = Empty(Routes \X Peers)
    /\ verificationAttempts = Empty(Keys)
    /\ waiting = {}
    /\ passed = {}
    /\ admitted = {}
    /\ promised = Empty(Keys)

-----------------------------------------------------------------------------
Over(entry) == entry # None => entry.resetAt <= now

\* Mutant: a refused attempt prolongs the window.
CountSliding(entry) ==
    IF Over(entry) THEN [count |-> 1, resetAt |-> now + Window]
    ELSE [count |-> entry.count + 1,
          resetAt |-> IF entry.count >= Limit THEN now + Window ELSE entry.resetAt]
\* Mutant: the first attempt of a window is not counted.
CountFromZero(entry) ==
    IF Over(entry) THEN [count |-> 0, resetAt |-> now + Window]
    ELSE [count |-> entry.count + 1, resetAt |-> entry.resetAt]
\* Mutant: every window begins at a multiple of its length.
CountAligned(entry) ==
    IF Over(entry) THEN [count |-> 1, resetAt |-> (now \div Window) * Window + Window]
    ELSE [count |-> entry.count + 1, resetAt |-> entry.resetAt]

Count(entry) ==
    IF Over(entry) THEN [count |-> 1, resetAt |-> now + Window]
    ELSE [count |-> entry.count + 1, resetAt |-> entry.resetAt]

Allowed(entry) == entry.count <= Limit

\* Mutant: rounded down.
RetryAfterFloor(entry) == (entry.resetAt - now) \div Second
RetryAfter(entry) == Max({1, (entry.resetAt - now + Second - 1) \div Second})

\* Bound: the windows' counts stop at MaxCount.
WithinBound(entry) == ~Over(entry) => entry.count < MaxCount

(* The plugin's hook, onRequest.                                           *)

Pass(route, peer) ==
    LET before == {y \in passed : y.route = route /\ y.peer = peer /\ y.at = now}
        x == [route |-> route, peer |-> peer, at |-> now, nth |-> Cardinality(before)]
    IN  passed' = passed \cup {x} /\ waiting' = waiting \cup {x}

\* Mutant: the routes without the plugin.
ArriveUncounted(route, peer) ==
    /\ Pass(route, peer)
    /\ UNCHANGED <<now, restarts, peerAttempts, verificationAttempts, admitted, promised>>

Arrive(route, peer) ==
    LET entry == Count(peerAttempts[<<route, peer>>])
    IN  /\ WithinBound(peerAttempts[<<route, peer>>])
        /\ peerAttempts' = [peerAttempts EXCEPT ![<<route, peer>>] = entry]
        /\ IF Allowed(entry) THEN Pass(route, peer) ELSE UNCHANGED <<passed, waiting>>
        /\ UNCHANGED <<now, restarts, verificationAttempts, admitted, promised>>

\* The connection ends, or the body or the token is refused by the parser or schema.
BodyRefused(x) ==
    /\ waiting' = waiting \ {x}
    /\ UNCHANGED <<now, restarts, peerAttempts, verificationAttempts, history>>

(* The preHandler of either route, for a well-formed request.              *)
VerifyRequest(x, client) ==
    LET key == <<x.route, client>>
        entry == Count(verificationAttempts[key])
    IN  /\ WithinBound(verificationAttempts[key])
        /\ verificationAttempts' = [verificationAttempts EXCEPT ![key] = entry]
        /\ waiting' = waiting \ {x}
        /\ IF Allowed(entry)
           THEN /\ admitted' = admitted \cup {[client |-> client, at |-> now, by |-> x]}
                /\ promised' = [promised EXCEPT ![key] = None]
           ELSE /\ promised' = [promised EXCEPT ![key] = now + RetryAfter(entry) * Second]
                /\ UNCHANGED admitted
        /\ UNCHANGED <<now, restarts, peerAttempts, passed>>

Tick ==
    /\ now < MaxTime
    /\ now' = now + 1
    /\ UNCHANGED <<restarts, peerAttempts, verificationAttempts, waiting, history>>

\* The tables are empty after a restart; the histories begin anew with them.
Restart ==
    /\ restarts < MaxRestarts
    /\ restarts' = restarts + 1
    /\ peerAttempts' = Empty(Routes \X Peers)
    /\ verificationAttempts' = Empty(Keys)
    /\ waiting' = {}
    /\ passed' = {}
    /\ admitted' = {}
    /\ promised' = Empty(Keys)
    /\ UNCHANGED now

Next ==
    \/ \E route \in Routes, peer \in Peers : Arrive(route, peer)
    \/ \E x \in waiting :
           \/ BodyRefused(x)
           \/ \E client \in Clients : VerifyRequest(x, client)
    \/ Tick
    \/ Restart

Spec == Init /\ [][Next]_vars

-----------------------------------------------------------------------------
(* Properties.                                                             *)

\* Entries count at least one attempt; histories stay within the clock.
TypeOK ==
    /\ now \in Times
    /\ restarts \in 0..MaxRestarts
    /\ peerAttempts \in [Routes \X Peers -> Entry \cup {None}]
    /\ verificationAttempts \in [Keys -> Entry \cup {None}]
    /\ passed \in SUBSET Passage
    /\ waiting \in SUBSET passed
    /\ admitted \in SUBSET Admission
    /\ promised \in [Keys -> Nat \cup {None}]

\* Requests counted from an instant on, for as long as a window lasts.
CountedFrom(requests, from) ==
    Cardinality({x \in requests : from <= x.at /\ x.at < from + Window})
OfClient(route, client) == {x \in admitted : x.by.route = route /\ x.client = client}
OfPeer(route, peer) == {x \in passed : x.route = route /\ x.peer = peer}
AdmittedOfPeer(route, peer) == {x \in OfPeer(route, peer) : \E y \in admitted : y.by = x}

\* The windows of one address meet at most twice in any minute: a burst around
\* a boundary is let through, of less than twice the limit, whatever sockets it
\* comes by.
BurstsBounded ==
    \A route \in Routes, client \in Clients, t \in Times :
        CountedFrom(OfClient(route, client), t) < 2 * Limit

\* An address that is refused really has used up its running window, and the
\* attempts refused to it do not lengthen that window.
RefusedOnlyWhenSpent ==
    \A route \in Routes, client \in Clients : promised[<<route, client>>] # None =>
        LET entry == verificationAttempts[<<route, client>>]
        IN  /\ entry # None
            /\ CountedFrom(OfClient(route, client), entry.resetAt - Window) = Limit

\* The retry-after of a refusal sends the client back neither before its window
\* is over nor a whole second later than that.
RetryAfterHonest ==
    \A key \in Keys : promised[key] # None =>
        LET resetAt == verificationAttempts[key].resetAt
        IN  resetAt <= promised[key] /\ promised[key] < resetAt + Second

\* Naming other forwarded addresses gains a socket address nothing: of the requests
\* it makes within a minute fewer than twice the limit are ever let through, whatever
\* addresses they name and however long it holds their bodies back.  (Held back they
\* may get through all at once: the bound is on when they were made.)
ForwardingGainsNothing ==
    \A route \in Routes, peer \in Peers, t \in Times :
        CountedFrom(AdmittedOfPeer(route, peer), t) < 2 * Limit
=============================================================================
