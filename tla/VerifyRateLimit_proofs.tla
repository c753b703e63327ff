------------------------ MODULE VerifyRateLimit_proofs ------------------------
(***************************************************************************)
(* What holds of the rate limits for any limit, window and clock, however  *)
(* attempts, refusals and restarts follow one another.                     *)
(***************************************************************************)
EXTENDS VerifyRateLimit, FiniteSetTheorems, TLAPS

-----------------------------------------------------------------------------
(* The inductive invariant.  It is about the requests H that one limiter   *)
(* let one address through with (OfClient, OfPeer), each at the time it    *)
(* was counted, and the entry that counts the attempts of that address.    *)

\* Those since the running window began, after the attempt it began with, and in
\* the last Window - 1 ticks before it.
Since(H, s) == {x \in H : s <= x.at}
After(H, s) == {x \in H : s < x.at}
Before(H, s) == {x \in H : x.at < s /\ s < x.at + Window}
During(H, t) == {x \in H : t <= x.at /\ x.at < t + Window}

\* The attempt that opened a window takes one of its places, so that whatever
\* window comes next, fewer than Limit requests lie close enough before it.
InWindow(H, entry, time) ==
    LET s == entry.resetAt - Window
    IN  /\ Window <= entry.resetAt /\ s <= time
        /\ \A x \in H : x.at < entry.resetAt
        /\ Cardinality(Since(H, s)) <= entry.count /\ Cardinality(Since(H, s)) <= Limit
        /\ Cardinality(After(H, s)) < entry.count /\ Cardinality(After(H, s)) < Limit
        /\ Cardinality(Before(H, s)) < Limit
Windowed(H, entry, time) ==
    /\ IsFiniteSet(H)
    /\ \A x \in H : x.at \in Nat /\ x.at <= time
    /\ entry = None => H = {}
    /\ entry # None => InWindow(H, entry, time)
    /\ \A t \in Nat : Cardinality(During(H, t)) < 2 * Limit

\* Every attempt a client may make was let through.
Filled(H, entry) ==
    entry # None =>
        Cardinality(Since(H, entry.resetAt - Window))
            = IF entry.count <= Limit THEN entry.count ELSE Limit

\* No request is numbered as the next one would be.
Group(A, x) == {y \in A : y.route = x.route /\ y.peer = x.peer /\ y.at = x.at}
Numbered(A) == IsFiniteSet(A) /\ \A x \in A : x.nth < Cardinality(Group(A, x))

\* Who was let through is past the plugin and waits no more.
AdmittedOnce == \A y \in admitted : y.by \in passed \ waiting

\* A retry time that was named belongs to a window of the table that is spent.
PromisedBy(time, entry) ==
    time # None =>
        /\ entry # None /\ entry.count > Limit
        /\ entry.resetAt <= time /\ time < entry.resetAt + Second

Inv ==
    /\ TypeOK
    /\ Numbered(passed)
    /\ AdmittedOnce
    /\ \A route \in Routes, peer \in Peers :
           Windowed(OfPeer(route, peer), peerAttempts[<<route, peer>>], now)
    /\ \A route \in Routes, client \in Clients :
           LET entry == verificationAttempts[<<route, client>>]
               H == OfClient(route, client)
           IN  /\ Windowed(H, entry, now)
               /\ Filled(H, entry)
               /\ PromisedBy(promised[<<route, client>>], entry)

-----------------------------------------------------------------------------
(* Operators.                                                              *)

\* Counting an attempt gives an entry of a window that runs.
LEMMA CountType ==
    ASSUME NEW entry \in Entry \cup {None}, WithinBound(entry), now \in Nat
    PROVE  /\ Count(entry) \in Entry /\ Count(entry) # None /\ Count(entry).resetAt > now
           /\ ~Over(entry) => Count(entry).count = entry.count + 1
           /\ Count(entry).count >= 1
<1>1. Count(entry) \in Entry
    <2>1. CASE Over(entry)
        BY <2>1, LimiterAssumption DEF Count, Entry
    <2>2. CASE ~Over(entry)
        BY <2>2, LimiterAssumption DEF Count, Entry, WithinBound, Over
    <2> QED  BY <2>1, <2>2
<1>2. Count(entry) # None
    BY <1>1, EntryAssumption
<1>3. Count(entry).resetAt > now
    BY LimiterAssumption DEF Count, Over, Entry
<1>4. ~Over(entry) => Count(entry).count = entry.count + 1
    BY DEF Count
<1>5. Count(entry).count >= 1
    BY <1>1, LimiterAssumption DEF Entry
<1> QED  BY <1>1, <1>2, <1>3, <1>4, <1>5

\* Rounding up to whole seconds goes past the time asked for by less than one.
LEMMA RoundUp ==
    ASSUME NEW d \in Nat \ {0}, NEW s \in Nat \ {0}
    PROVE  LET k == (d + s - 1) \div s
           IN  /\ k \in Nat /\ k >= 1
               /\ d <= k * s /\ k * s < d + s
<1> DEFINE k == (d + s - 1) \div s
<1>1. k \in Int /\ k * s <= d + s - 1 /\ d + s - 1 < (k + 1) * s
    OBVIOUS
<1> HIDE DEF k
<1>2. (k + 1) * s = k * s + s
    BY <1>1
<1>3. k >= 1
    <2> SUFFICES ASSUME k <= 0 PROVE FALSE
        BY <1>1
    <2>1. k * s <= 0
        BY <1>1
    <2> QED  BY <1>1, <1>2, <2>1
<1> QED  BY <1>1, <1>2, <1>3 DEF k

LEMMA RetryAfterBounds ==
    ASSUME NEW entry \in Entry, now \in Nat, entry.resetAt > now
    PROVE  /\ RetryAfter(entry) \in Nat
           /\ entry.resetAt <= now + RetryAfter(entry) * Second
           /\ now + RetryAfter(entry) * Second < entry.resetAt + Second
<1> DEFINE d == entry.resetAt - now
           k == (d + Second - 1) \div Second
<1>1. d \in Nat \ {0} /\ Second \in Nat \ {0} /\ entry.resetAt \in Nat
    BY LimiterAssumption DEF Entry
<1>2. k \in Nat /\ k >= 1 /\ d <= k * Second /\ k * Second < d + Second
    <2> HIDE DEF d
    <2> QED  BY <1>1, RoundUp
<1>3. RetryAfter(entry) = Max({1, k})
    BY DEF RetryAfter
<1> HIDE DEF k
<1>4. Max({1, k}) = k
    BY <1>2 DEF Max
<1>5. k * Second \in Nat
    BY <1>1, <1>2
<1> QED  BY <1>1, <1>2, <1>3, <1>4, <1>5

-----------------------------------------------------------------------------
(* One address and its windows.                                            *)

LEMMA PartsFinite ==
    ASSUME NEW H, IsFiniteSet(H), NEW P, P \subseteq H
    PROVE  /\ IsFiniteSet(P) /\ Cardinality(P) \in Nat
           /\ \A Q : Q \subseteq P => IsFiniteSet(Q) /\ Cardinality(Q) \in Nat
                                      /\ Cardinality(Q) <= Cardinality(P)
<1>1. IsFiniteSet(P) /\ Cardinality(P) \in Nat
    BY FS_Subset, FS_CardinalityType
<1>2. ASSUME NEW Q, Q \subseteq P
      PROVE  IsFiniteSet(Q) /\ Cardinality(Q) \in Nat /\ Cardinality(Q) <= Cardinality(P)
    BY <1>1, <1>2, FS_Subset, FS_CardinalityType
<1> QED  BY <1>1, <1>2

\* An attempt in a new window: what was let through is all before it, and fewer
\* than Limit of it within reach.
LEMMA NewWindow ==
    ASSUME NEW H, NEW entry \in Entry \cup {None}, now \in Nat, Windowed(H, entry, now),
           Over(entry)
    PROVE  /\ Since(H, now) = {} /\ After(H, now) = {}
           /\ IsFiniteSet(Before(H, now)) /\ Cardinality(Before(H, now)) \in Nat
           /\ Cardinality(Before(H, now)) < Limit
<1>1. CASE entry = None
    <2>1. H = {}
        BY <1>1 DEF Windowed
    <2> QED  BY <2>1, FS_EmptySet, LimiterAssumption DEF Since, After, Before
<1>2. CASE entry # None
    <2> DEFINE s == entry.resetAt - Window
    <2>1. /\ entry.resetAt \in Nat /\ entry.resetAt <= now /\ Window \in Nat \ {0}
          /\ Limit \in Nat
        BY <1>2, LimiterAssumption DEF Over, Entry
    <2>2. InWindow(H, entry, now) /\ IsFiniteSet(H) /\ \A x \in H : x.at \in Nat
        BY <1>2 DEF Windowed
    <2>3. \A x \in H : x.at < entry.resetAt
        BY <2>2 DEF InWindow
    <2>4. Since(H, now) = {} /\ After(H, now) = {}
        BY <2>1, <2>2, <2>3 DEF Since, After
    <2>5. s \in Nat /\ s + Window = entry.resetAt
        BY <2>1, <2>2 DEF InWindow
    <2>6. Cardinality(After(H, s)) < Limit
        BY <2>2 DEF InWindow
    <2> HIDE DEF s
    <2>7. Before(H, now) \subseteq After(H, s)
        BY <2>1, <2>2, <2>5 DEF Before, After
    <2>8. After(H, s) \subseteq H
        BY DEF After
    <2>9. /\ IsFiniteSet(Before(H, now)) /\ Cardinality(Before(H, now)) \in Nat
          /\ Cardinality(After(H, s)) \in Nat
          /\ Cardinality(Before(H, now)) <= Cardinality(After(H, s))
        BY <2>2, <2>7, <2>8, PartsFinite
    <2> QED  BY <2>1, <2>4, <2>6, <2>9
<1> QED  BY <1>1, <1>2

\* The numbers of a window: counted is the entry before the attempt's own place.
Places(H, entry, time) ==
    LET s == entry.resetAt - Window
    IN  /\ entry \in Entry /\ Window <= entry.resetAt /\ s \in Nat /\ s <= time
        /\ time < entry.resetAt
        /\ \A x \in H : x.at < entry.resetAt
        /\ Cardinality(Since(H, s)) < entry.count /\ Cardinality(Since(H, s)) <= Limit
        /\ s < time => Cardinality(After(H, s)) + 1 < entry.count
        /\ Cardinality(After(H, s)) < entry.count /\ Cardinality(After(H, s)) < Limit
        /\ Cardinality(Before(H, s)) < Limit

\* Counting an attempt leaves it a place of its own.
LEMMA AttemptPlaces ==
    ASSUME NEW H, NEW entry \in Entry \cup {None}, now \in Nat, WithinBound(entry),
           Windowed(H, entry, now)
    PROVE  Places(H, Count(entry), now)
<1>1. /\ Count(entry) \in Entry /\ Count(entry).resetAt > now /\ Count(entry).count >= 1
      /\ ~Over(entry) => Count(entry).count = entry.count + 1
    BY CountType
<1>2. IsFiniteSet(H) /\ \A x \in H : x.at \in Nat /\ x.at <= now
    BY DEF Windowed
<1>3. Limit \in Nat \ {0} /\ Window \in Nat \ {0}
    BY LimiterAssumption
<1>4. CASE Over(entry)
    <2>1. Count(entry) = [count |-> 1, resetAt |-> now + Window]
        BY <1>4 DEF Count
    <2>2. /\ Count(entry).resetAt = now + Window /\ Count(entry).count = 1
        BY <2>1
    <2>3. Count(entry).resetAt - Window = now
        BY <1>3, <2>2
    <2>4. Since(H, now) = {} /\ After(H, now) = {} /\ Cardinality(Before(H, now)) < Limit
        BY <1>4, NewWindow
    <2>5. \A x \in H : x.at < now + Window
        BY <1>2, <1>3
    <2> QED  BY <1>1, <1>3, <2>2, <2>3, <2>4, <2>5, FS_EmptySet DEF Places
<1>5. CASE ~Over(entry)
    <2> DEFINE s == entry.resetAt - Window
    <2>1. /\ entry \in Entry /\ entry # None /\ entry.resetAt > now
          /\ Count(entry).resetAt = entry.resetAt
        BY <1>5 DEF Over, Count, Entry
    <2>2. InWindow(H, entry, now)
        BY <2>1 DEF Windowed
    <2>3. entry.count \in Nat /\ entry.resetAt \in Nat /\ entry.count >= 1
        BY <2>1, LimiterAssumption DEF Entry
    <2>4. /\ Window <= entry.resetAt /\ s <= now /\ (\A x \in H : x.at < entry.resetAt)
          /\ Cardinality(Since(H, s)) <= entry.count /\ Cardinality(Since(H, s)) <= Limit
          /\ Cardinality(After(H, s)) < entry.count /\ Cardinality(After(H, s)) < Limit
          /\ Cardinality(Before(H, s)) < Limit
        BY <2>2 DEF InWindow
    <2>5. Cardinality(Since(H, s)) \in Nat /\ Cardinality(After(H, s)) \in Nat
        <3>1. Since(H, s) \subseteq H /\ After(H, s) \subseteq H
            BY DEF Since, After
        <3> QED  BY <1>2, <3>1, PartsFinite
    <2>6. s \in Nat
        BY <1>3, <2>3, <2>4
    <2> HIDE DEF s
    <2>7. /\ Cardinality(Since(H, s)) < Count(entry).count
          /\ Cardinality(After(H, s)) + 1 < Count(entry).count
          /\ Cardinality(After(H, s)) < Count(entry).count
        BY <1>1, <1>5, <2>3, <2>4, <2>5
    <2>8. Count(entry).resetAt - Window = s
        BY <2>1 DEF s
    <2> QED  BY <1>1, <2>1, <2>4, <2>6, <2>7, <2>8 DEF Places
<1> QED  BY <1>4, <1>5

\* An attempt that is turned away changes only the count.
LEMMA TurnedAway ==
    ASSUME NEW H, NEW entry \in Entry \cup {None}, now \in Nat, WithinBound(entry),
           Windowed(H, entry, now)
    PROVE  Windowed(H, Count(entry), now)
<1>1. Places(H, Count(entry), now)
    BY AttemptPlaces
<1>2. Count(entry) # None /\ Count(entry) \in Entry
    BY CountType
<1>3. PICK e \in Entry : e = Count(entry)
    BY <1>2
<1>4. Cardinality(Since(H, e.resetAt - Window)) \in Nat /\ e.count \in Nat
    <2>1. Since(H, e.resetAt - Window) \subseteq H /\ IsFiniteSet(H)
        BY DEF Since, Windowed
    <2> QED  BY <2>1, PartsFinite, LimiterAssumption DEF Entry
<1>5. InWindow(H, e, now)
    BY <1>1, <1>3, <1>4 DEF Places, InWindow
<1> QED  BY <1>2, <1>3, <1>5 DEF Windowed

\* A request that is let through takes its place, and no burst is too long for it.
LEMMA LetThrough ==
    ASSUME NEW H, NEW entry \in Entry \cup {None}, now \in Nat, WithinBound(entry),
           Windowed(H, entry, now), Count(entry).count <= Limit,
           NEW x, x \notin H, x.at = now
    PROVE  Windowed(H \cup {x}, Count(entry), now)
<1> DEFINE H2 == H \cup {x}
<1>1. Places(H, Count(entry), now)
    BY AttemptPlaces
<1>2. PICK e \in Entry : e = Count(entry) /\ e # None
    BY CountType
<1>3. PICK s \in Nat : s = e.resetAt - Window
    BY <1>1, <1>2 DEF Places
<1>4. /\ Limit \in Nat \ {0} /\ Window \in Nat \ {0} /\ e.count \in Nat /\ e.resetAt \in Nat
      /\ e.count <= Limit
    BY <1>2, LimiterAssumption DEF Entry
<1>5. /\ Window <= e.resetAt /\ s <= now /\ now < e.resetAt
      /\ (\A y \in H : y.at < e.resetAt)
      /\ Cardinality(Since(H, s)) < e.count /\ Cardinality(Since(H, s)) <= Limit
      /\ s < now => Cardinality(After(H, s)) + 1 < e.count
      /\ Cardinality(After(H, s)) < e.count /\ Cardinality(After(H, s)) < Limit
      /\ Cardinality(Before(H, s)) < Limit
    BY <1>1, <1>2, <1>3 DEF Places
<1>6. /\ IsFiniteSet(H) /\ (\A y \in H : y.at \in Nat /\ y.at <= now)
      /\ \A t \in Nat : Cardinality(During(H, t)) < 2 * Limit
    BY DEF Windowed
<1>7. /\ IsFiniteSet(Since(H, s)) /\ Cardinality(Since(H, s)) \in Nat
      /\ IsFiniteSet(After(H, s)) /\ Cardinality(After(H, s)) \in Nat
      /\ IsFiniteSet(Before(H, s)) /\ Cardinality(Before(H, s)) \in Nat
    <2>1. Since(H, s) \subseteq H /\ After(H, s) \subseteq H /\ Before(H, s) \subseteq H
        BY DEF Since, After, Before
    <2> QED  BY <1>6, <2>1, PartsFinite
<1>8. IsFiniteSet(H2) /\ \A y \in H2 : y.at \in Nat /\ y.at <= now
    BY <1>6, FS_AddElement
<1>9. Cardinality(Since(H2, s)) \in Nat /\ Cardinality(Since(H2, s)) <= e.count
    <2>1. Since(H2, s) = Since(H, s) \cup {x} /\ x \notin Since(H, s)
        BY <1>5 DEF Since
    <2>2. Cardinality(Since(H2, s)) = Cardinality(Since(H, s)) + 1
        BY <1>7, <2>1, FS_AddElement
    <2> QED  BY <1>4, <1>5, <1>7, <2>2
<1>10. Cardinality(After(H2, s)) < e.count /\ Cardinality(After(H2, s)) < Limit
    <2>1. CASE s < now
        <3>1. After(H2, s) = After(H, s) \cup {x} /\ x \notin After(H, s)
            BY <2>1 DEF After
        <3>2. Cardinality(After(H2, s)) = Cardinality(After(H, s)) + 1
            BY <1>7, <3>1, FS_AddElement
        <3> QED  BY <1>4, <1>5, <1>7, <2>1, <3>2
    <2>2. CASE ~(s < now)
        <3>1. After(H2, s) = After(H, s)
            BY <2>2 DEF After
        <3> QED  BY <1>5, <3>1
    <2> QED  BY <2>1, <2>2
<1>11. Before(H2, s) = Before(H, s)
    BY <1>3, <1>5 DEF Before
<1>12. \A y \in H2 : y.at < e.resetAt
    BY <1>5
<1>13. InWindow(H2, e, now)
    <2>1. Cardinality(Since(H2, s)) <= Limit
        BY <1>4, <1>9
    <2> HIDE DEF H2
    <2> QED  BY <1>3, <1>5, <1>9, <1>10, <1>11, <1>12, <2>1 DEF InWindow
<1>14. ASSUME NEW t \in Nat PROVE Cardinality(During(H2, t)) < 2 * Limit
    <2>1. CASE t <= now /\ now < t + Window
        <3> HIDE DEF H2
        <3>1. During(H2, t) \subseteq Since(H2, s) \cup Before(H2, s)
            <4> SUFFICES ASSUME NEW y \in H2, t <= y.at, y.at < t + Window, ~(s <= y.at)
                         PROVE  y.at < s /\ s < y.at + Window
                BY DEF During, Since, Before
            <4>1. y.at \in Nat
                BY <1>8
            <4> QED  BY <1>4, <1>5, <2>1, <4>1
        <3>2. Since(H2, s) \subseteq H2 /\ Before(H2, s) \subseteq H2
            BY DEF Since, Before
        <3>3. IsFiniteSet(Since(H2, s)) /\ IsFiniteSet(Before(H2, s))
            BY <1>8, <3>2, PartsFinite
        <3>4. /\ IsFiniteSet(Since(H2, s) \cup Before(H2, s))
              /\ Cardinality(Since(H2, s) \cup Before(H2, s))
                     = Cardinality(Since(H2, s)) + Cardinality(Before(H2, s))
                           - Cardinality(Since(H2, s) \cap Before(H2, s))
            BY <3>3, FS_Union
        <3>5. Cardinality(Since(H2, s) \cap Before(H2, s)) \in Nat
            BY <3>3, FS_Subset, FS_CardinalityType
        <3>6. /\ Cardinality(During(H2, t)) \in Nat
              /\ Cardinality(Since(H2, s) \cup Before(H2, s)) \in Nat
              /\ Cardinality(During(H2, t)) <= Cardinality(Since(H2, s) \cup Before(H2, s))
            BY <3>1, <3>4, PartsFinite
        <3>7. /\ Cardinality(Before(H2, s)) \in Nat /\ Cardinality(Before(H2, s)) < Limit
              /\ Cardinality(Since(H2, s)) \in Nat /\ Cardinality(Since(H2, s)) <= Limit
            BY <1>4, <1>5, <1>7, <1>9, <1>11
        <3> QED  BY <1>4, <3>4, <3>5, <3>6, <3>7
    <2>2. CASE ~(t <= now /\ now < t + Window)
        <3>1. During(H2, t) = During(H, t)
            BY <2>2 DEF During
        <3> QED  BY <1>6, <3>1
    <2> QED  BY <2>1, <2>2
<1> HIDE DEF H2
<1>15. Windowed(H2, e, now)
    BY <1>2, <1>8, <1>13, <1>14 DEF Windowed
<1> QED  BY <1>2, <1>15 DEF H2

\* A client whose attempts are let through while there are places has them all.
LEMMA FilledAttempt ==
    ASSUME NEW H, NEW entry \in Entry \cup {None}, now \in Nat, WithinBound(entry),
           Windowed(H, entry, now), Filled(H, entry), NEW x, x \notin H, x.at = now
    PROVE  /\ Count(entry).count <= Limit => Filled(H \cup {x}, Count(entry))
           /\ ~(Count(entry).count <= Limit) => Filled(H, Count(entry))
<1>1. PICK e \in Entry : e = Count(entry)
    BY CountType
<1>2. Places(H, e, now)
    BY <1>1, AttemptPlaces
<1>3. PICK s \in Nat : s = e.resetAt - Window
    BY <1>2 DEF Places
<1>4. s <= now /\ Limit \in Nat \ {0} /\ Window \in Nat \ {0} /\ e.count \in Nat
    BY <1>2, <1>3, LimiterAssumption DEF Places, Entry
<1>5. IsFiniteSet(Since(H, s)) /\ Cardinality(Since(H, s)) \in Nat
    <2>1. Since(H, s) \subseteq H
        BY DEF Since
    <2> QED  BY <2>1, PartsFinite DEF Windowed
<1>6. Cardinality(Since(H \cup {x}, s)) = Cardinality(Since(H, s)) + 1
    <2>1. Since(H \cup {x}, s) = Since(H, s) \cup {x} /\ x \notin Since(H, s)
        BY <1>4 DEF Since
    <2> QED  BY <1>5, <2>1, FS_AddElement
<1>7. /\ e.count <= Limit => Cardinality(Since(H, s)) = e.count - 1
      /\ ~(e.count <= Limit) => Cardinality(Since(H, s)) = Limit
    <2>1. CASE Over(entry)
        <3>1. e.count = 1 /\ e.resetAt = now + Window
            BY <1>1, <2>1 DEF Count
        <3>2. s = now
            BY <1>3, <1>4, <3>1
        <3>3. Since(H, s) = {}
            BY <2>1, <3>2, NewWindow
        <3> QED  BY <1>4, <3>1, <3>3, FS_EmptySet
    <2>2. CASE ~Over(entry)
        <3>1. /\ entry # None /\ e.count = entry.count + 1 /\ e.resetAt = entry.resetAt
              /\ entry \in Entry
            BY <1>1, <2>2 DEF Count, Over
        <3>2. Cardinality(Since(H, s)) = IF entry.count <= Limit THEN entry.count ELSE Limit
            BY <1>3, <3>1 DEF Filled
        <3>3. entry.count \in Nat
            BY <3>1, LimiterAssumption DEF Entry
        <3> QED  BY <1>4, <3>1, <3>2, <3>3
    <2> QED  BY <2>1, <2>2
<1> QED  BY <1>1, <1>3, <1>4, <1>5, <1>6, <1>7 DEF Filled

LEMMA TimePasses ==
    ASSUME NEW H, NEW entry \in Entry \cup {None}, NEW t \in Nat, NEW u \in Nat, t <= u,
           Windowed(H, entry, t)
    PROVE  Windowed(H, entry, u)
<1>1. \A x \in H : x.at \in Nat /\ x.at <= u
    BY DEF Windowed
<1>2. ASSUME entry # None PROVE InWindow(H, entry, u)
    <2>1. entry.resetAt \in Nat /\ Window \in Nat /\ InWindow(H, entry, t)
        BY <1>2, LimiterAssumption DEF Entry, Windowed
    <2>2. entry.resetAt - Window <= u
        BY <2>1 DEF InWindow
    <2> QED  BY <2>1, <2>2 DEF InWindow
<1> QED  BY <1>1, <1>2 DEF Windowed

LEMMA NobodyYet ==
    ASSUME NEW t
    PROVE  Windowed({}, None, t) /\ Filled({}, None) /\ PromisedBy(None, None)
<1>1. \A u \in Nat : During({}, u) = {}
    BY DEF During
<1> QED  BY <1>1, FS_EmptySet, LimiterAssumption DEF Windowed, Filled, PromisedBy

-----------------------------------------------------------------------------
(* The actions.                                                            *)

\* The next request has a number of its own.
LEMMA PassNumbers ==
    ASSUME Numbered(passed), passed \in SUBSET Passage, now \in Times,
           NEW route \in Routes, NEW peer \in Peers, Pass(route, peer)
    PROVE  \E x \in Passage :
               /\ x.route = route /\ x.peer = peer /\ x.at = now
               /\ x \notin passed /\ passed' = passed \cup {x} /\ waiting' = waiting \cup {x}
               /\ Numbered(passed')
<1> DEFINE before == {y \in passed : y.route = route /\ y.peer = peer /\ y.at = now}
           x == [route |-> route, peer |-> peer, at |-> now, nth |-> Cardinality(before)]
<1>1. passed' = passed \cup {x} /\ waiting' = waiting \cup {x}
    BY DEF Pass
<1>2. IsFiniteSet(passed) /\ \A y \in passed : y.nth < Cardinality(Group(passed, y))
    BY DEF Numbered
<1>3. IsFiniteSet(before) /\ Cardinality(before) \in Nat
    BY <1>2, FS_Subset, FS_CardinalityType
<1>4. /\ x \in Passage /\ x.nth = Cardinality(before)
      /\ x.route = route /\ x.peer = peer /\ x.at = now
    BY <1>3 DEF Passage
<1> HIDE DEF x
<1>5. Group(passed, x) = before
    BY <1>4 DEF Group
<1>6. x \notin passed
    <2> SUFFICES ASSUME x \in passed PROVE FALSE
        OBVIOUS
    <2>1. Cardinality(before) < Cardinality(before)
        BY <1>2, <1>4, <1>5
    <2> QED  BY <1>3, <2>1
<1>7. IsFiniteSet(passed')
    BY <1>1, <1>2, FS_AddElement
<1>8. ASSUME NEW y \in passed' PROVE y.nth < Cardinality(Group(passed', y))
    <2>1. CASE y.route = x.route /\ y.peer = x.peer /\ y.at = x.at
        <3>1. Group(passed', y) = before \cup {x} /\ x \notin before
            BY <1>1, <1>4, <1>6, <2>1 DEF Group
        <3>2. Cardinality(Group(passed', y)) = Cardinality(before) + 1
            BY <1>3, <3>1, FS_AddElement
        <3>3. y = x \/ y.nth < Cardinality(before)
            <4>1. y = x \/ y \in passed
                BY <1>1
            <4>2. Group(passed, y) = before
                BY <1>4, <2>1 DEF Group
            <4> QED  BY <1>2, <4>1, <4>2
        <3>4. y \in Passage
            BY <1>1, <1>4
        <3>5. y.nth \in Nat
            BY <3>4 DEF Passage
        <3> QED  BY <1>3, <1>4, <3>2, <3>3, <3>5
    <2>2. CASE ~(y.route = x.route /\ y.peer = x.peer /\ y.at = x.at)
        <3>1. y \in passed /\ Group(passed', y) = Group(passed, y)
            BY <1>1, <2>2 DEF Group
        <3> QED  BY <1>2, <3>1
    <2> QED  BY <2>1, <2>2
<1>9. Numbered(passed')
    BY <1>7, <1>8 DEF Numbered
<1> QED  BY <1>1, <1>4, <1>6, <1>9

LEMMA PeerFacts ==
    ASSUME Inv, NEW route \in Routes, NEW peer \in Peers
    PROVE  /\ peerAttempts[<<route, peer>>] \in Entry \cup {None}
           /\ Windowed(OfPeer(route, peer), peerAttempts[<<route, peer>>], now)
           /\ now \in Nat
<1>1. <<route, peer>> \in Routes \X Peers
    OBVIOUS
<1>2. peerAttempts[<<route, peer>>] \in Entry \cup {None} /\ now \in Nat
    BY <1>1 DEF Inv, TypeOK, Times
<1> QED  BY <1>2 DEF Inv

LEMMA ClientFacts ==
    ASSUME Inv, NEW route \in Routes, NEW client \in Clients
    PROVE  /\ verificationAttempts[<<route, client>>] \in Entry \cup {None}
           /\ Windowed(OfClient(route, client), verificationAttempts[<<route, client>>], now)
           /\ Filled(OfClient(route, client), verificationAttempts[<<route, client>>])
           /\ PromisedBy(promised[<<route, client>>], verificationAttempts[<<route, client>>])
           /\ <<route, client>> \in Keys
<1>1. <<route, client>> \in Keys
    BY DEF Keys
<1>2. verificationAttempts[<<route, client>>] \in Entry \cup {None}
    BY <1>1 DEF Inv, TypeOK
<1> QED  BY <1>1, <1>2 DEF Inv

\* What a step leaves alone of the sockets' side, and of the clients'.
LEMMA PeersSame ==
    ASSUME Inv, peerAttempts' = peerAttempts, passed' = passed, now' = now
    PROVE  \A ro \in Routes, pe \in Peers :
               Windowed(OfPeer(ro, pe)', peerAttempts'[<<ro, pe>>], now')
<1>1. \A ro, pe : OfPeer(ro, pe)' = OfPeer(ro, pe)
    BY DEF OfPeer
<1> QED  BY <1>1, PeerFacts

\* What the invariant says of a client.
ClientHolds(ro, cl, H, attempts, promise, time) ==
    LET entry == attempts[<<ro, cl>>]
    IN  /\ Windowed(H, entry, time) /\ Filled(H, entry)
        /\ PromisedBy(promise[<<ro, cl>>], entry)

LEMMA ClientsSame ==
    ASSUME Inv, verificationAttempts' = verificationAttempts, admitted' = admitted,
           promised' = promised, now' = now
    PROVE  \A ro \in Routes, cl \in Clients :
               ClientHolds(ro, cl, OfClient(ro, cl)', verificationAttempts', promised', now')
<1>1. \A ro, cl : OfClient(ro, cl)' = OfClient(ro, cl)
    BY DEF OfClient
<1> QED  BY <1>1, ClientFacts DEF ClientHolds

LEMMA ArriveInv ==
    ASSUME Inv, NEW route \in Routes, NEW peer \in Peers, Arrive(route, peer)
    PROVE  Inv'
<1>1. PICK e \in Entry \cup {None} : e = peerAttempts[<<route, peer>>]
    BY PeerFacts
<1>2. /\ WithinBound(e) /\ peerAttempts' = [peerAttempts EXCEPT ![<<route, peer>>] = Count(e)]
      /\ \/ Count(e).count <= Limit /\ Pass(route, peer)
         \/ passed' = passed /\ waiting' = waiting
      /\ now' = now /\ restarts' = restarts /\ verificationAttempts' = verificationAttempts
      /\ admitted' = admitted /\ promised' = promised
    BY <1>1 DEF Arrive, Allowed
<1>3. /\ now \in Nat /\ now \in Times /\ Windowed(OfPeer(route, peer), e, now)
      /\ peerAttempts \in [Routes \X Peers -> Entry \cup {None}]
      /\ Numbered(passed) /\ passed \in SUBSET Passage /\ waiting \subseteq passed
      /\ AdmittedOnce
    BY <1>1, PeerFacts DEF Inv, TypeOK
<1>4. Count(e) \in Entry
    BY <1>2, <1>3, CountType
<1>5. \/ /\ Count(e).count <= Limit
         /\ \E x \in Passage :
                /\ x.route = route /\ x.peer = peer /\ x.at = now
                /\ x \notin passed /\ passed' = passed \cup {x} /\ waiting' = waiting \cup {x}
                /\ Numbered(passed')
      \/ passed' = passed /\ waiting' = waiting
    BY <1>2, <1>3, PassNumbers
<1>6. /\ passed' \in SUBSET Passage /\ waiting' \in SUBSET passed' /\ Numbered(passed')
      /\ AdmittedOnce'
    BY <1>2, <1>3, <1>5 DEF AdmittedOnce
<1>7. peerAttempts' \in [Routes \X Peers -> Entry \cup {None}]
    BY <1>2, <1>3, <1>4
<1>8. TypeOK'
    BY <1>2, <1>6, <1>7 DEF Inv, TypeOK
<1>9. Windowed(OfPeer(route, peer)', Count(e), now)
    <2>1. CASE passed' = passed
        <3>1. OfPeer(route, peer)' = OfPeer(route, peer)
            BY <2>1 DEF OfPeer
        <3> QED  BY <1>2, <1>3, <3>1, TurnedAway
    <2>2. CASE passed' # passed
        <3>1. PICK x : /\ x \notin passed /\ passed' = passed \cup {x}
                       /\ x.route = route /\ x.peer = peer /\ x.at = now
                       /\ Count(e).count <= Limit
            BY <1>5, <2>2
        <3>2. OfPeer(route, peer)' = OfPeer(route, peer) \cup {x}
            BY <3>1 DEF OfPeer
        <3>3. x \notin OfPeer(route, peer)
            BY <3>1 DEF OfPeer
        <3> QED  BY <1>2, <1>3, <3>1, <3>2, <3>3, LetThrough
    <2> QED  BY <2>1, <2>2
<1>10. ASSUME NEW ro \in Routes, NEW pe \in Peers
       PROVE  Windowed(OfPeer(ro, pe)', peerAttempts'[<<ro, pe>>], now')
    <2>1. CASE ro = route /\ pe = peer
        BY <1>2, <1>3, <1>9, <2>1
    <2>2. CASE ~(ro = route /\ pe = peer)
        <3>1. peerAttempts'[<<ro, pe>>] = peerAttempts[<<ro, pe>>]
            BY <1>2, <1>3, <2>2
        <3>2. OfPeer(ro, pe)' = OfPeer(ro, pe)
            BY <1>5, <2>2 DEF OfPeer
        <3> QED  BY <1>2, <3>1, <3>2, PeerFacts
    <2> QED  BY <2>1, <2>2
<1>11. \A ro \in Routes, cl \in Clients :
           ClientHolds(ro, cl, OfClient(ro, cl)', verificationAttempts', promised', now')
    BY <1>2, ClientsSame
<1> QED  BY <1>6, <1>8, <1>10, <1>11 DEF Inv, ClientHolds

LEMMA BodyRefusedInv == ASSUME Inv, NEW x \in waiting, BodyRefused(x) PROVE Inv'
<1>1. /\ waiting' = waiting \ {x} /\ now' = now /\ restarts' = restarts
      /\ peerAttempts' = peerAttempts /\ verificationAttempts' = verificationAttempts
      /\ passed' = passed /\ admitted' = admitted /\ promised' = promised
    BY DEF BodyRefused, history
<1>2. TypeOK' /\ Numbered(passed') /\ AdmittedOnce'
    BY <1>1 DEF Inv, TypeOK, AdmittedOnce
<1> QED  BY <1>1, <1>2, PeersSame, ClientsSame DEF Inv, ClientHolds

LEMMA VerifyRequestInv ==
    ASSUME Inv, NEW x \in waiting, NEW client \in Clients, VerifyRequest(x, client)
    PROVE  Inv'
<1> DEFINE route == x.route
           key == <<route, client>>
           y == [client |-> client, at |-> now, by |-> x]
<1>1. /\ x \in passed /\ x \in Passage /\ route \in Routes
      /\ now \in Nat /\ now \in Times /\ key \in Keys
      /\ admitted \in SUBSET Admission
      /\ verificationAttempts \in [Keys -> Entry \cup {None}]
      /\ promised \in [Keys -> Nat \cup {None}]
    BY DEF Inv, TypeOK, Times, Keys, Passage
<1>2. PICK old \in Entry \cup {None} : old = verificationAttempts[key]
    BY <1>1
<1>3. PICK entry : entry = Count(old)
    OBVIOUS
<1>4. /\ WithinBound(old)
      /\ verificationAttempts' = [verificationAttempts EXCEPT ![key] = entry]
      /\ \/ /\ entry.count <= Limit /\ admitted' = admitted \cup {y}
            /\ promised' = [promised EXCEPT ![key] = None]
         \/ /\ ~(entry.count <= Limit) /\ admitted' = admitted
            /\ promised' = [promised EXCEPT ![key] = now + RetryAfter(entry) * Second]
      /\ waiting' = waiting \ {x} /\ passed' = passed
      /\ now' = now /\ restarts' = restarts /\ peerAttempts' = peerAttempts
    BY <1>2, <1>3 DEF VerifyRequest, Allowed
<1>5. entry \in Entry /\ entry # None /\ entry.resetAt > now
    BY <1>1, <1>3, <1>4, CountType
<1>6. /\ RetryAfter(entry) \in Nat
      /\ entry.resetAt <= now + RetryAfter(entry) * Second
      /\ now + RetryAfter(entry) * Second < entry.resetAt + Second
    BY <1>1, <1>5, RetryAfterBounds
<1>7. now + RetryAfter(entry) * Second \in Nat
    BY <1>1, <1>6, LimiterAssumption
<1>8. /\ y \in Admission /\ y.by = x /\ y.client = client /\ y.at = now
      /\ y \notin admitted
    BY <1>1 DEF Inv, AdmittedOnce, Admission
<1> HIDE DEF y
<1>9. admitted' \in SUBSET Admission /\ AdmittedOnce'
    BY <1>1, <1>4, <1>8 DEF Inv, AdmittedOnce
<1>10. TypeOK' /\ Numbered(passed')
    <2>1. verificationAttempts' \in [Keys -> Entry \cup {None}]
        BY <1>1, <1>4, <1>5
    <2>2. promised' \in [Keys -> Nat \cup {None}]
        BY <1>1, <1>4, <1>7
    <2> HIDE DEF key
    <2> QED  BY <1>4, <1>9, <2>1, <2>2 DEF Inv, TypeOK
<1>11. Windowed(OfClient(route, client), old, now) /\ Filled(OfClient(route, client), old)
    BY <1>1, <1>2, ClientFacts
<1>12. /\ Windowed(OfClient(route, client)', entry, now')
       /\ Filled(OfClient(route, client)', entry)
    <2>1. y \notin OfClient(route, client)
        BY <1>8 DEF OfClient
    <2>2. CASE entry.count <= Limit
        <3>1. admitted' = admitted \cup {y}
            BY <1>4, <2>2
        <3>2. OfClient(route, client)' = OfClient(route, client) \cup {y}
            BY <1>8, <3>1 DEF OfClient
        <3>3. Windowed(OfClient(route, client) \cup {y}, entry, now)
            BY <1>1, <1>3, <1>4, <1>8, <1>11, <2>1, <2>2, LetThrough
        <3>4. Filled(OfClient(route, client) \cup {y}, entry)
            BY <1>1, <1>3, <1>4, <1>8, <1>11, <2>1, <2>2, FilledAttempt
        <3> QED  BY <1>4, <3>2, <3>3, <3>4
    <2>3. CASE ~(entry.count <= Limit)
        <3>1. OfClient(route, client)' = OfClient(route, client)
            BY <1>4, <2>3 DEF OfClient
        <3>2. Windowed(OfClient(route, client), entry, now)
            BY <1>1, <1>3, <1>4, <1>11, TurnedAway
        <3>3. Filled(OfClient(route, client), entry)
            BY <1>1, <1>3, <1>4, <1>8, <1>11, <2>1, <2>3, FilledAttempt
        <3> QED  BY <1>4, <3>1, <3>2, <3>3
    <2> QED  BY <2>2, <2>3
<1>13. verificationAttempts'[key] = entry /\ PromisedBy(promised'[key], entry)
    <2>1. verificationAttempts'[key] = entry
        BY <1>1, <1>4
    <2>2. CASE entry.count <= Limit
        <3>1. promised'[key] = None
            BY <1>1, <1>4, <2>2
        <3> QED  BY <2>1, <3>1 DEF PromisedBy
    <2>3. CASE ~(entry.count <= Limit)
        <3>1. promised'[key] = now + RetryAfter(entry) * Second
            BY <1>1, <1>4, <2>3
        <3>2. entry.count > Limit
            BY <1>5, <2>3, LimiterAssumption DEF Entry
        <3> QED  BY <1>5, <1>6, <2>1, <3>1, <3>2 DEF PromisedBy
    <2> QED  BY <2>2, <2>3
<1>14. ASSUME NEW ro \in Routes, NEW cl \in Clients, ~(ro = route /\ cl = client)
       PROVE  /\ verificationAttempts'[<<ro, cl>>] = verificationAttempts[<<ro, cl>>]
              /\ promised'[<<ro, cl>>] = promised[<<ro, cl>>]
              /\ OfClient(ro, cl)' = OfClient(ro, cl)
    <2>1. <<ro, cl>> \in Keys /\ <<ro, cl>> # key
        BY <1>14 DEF Keys
    <2>2. OfClient(ro, cl)' = OfClient(ro, cl)
        BY <1>4, <1>8, <1>14 DEF OfClient
    <2> HIDE DEF key
    <2> QED  BY <1>1, <1>4, <2>1, <2>2
<1>15. ASSUME NEW ro \in Routes, NEW cl \in Clients
       PROVE  ClientHolds(ro, cl, OfClient(ro, cl)', verificationAttempts', promised', now')
    <2>1. CASE ro = route /\ cl = client
        BY <1>12, <1>13, <2>1 DEF ClientHolds
    <2>2. CASE ~(ro = route /\ cl = client)
        BY <1>4, <1>14, <2>2, ClientFacts DEF ClientHolds
    <2> QED  BY <2>1, <2>2
<1> QED  BY <1>4, <1>9, <1>10, <1>15, PeersSame DEF Inv, ClientHolds

LEMMA TickInv == ASSUME Inv, Tick PROVE Inv'
<1>1. now' = now + 1 /\ now' \in Times /\ now \in Nat /\ now' \in Nat /\ now <= now'
    BY LimiterAssumption DEF Tick, Inv, TypeOK, Times
<1>2. /\ restarts' = restarts /\ peerAttempts' = peerAttempts
      /\ verificationAttempts' = verificationAttempts
      /\ waiting' = waiting /\ passed' = passed
      /\ admitted' = admitted /\ promised' = promised
    BY DEF Tick, history
<1>3. TypeOK' /\ Numbered(passed') /\ AdmittedOnce'
    BY <1>1, <1>2 DEF Inv, TypeOK, AdmittedOnce
<1>4. ASSUME NEW ro \in Routes, NEW pe \in Peers
      PROVE  Windowed(OfPeer(ro, pe)', peerAttempts'[<<ro, pe>>], now')
    <2>1. OfPeer(ro, pe)' = OfPeer(ro, pe)
        BY <1>2 DEF OfPeer
    <2>2. Windowed(OfPeer(ro, pe), peerAttempts[<<ro, pe>>], now')
        BY <1>1, PeerFacts, TimePasses
    <2> QED  BY <1>2, <2>1, <2>2
<1>5. ASSUME NEW ro \in Routes, NEW cl \in Clients
      PROVE  LET entry == verificationAttempts'[<<ro, cl>>]
                 H == OfClient(ro, cl)'
             IN  /\ Windowed(H, entry, now') /\ Filled(H, entry)
                 /\ PromisedBy(promised'[<<ro, cl>>], entry)
    <2>1. OfClient(ro, cl)' = OfClient(ro, cl)
        BY <1>2 DEF OfClient
    <2>2. Windowed(OfClient(ro, cl), verificationAttempts[<<ro, cl>>], now')
        BY <1>1, ClientFacts, TimePasses
    <2> QED  BY <1>2, <2>1, <2>2, ClientFacts
<1> QED  BY <1>3, <1>4, <1>5 DEF Inv

LEMMA EmptyTables ==
    /\ Empty(Routes \X Peers) \in [Routes \X Peers -> Entry \cup {None}]
    /\ Empty(Keys) \in [Keys -> Entry \cup {None}]
    /\ Empty(Keys) \in [Keys -> Nat \cup {None}]
    /\ \A route \in Routes, peer \in Peers : Empty(Routes \X Peers)[<<route, peer>>] = None
    /\ \A route \in Routes, client \in Clients : Empty(Keys)[<<route, client>>] = None
    /\ Numbered({})
BY FS_EmptySet DEF Empty, Keys, Numbered

\* Empty tables and histories, whatever the time.
LEMMA EmptyInv ==
    ASSUME peerAttempts = Empty(Routes \X Peers), verificationAttempts = Empty(Keys),
           waiting = {}, passed = {}, admitted = {}, promised = Empty(Keys), now \in Times,
           restarts \in 0..MaxRestarts
    PROVE  Inv
<1>1. TypeOK /\ Numbered(passed) /\ AdmittedOnce
    BY EmptyTables DEF TypeOK, AdmittedOnce
<1>2. \A ro, pe : OfPeer(ro, pe) = {}
    BY DEF OfPeer
<1>3. \A ro, cl : OfClient(ro, cl) = {}
    BY DEF OfClient
<1> QED  BY <1>1, <1>2, <1>3, EmptyTables, NobodyYet DEF Inv

LEMMA InitInv == Init => Inv
<1>1. Init => now \in Times /\ restarts \in 0..MaxRestarts
    BY LimiterAssumption DEF Init, Times
<1> QED  BY <1>1, EmptyInv DEF Init

LEMMA RestartInv == ASSUME Inv, Restart PROVE Inv'
<1>1. restarts' \in 0..MaxRestarts /\ now' \in Times
    BY LimiterAssumption DEF Restart, Inv, TypeOK
<1>2. TypeOK' /\ Numbered(passed') /\ AdmittedOnce'
    BY <1>1, EmptyTables DEF Restart, TypeOK, AdmittedOnce
<1>3. /\ \A ro, pe : OfPeer(ro, pe)' = {}
      /\ \A ro, cl : OfClient(ro, cl)' = {}
    BY DEF Restart, OfPeer, OfClient
<1>4. /\ peerAttempts' = Empty(Routes \X Peers) /\ verificationAttempts' = Empty(Keys)
      /\ promised' = Empty(Keys)
    BY DEF Restart
<1> QED  BY <1>2, <1>3, <1>4, EmptyTables, NobodyYet DEF Inv

LEMMA NextInv == Inv /\ [Next]_vars => Inv'
<1> SUFFICES ASSUME Inv, [Next]_vars PROVE Inv'
    OBVIOUS
<1>1. CASE UNCHANGED vars
    BY <1>1 DEF vars, history, Inv, TypeOK, AdmittedOnce, OfPeer, OfClient
<1> QED  BY <1>1, ArriveInv, BodyRefusedInv, VerifyRequestInv, TickInv, RestartInv DEF Next

-----------------------------------------------------------------------------
(* The theorems.                                                           *)

LEMMA InvImplies ==
    Inv => BurstsBounded /\ RefusedOnlyWhenSpent /\ RetryAfterHonest /\ ForwardingGainsNothing
<1> SUFFICES ASSUME Inv
             PROVE  BurstsBounded /\ RefusedOnlyWhenSpent /\ RetryAfterHonest
                    /\ ForwardingGainsNothing
    OBVIOUS
<1>1. \A H, t : CountedFrom(H, t) = Cardinality(During(H, t))
    BY DEF CountedFrom, During
<1>2. \A t \in Times : t \in Nat
    BY DEF Times
<1>3. BurstsBounded
    BY <1>1, <1>2, ClientFacts DEF BurstsBounded, Windowed
<1>4. ForwardingGainsNothing
    <2> SUFFICES ASSUME NEW route \in Routes, NEW peer \in Peers, NEW t \in Nat
                 PROVE  Cardinality(During(AdmittedOfPeer(route, peer), t)) < 2 * Limit
        BY <1>1, <1>2 DEF ForwardingGainsNothing
    <2>1. /\ IsFiniteSet(OfPeer(route, peer))
          /\ Cardinality(During(OfPeer(route, peer), t)) < 2 * Limit
        BY PeerFacts DEF Windowed
    <2>2. /\ During(AdmittedOfPeer(route, peer), t) \subseteq During(OfPeer(route, peer), t)
          /\ During(OfPeer(route, peer), t) \subseteq OfPeer(route, peer)
        BY DEF AdmittedOfPeer, During
    <2>3. /\ Cardinality(During(AdmittedOfPeer(route, peer), t)) \in Nat
          /\ Cardinality(During(OfPeer(route, peer), t)) \in Nat
          /\ Cardinality(During(AdmittedOfPeer(route, peer), t))
                 <= Cardinality(During(OfPeer(route, peer), t))
        BY <2>1, <2>2, PartsFinite
    <2> QED  BY <2>1, <2>3, LimiterAssumption
<1>5. ASSUME NEW route \in Routes, NEW client \in Clients, promised[<<route, client>>] # None
      PROVE  LET entry == verificationAttempts[<<route, client>>]
             IN  /\ entry # None
                 /\ CountedFrom(OfClient(route, client), entry.resetAt - Window) = Limit
    <2>1. PICK entry \in Entry \cup {None} : entry = verificationAttempts[<<route, client>>]
        BY ClientFacts
    <2>2. PICK H : H = OfClient(route, client)
        OBVIOUS
    <2>3. entry # None /\ entry.count > Limit
        BY <1>5, <2>1, ClientFacts DEF PromisedBy
    <2>4. InWindow(H, entry, now) /\ Filled(H, entry) /\ \A x \in H : x.at \in Nat
        BY <2>1, <2>2, <2>3, ClientFacts DEF Windowed
    <2>5. /\ entry.resetAt \in Nat /\ Window \in Nat /\ Limit \in Nat /\ entry.count \in Nat
          /\ Window <= entry.resetAt /\ \A x \in H : x.at < entry.resetAt
        BY <2>3, <2>4, LimiterAssumption DEF InWindow, Entry
    <2>6. During(H, entry.resetAt - Window) = Since(H, entry.resetAt - Window)
        BY <2>4, <2>5 DEF During, Since
    <2>7. Cardinality(Since(H, entry.resetAt - Window)) = Limit
        BY <2>3, <2>4, <2>5 DEF Filled
    <2> QED  BY <1>1, <2>1, <2>2, <2>3, <2>6, <2>7
<1>6. ASSUME NEW key \in Keys, promised[key] # None
      PROVE  LET resetAt == verificationAttempts[key].resetAt
             IN  resetAt <= promised[key] /\ promised[key] < resetAt + Second
    <2>1. PICK route \in Routes, client \in Clients : key = <<route, client>>
        BY DEF Keys
    <2> QED  BY <1>6, <2>1, ClientFacts DEF PromisedBy
<1>7. RefusedOnlyWhenSpent
    BY <1>5 DEF RefusedOnlyWhenSpent
<1>8. RetryAfterHonest
    BY <1>6 DEF RetryAfterHonest
<1> QED  BY <1>3, <1>4, <1>7, <1>8

\* Whatever attempts and restarts come, entries and histories agree.
THEOREM LimiterStaysCoherent == Spec => []Inv
BY InitInv, NextInv, PTL DEF Spec

\* Entries count at least one attempt, and requests let through are of known
\* addresses and instants.
THEOREM LimiterTypeCorrect == Spec => []TypeOK
BY LimiterStaysCoherent, PTL DEF Inv

\* For any limit, window and pattern of attempts, one address gets fewer than twice
\* the limit through in any stretch of time as long as a window.
THEOREM BurstsStayBounded == Spec => []BurstsBounded
BY LimiterStaysCoherent, InvImplies, PTL

\* A refused address has had its whole limit in the window that refuses it.
THEOREM RefusalsAreDeserved == Spec => []RefusedOnlyWhenSpent
BY LimiterStaysCoherent, InvImplies, PTL

\* For any window and any unit of time, the retry time a refusal names is neither
\* before the end of the running window nor a whole unit after it.
THEOREM RetryAfterIsHonest == Spec => []RetryAfterHonest
BY LimiterStaysCoherent, InvImplies, PTL

\* Whatever forwarded addresses a socket names and however long it holds its bodies
\* back: of the requests it makes of a route in any stretch of time as long as a
\* window, fewer than twice the limit are ever let through.
THEOREM SocketsStayBounded == Spec => []ForwardingGainsNothing
BY LimiterStaysCoherent, InvImplies, PTL
=============================================================================
