-------------------------- MODULE SessionPoolProofs --------------------------
(***************************************************************************)
(* Proofs about SessionPool, and that it implements SessionCache, for      *)
(* every set of users, TTLs and caps.                                      *)
(***************************************************************************)
EXTENDS SessionPool, FiniteSetTheorems, WellFoundedInduction, TLAPS

\* `older` is the order of an OrderedDict: strict and total on the users that have a
\* session.  Every operation on it gives such an order again, whatever the cap.
Ordered(p) ==
    /\ \A u \in Present(p) : <<u, u>> \notin p.older
    /\ \A u, v \in Present(p) :
         u # v => (<<u, v>> \in p.older <=> <<v, u>> \notin p.older)
    /\ \A u, v, w \in Present(p) :
         <<u, v>> \in p.older /\ <<v, w>> \in p.older => <<u, w>> \in p.older

Aged(p, now) ==
    /\ \A u \in Present(p) :
         /\ p.sessions[u].obj <= p.sessions[u].last_active_at
         /\ p.sessions[u].last_active_at <= now
    /\ \A u, v \in Present(p) :
         <<u, v>> \in p.older =>
            p.sessions[u].last_active_at <= p.sessions[v].last_active_at

WellFormed(p, now) == IsPool(p) /\ Ordered(p) /\ Aged(p, now)

\* The inductive invariant: the type, the order and the cap together.  The cap
\* needs the order (trimming counts along it), the order needs the ages.
IInv ==
    /\ clock \in 0..MaxTime
    /\ WellFormed(pool, clock)
    /\ CapRespected

-----------------------------------------------------------------------------
\* A pool holds users only, and finitely many.
LEMMA PresentFinite ==
    ASSUME NEW p, IsPool(p)
    PROVE  /\ Present(p) \in SUBSET Users
           /\ p.sessions \in [Present(p) -> Sessions]
           /\ p.older \in SUBSET (Present(p) \X Present(p))
           /\ IsFiniteSet(Present(p))
           /\ Cardinality(Present(p)) \in Nat
<1>1. /\ Present(p) \in SUBSET Users
      /\ p.sessions \in [Present(p) -> Sessions]
      /\ p.older \in SUBSET (Present(p) \X Present(p))
  BY DEF IsPool
<1>2. IsFiniteSet(Present(p))
  BY <1>1, SessionPoolAssumption, FS_Subset
<1>. QED  BY <1>1, <1>2, FS_CardinalityType

\* A pool put together from parts of the right types is a pool.
LEMMA PoolType ==
    ASSUME NEW ttl \in Ttls, NEW max \in Caps, NEW S \in SUBSET Users,
           NEW f \in [S -> Sessions], NEW r \in SUBSET (S \X S)
    PROVE  /\ IsPool(Pool(ttl, max, f, r))
           /\ Present(Pool(ttl, max, f, r)) = S
<1>1. f \in UNION {[T -> Sessions] : T \in SUBSET Users}
  OBVIOUS
<1>2. r \in SUBSET (Users \X Users)
  OBVIOUS
<1>. QED  BY <1>1, <1>2 DEF Pool, IsPool, Present

\* Restricting a pool to some of its users keeps what is left well formed.
LEMMA KeepWellFormed ==
    ASSUME NEW now \in 0..MaxTime, NEW p, WellFormed(p, now),
           NEW K \in SUBSET Present(p)
    PROVE  /\ WellFormed(Keep(p, K), now)
           /\ Present(Keep(p, K)) = K
           /\ Keep(p, K).ttl_seconds = p.ttl_seconds
           /\ Keep(p, K).max_total = p.max_total
           /\ \A u \in K : Keep(p, K).sessions[u] = p.sessions[u]
           /\ Keep(p, K).older = p.older \cap (K \X K)
<1>. DEFINE q == Keep(p, K)
<1>1. IsPool(p) /\ Ordered(p) /\ Aged(p, now)
  BY DEF WellFormed
<1>2. Present(p) \in SUBSET Users /\ p.sessions \in [Present(p) -> Sessions]
  BY <1>1, PresentFinite
<1>3. Restrict(p.sessions, K) \in [K -> Sessions]
  BY <1>2 DEF Restrict
<1>4. p.ttl_seconds \in Ttls /\ p.max_total \in Caps
  BY <1>1 DEF IsPool
<1>5. IsPool(q) /\ Present(q) = K
  <2>1. K \in SUBSET Users /\ p.older \cap (K \X K) \in SUBSET (K \X K)
    BY <1>2
  <2>. DEFINE f == Restrict(p.sessions, K)
              r == p.older \cap (K \X K)
  <2>2. q = Pool(p.ttl_seconds, p.max_total, f, r)
    BY DEF Keep
  <2>3. f \in [K -> Sessions] /\ r \in SUBSET (K \X K)
    BY <1>3, <2>1
  <2>4. IsPool(Pool(p.ttl_seconds, p.max_total, f, r))
    <3>. HIDE DEF f, r
    <3>. QED  BY <1>4, <2>1, <2>3, PoolType
  <2>5. Present(Pool(p.ttl_seconds, p.max_total, f, r)) = K
    BY <2>3 DEF Present, Pool
  <2>. QED  BY <2>2, <2>4, <2>5
<1>6. /\ q.ttl_seconds = p.ttl_seconds
      /\ q.max_total = p.max_total
      /\ q.older = p.older \cap (K \X K)
      /\ \A u \in K : q.sessions[u] = p.sessions[u]
  BY DEF Keep, Pool, Restrict
<1>7. Ordered(q)
  BY <1>1, <1>5, <1>6 DEF Ordered
<1>8. Aged(q, now)
  BY <1>1, <1>5, <1>6 DEF Aged
<1>. QED  BY <1>5, <1>6, <1>7, <1>8 DEF WellFormed

\* New limits leave the sessions and their order as they are.
LEMMA LimitsWellFormed ==
    ASSUME NEW now \in 0..MaxTime, NEW p, WellFormed(p, now),
           NEW ttl \in Ttls, NEW max \in Caps
    PROVE  LET q == Pool(ttl, max, p.sessions, p.older)
           IN  /\ WellFormed(q, now)
               /\ Present(q) = Present(p)
               /\ q.ttl_seconds = ttl
               /\ q.max_total = max
               /\ q.sessions = p.sessions
               /\ q.older = p.older
<1>. DEFINE q == Pool(ttl, max, p.sessions, p.older)
<1>1. IsPool(p) /\ Ordered(p) /\ Aged(p, now)
  BY DEF WellFormed
<1>2. /\ Present(p) \in SUBSET Users
      /\ p.sessions \in [Present(p) -> Sessions]
      /\ p.older \in SUBSET (Present(p) \X Present(p))
  BY <1>1, PresentFinite
<1>3. IsPool(q) /\ Present(q) = Present(p)
  BY <1>2, PoolType
<1>4. /\ q.ttl_seconds = ttl
      /\ q.max_total = max
      /\ q.sessions = p.sessions
      /\ q.older = p.older
  BY DEF Pool
<1>5. Ordered(q) /\ Aged(q, now)
  BY <1>1, <1>3, <1>4 DEF Ordered, Aged
<1>. QED  BY <1>3, <1>4, <1>5 DEF WellFormed

\* Any nonempty set of users of the pool has an oldest member ...
LEMMA OldestExists ==
    ASSUME NEW p, IsPool(p), Ordered(p), NEW T \in SUBSET Present(p), T # {}
    PROVE  \E u \in T : \A v \in T \ {u} : <<u, v>> \in p.older
<1>. DEFINE Before(x) == {y \in Present(p) : <<y, x>> \in p.older}
            P == Present(p)
            F == {Before(x) : x \in T}
<1>1. IsFiniteSet(P)
  BY PresentFinite
<1>2. \A x \in T : Before(x) \in FiniteSubsetsOf(P)
  BY <1>1, FS_Subset DEF FiniteSubsetsOf
<1>3. IsWellFoundedOn(StrictSubsetOrdering(P), FiniteSubsetsOf(P))
  BY FS_StrictSubsetOrderingWellFounded
<1>4. F \subseteq FiniteSubsetsOf(P) /\ F # {}
  BY <1>2
<1>5. PICK X \in F : \A Y \in F : <<Y, X>> \notin StrictSubsetOrdering(P)
  <2>. HIDE DEF F, P
  <2>. QED  BY <1>3, <1>4, WFMin
<1>6. PICK u \in T : X = Before(u)
  OBVIOUS
<1>7. ASSUME NEW v \in T \ {u}, <<u, v>> \notin p.older
      PROVE  FALSE
  <2>1. <<v, u>> \in p.older
    BY <1>7 DEF Ordered
  <2>2. Before(v) \subseteq Before(u)
    BY <2>1 DEF Ordered
  <2>3. v \in Before(u) /\ v \notin Before(v)
    BY <2>1 DEF Ordered
  <2>4. <<Before(v), Before(u)>> \in StrictSubsetOrdering(P)
    BY <2>2, <2>3 DEF StrictSubsetOrdering
  <2>. QED  BY <1>5, <1>6, <2>4
<1>. QED  BY <1>7

\* ... and a newest one.
LEMMA NewestExists ==
    ASSUME NEW p, IsPool(p), Ordered(p), NEW T \in SUBSET Present(p), T # {}
    PROVE  \E u \in T : \A v \in T \ {u} : <<v, u>> \in p.older
<1>. DEFINE After(x) == {y \in Present(p) : <<x, y>> \in p.older}
            P == Present(p)
            F == {After(x) : x \in T}
<1>1. IsFiniteSet(P)
  BY PresentFinite
<1>2. \A x \in T : After(x) \in FiniteSubsetsOf(P)
  BY <1>1, FS_Subset DEF FiniteSubsetsOf
<1>3. IsWellFoundedOn(StrictSubsetOrdering(P), FiniteSubsetsOf(P))
  BY FS_StrictSubsetOrderingWellFounded
<1>4. F \subseteq FiniteSubsetsOf(P) /\ F # {}
  BY <1>2
<1>5. PICK X \in F : \A Y \in F : <<Y, X>> \notin StrictSubsetOrdering(P)
  <2>. HIDE DEF F, P
  <2>. QED  BY <1>3, <1>4, WFMin
<1>6. PICK u \in T : X = After(u)
  OBVIOUS
<1>7. ASSUME NEW v \in T \ {u}, <<v, u>> \notin p.older
      PROVE  FALSE
  <2>1. <<u, v>> \in p.older
    BY <1>7 DEF Ordered
  <2>2. After(v) \subseteq After(u)
    BY <2>1 DEF Ordered
  <2>3. v \in After(u) /\ v \notin After(v)
    BY <2>1 DEF Ordered
  <2>4. <<After(v), After(u)>> \in StrictSubsetOrdering(P)
    BY <2>2, <2>3 DEF StrictSubsetOrdering
  <2>. QED  BY <1>5, <1>6, <2>4
<1>. QED  BY <1>7

\* Newest(p, n) are n users (all, if fewer), and nobody outside it is newer
\* than somebody in it.
LEMMA NewestSize ==
    ASSUME NEW p, IsPool(p), Ordered(p), NEW n \in Nat
    PROVE  /\ Newest(p, n) \in SUBSET Present(p)
           /\ Cardinality(Newest(p, n)) \in Nat
           /\ Cardinality(Newest(p, n)) <= n
           /\ Newest(p, n) # Present(p) => Cardinality(Newest(p, n)) = n
           /\ \A u \in Present(p) \ Newest(p, n), v \in Newest(p, n) :
                <<u, v>> \in p.older
<1>. DEFINE After(x) == {y \in Present(p) : <<x, y>> \in p.older}
            N == Newest(p, n)
<1>1. IsFiniteSet(Present(p))
  BY PresentFinite
<1>2. \A x : /\ IsFiniteSet(After(x))
             /\ Cardinality(After(x)) \in Nat
  BY <1>1, FS_Subset, FS_CardinalityType
<1>3. /\ N \in SUBSET Present(p)
      /\ \A x \in Present(p) : x \in N <=> Cardinality(After(x)) < n
  BY DEF Newest
<1>4. IsFiniteSet(N) /\ Cardinality(N) \in Nat
  BY <1>1, <1>3, FS_Subset, FS_CardinalityType
<1>5. ASSUME NEW u \in Present(p) \ N, NEW v \in N
      PROVE  <<u, v>> \in p.older
  <2>1. SUFFICES ASSUME <<u, v>> \notin p.older
                 PROVE  FALSE
    OBVIOUS
  <2>2. <<v, u>> \in p.older
    BY <1>3, <1>5, <2>1 DEF Ordered
  <2>3. After(u) \in SUBSET After(v)
    BY <1>3, <2>2 DEF Ordered
  <2>4. Cardinality(After(u)) <= Cardinality(After(v))
    BY <1>2, <2>3, FS_Subset
  <2>5. Cardinality(After(v)) < n /\ ~ (Cardinality(After(u)) < n)
    BY <1>3
  <2>6. Cardinality(After(v)) \in Nat /\ Cardinality(After(u)) \in Nat
    BY <1>2
  <2>. HIDE DEF N, After
  <2>. QED  BY <2>4, <2>5, <2>6
<1>6. Cardinality(N) <= n
  <2>1. CASE N = {}
    BY <2>1, FS_EmptySet
  <2>2. CASE N # {}
    <3>1. PICK u \in N : \A v \in N \ {u} : <<u, v>> \in p.older
      BY <1>3, <2>2, OldestExists
    <3>2. N \in SUBSET (After(u) \cup {u})
      BY <1>3, <3>1
    <3>3. u \notin After(u)
      BY <1>3 DEF Ordered
    <3>4. /\ IsFiniteSet(After(u) \cup {u})
          /\ Cardinality(After(u) \cup {u}) = Cardinality(After(u)) + 1
      BY <1>2, <3>3, FS_AddElement
    <3>5. Cardinality(N) <= Cardinality(After(u) \cup {u})
      <4>. HIDE DEF N, After
      <4>. QED  BY <3>2, <3>4, FS_Subset
    <3>6. Cardinality(After(u)) < n /\ Cardinality(After(u)) \in Nat
      BY <1>2, <1>3
    <3>. HIDE DEF N, After
    <3>. QED  BY <1>4, <3>4, <3>5, <3>6
  <2>. QED  BY <2>1, <2>2
<1>7. ASSUME N # Present(p)
      PROVE  Cardinality(N) = n
  <2>. DEFINE Out == Present(p) \ N
  <2>1. Out \in SUBSET Present(p) /\ Out # {}
    BY <1>3, <1>7
  <2>2. PICK u \in Out : \A v \in Out \ {u} : <<v, u>> \in p.older
    <3>. HIDE DEF Out
    <3>. QED  BY <2>1, NewestExists
  <2>3. After(u) \in SUBSET N
    BY <2>2 DEF Ordered
  <2>4. Cardinality(After(u)) <= Cardinality(N)
    BY <1>4, <2>3, FS_Subset
  <2>5. ~ (Cardinality(After(u)) < n) /\ Cardinality(After(u)) \in Nat
    BY <1>2, <1>3, <2>2
  <2>. HIDE DEF N, After
  <2>. QED  BY <1>4, <1>6, <2>4, <2>5
<1>. QED  BY <1>3, <1>4, <1>5, <1>6, <1>7

\* Expiry keeps a pool well formed and adds nobody.
LEMMA EvictExpiredWellFormed ==
    ASSUME NEW now \in 0..MaxTime, NEW p, WellFormed(p, now)
    PROVE  LET q == EvictExpired(p, now)
           IN  /\ WellFormed(q, now)
               /\ Present(q) = Present(p) \ Expired(p, now)
               /\ q.ttl_seconds = p.ttl_seconds
               /\ q.max_total = p.max_total
               /\ \A u \in Present(q) : q.sessions[u] = p.sessions[u]
               /\ q.older = p.older \cap (Present(q) \X Present(q))
<1>1. Present(p) \ Expired(p, now) \in SUBSET Present(p)
  OBVIOUS
<1>. QED  BY <1>1, KeepWellFormed DEF EvictExpired

\* Trimming keeps a pool well formed and at most n users.
LEMMA TrimToWellFormed ==
    ASSUME NEW now \in 0..MaxTime, NEW p, WellFormed(p, now), NEW n \in Nat
    PROVE  LET q == TrimTo(p, n)
           IN  /\ WellFormed(q, now)
               /\ Present(q) = Newest(p, n)
               /\ Cardinality(Present(q)) <= n
               /\ q.ttl_seconds = p.ttl_seconds
               /\ q.max_total = p.max_total
               /\ \A u \in Present(q) : q.sessions[u] = p.sessions[u]
<1>1. IsPool(p) /\ Ordered(p)
  BY DEF WellFormed
<1>2. Newest(p, n) \in SUBSET Present(p) /\ Cardinality(Newest(p, n)) <= n
  BY <1>1, NewestSize
<1>. QED  BY <1>2, KeepWellFormed DEF TrimTo

\* Putting a session used just now at the end keeps a pool well formed.
LEMMA PutLastWellFormed ==
    ASSUME NEW now \in 0..MaxTime, NEW p, WellFormed(p, now), NEW u \in Users,
           NEW s \in Sessions, s.last_active_at = now, s.obj <= now
    PROVE  LET q == PutLast(p, u, s)
           IN  /\ WellFormed(q, now)
               /\ Present(q) = Present(p) \cup {u}
               /\ q.ttl_seconds = p.ttl_seconds
               /\ q.max_total = p.max_total
               /\ q.sessions[u] = s
               /\ \A v \in Present(p) \ {u} : q.sessions[v] = p.sessions[v]
<1>. DEFINE q == PutLast(p, u, s)
            S == Present(p) \cup {u}
            o == Present(p) \ {u}
            f == [v \in S |-> IF v = u THEN s ELSE p.sessions[v]]
            r == (p.older \cap (o \X o)) \cup (o \X {u})
<1>1. IsPool(p) /\ Ordered(p) /\ Aged(p, now)
  BY DEF WellFormed
<1>2. Present(p) \in SUBSET Users /\ p.sessions \in [Present(p) -> Sessions]
  BY <1>1, PresentFinite
<1>3. /\ S \in SUBSET Users
      /\ f \in [S -> Sessions]
      /\ r \in SUBSET (S \X S)
  BY <1>2
<1>4. p.ttl_seconds \in Ttls /\ p.max_total \in Caps
  BY <1>1 DEF IsPool
<1>5. q = Pool(p.ttl_seconds, p.max_total, f, r)
  BY DEF PutLast
<1>6. IsPool(q) /\ Present(q) = S
  <2>. HIDE DEF f, r, S
  <2>1. IsPool(Pool(p.ttl_seconds, p.max_total, f, r))
    BY <1>3, <1>4, PoolType
  <2>2. Present(Pool(p.ttl_seconds, p.max_total, f, r)) = S
    BY <1>3 DEF Present, Pool
  <2>. HIDE DEF q
  <2>. QED  BY <1>5, <2>1, <2>2
<1>7. /\ q.ttl_seconds = p.ttl_seconds
      /\ q.max_total = p.max_total
      /\ q.sessions = f
      /\ q.older = r
  <2>. HIDE DEF f, r, q
  <2>. QED  BY <1>5 DEF Pool
<1>8. Ordered(q)
  <2>1. \A x, y \in S : <<x, y>> \in r <=>
          \/ x # u /\ y = u
          \/ x # u /\ y # u /\ <<x, y>> \in p.older
    OBVIOUS
  <2>2. \A x \in S : x # u => x \in Present(p)
    OBVIOUS
  <2>3. q.older \subseteq S \X S
    BY <1>3, <1>7
  <2>. HIDE DEF q, r, S, f
  <2>. QED  BY <1>1, <1>6, <1>7, <2>1, <2>2, <2>3 DEF Ordered
<1>9. Aged(q, now)
  <2>1. \A x \in S : f[x] = IF x = u THEN s ELSE p.sessions[x]
    OBVIOUS
  <2>2. \A x \in S : x # u => x \in Present(p)
    OBVIOUS
  <2>3. \A x, y \in S : <<x, y>> \in r =>
          \/ x # u /\ y = u
          \/ x # u /\ y # u /\ <<x, y>> \in p.older
    OBVIOUS
  <2>4. now \in Int
    BY SessionPoolAssumption
  <2>. HIDE DEF q, r, S, f
  <2>. QED  BY <1>1, <1>6, <1>7, <2>1, <2>2, <2>3, <2>4 DEF Aged
<1>. QED  BY <1>6, <1>7, <1>8, <1>9 DEF WellFormed

\* get_or_create gives a well-formed pool; the user has a session used now, a
\* conversation goes on only if its session was live, and the cap is kept.
LEMMA GetOrCreateWellFormed ==
    ASSUME NEW now \in 0..MaxTime, NEW p, WellFormed(p, now), NEW u \in Users,
           Cardinality(Present(p)) <= p.max_total
    PROVE  LET q == GetOrCreate(p, u, now, now)
           IN  /\ WellFormed(q, now)
               /\ Cardinality(Present(q)) <= q.max_total
               /\ q.ttl_seconds = p.ttl_seconds
               /\ q.max_total = p.max_total
               /\ u \in Present(q)
               /\ \/ /\ u \in Present(p) \ Expired(p, now)
                     /\ q.sessions[u].obj = p.sessions[u].obj
                  \/ q.sessions[u].obj = now
               /\ \A v \in Present(q) \ {u} :
                    /\ v \in Present(p) \ Expired(p, now)
                    /\ q.sessions[v] = p.sessions[v]
<1>. DEFINE e == EvictExpired(p, now)
            q == GetOrCreate(p, u, now, now)
<1>1. /\ WellFormed(e, now)
      /\ Present(e) = Present(p) \ Expired(p, now)
      /\ e.ttl_seconds = p.ttl_seconds
      /\ e.max_total = p.max_total
      /\ \A v \in Present(e) : e.sessions[v] = p.sessions[v]
  BY EvictExpiredWellFormed
<1>2. IsPool(p) /\ IsPool(e)
  BY <1>1 DEF WellFormed
<1>3. /\ IsFiniteSet(Present(e))
      /\ Cardinality(Present(e)) \in Nat
      /\ Cardinality(Present(p)) \in Nat
      /\ e.sessions \in [Present(e) -> Sessions]
  <2>. HIDE DEF e
  <2>. QED  BY <1>2, PresentFinite
<1>4. e.max_total \in Nat \ {0}
  BY <1>2, SessionPoolAssumption DEF IsPool
<1>5. Cardinality(Present(e)) <= e.max_total
  <2>1. Cardinality(Present(e)) <= Cardinality(Present(p))
    BY <1>1, <1>2, PresentFinite, FS_Subset
  <2>. QED  BY <1>1, <1>3, <1>4, <2>1
<1>6. now \in Nat /\ now \in 0..MaxTime
  BY SessionPoolAssumption
<1>7. CASE u \in Present(e)
  <2>. DEFINE s == [obj |-> e.sessions[u].obj, last_active_at |-> now]
  <2>1. s \in Sessions
    BY <1>3, <1>7 DEF Sessions
  <2>2. s.last_active_at = now /\ s.obj <= now
    <3>1. Aged(e, now)
      BY <1>1 DEF WellFormed
    <3>2. /\ e.sessions[u].obj <= e.sessions[u].last_active_at
          /\ e.sessions[u].last_active_at <= now
      BY <1>7, <3>1 DEF Aged
    <3>3. e.sessions[u].obj \in Int /\ e.sessions[u].last_active_at \in Int
      BY <1>3, <1>7 DEF Sessions
    <3>. HIDE DEF e
    <3>. QED  BY <1>6, <3>2, <3>3
  <2>3. q = PutLast(e, u, s)
    BY <1>7 DEF GetOrCreate, Touch
  <2>4. /\ WellFormed(q, now)
        /\ Present(q) = Present(e)
        /\ q.ttl_seconds = e.ttl_seconds
        /\ q.max_total = e.max_total
        /\ q.sessions[u] = s
        /\ \A v \in Present(e) \ {u} : q.sessions[v] = e.sessions[v]
    <3>1. Present(e) \cup {u} = Present(e)
      BY <1>7
    <3>. HIDE DEF e, q, s
    <3>. QED  BY <1>1, <2>1, <2>2, <2>3, <3>1, PutLastWellFormed
  <2>5. q.sessions[u].obj = p.sessions[u].obj
    <3>1. q.sessions[u].obj = e.sessions[u].obj
      BY <2>4
    <3>. QED  BY <1>1, <1>7, <3>1
  <2>6. /\ WellFormed(q, now)
        /\ Cardinality(Present(q)) <= q.max_total
        /\ q.ttl_seconds = p.ttl_seconds
        /\ q.max_total = p.max_total
        /\ u \in Present(q)
        /\ \/ /\ u \in Present(p) \ Expired(p, now)
              /\ q.sessions[u].obj = p.sessions[u].obj
           \/ q.sessions[u].obj = now
        /\ \A v \in Present(q) \ {u} :
             /\ v \in Present(p) \ Expired(p, now)
             /\ q.sessions[v] = p.sessions[v]
    <3>. HIDE DEF e, q, s
    <3>. QED  BY <1>1, <1>5, <1>7, <2>4, <2>5
  <2>. QED  BY <2>6
<1>8. CASE u \notin Present(e)
  <2>. DEFINE s == [obj |-> now, last_active_at |-> now]
              n == Cardinality(Present(e))
              room == IF n >= e.max_total THEN TrimTo(e, n - 1) ELSE e
  <2>1. s \in Sessions /\ s.last_active_at = now /\ s.obj <= now
    BY <1>6 DEF Sessions
  <2>2. q = PutLast(room, u, s)
    BY <1>8 DEF GetOrCreate, Create
  <2>3. /\ WellFormed(room, now)
        /\ Present(room) \in SUBSET Present(e)
        /\ Cardinality(Present(room)) < e.max_total
        /\ room.ttl_seconds = e.ttl_seconds
        /\ room.max_total = e.max_total
        /\ \A v \in Present(room) : room.sessions[v] = e.sessions[v]
    <3>1. CASE n >= e.max_total
      <4>1. n - 1 \in Nat /\ n = e.max_total
        BY <1>3, <1>4, <1>5, <3>1
      <4>2. /\ WellFormed(room, now)
            /\ Present(room) = Newest(e, n - 1)
            /\ Cardinality(Present(room)) <= n - 1
            /\ room.ttl_seconds = e.ttl_seconds
            /\ room.max_total = e.max_total
            /\ \A v \in Present(room) : room.sessions[v] = e.sessions[v]
        <5>1. room = TrimTo(e, n - 1)
          BY <3>1
        <5>. HIDE DEF e, room, n
        <5>. QED  BY <1>1, <4>1, <5>1, TrimToWellFormed
      <4>3. Present(room) \in SUBSET Present(e)
        BY <4>2 DEF Newest
      <4>4. Cardinality(Present(room)) \in Nat
        <5>1. IsPool(room)
          BY <4>2 DEF WellFormed
        <5>. QED  BY <5>1, PresentFinite
      <4>. HIDE DEF e, room, n
      <4>. QED  BY <1>4, <4>1, <4>2, <4>3, <4>4
    <3>2. CASE ~ (n >= e.max_total)
      <4>1. room = e
        BY <3>2
      <4>2. n < e.max_total
        BY <1>3, <1>4, <3>2
      <4>. HIDE DEF e, room
      <4>. QED  BY <1>1, <4>1, <4>2
    <3>. QED  BY <3>1, <3>2
  <2>4. /\ WellFormed(q, now)
        /\ Present(q) = Present(room) \cup {u}
        /\ q.ttl_seconds = room.ttl_seconds
        /\ q.max_total = room.max_total
        /\ q.sessions[u] = s
        /\ \A v \in Present(room) \ {u} : q.sessions[v] = room.sessions[v]
    <3>. HIDE DEF room, s, q
    <3>. QED  BY <2>1, <2>2, <2>3, PutLastWellFormed
  <2>5. Cardinality(Present(q)) <= e.max_total
    <3>1. IsPool(room)
      BY <2>3 DEF WellFormed
    <3>2. IsFiniteSet(Present(room)) /\ Cardinality(Present(room)) \in Nat
      <4>. HIDE DEF room
      <4>. QED  BY <3>1, PresentFinite
    <3>3. u \notin Present(room)
      BY <1>8, <2>3
    <3>4. Cardinality(Present(q)) = Cardinality(Present(room)) + 1
      <4>. HIDE DEF room, q
      <4>. QED  BY <2>4, <3>2, <3>3, FS_AddElement
    <3>. HIDE DEF room, q, e
    <3>. QED  BY <1>4, <2>3, <3>2, <3>4
  <2>6. q.sessions[u].obj = now
    BY <2>4
  <2>7. /\ WellFormed(q, now)
        /\ Cardinality(Present(q)) <= q.max_total
        /\ q.ttl_seconds = p.ttl_seconds
        /\ q.max_total = p.max_total
        /\ u \in Present(q)
        /\ \/ /\ u \in Present(p) \ Expired(p, now)
              /\ q.sessions[u].obj = p.sessions[u].obj
           \/ q.sessions[u].obj = now
        /\ \A v \in Present(q) \ {u} :
             /\ v \in Present(p) \ Expired(p, now)
             /\ q.sessions[v] = p.sessions[v]
    <3>. HIDE DEF e, q, s, room
    <3>. QED  BY <1>1, <2>3, <2>4, <2>5, <2>6
  <2>. QED  BY <2>7
<1>. QED  BY <1>7, <1>8

\* get_or_create evicts, beyond the expired, only what is older than all it
\* keeps, and only when that fills the pool to its cap.
LEMMA GetOrCreateEvicts ==
    ASSUME NEW now \in 0..MaxTime, NEW p, WellFormed(p, now), NEW u \in Users,
           Cardinality(Present(p)) <= p.max_total,
           NEW w \in Present(p), w \notin Present(GetOrCreate(p, u, now, now)),
           w \notin Expired(p, now)
    PROVE  LET q == GetOrCreate(p, u, now, now)
           IN  /\ Cardinality(Present(q)) = q.max_total
               /\ \A v \in Present(q) \cap Present(p) : <<w, v>> \in p.older
<1>. DEFINE e == EvictExpired(p, now)
            q == GetOrCreate(p, u, now, now)
            n == Cardinality(Present(e))
            s == [obj |-> now, last_active_at |-> now]
            room == TrimTo(e, n - 1)
<1>1. /\ WellFormed(e, now)
      /\ Present(e) = Present(p) \ Expired(p, now)
      /\ e.max_total = p.max_total
      /\ e.older = p.older \cap (Present(e) \X Present(e))
  BY EvictExpiredWellFormed
<1>2. IsPool(p) /\ IsPool(e) /\ Ordered(e)
  BY <1>1 DEF WellFormed
<1>3. /\ IsFiniteSet(Present(p))
      /\ Cardinality(Present(p)) \in Nat
      /\ n \in Nat
      /\ e.sessions \in [Present(e) -> Sessions]
      /\ p.max_total \in Nat \ {0}
  <2>1. p.max_total \in Nat \ {0}
    BY <1>2, SessionPoolAssumption DEF IsPool
  <2>. HIDE DEF e
  <2>. QED  BY <1>2, <2>1, PresentFinite
<1>4. now \in Nat /\ s \in Sessions /\ s.last_active_at = now /\ s.obj <= now
  BY SessionPoolAssumption DEF Sessions
<1>5. u \notin Present(e)
  <2>1. ASSUME u \in Present(e) PROVE FALSE
    <3>1. Present(q) = Present(e) \cup {u}
      BY <2>1 DEF GetOrCreate, Touch, PutLast, Present, Pool
    <3>. QED  BY <1>1, <3>1
  <2>. QED  BY <2>1
<1>6. n >= p.max_total
  <2>1. ASSUME ~ (n >= e.max_total) PROVE FALSE
    <3>1. q = PutLast(e, u, s)
      BY <1>5, <2>1 DEF GetOrCreate, Create
    <3>2. Present(q) = Present(e) \cup {u}
      BY <3>1 DEF PutLast, Present, Pool
    <3>. QED  BY <1>1, <3>2
  <2>. QED  BY <1>1, <2>1
<1>7. n = Cardinality(Present(p)) /\ n = p.max_total /\ Present(e) = Present(p)
  <2>1. Present(e) \in SUBSET Present(p)
    BY <1>1
  <2>2. /\ n <= Cardinality(Present(p))
        /\ n = Cardinality(Present(p)) => Present(e) = Present(p)
    BY <1>3, <2>1, FS_Subset
  <2>. HIDE DEF e, n
  <2>. QED  BY <1>3, <1>6, <2>2
<1>8. q = PutLast(room, u, s)
  BY <1>1, <1>5, <1>6 DEF GetOrCreate, Create
<1>9. n - 1 \in Nat
  BY <1>3, <1>7
<1>10. /\ WellFormed(room, now)
       /\ Present(room) = Newest(e, n - 1)
       /\ room.max_total = p.max_total
  <2>. DEFINE m == n - 1
  <2>1. room = TrimTo(e, m) /\ m \in Nat
    BY <1>9
  <2>2. WellFormed(room, now) /\ Present(room) = Newest(e, m) /\ room.max_total = e.max_total
    <3>. HIDE DEF e, m, room
    <3>. QED  BY <1>1, <2>1, TrimToWellFormed
  <2>. QED  BY <1>1, <2>2
<1>11. /\ Present(q) = Present(room) \cup {u}
       /\ q.max_total = p.max_total
  <2>. HIDE DEF room, s, q
  <2>. QED  BY <1>4, <1>8, <1>10, PutLastWellFormed
<1>12. w \in Present(e) \ Newest(e, n - 1)
  BY <1>7, <1>10, <1>11
<1>13. /\ Newest(e, n - 1) \in SUBSET Present(e)
       /\ Cardinality(Newest(e, n - 1)) = n - 1
       /\ \A v \in Newest(e, n - 1) : <<w, v>> \in e.older
  <2>. HIDE DEF e, n
  <2>. QED  BY <1>2, <1>9, <1>12, NewestSize
<1>14. Cardinality(Present(q)) = n
  <2>1. IsFiniteSet(Present(room)) /\ u \notin Present(room)
    BY <1>3, <1>5, <1>7, <1>10, <1>13, FS_Subset
  <2>2. Cardinality(Present(q)) = Cardinality(Present(room)) + 1
    <3>. HIDE DEF room, q, n, e
    <3>. QED  BY <1>11, <2>1, FS_AddElement
  <2>3. Cardinality(Present(room)) = n - 1
    BY <1>10, <1>13
  <2>. HIDE DEF room, q, n, e
  <2>. QED  BY <1>3, <2>2, <2>3
<1>15. \A v \in Present(q) \cap Present(p) : <<w, v>> \in p.older
  BY <1>1, <1>5, <1>7, <1>10, <1>11, <1>13
<1>. QED  BY <1>7, <1>11, <1>14, <1>15

-----------------------------------------------------------------------------
\* The inductive invariant is the conjunction of what TLC checks and of the order.
LEMMA IInvCharacterised ==
    IInv <=> TypeOK /\ Ordered(pool) /\ LruOrderIsAgeOrder /\ CapRespected
  BY DEF IInv, TypeOK, LruOrderIsAgeOrder, WellFormed, Aged

LEMMA InitIInv == Init => IInv
<1>. SUFFICES ASSUME Init PROVE IInv
  OBVIOUS
<1>1. PICK ttl \in Ttls, max \in Caps : pool = EmptyPool(ttl, max)
  BY DEF Init
<1>. DEFINE none == {}
            f == << >>
<1>2. f \in [none -> Sessions] /\ none \in SUBSET Users /\ none \in SUBSET (none \X none)
  OBVIOUS
<1>3. IsPool(pool) /\ Present(pool) = {}
  <2>1. pool = Pool(ttl, max, f, none)
    BY <1>1 DEF EmptyPool
  <2>2. IsPool(pool) /\ Present(pool) = none
    <3>. HIDE DEF f, none
    <3>. QED  BY <1>2, <2>1, PoolType
  <2>. QED  BY <2>2
<1>4. pool.older = {} /\ pool.max_total = max
  BY <1>1 DEF EmptyPool, Pool
<1>5. Ordered(pool) /\ Aged(pool, clock)
  BY <1>3, <1>4 DEF Ordered, Aged
<1>6. CapRespected
  BY <1>3, <1>4, FS_EmptySet, SessionPoolAssumption DEF CapRespected
<1>7. clock \in 0..MaxTime
  BY SessionPoolAssumption DEF Init
<1>. QED  BY <1>3, <1>5, <1>6, <1>7 DEF IInv, WellFormed

LEMMA NextIInv == IInv /\ [Next]_vars => IInv'
<1>. SUFFICES ASSUME IInv, [Next]_vars PROVE IInv'
  OBVIOUS
<1>1. /\ clock \in 0..MaxTime
      /\ WellFormed(pool, clock)
      /\ IsPool(pool)
      /\ Cardinality(Present(pool)) <= pool.max_total
      /\ Cardinality(Present(pool)) \in Nat
      /\ IsFiniteSet(Present(pool))
      /\ pool.max_total \in Nat
  BY PresentFinite, SessionPoolAssumption DEF IInv, WellFormed, CapRespected, IsPool
<1>2. ASSUME Tick PROVE IInv'
  <2>1. clock' = clock + 1 /\ clock' \in 0..MaxTime /\ pool' = pool
    BY <1>1, <1>2, SessionPoolAssumption DEF Tick
  <2>2. Aged(pool, clock + 1)
    <3>1. /\ pool.sessions \in [Present(pool) -> Sessions]
          /\ Aged(pool, clock)
      BY <1>1, PresentFinite DEF WellFormed
    <3>2. \A u \in Present(pool) : pool.sessions[u].last_active_at \in Int
      BY <3>1 DEF Sessions
    <3>. QED  BY <1>1, <3>1, <3>2 DEF Aged
  <2>. QED  BY <1>1, <2>1, <2>2 DEF IInv, WellFormed, CapRespected
<1>3. ASSUME NEW u \in Users, Get(u) PROVE IInv'
  <2>1. pool' = GetOrCreate(pool, u, clock, clock) /\ clock' = clock
    BY <1>3 DEF Get
  <2>2. WellFormed(pool', clock) /\ Cardinality(Present(pool')) <= (pool').max_total
    BY <1>1, <2>1, GetOrCreateWellFormed
  <2>. QED  BY <1>1, <2>1, <2>2 DEF IInv, CapRespected
<1>4. ASSUME NEW K \in SUBSET Present(pool), pool' = Keep(pool, K), clock' = clock
      PROVE  IInv'
  <2>1. /\ WellFormed(pool', clock)
        /\ Present(pool') = K
        /\ (pool').max_total = pool.max_total
    BY <1>1, <1>4, KeepWellFormed
  <2>2. Cardinality(K) <= Cardinality(Present(pool)) /\ Cardinality(K) \in Nat
    BY <1>1, <1>4, FS_Subset, FS_CardinalityType
  <2>. QED  BY <1>1, <1>4, <2>1, <2>2 DEF IInv, CapRespected
<1>5. ASSUME NEW u \in Users, ResetUser(u) PROVE IInv'
  BY <1>4, <1>5 DEF ResetUser, Reset
<1>6. ASSUME SweepExpired PROVE IInv'
  BY <1>4, <1>6 DEF SweepExpired, EvictExpired
<1>7. ASSUME NEW ttl \in Ttls, SetTtl(ttl) PROVE IInv'
  <2>. DEFINE q == Pool(ttl, pool.max_total, pool.sessions, pool.older)
  <2>1. pool' = q /\ clock' = clock
    BY <1>7 DEF SetTtl, SetTtlSeconds
  <2>2. /\ WellFormed(q, clock)
        /\ Present(q) = Present(pool)
        /\ q.max_total = pool.max_total
    BY <1>1, LimitsWellFormed DEF IsPool
  <2>. QED  BY <1>1, <2>1, <2>2 DEF IInv, CapRespected
<1>8. ASSUME NEW max \in Caps, SetMax(max) PROVE IInv'
  <2>. DEFINE q == Pool(pool.ttl_seconds, max, pool.sessions, pool.older)
  <2>1. pool' = TrimTo(q, max) /\ clock' = clock
    BY <1>8 DEF SetMax, SetMaxTotal
  <2>2. WellFormed(q, clock) /\ q.max_total = max
    BY <1>1, LimitsWellFormed DEF IsPool
  <2>3. max \in Nat
    BY SessionPoolAssumption
  <2>4. /\ WellFormed(pool', clock)
        /\ Cardinality(Present(pool')) <= max
        /\ (pool').max_total = max
    <3>. HIDE DEF q
    <3>. QED  BY <1>1, <2>1, <2>2, <2>3, TrimToWellFormed
  <2>. QED  BY <1>1, <2>1, <2>4 DEF IInv, CapRespected
<1>9. CASE UNCHANGED vars
  BY <1>9 DEF vars, IInv, CapRespected
<1>. QED  BY <1>2, <1>3, <1>5, <1>6, <1>7, <1>8, <1>9 DEF Next

\* The type, the order of the OrderedDict, its agreement with the idle times
\* and the cap hold in every reachable state.
THEOREM Invariance == Spec => []IInv
<1>. QED  BY InitIInv, NextIInv, PTL DEF Spec

\* TypeOK for every set of users, TTLs and caps: GroupPool.sessions always maps
\* users to sessions last used in the past, and orders exactly those.
THEOREM TypeCorrect == Spec => []TypeOK
<1>1. IInv => TypeOK
  BY IInvCharacterised
<1>. QED  BY <1>1, Invariance, PTL

\* LruOrderIsAgeOrder for every set of users, TTLs and caps: the front of the
\* OrderedDict is always the session that was idle the longest.
THEOREM LruOrderIsByAge == Spec => []LruOrderIsAgeOrder
<1>1. IInv => LruOrderIsAgeOrder
  BY IInvCharacterised
<1>. QED  BY <1>1, Invariance, PTL

\* CapRespected for every set of users, TTLs and caps: get_or_create makes room
\* before it inserts and set_max_total trims at once.
THEOREM CapAlwaysRespected == Spec => []CapRespected
<1>1. IInv => CapRespected
  BY DEF IInv
<1>. QED  BY <1>1, Invariance, PTL

\* NoRevival for every set of users, TTLs and caps: a conversation goes on only
\* from a session that was live, however late the sweeper is.
THEOREM NeverRevives == Spec => NoRevival
<1>. DEFINE Step ==
       \A u \in Present(pool) \cap Present(pool)' :
          (/\ pool'.sessions[u].last_active_at # pool.sessions[u].last_active_at
           /\ pool'.sessions[u].obj = pool.sessions[u].obj)
             => Idle(pool, u, clock) <= pool.ttl_seconds
<1>1. IInv /\ [Next]_vars => [Step]_vars
  <2>. SUFFICES ASSUME IInv, Next,
                       NEW u \in Present(pool) \cap Present(pool)',
                       pool'.sessions[u].last_active_at # pool.sessions[u].last_active_at,
                       pool'.sessions[u].obj = pool.sessions[u].obj
                PROVE  Idle(pool, u, clock) <= pool.ttl_seconds
    OBVIOUS
  <2>1. /\ clock \in 0..MaxTime
        /\ WellFormed(pool, clock)
        /\ IsPool(pool)
        /\ Aged(pool, clock)
        /\ Cardinality(Present(pool)) <= pool.max_total
    BY DEF IInv, WellFormed, CapRespected
  <2>2. /\ pool.sessions[u] \in Sessions
        /\ pool.ttl_seconds \in Nat \ {0}
        /\ clock \in Int
    <3>1. pool.sessions[u] \in Sessions
      BY <2>1, PresentFinite
    <3>2. pool.ttl_seconds \in Nat \ {0}
      BY <2>1, SessionPoolAssumption DEF IsPool
    <3>3. clock \in Int
      BY <2>1
    <3>. QED  BY <3>1, <3>2, <3>3
  <2>3. /\ pool.sessions[u].obj \in Int
        /\ pool.sessions[u].last_active_at \in Int
        /\ pool.sessions[u].obj <= pool.sessions[u].last_active_at
        /\ pool.sessions[u].last_active_at <= clock
    BY <2>1, <2>2 DEF Aged, Sessions
  <2>4. ASSUME NEW K \in SUBSET Present(pool), pool' = Keep(pool, K)
        PROVE  FALSE
    BY <2>1, <2>4, KeepWellFormed
  <2>5. ASSUME NEW v \in Users, Get(v)
        PROVE  Idle(pool, u, clock) <= pool.ttl_seconds
    <3>1. pool' = GetOrCreate(pool, v, clock, clock)
      BY <2>5 DEF Get
    <3>2. /\ \/ /\ v \in Present(pool) \ Expired(pool, clock)
                /\ pool'.sessions[v].obj = pool.sessions[v].obj
             \/ pool'.sessions[v].obj = clock
          /\ \A w \in Present(pool') \ {v} : pool'.sessions[w] = pool.sessions[w]
      BY <2>1, <3>1, GetOrCreateWellFormed
    <3>3. u = v
      BY <3>2
    <3>4. CASE v \in Present(pool) \ Expired(pool, clock)
      BY <2>2, <2>3, <3>3, <3>4 DEF Expired, Idle
    <3>5. CASE pool'.sessions[v].obj = clock
      BY <2>2, <2>3, <3>3, <3>5 DEF Idle
    <3>. QED  BY <3>2, <3>4, <3>5
  <2>6. ASSUME NEW ttl \in Ttls, SetTtl(ttl)
        PROVE  FALSE
    BY <2>6 DEF SetTtl, SetTtlSeconds, Pool
  <2>7. ASSUME NEW max \in Caps, SetMax(max)
        PROVE  FALSE
    <3>. DEFINE q == Pool(pool.ttl_seconds, max, pool.sessions, pool.older)
    <3>1. pool' = TrimTo(q, max) /\ max \in Nat
      BY <2>7, SessionPoolAssumption DEF SetMax, SetMaxTotal
    <3>2. WellFormed(q, clock) /\ q.sessions = pool.sessions
      BY <2>1, LimitsWellFormed DEF IsPool
    <3>3. pool'.sessions[u] = q.sessions[u]
      <4>. HIDE DEF q
      <4>. QED  BY <2>1, <3>1, <3>2, TrimToWellFormed
    <3>. QED  BY <3>2, <3>3
  <2>. QED
    BY <2>4, <2>5, <2>6, <2>7
    DEF Next, Tick, ResetUser, Reset, SweepExpired, EvictExpired
<1>. QED  BY <1>1, Invariance, PTL DEF Spec, NoRevival

\* EvictsOnlyExpiredOrOldest for every set of users, TTLs and caps: a live
\* session that was not reset is given up only when the pool is full of sessions
\* that were used later.
THEOREM EvictsTheRightOnes == Spec => EvictsOnlyExpiredOrOldest
<1>. DEFINE Step ==
       \A u \in Present(pool) \ Present(pool)' :
          \/ pool' = Reset(pool, u)
          \/ Idle(pool, u, clock) > pool.ttl_seconds
          \/ /\ Cardinality(Present(pool)') = pool'.max_total
             /\ \A v \in Present(pool)' \cap Present(pool) :
                  <<u, v>> \in pool.older
<1>1. IInv /\ [Next]_vars => [Step]_vars
  <2>. SUFFICES ASSUME IInv, Next,
                       NEW u \in Present(pool) \ Present(pool)',
                       ~ (Idle(pool, u, clock) > pool.ttl_seconds),
                       pool' # Reset(pool, u)
                PROVE  /\ Cardinality(Present(pool)') = pool'.max_total
                       /\ \A v \in Present(pool)' \cap Present(pool) :
                            <<u, v>> \in pool.older
    OBVIOUS
  <2>1. /\ clock \in 0..MaxTime
        /\ WellFormed(pool, clock)
        /\ IsPool(pool)
        /\ Ordered(pool)
        /\ Cardinality(Present(pool)) <= pool.max_total
        /\ Present(pool) \in SUBSET Users
    BY PresentFinite DEF IInv, WellFormed, CapRespected
  <2>2. u \notin Expired(pool, clock)
    BY DEF Expired
  <2>3. ASSUME NEW v \in Users, Get(v)
        PROVE  /\ Cardinality(Present(pool)') = pool'.max_total
               /\ \A x \in Present(pool)' \cap Present(pool) : <<u, x>> \in pool.older
    <3>1. pool' = GetOrCreate(pool, v, clock, clock)
      BY <2>3 DEF Get
    <3>. QED  BY <2>1, <2>2, <3>1, GetOrCreateEvicts
  <2>4. ASSUME NEW v \in Users, ResetUser(v)
        PROVE  FALSE
    <3>1. Present(pool') = Present(pool) \ {v}
      BY <2>1, <2>4, KeepWellFormed DEF ResetUser, Reset
    <3>2. u = v
      BY <3>1
    <3>. QED  BY <2>4, <3>2 DEF ResetUser
  <2>5. ASSUME SweepExpired
        PROVE  FALSE
    <3>1. Present(pool') = Present(pool) \ Expired(pool, clock)
      BY <2>1, <2>5, EvictExpiredWellFormed DEF SweepExpired
    <3>. QED  BY <2>2, <3>1
  <2>6. ASSUME NEW max \in Caps, SetMax(max)
        PROVE  /\ Cardinality(Present(pool)') = pool'.max_total
               /\ \A x \in Present(pool)' \cap Present(pool) : <<u, x>> \in pool.older
    <3>. DEFINE q == Pool(pool.ttl_seconds, max, pool.sessions, pool.older)
    <3>1. pool' = TrimTo(q, max) /\ max \in Nat
      BY <2>6, SessionPoolAssumption DEF SetMax, SetMaxTotal
    <3>2. /\ WellFormed(q, clock)
          /\ Present(q) = Present(pool)
          /\ q.max_total = max
          /\ q.older = pool.older
      BY <2>1, LimitsWellFormed DEF IsPool
    <3>3. IsPool(q) /\ Ordered(q)
      BY <3>2 DEF WellFormed
    <3>4. Present(pool') = Newest(q, max) /\ pool'.max_total = max
      <4>. HIDE DEF q
      <4>. QED  BY <2>1, <3>1, <3>2, TrimToWellFormed
    <3>5. u \in Present(q) \ Newest(q, max)
      BY <3>2, <3>4
    <3>6. /\ Cardinality(Newest(q, max)) = max
          /\ \A x \in Newest(q, max) : <<u, x>> \in q.older
      <4>. HIDE DEF q
      <4>. QED  BY <3>1, <3>3, <3>5, NewestSize
    <3>. HIDE DEF q
    <3>. QED  BY <3>2, <3>4, <3>6
  <2>7. ASSUME NEW ttl \in Ttls, SetTtl(ttl)
        PROVE  FALSE
    BY <2>7 DEF SetTtl, SetTtlSeconds, Pool, Present
  <2>8. ASSUME Tick
        PROVE  FALSE
    BY <2>8 DEF Tick
  <2>. QED  BY <2>3, <2>4, <2>5, <2>6, <2>7, <2>8 DEF Next
<1>. QED  BY <1>1, Invariance, PTL DEF Spec, EvictsOnlyExpiredOrOldest

-----------------------------------------------------------------------------
(* That a pool implements the cache of SessionCache: what an operation does *)
(* to its users and their ages is a step of the cache, or none.            *)

\* The instance has copies of the library's operators.
LEMMA SameCardinality == \A S : Cache!Cardinality(S) = Cardinality(S)
BY DEF Cache!Cardinality, Cardinality

LEMMA SameRestrict == \A f, S : Cache!Restrict(f, S) = Restrict(f, S)
BY DEF Cache!Restrict, Restrict

\* Seen through the mapping, the cache's users are the pool's, and the live ones are
\* those that did not expire.
LEMMA LiveIsNotExpired ==
    ASSUME IInv
    PROVE  /\ Cache!Present = Present(pool)
           /\ Cache!Live = Present(pool) \ Expired(pool, clock)
<1>1. /\ clock \in Int
      /\ IsPool(pool)
  BY DEF IInv, WellFormed
<1>2. /\ pool.ttl_seconds \in Int
      /\ \A u \in Present(pool) : pool.sessions[u].last_active_at \in Int
  <2>1. pool.ttl_seconds \in Nat \ {0}
    BY <1>1, SessionPoolAssumption DEF IsPool
  <2>2. pool.sessions \in [Present(pool) -> Sessions]
    BY <1>1 DEF IsPool
  <2>. QED  BY <2>1, <2>2, SessionPoolAssumption DEF Sessions
<1>3. Cache!Present = Present(pool)
  BY DEF Cache!Present, Present
<1>4. \A u \in Present(pool) :
        clock - pool.sessions[u].last_active_at <= pool.ttl_seconds
          <=> ~ (clock - pool.sessions[u].last_active_at > pool.ttl_seconds)
  BY <1>1, <1>2
<1>. QED  BY <1>3, <1>4 DEF Cache!Live, Expired, Idle

\* The suffix of the OrderedDict is a choice of the most recently used sessions.
LEMMA NewestAreRecent ==
    ASSUME NEW now \in 0..MaxTime, NEW p, WellFormed(p, now), NEW n \in Nat
    PROVE  /\ Newest(p, n) \in SUBSET Present(p)
           /\ Cardinality(Newest(p, n)) <= n
           /\ Newest(p, n) # Present(p) => Cardinality(Newest(p, n)) = n
           /\ \A u \in Present(p) \ Newest(p, n), v \in Newest(p, n) :
                p.sessions[u].last_active_at <= p.sessions[v].last_active_at
<1>1. IsPool(p) /\ Ordered(p) /\ Aged(p, now)
  BY DEF WellFormed
<1>2. /\ Newest(p, n) \in SUBSET Present(p)
      /\ Cardinality(Newest(p, n)) <= n
      /\ Newest(p, n) # Present(p) => Cardinality(Newest(p, n)) = n
      /\ \A u \in Present(p) \ Newest(p, n), v \in Newest(p, n) : <<u, v>> \in p.older
  BY <1>1, NewestSize
<1>. QED  BY <1>1, <1>2 DEF Aged

-----------------------------------------------------------------------------
\* One lemma per operation that is not a restriction to users named in advance.

LEMMA GetContinues ==
    ASSUME IInv, NEW u \in Users, Get(u), u \in Cache!Live
    PROVE  Cache!Continue(u)
<1>. DEFINE e == EvictExpired(pool, clock)
            s == [obj |-> e.sessions[u].obj, last_active_at |-> clock]
<1>1. clock \in 0..MaxTime /\ WellFormed(pool, clock)
  BY DEF IInv
<1>2. /\ Present(e) = Cache!Live
      /\ e.ttl_seconds = pool.ttl_seconds
      /\ e.max_total = pool.max_total
      /\ \A v \in Present(e) : e.sessions[v] = pool.sessions[v]
  BY <1>1, EvictExpiredWellFormed, LiveIsNotExpired
<1>3. pool' = PutLast(e, u, s) /\ clock' = clock
  BY <1>2 DEF Get, GetOrCreate, Touch
<1>4. /\ pool'.ttl_seconds = e.ttl_seconds
      /\ pool'.max_total = e.max_total
      /\ pool'.sessions = [v \in Present(e) \cup {u} |-> IF v = u THEN s ELSE e.sessions[v]]
  <2>. HIDE DEF e, s
  <2>. QED  BY <1>3 DEF PutLast, Pool
<1>5. pool'.sessions = [v \in Cache!Live |->
                          IF v = u THEN [obj |-> pool.sessions[u].obj, last_active_at |-> clock]
                          ELSE pool.sessions[v]]
  <2>1. Present(e) \cup {u} = Cache!Live
    BY <1>2
  <2>2. s = [obj |-> pool.sessions[u].obj, last_active_at |-> clock]
    BY <1>2
  <2>. HIDE DEF e, s
  <2>. QED  BY <1>2, <1>4, <2>1, <2>2
<1>. HIDE DEF e, s
<1>. QED  BY <1>2, <1>3, <1>4, <1>5 DEF Cache!Continue

LEMMA GetOpens ==
    ASSUME IInv, NEW u \in Users, Get(u), u \notin Cache!Live
    PROVE  Cache!Open(u)
<1>. DEFINE e == EvictExpired(pool, clock)
            s == [obj |-> clock, last_active_at |-> clock]
            n == Cardinality(Present(e))
            room == IF n >= e.max_total THEN TrimTo(e, n - 1) ELSE e
            cap == pool.max_total
            K == Present(room)
<1>1. /\ clock \in 0..MaxTime
      /\ WellFormed(pool, clock)
      /\ IsPool(pool)
      /\ Cardinality(Present(pool)) <= cap
  BY DEF IInv, WellFormed, CapRespected
<1>2. /\ WellFormed(e, clock)
      /\ Present(e) = Cache!Live
      /\ Present(e) \in SUBSET Present(pool)
      /\ e.ttl_seconds = pool.ttl_seconds
      /\ e.max_total = cap
      /\ \A v \in Present(e) : e.sessions[v] = pool.sessions[v]
  BY <1>1, EvictExpiredWellFormed, LiveIsNotExpired
<1>3. /\ cap \in Nat \ {0}
      /\ n \in Nat
      /\ n <= cap
  <2>1. cap \in Nat \ {0}
    BY <1>1, SessionPoolAssumption DEF IsPool
  <2>2. IsPool(e)
    BY <1>2 DEF WellFormed
  <2>3. /\ IsFiniteSet(Present(pool))
        /\ Cardinality(Present(pool)) \in Nat
    BY <1>1, PresentFinite
  <2>4. n \in Nat
    <3>. HIDE DEF e
    <3>. QED  BY <2>2, PresentFinite
  <2>5. n <= Cardinality(Present(pool))
    <3>. HIDE DEF e
    <3>. QED  BY <1>2, <2>3, FS_Subset
  <2>. HIDE DEF n, e, cap
  <2>. QED  BY <1>1, <2>1, <2>3, <2>4, <2>5
<1>4. pool' = PutLast(room, u, s) /\ clock' = clock
  BY <1>2 DEF Get, GetOrCreate, Create
<1>5. /\ K \in SUBSET Present(e)
      /\ Cache!Recent(K, Cache!Live, cap - 1)
      /\ room.ttl_seconds = e.ttl_seconds
      /\ room.max_total = e.max_total
      /\ \A v \in K : room.sessions[v] = e.sessions[v]
  <2>1. CASE n >= e.max_total
    <3>1. room = TrimTo(e, n - 1) /\ n - 1 \in Nat /\ n - 1 = cap - 1
      BY <1>2, <1>3, <2>1
    <3>2. /\ K = Newest(e, n - 1)
          /\ room.ttl_seconds = e.ttl_seconds
          /\ room.max_total = e.max_total
          /\ \A v \in K : room.sessions[v] = e.sessions[v]
      <4>. HIDE DEF e, n, room
      <4>. QED  BY <1>1, <1>2, <3>1, TrimToWellFormed
    <3>3. /\ K \in SUBSET Present(e)
          /\ Cardinality(K) <= cap - 1
          /\ K # Present(e) => Cardinality(K) = cap - 1
          /\ \A x \in Present(e) \ K, y \in K :
               e.sessions[x].last_active_at <= e.sessions[y].last_active_at
      <4>. HIDE DEF e, n, K, cap
      <4>. QED  BY <1>1, <1>2, <3>1, <3>2, NewestAreRecent
    <3>4. Cache!Recent(K, Cache!Live, cap - 1)
      <4>1. \A x \in Present(e) \ K, y \in K :
              pool.sessions[x].last_active_at <= pool.sessions[y].last_active_at
        <5>. HIDE DEF e, K
        <5>. QED  BY <1>2, <3>3
      <4>. HIDE DEF e, K, cap
      <4>. QED  BY <1>2, <3>3, <4>1, SameCardinality DEF Cache!Recent
    <3>. QED  BY <3>2, <3>3, <3>4
  <2>2. CASE ~ (n >= e.max_total)
    <3>1. room = e /\ K = Cache!Live
      BY <1>2, <2>2
    <3>2. Cardinality(K) <= cap - 1
      <4>. HIDE DEF e, cap
      <4>. QED  BY <1>2, <1>3, <2>2, <3>1
    <3>3. Cache!Recent(K, Cache!Live, cap - 1)
      <4>. HIDE DEF K, cap
      <4>. QED  BY <3>1, <3>2, SameCardinality DEF Cache!Recent
    <3>. QED  BY <1>2, <3>1, <3>3
  <2>. QED  BY <2>1, <2>2
<1>6. /\ pool'.ttl_seconds = room.ttl_seconds
      /\ pool'.max_total = room.max_total
      /\ pool'.sessions = [v \in K \cup {u} |-> IF v = u THEN s ELSE room.sessions[v]]
  <2>. HIDE DEF room, s
  <2>. QED  BY <1>4 DEF PutLast, Pool
<1>7. pool'.sessions = [v \in K \cup {u} |-> IF v = u THEN s ELSE pool.sessions[v]]
  <2>1. \A v \in K : room.sessions[v] = pool.sessions[v]
    <3>. HIDE DEF room, e, K
    <3>. QED  BY <1>2, <1>5
  <2>. HIDE DEF room, s, K
  <2>. QED  BY <1>6, <2>1
<1>8. K \in SUBSET Cache!Live
  <2>. HIDE DEF K, e
  <2>. QED  BY <1>2, <1>5
<1>9. /\ clock' = clock
      /\ pool'.ttl_seconds = pool.ttl_seconds
      /\ pool'.max_total = cap
  <2>. HIDE DEF room, e, s
  <2>. QED  BY <1>2, <1>4, <1>5, <1>6
<1>10. /\ Cache!Recent(K, Cache!Live, pool.max_total - 1)
       /\ pool'.sessions = [v \in K \cup {u} |->
                              IF v = u THEN [obj |-> clock, last_active_at |-> clock]
                              ELSE pool.sessions[v]]
       /\ pool'.max_total = pool.max_total
  BY <1>5, <1>7, <1>9
<1>. HIDE DEF room, e, n, s, K, cap
<1>. QED  BY <1>8, <1>9, <1>10 DEF Cache!Open

LEMMA SetMaxSetsCap ==
    ASSUME IInv, NEW max \in Caps, SetMax(max)
    PROVE  Cache!SetCap
<1>. DEFINE p == Pool(pool.ttl_seconds, max, pool.sessions, pool.older)
            K == Newest(p, max)
<1>1. clock \in 0..MaxTime /\ WellFormed(pool, clock) /\ IsPool(pool) /\ max \in Nat
  BY SessionPoolAssumption DEF IInv, WellFormed
<1>2. /\ WellFormed(p, clock)
      /\ Present(p) = Present(pool)
      /\ p.ttl_seconds = pool.ttl_seconds
      /\ p.max_total = max
      /\ p.sessions = pool.sessions
  BY <1>1, LimitsWellFormed DEF IsPool
<1>3. pool' = Keep(p, K) /\ clock' = clock
  BY DEF SetMax, SetMaxTotal, TrimTo
<1>4. /\ pool'.ttl_seconds = pool.ttl_seconds
      /\ pool'.max_total = max
      /\ pool'.sessions = Restrict(pool.sessions, K)
  <2>. HIDE DEF p, K
  <2>. QED  BY <1>2, <1>3 DEF Keep, Pool
<1>5. /\ K \in SUBSET Present(pool)
      /\ Cardinality(K) <= max
      /\ K # Present(pool) => Cardinality(K) = max
      /\ \A u \in Present(pool) \ K, v \in K :
           pool.sessions[u].last_active_at <= pool.sessions[v].last_active_at
  <2>. HIDE DEF p
  <2>. QED  BY <1>1, <1>2, NewestAreRecent
<1>6. Cache!Recent(K, Cache!Present, max) /\ K \in SUBSET Cache!Present
  <2>. HIDE DEF K
  <2>. QED  BY <1>5, LiveIsNotExpired, SameCardinality DEF Cache!Recent
<1>. HIDE DEF p, K
<1>. QED  BY <1>3, <1>4, <1>6, SameRestrict DEF Cache!SetCap, Cache!Keep

-----------------------------------------------------------------------------
\* ImplementsCache for every set of users, TTLs and caps: every run of a pool is, seen
\* without the OrderedDict, a run of the cache.
THEOREM PoolImplementsCache == Spec => ImplementsCache
<1>1. Init => Cache!Init
  <2>. SUFFICES ASSUME Init PROVE Cache!Init
    OBVIOUS
  <2>1. PICK ttl \in Ttls, max \in Caps : pool = EmptyPool(ttl, max)
    BY DEF Init
  <2>2. /\ pool.ttl_seconds = ttl
        /\ pool.max_total = max
        /\ pool.sessions = << >>
    BY <2>1 DEF EmptyPool, Pool
  <2>3. clock = 0
    BY DEF Init
  <2>. QED  BY <2>2, <2>3 DEF Cache!Init
<1>2. IInv /\ [Next]_vars => [Cache!Next]_(Cache!vars)
  <2>. SUFFICES ASSUME IInv, [Next]_vars
                PROVE  Cache!Next \/ UNCHANGED Cache!vars
    OBVIOUS
  <2>1. CASE Tick
    BY <2>1 DEF Tick, Cache!Tick, Cache!Next
  <2>2. ASSUME NEW u \in Users, Get(u) PROVE Cache!Next
    BY <2>2, GetContinues, GetOpens DEF Cache!Next
  <2>3. ASSUME NEW K, pool' = Keep(pool, K), clock' = clock
        PROVE  /\ pool'.sessions = Restrict(pool.sessions, K)
               /\ UNCHANGED <<clock, pool.ttl_seconds, pool.max_total>>
    BY <2>3 DEF Keep, Pool
  <2>4. ASSUME NEW u \in Users, ResetUser(u) PROVE Cache!Next
    <3>1. /\ pool'.sessions = Restrict(pool.sessions, Present(pool) \ {u})
          /\ UNCHANGED <<clock, pool.ttl_seconds, pool.max_total>>
      BY <2>3, <2>4 DEF ResetUser, Reset
    <3>2. Cache!Forget(u)
      BY <3>1, LiveIsNotExpired, SameRestrict DEF Cache!Forget, Cache!Keep
    <3>. QED  BY <3>2 DEF Cache!Next
  <2>5. CASE SweepExpired
    <3>1. /\ pool'.sessions = Restrict(pool.sessions, Present(pool) \ Expired(pool, clock))
          /\ UNCHANGED <<clock, pool.ttl_seconds, pool.max_total>>
      BY <2>3, <2>5 DEF SweepExpired, EvictExpired
    <3>2. Cache!Sweep
      BY <3>1, LiveIsNotExpired, SameRestrict DEF Cache!Sweep, Cache!Keep
    <3>. QED  BY <3>2 DEF Cache!Next
  <2>6. ASSUME NEW ttl \in Ttls, SetTtl(ttl) PROVE Cache!Next
    <3>1. /\ pool'.ttl_seconds = ttl
          /\ pool'.max_total = pool.max_total
          /\ pool'.sessions = pool.sessions
          /\ clock' = clock
      BY <2>6 DEF SetTtl, SetTtlSeconds, Pool
    <3>2. Cache!SetTtl
      BY <3>1 DEF Cache!SetTtl
    <3>. QED  BY <3>2 DEF Cache!Next
  <2>7. ASSUME NEW max \in Caps, SetMax(max) PROVE Cache!Next
    BY <2>7, SetMaxSetsCap DEF Cache!Next
  <2>8. CASE UNCHANGED vars
    BY <2>8 DEF vars, Cache!vars
  <2>. QED  BY <2>1, <2>2, <2>4, <2>5, <2>6, <2>7, <2>8 DEF Next
<1>. QED  BY <1>1, <1>2, Invariance, PTL DEF Spec, ImplementsCache, Cache!Spec

=============================================================================
