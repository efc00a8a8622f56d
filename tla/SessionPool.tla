----------------------------- MODULE SessionPool -----------------------------
(***************************************************************************)
(* One session pool at work (src/session_manager.py, class GroupPool): the *)
(* event loop calls get_or_create, reset, set_ttl_seconds and              *)
(* set_max_total, the sweeper thread calls sweep_expired, and the          *)
(* monotonic clock runs.  Every method holds the pool's lock for its whole *)
(* body, so each is one atomic action.                                     *)
(***************************************************************************)
EXTENDS GroupPool

CONSTANTS
    Users,      \* Dify user ids ("wx_<account>")
    Ttls,       \* the TTLs the configuration may give the pool
    Caps,       \* the caps the configuration may give the pool
    MaxTime     \* bound on the clock

ASSUME SessionPoolAssumption ==
    /\ IsFiniteSet(Users)
    /\ Ttls \subseteq Nat \ {0}
    /\ Caps \subseteq Nat \ {0}
    /\ MaxTime \in Nat

VARIABLES
    clock,      \* time.monotonic()
    pool        \* the GroupPool

vars == <<clock, pool>>

Init ==
    /\ clock = 0
    /\ \E ttl \in Ttls, max \in Caps : pool = EmptyPool(ttl, max)

Tick ==
    /\ clock < MaxTime
    /\ clock' = clock + 1
    /\ UNCHANGED pool

\* A message of u; the Session object is named by its creation time.
Get(u) ==
    /\ pool' = GetOrCreate(pool, u, clock, clock)
    /\ UNCHANGED clock

ResetUser(u) ==
    /\ pool' = Reset(pool, u)
    /\ UNCHANGED clock

\* Mutant: a sweeper that only works when the pool is full.
SweepWhenFull ==
    /\ Cardinality(Present(pool)) >= pool.max_total
    /\ pool' = EvictExpired(pool, clock)
    /\ UNCHANGED clock

SweepExpired ==
    /\ pool' = EvictExpired(pool, clock)
    /\ UNCHANGED clock

SetTtl(ttl) ==
    /\ pool' = SetTtlSeconds(pool, ttl)
    /\ UNCHANGED clock

SetMax(max) ==
    /\ pool' = SetMaxTotal(pool, max)
    /\ UNCHANGED clock

Next ==
    \/ Tick
    \/ \E u \in Users : Get(u) \/ ResetUser(u)
    \/ SweepExpired
    \/ \E ttl \in Ttls : SetTtl(ttl)
    \/ \E max \in Caps : SetMax(max)

\* The sweeper is a daemon thread that loops for ever (start_sweeper).
Fairness == WF_vars(SweepExpired)

Spec == Init /\ [][Next]_vars /\ Fairness

-----------------------------------------------------------------------------
Sessions == [obj : 0..MaxTime, last_active_at : 0..MaxTime]

IsPool(p) ==
    /\ p.ttl_seconds \in Ttls
    /\ p.max_total \in Caps
    /\ Present(p) \subseteq Users
    /\ p.sessions \in [Present(p) -> Sessions]
    /\ p.older \subseteq Present(p) \X Present(p)

\* The pool has its type, no session was active in the future, and `older`
\* orders only users that have a session.
TypeOK ==
    /\ clock \in 0..MaxTime
    /\ IsPool(pool)
    /\ \A u \in Present(pool) :
         /\ pool.sessions[u].obj <= pool.sessions[u].last_active_at
         /\ pool.sessions[u].last_active_at <= clock

\* Position in the OrderedDict and idle time agree, so that popitem(last=False)
\* really takes the session that was idle the longest.
LruOrderIsAgeOrder ==
    \A u, v \in Present(pool) :
        <<u, v>> \in pool.older =>
            pool.sessions[u].last_active_at <= pool.sessions[v].last_active_at

\* The cap holds at every moment: when it is reached and one more user comes,
\* and as soon as the configuration shrinks it.
CapRespected == Cardinality(Present(pool)) <= pool.max_total

\* A session leaves the pool without a reset only because its TTL ran out or
\* because the pool is full of sessions that were used later.
EvictsOnlyExpiredOrOldest ==
    [][ \A u \in Present(pool) \ Present(pool)' :
          \/ pool' = Reset(pool, u)
          \/ Idle(pool, u, clock) > pool.ttl_seconds
          \/ /\ Cardinality(Present(pool)') = pool'.max_total
             /\ \A v \in Present(pool)' \cap Present(pool) :
                  <<u, v>> \in pool.older ]_vars

\* A conversation is continued only when its session was idle no longer than
\* the TTL in force: the lazy expiry in get_or_create comes before the lookup,
\* so that a late message never revives a session the sweeper had not reached.
NoRevival ==
    [][ \A u \in Present(pool) \cap Present(pool)' :
          (/\ pool'.sessions[u].last_active_at # pool.sessions[u].last_active_at
           /\ pool'.sessions[u].obj = pool.sessions[u].obj)
             => Idle(pool, u, clock) <= pool.ttl_seconds ]_vars

\* An expired session of a user who does not come back is dropped by the
\* sweeper (or a longer TTL makes it live again).
ExpiredAreDropped ==
    \A u \in Users :
        (u \in Expired(pool, clock)) ~> (u \notin Expired(pool, clock))

-----------------------------------------------------------------------------
Cache == INSTANCE SessionCache
    WITH ttl <- pool.ttl_seconds, cap <- pool.max_total, sessions <- pool.sessions

\* The OrderedDict is a means: seen without it, a pool is the cache of SessionCache.
\* A session that goes is the least recently used by the clock, not only by position.
ImplementsCache == Cache!Spec
=============================================================================
