------------------------------ MODULE GroupPool ------------------------------
(***************************************************************************)
(* The data structure of src/session_manager.py, class GroupPool: the      *)
(* sessions of one group, in least-recently-used order, as operators on a  *)
(* pool value.  A pool is a record                                         *)
(*                                                                         *)
(*   ttl_seconds, max_total   the two limits, both positive                *)
(*   sessions                 user |-> [obj, last_active_at], the domain   *)
(*                            being the users that have a session          *)
(*   older                    the order of the OrderedDict: <<u, v>> when  *)
(*                            u is nearer to the front than v              *)
(*                                                                         *)
(* `obj` names the Session object: a handler that got one from             *)
(* get_or_create keeps it across awaits, whatever becomes of the pool.     *)
(***************************************************************************)
EXTENDS Naturals, FiniteSets, Functions

Present(p) == DOMAIN p.sessions

Pool(ttl, max, sessions, older) ==
    [ttl_seconds |-> ttl, max_total |-> max, sessions |-> sessions, older |-> older]

EmptyPool(ttl, max) == Pool(ttl, max, << >>, {})

\* Mutant: the dropped users keep their places in the order.
KeepOrder(p, K) ==
    Pool(p.ttl_seconds, p.max_total, Restrict(p.sessions, K), p.older)

\* The pool with only the users of K left, each where it was.
Keep(p, K) ==
    Pool(p.ttl_seconds, p.max_total, Restrict(p.sessions, K), p.older \cap (K \X K))

\* Mutant: counts from the wrong end.
Oldest(p, n) ==
    {u \in Present(p) : Cardinality({v \in Present(p) : <<v, u>> \in p.older}) < n}

\* The n users nearest to the end of the OrderedDict (all of them if fewer).
Newest(p, n) ==
    {u \in Present(p) : Cardinality({v \in Present(p) : <<u, v>> \in p.older}) < n}

\* popitem(last=False) until at most n sessions are left.
TrimTo(p, n) == Keep(p, Newest(p, n))

Idle(p, u, now) == now - p.sessions[u].last_active_at

Expired(p, now) == {u \in Present(p) : Idle(p, u, now) > p.ttl_seconds}

EvictExpired(p, now) == Keep(p, Present(p) \ Expired(p, now))

\* The session s of u, put (or moved) to the end of the OrderedDict.
PutLast(p, u, s) ==
    LET others == Present(p) \ {u}
    IN  Pool(p.ttl_seconds, p.max_total,
             [v \in Present(p) \cup {u} |-> IF v = u THEN s ELSE p.sessions[v]],
             (p.older \cap (others \X others)) \cup (others \X {u}))

\* Mutant: no move_to_end.
TouchInPlace(p, u, now) ==
    [p EXCEPT !.sessions[u].last_active_at = now]

\* Mutant: hands out a fresh session instead of the one it found.
TouchAnew(p, u, now) == PutLast(p, u, [obj |-> now, last_active_at |-> now])

\* get_or_create for a user that has a session once the expired ones are gone.
Touch(p, u, now) ==
    PutLast(p, u, [obj |-> p.sessions[u].obj, last_active_at |-> now])

\* ... and for a user that has none: make room under the cap, then insert.
Create(p, u, now, obj) ==
    LET full == Cardinality(Present(p)) >= p.max_total
        room == IF full THEN TrimTo(p, Cardinality(Present(p)) - 1) ELSE p
    IN  PutLast(room, u, [obj |-> obj, last_active_at |-> now])

\* Mutant: looks the user up without dropping the expired sessions first.
GetOrCreateAnyAge(p, u, now, obj) ==
    IF u \in Present(p) THEN Touch(p, u, now) ELSE Create(p, u, now, obj)

\* `obj` is the object that is allocated when u has no live session.
GetOrCreate(p, u, now, obj) ==
    LET q == EvictExpired(p, now)
    IN  IF u \in Present(q) THEN Touch(q, u, now) ELSE Create(q, u, now, obj)

Reset(p, u) == Keep(p, Present(p) \ {u})

SetTtlSeconds(p, ttl) == Pool(ttl, p.max_total, p.sessions, p.older)

\* Mutant: the new cap only counts for the next insertion.
SetMaxTotalLater(p, max) == Pool(p.ttl_seconds, max, p.sessions, p.older)

SetMaxTotal(p, max) == TrimTo(Pool(p.ttl_seconds, max, p.sessions, p.older), max)
=============================================================================
