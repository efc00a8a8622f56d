----------------------------- MODULE SessionCache -----------------------------
(***************************************************************************)
(* What a session pool promises (src/session_manager.py, class GroupPool), *)
(* without the order in which it keeps its sessions: a cache of at most    *)
(* `cap` sessions that drops those idle for longer than `ttl`, and when it *)
(* is full makes room by least recent use.  Among sessions used at the     *)
(* same time any may go.  SessionPool implements it.                       *)
(***************************************************************************)
EXTENDS Naturals, FiniteSets, Functions

CONSTANTS
    Users,      \* Dify user ids
    Ttls,       \* the TTLs the configuration may give the pool
    Caps,       \* the caps the configuration may give the pool
    MaxTime     \* bound on the clock

VARIABLES
    clock,      \* time.monotonic()
    ttl, cap,   \* the limits in force
    sessions    \* user |-> [obj, last_active_at]

vars == <<clock, ttl, cap, sessions>>

Present == DOMAIN sessions

Live == {u \in Present : clock - sessions[u].last_active_at <= ttl}

\* K is what is left of S when at most n stay, the most recently used ones.
Recent(K, S, n) ==
    /\ K \subseteq S
    /\ Cardinality(K) <= n
    /\ K # S => Cardinality(K) = n
    /\ \A u \in S \ K, v \in K : sessions[u].last_active_at <= sessions[v].last_active_at

Keep(K) == sessions' = Restrict(sessions, K)

-----------------------------------------------------------------------------
Init ==
    /\ clock = 0
    /\ ttl \in Ttls /\ cap \in Caps
    /\ sessions = << >>

Tick ==
    /\ clock < MaxTime
    /\ clock' = clock + 1
    /\ UNCHANGED <<ttl, cap, sessions>>

\* A user with a live session goes on with it; expired ones are gone by then.
Continue(u) ==
    /\ u \in Live
    /\ sessions' = [v \in Live |->
                      IF v = u THEN [obj |-> sessions[u].obj, last_active_at |-> clock]
                      ELSE sessions[v]]
    /\ UNCHANGED <<clock, ttl, cap>>

\* Any other user gets a new one, and there is room for it.
Open(u) ==
    /\ u \notin Live
    /\ \E K \in SUBSET Live :
          /\ Recent(K, Live, cap - 1)
          /\ sessions' = [v \in K \cup {u} |->
                            IF v = u THEN [obj |-> clock, last_active_at |-> clock]
                            ELSE sessions[v]]
    /\ UNCHANGED <<clock, ttl, cap>>

Forget(u) ==
    /\ Keep(Present \ {u})
    /\ UNCHANGED <<clock, ttl, cap>>

Sweep ==
    /\ Keep(Live)
    /\ UNCHANGED <<clock, ttl, cap>>

SetTtl ==
    /\ ttl' \in Ttls
    /\ UNCHANGED <<clock, cap, sessions>>

\* A smaller cap holds at once.
SetCap ==
    /\ cap' \in Caps
    /\ \E K \in SUBSET Present : Recent(K, Present, cap') /\ Keep(K)
    /\ UNCHANGED <<clock, ttl>>

Next ==
    \/ Tick
    \/ \E u \in Users : Continue(u) \/ Open(u) \/ Forget(u)
    \/ Sweep
    \/ SetTtl
    \/ SetCap

Spec == Init /\ [][Next]_vars
=============================================================================
